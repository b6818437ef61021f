SPECIFICATION FairSpec
CONSTANTS
  Chunk = {"c1", "c2"}
  Number = {"n1", "n2", "n3", "n4"}
  Of <- OfNumber
  Bare = {"n3"}
  Bad = {"n4"}
  Request = {q1}
  Balance = 1
  Portion = 1
  MaxTries = 1
  FaultKinds = {"db", "kill", "timeout", "broker", "lock", "cancel", "item"}
  MaxFaults = 2
INVARIANTS TypeOK MoneyBack RefundedOnce HandedOnce
PROPERTY EventuallyRows
CHECK_DEADLOCK FALSE
