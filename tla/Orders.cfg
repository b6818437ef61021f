SPECIFICATION FairSpec
CONSTANTS
  Number = {"n1", "n2"}
  Loose = {"n1"}
  Account = {"ann", "bob"}
  Purchase = {"p1", "p2", "p3"}
  By <- ByPurchase
  Kind <- KindOfPurchase
  Quantity <- QuantityOfPurchase
  Admin = {m1, m2}
  Amount = {1, 2}
  Balance = 1
  MaxTries = 2
  MaxOps = 2
  FaultKinds = {"crash", "route", "broker", "deadlock", "timeout", "write", "kill"}
  MaxFaults = 2
INVARIANTS TypeOK NobodyOwnsForFree RefundedOnce CopiesExplained
PROPERTIES SoldFromPool EventuallyConcluded
CHECK_DEADLOCK FALSE
