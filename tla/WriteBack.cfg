SPECIFICATION Spec
CONSTANTS
  i1 = i1
  i2 = i2
  i3 = i3
  l1 = l1
  l2 = l2
  l3 = l3
  Item = {i1, i2}
  Log = {l1, l2}
  LogOf <- OwnRow
  Accepted = {}
  Worker = {w1, w2}
  Timer = {t1, t2}
  Main = Main
  NoItem = NoItem
  NoTimer = NoTimer
  Concluded = Concluded
  BatchSize = 2
  MaxLen = 2
  ReplayMax = 2
  StopAttempts = 2
  RedisUp = {TRUE}
  FaultKinds = {"kill", "db", "timeout"}
  MaxFaults = 1
  MaxStops = 1
CHECK_DEADLOCK FALSE
SYMMETRY OwnRowSymmetry
INVARIANTS
  TypeOK
  NothingLost
PROPERTIES
  KeptUntilWritten
