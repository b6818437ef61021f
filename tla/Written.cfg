SPECIFICATION FairSpec
CONSTANTS
  i1 = i1
  i2 = i2
  i3 = i3
  l1 = l1
  l2 = l2
  l3 = l3
  Item = {i1, i2}
  Log = {l1, l2}
  LogOf <- OwnRow
  Accepted = {i1}
  Worker = {w1}
  Timer = {t1, t2}
  Main = Main
  NoItem = NoItem
  NoTimer = NoTimer
  Concluded = Concluded
  BatchSize = 2
  MaxLen = 1
  ReplayMax = 2
  StopAttempts = 2
  RedisUp = {TRUE}
  FaultKinds = {"kill"}
  MaxFaults = 1
  MaxStops = 1
CHECK_DEADLOCK FALSE
PROPERTIES
  EventuallyWritten
