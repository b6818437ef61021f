SPECIFICATION Spec
CONSTANTS
  Msg = {m1}
  Delivery = {d1, d2}
  Session = {s1}
  Seq = {q1}
  NoSession = NoSession
  NoSeq = NoSeq
  NoEntry = NoEntry
  MaxThrottle = 0
  MaxInflight = 2
  Concurrency = 1
  ResultAlive = 0
  RedisUp = {TRUE}
  DbUp = {TRUE}
  ProbeUp = {TRUE}
  SlowSubmit = FALSE
  FaultKinds = {}
  MaxFaults = 0
  OpKinds = {"retry", "receipt"}
  MaxOps = 1
CHECK_DEADLOCK FALSE
INVARIANTS
  RetriedHasCarrier
