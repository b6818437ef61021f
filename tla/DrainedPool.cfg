SPECIFICATION Spec
CONSTANTS
  Msg = {m1}
  Delivery = {d1, d2}
  Session = {s1, s2}
  Seq = {q1}
  NoSession = NoSession
  NoSeq = NoSeq
  NoEntry = NoEntry
  MaxThrottle = 0
  MaxInflight = 2
  Concurrency = 1
  ResultAlive = 0
  RedisUp = {TRUE}
  DbUp = {TRUE}
  ProbeUp = {TRUE}
  SlowSubmit = FALSE
  FaultKinds = {"cut"}
  MaxFaults = 1
  OpKinds = {}
  MaxOps = 0
CHECK_DEADLOCK FALSE
PROPERTIES
  NoConnIsTransient
