SPECIFICATION FairSpec
CONSTANTS
  Msg = {m1}
  Delivery = {d1, d2}
  Session = {s1, s2}
  Seq = {q1, q2}
  NoSession = NoSession
  NoSeq = NoSeq
  NoEntry = NoEntry
  MaxThrottle = 1
  MaxInflight = 4
  Concurrency = 1
  ResultAlive = 0
  RedisUp = {TRUE}
  DbUp = {TRUE}
  ProbeUp = {TRUE}
  SlowSubmit = FALSE
  FaultKinds = {"crash", "link", "pub", "cut", "silence", "watchdog"}
  MaxFaults = 1
  OpKinds = {}
  MaxOps = 0
CHECK_DEADLOCK FALSE
PROPERTIES
  EventuallyResolved
