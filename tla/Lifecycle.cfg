SPECIFICATION Spec
CONSTANTS
  Msg = {m1, m2}
  Delivery = {d1, d2, d3}
  Session = {s1, s2}
  Seq = {q1, q2}
  NoSession = NoSession
  NoSeq = NoSeq
  NoEntry = NoEntry
  MaxThrottle = 1
  MaxInflight = 2
  Concurrency = 1
  ResultAlive = 1
  RedisUp = {TRUE}
  DbUp = {TRUE}
  ProbeUp = {TRUE}
  SlowSubmit = FALSE
  FaultKinds = {"silence", "watchdog", "pub"}
  MaxFaults = 1
  OpKinds = {"receipt", "cancel"}
  MaxOps = 1
SYMMETRY Symmetry
CHECK_DEADLOCK FALSE
INVARIANTS
  AtMostOnceUpstream
  FailedNotUpstream
  SentWasSubmitted
PROPERTIES
  TraceNeverLost
  FollowsLifecycle
