SPECIFICATION Spec
CONSTANTS
  Msg = {m1}
  Delivery = {d1, d2}
  Session = {s1}
  Seq = {q1, q2}
  NoSession = NoSession
  NoSeq = NoSeq
  NoEntry = NoEntry
  MaxThrottle = 1
  MaxInflight = 2
  Concurrency = 1
  ResultAlive = 0
  RedisUp = {TRUE, FALSE}
  DbUp = {TRUE}
  ProbeUp = {TRUE}
  SlowSubmit = FALSE
  FaultKinds = {"crash", "link", "cut", "pub"}
  MaxFaults = 1
  OpKinds = {"redispatch", "requeue", "cancel", "retry"}
  MaxOps = 2
SYMMETRY Symmetry
CHECK_DEADLOCK FALSE
INVARIANTS
  TypeOK
  OpenHasCarrier
