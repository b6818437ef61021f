SPECIFICATION FairSpec
CONSTANTS
  Session = {"s1", "s2"}
  NoSession = "no session"
  Job = {"m"}
  MaxBinds = 1
  DrainLimit = 4
  Kinds <- TwoBinds
  FaultKinds = {"leave", "load", "insert", "link", "crash"}
  MaxFaults = 1
INVARIANTS TypeOK ReportKept
PROPERTIES EventuallyConcluded BindGetsWaiting
CHECK_DEADLOCK FALSE
