SPECIFICATION Spec
CONSTANTS
  Session = {"s1", "s2"}
  NoSession = "no session"
  Job = {"m"}
  MaxBinds = 1
  DrainLimit = 4
  Kinds <- TwoBinds
  FaultKinds = {}
  MaxFaults = 0
INVARIANTS BindsBounded
CHECK_DEADLOCK FALSE
