SPECIFICATION Spec
CONSTANTS
  Account = {"slow"}
  Callback = {"c1", "c2", "c3", "c4"}
  Of <- OfSlow
  Healthy = {}
  Rungs = 1
  Slots = 2
  Threshold = 2
  Burst = 4
  FaultKinds = {}
  MaxFaults = 0
INVARIANT PostsBounded
CHECK_DEADLOCK FALSE
