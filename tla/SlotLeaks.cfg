SPECIFICATION FairSpec
CONSTANTS
  Account = {"slow", "fine"}
  Callback = {"c1", "c2", "c3"}
  Of <- OfCallback
  Healthy = {"fine"}
  Rungs = 1
  Slots = 1
  Threshold = 2
  Burst = 1
  FaultKinds = {"kill"}
  MaxFaults = 1
PROPERTY SlotsAlwaysComeBack
CHECK_DEADLOCK FALSE
