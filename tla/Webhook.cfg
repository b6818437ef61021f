SPECIFICATION FairSpec
CONSTANTS
  Account = {"slow", "fine"}
  Callback = {"c1", "c2", "c3"}
  Of <- OfCallback
  Healthy = {"fine"}
  Rungs = 1
  Slots = 1
  Threshold = 2
  Burst = 1
  FaultKinds = {"broker", "db", "dns", "gone", "kill", "redis", "url"}
  MaxFaults = 1
INVARIANTS TypeOK HealthyUnharmed
PROPERTIES HealthyServed EventuallySettled SlotsComeBack
CHECK_DEADLOCK FALSE
