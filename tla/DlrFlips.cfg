SPECIFICATION Spec
CONSTANTS
  Msg = {m1}
  Status = {"delivered", "failed"}
  Worker = {w1, w2}
  Flush = Flush
  NoReport = NoReport
  MaxSends = 2
  MaxRetries = 2
  MarkAttempts = 2
  FaultKinds = {}
  MaxFaults = 0
PROPERTY SettledStays
CHECK_DEADLOCK FALSE
