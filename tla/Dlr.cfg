SPECIFICATION FairSpec
CONSTANTS
  Msg = {m1}
  Status = {"delivered", "failed"}
  Worker = {w1}
  Flush = Flush
  NoReport = NoReport
  MaxSends = 3
  MaxRetries = 2
  MarkAttempts = 2
  FaultKinds = {"redis", "publish", "restart", "expire", "orphan", "db", "kill", "old", "budget"}
  MaxFaults = 1
INVARIANTS TypeOK ReportKept DispatchedOnce
PROPERTY EventuallyConcluded
CHECK_DEADLOCK FALSE
