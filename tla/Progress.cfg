SPECIFICATION FairSpec
CONSTANTS
  Chunk = {"c1", "c2"}
  Row = {"r1", "r2"}
  Of <- OfRow
  Smpp = {"r1"}
  Updater = {u1}
  Tail = 1
  OpKinds = {"cancel", "pause", "resume", "clear"}
  MaxOps = 2
  FaultKinds = {"db", "chunk"}
  MaxFaults = 1
INVARIANTS TypeOK CompletedIsDone
PROPERTIES EventuallySettled EventuallyAgrees
CHECK_DEADLOCK FALSE
