SPECIFICATION FairConsumer
CONSTANTS
  p1 = p1
  p2 = p2
  Members = {m1, m2}
  Partitions = {p1, p2}
  Registered = {p1}
  LoopFaults = {"handler", "fetch", "commit"}
  MaxRecords <- TwoAndOne
  MaxMoves = 2
  NoRecord = NoRecord
INVARIANTS NothingSkipped CommitFollowsSuccess
PROPERTIES EveryRecordSeen
CHECK_DEADLOCK FALSE
