SPECIFICATION FairDelivery
CONSTANTS
  u1 = u1
  c1 = c1
  p1 = p1
  p2 = p2
  None = None
  NoRecord = NoRecord
  Users = {u1}
  Campaigns = {c1}
  Workers = {w1, w2}
  Members = {w1, w2}
  Events <- WithIgnored
  RuleLists <- OneRule
  Faults = {"abort", "insert", "reject", "lost"}
  Dedup = TRUE
  MaxRuleId = 2
  MaxCalls = 4
  Completions = {p1}
  Outcomes = {p2}
  Partitions = {p1, p2}
  Registered = {p1, p2}
  LoopFaults = {"handler", "fetch", "commit"}
  MaxRecords <- OneEach
  MaxMoves = 1
INVARIANTS DeliveryTypeOK RewardedBehindOffset
PROPERTIES RewardComes VoucherStable
CHECK_DEADLOCK FALSE
