SPECIFICATION Spec
CONSTANTS
  u1 = u1
  u2 = u2
  c1 = c1
  None = None
  Users = {u1}
  Campaigns = {c1}
  Workers = {w1, w2}
  Events <- OneEvent
  RuleLists <- OneRule
  Faults = {}
  Dedup = FALSE
  MaxRuleId = 1
  MaxCalls = 3
PROPERTIES RetryOnlyIfNeverAccepted
