SPECIFICATION Spec
CONSTANTS
  u1 = u1
  u2 = u2
  c1 = c1
  None = None
  Users = {u1, u2}
  Campaigns = {c1}
  Workers = {w1}
  Events <- EventsOfTwo
  RuleLists <- RuleVariants
  Faults = {"reject"}
  Dedup = FALSE
  MaxRuleId = 4
  MaxCalls = 3
INVARIANTS CallsJustified CallsPerLedgerBounded
PROPERTIES SuccessIsFinal
