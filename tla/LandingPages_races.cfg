SPECIFICATION FairSpec
CONSTANTS
  r1 = r1
  r2 = r2
  en = en
  fr = fr
  good = good
  bad = bad
  alice = alice
  bob = bob
  Requests = {r1, r2}
  Langs = {en, fr}
  Copies = {good, bad}
  Valid = {good}
  Operators = {alice, bob}
  MaxPublishes = 1
  None = None
INVARIANTS TypeOK PublishedIsAudited OneRowPerLang ViewLabelledRight
PROPERTIES CreatorKept PublishedSettles
CHECK_DEADLOCK FALSE
