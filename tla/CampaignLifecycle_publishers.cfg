SPECIFICATION Spec
CONSTANTS
  Requests = {r1, r2, r3}
  Ops = {"edit", "create_version", "publish"}
  MayAbort = TRUE
  EditsAlone = TRUE
  Contents = {a, b, name}
  Publishable = {a, b}
  NameOnly = name
  MaxVersion = 3
  None = None
SYMMETRY Symmetry
INVARIANTS OnlyLatestDraft
PROPERTIES PublishedVersionImmutable
CHECK_DEADLOCK FALSE
