SPECIFICATION Spec
CONSTANTS
  Requests = {r1, r2}
  Ops = {"create_version", "edit", "publish"}
  MayAbort = FALSE
  EditsAlone = FALSE
  Contents = {a, b, name}
  Publishable = {a, b}
  NameOnly = name
  MaxVersion = 3
  None = None
INVARIANTS LiveIsLatestPublished
CHECK_DEADLOCK FALSE
