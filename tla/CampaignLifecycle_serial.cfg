SPECIFICATION Spec
CONSTANTS
  Requests = {r1}
  Ops = {"create_version", "edit", "publish"}
  MayAbort = TRUE
  EditsAlone = FALSE
  Contents = {a, b, name}
  Publishable = {a, b}
  NameOnly = name
  MaxVersion = 3
  None = None
INVARIANTS TypeOK TornPublishRepeatable
PROPERTIES ImplementsVersions
CHECK_DEADLOCK FALSE
