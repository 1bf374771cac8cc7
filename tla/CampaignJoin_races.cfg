SPECIFICATION JoinSpec
CONSTANTS
  r1 = r1
  r2 = r2
  j1 = j1
  j2 = j2
  j3 = j3
  a = a
  b = b
  name = name
  Requests = {r1, r2}
  Ops = {"create_version", "edit", "publish"}
  MayAbort = TRUE
  EditsAlone = FALSE
  Contents = {a, b, name}
  Publishable = {a, b}
  NameOnly = name
  MaxVersion = 1
  None = None
  Calls = {j1, j2}
  Kinds = {"join", "rules", "list"}
  Eligible = {a, name}
  TaskGroup <- Groups
SYMMETRY CallSymmetry
INVARIANTS JoinTypeOK JoinAnswersAgree JoinedIsEnrolled EnrolledAloneOnlyByFailure OnLiveContent
PROPERTIES LiveContentValidated
CHECK_DEADLOCK FALSE
