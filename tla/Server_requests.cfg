SPECIFICATION Spec
CONSTANTS
  r1 = r1
  r2 = r2
  png = png
  text = text
  big = big
  empty = empty
  None = None
  Nothing = Nothing
  MaxRows = 3
  MaxLeft = 1
  Langs = {"en", "zh"}
  DefaultPageSize = 1
  MaxPageSize = 2
  WebLimit = 2
  MaxTime = 2
  WindowOf <- MCWindowOf
  Slots = {r1, r2}
  Payloads = {png, text, big, empty}
  BadSize = {big, empty}
  Names = {"a_png", "notes"}
  ByExtension <- MCByExtension
  Sniffed <- MCSniffed
  ImageTypes = {"png", "gif"}
  Deployments <- MCDeployments
INVARIANTS ServerTypeOK MissedOnlyByLeaving ShownPublishedIsLive ShownByWindow UrlKeepsItsImage AnswersHonest ServedOnlyWhenReady
PROPERTIES ListenFailureEndsProcess RequestsEnd
CHECK_DEADLOCK FALSE
