SPECIFICATION FairPipeline
CONSTANTS
  Specs <- MCUrlAndMap
  Contents <- MCContents
  WebAnswers <- MCWebAnswers
  MapEntries <- MCMapEntries
  Invalid <- MCInvalid
  Nulls = {"null"}
  ErrorPage = ErrorPage
  UidIn <- MCUidIn
  Compiled <- MCCompiled
  InputLists = {"none", "ds", "sd", "incomplete"}
  InputText <- MCInputText
  Incomplete = {"incomplete"}
  OwnUid = "own"
  FaultKinds = {}
  Disturbances = {"web", "restart"}
  MaxDisturb = 3
  Down = Down
  NoMap = NoMap
  NoKey = NoKey
  NoDoc = NoDoc
  NoUid = NoUid
  NoString = NoString
  NoInputs = "none"
  NoHash = NoHash
  Absent = Absent
PROPERTIES UrlFirst
