SPECIFICATION FairPipeline
CONSTANTS
  Specs <- MCSpecs
  Contents <- MCContents
  WebAnswers <- MCWebAnswers
  MapEntries <- MCMapEntries
  Invalid <- MCInvalid
  Nulls = {"null"}
  ErrorPage = ErrorPage
  UidIn <- MCUidIn
  Compiled <- MCCompiled
  InputLists = {"none", "ds", "sd", "incomplete"}
  InputText <- MCInputText
  Incomplete = {"incomplete"}
  OwnUid = "own"
  FaultKinds = {"err"}
  Disturbances = {"edit", "web", "config map", "console delete", "invalidate", "restart"}
  MaxDisturb = 3
  Down = Down
  NoMap = NoMap
  NoKey = NoKey
  NoDoc = NoDoc
  NoUid = NoUid
  NoString = NoString
  NoInputs = "none"
  NoHash = NoHash
  Absent = Absent
INVARIANTS TypeOK HashDecides
PROPERTIES SourceReaches
