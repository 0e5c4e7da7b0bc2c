SPECIFICATION FairSpec
CONSTANTS
  NoRef = NoRef
  NoHash = NoHash
  NoCR = NoCR
  Absent = Absent
  NoPlugins = NoPlugins
  NoTitle = NoTitle
  NoName = NoName
  Names <- MCNames
  NsOf <- MCSameNs
  Jsons = {"v1", "v2"}
  InvalidJsons = {}
  FatalJsons = {}
  Folders = {"custom"}
  PluginLists = {"p"}
  Populations <- MCOneOrTwo
  Uid <- MCUidFixed
  ConsoleUids = {}
  Unmatched = {}
  SelectedNs <- MCAll
  Reconcilers <- MCOneReconciler
  Scope <- MCScopeAll
  ScanAll = TRUE
  Threads = {"ticker", "watch"}
  Ticker = "ticker"
  FaultKinds = {}
  Disturbances = {"create", "update", "delete", "cleanup"}
  MaxDisturb = 1
PROPERTIES AllShown DeletedForCause
