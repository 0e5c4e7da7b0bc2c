SPECIFICATION FairSpec
CONSTANTS
  NoRef = NoRef
  NoHash = NoHash
  NoCR = NoCR
  Absent = Absent
  NoPlugins = NoPlugins
  NoTitle = NoTitle
  NoName = NoName
  Names <- MCOneName
  NsOf <- MCOneNs
  Jsons = {"v1"}
  InvalidJsons = {}
  FatalJsons = {}
  Folders = {"custom"}
  PluginLists = {"p"}
  Populations <- MCEvery
  Uid <- MCUidFixed
  ConsoleUids = {}
  Unmatched = {}
  SelectedNs <- MCAll
  Reconcilers <- MCOneReconciler
  Scope <- MCScopeAll
  ScanAll = TRUE
  Threads = {"ticker", "watch"}
  Ticker = "ticker"
  FaultKinds = {}
  Disturbances = {"update"}
  MaxDisturb = 1
PROPERTIES MovedToDesiredFolder
