SPECIFICATION FairSpec
CONSTANTS
  NoRef = NoRef
  NoHash = NoHash
  NoCR = NoCR
  Absent = Absent
  NoPlugins = NoPlugins
  NoTitle = NoTitle
  NoName = NoName
  Names <- MCNames
  NsOf <- MCTwoNs
  Jsons = {"v1"}
  InvalidJsons = {}
  FatalJsons = {}
  Folders = {"custom"}
  PluginLists = {"p"}
  Populations <- MCEvery
  Uid <- MCUidFixed
  ConsoleUids = {}
  Unmatched = {}
  SelectedNs <- MCAll
  Reconcilers <- MCTwoReconcilers
  Scope <- MCScopeOwn
  ScanAll = FALSE
  Threads = {"ticker"}
  Ticker = "ticker"
  FaultKinds = {}
  Disturbances = {}
  MaxDisturb = 2
PROPERTIES EveryNamespaceImported
