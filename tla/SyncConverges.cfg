SPECIFICATION FairSpec
CONSTANTS
  NoRef = NoRef
  NoHash = NoHash
  NoCR = NoCR
  Absent = Absent
  NoPlugins = NoPlugins
  NoTitle = NoTitle
  NoName = NoName
  Names <- MCNames
  NsOf <- MCSameNs
  Jsons = {"v1", "v2", "bad", "null"}
  InvalidJsons = {"bad"}
  FatalJsons = {"null"}
  Folders = {"custom"}
  PluginLists = {"p"}
  Populations <- MCFaultySecond
  Uid <- MCUidFixed
  ConsoleUids = {"c1"}
  Unmatched = {}
  SelectedNs <- MCAll
  Reconcilers <- MCOneReconciler
  Scope <- MCScopeAll
  ScanAll = TRUE
  Threads = {"ticker"}
  Ticker = "ticker"
  FaultKinds = {"err", "lost", "503"}
  Disturbances = {"create", "update", "delete", "console delete", "console create", "invalidate", "not ready", "restart"}
  MaxDisturb = 2
INVARIANTS TypeOK PluginsTracked UniqueUids RefsTellTruth Tracked EmptyFolderOnly
PROPERTIES AllShown NoStrays KeepsLedger
