SPECIFICATION FairSpec
CONSTANTS
  NoRef = NoRef
  NoHash = NoHash
  NoCR = NoCR
  Absent = Absent
  NoName = NoName
  Names <- MCNames
  NsOf <- MCNsOf
  BaseName <- MCBaseName
  Uid <- MCUid
  Contents = {"v1", "v2", "bad", "mistyped", "uidless", "unlabelled"}
  Invalid = {"bad"}
  Mistyped = {"mistyped"}
  Uidless = {"uidless"}
  Unlabelled = {"unlabelled"}
  ScanAll = TRUE
  Threads = {"ticker", "watch"}
  Ticker = "ticker"
  Disturbances = {"create", "update", "delete", "err", "lost", "console delete", "not ready", "restart"}
  Populations <- MCPopulations
  MaxDisturb = 3
INVARIANTS TypeOK RefsTellTruth
PROPERTIES AllShown NoStrays
