SPECIFICATION FairSpec
CHECK_DEADLOCK FALSE
CONSTANTS
  NoCR = NoCR
  NotReady = NotReady
  Nothing = Nothing
  DashboardConsumers = {"dash1"}
  OtherConsumers <- MCOneOther
  Dashboards = {"d1"}
  Urls = {"u1", "u2"}
  MaxEvents = 4
INVARIANTS TypeOK
PROPERTIES ReadyReaches FailureReaches RecoveryResubmits
