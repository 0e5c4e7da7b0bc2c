SPECIFICATION FairSpec
CONSTANTS
  Absent = Absent
  NoName = NoName
  NoService = NoService
  DefaultName = "grafana-service"
  Names = {"other"}
  Configs = {"c1", "c2", "c3"}
  NoOauth = {"c3"}
  Unparsable = {}
  Requests <- MCRequests
  Lagging = {"config", "cr"}
  Created <- MCCreated
  Skip = {"account", "secret", "volume"}
  Clusters = {"kubernetes", "openshift"}
  Disturbances = {"config", "rename", "access", "plugins", "touch", "err", "no plugin", "late", "restart"}
  MaxDisturb = 2
INVARIANTS TypeOK OneVersion
PROPERTIES RecoversFromPanic SpecReached AccessFits ServicesClean PluginsReach
