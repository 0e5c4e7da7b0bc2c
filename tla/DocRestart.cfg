SPECIFICATION FairSpec
CONSTANTS
  Absent = Absent
  NoName = NoName
  NoService = NoService
  DefaultName = "grafana-service"
  Names = {"other"}
  Configs = {"c1", "c2"}
  NoOauth = {}
  Unparsable = {}
  Requests = {}
  Lagging = {"config"}
  Created <- MCCreated
  Skip = {"account", "secret", "volume"}
  Clusters = {"kubernetes"}
  Disturbances = {"config"}
  MaxDisturb = 2
PROPERTIES RestartedWithConfig
