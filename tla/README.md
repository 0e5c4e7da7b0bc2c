# A TLA+ model of the Grafana operator

The operator keeps a Grafana installation, and what is in it, in line with
resources in a Kubernetes cluster: a `Grafana` resource, and the dashboards,
notification channels and data sources that people declare next to it. This
directory has TLA+ modules for the controllers that do so, TLC configurations
that check them on small instances, and proofs that every safety invariant the
runs check holds for all values of the constants (section 5 says under which
assumptions).

Paths are relative to the repository; `controllers/` is left out where the file
name is unique. Every definition stands for lines of the source; `PROJECT.json`
names them ("map").

To check and prove:

    tlc -config SyncConverges.cfg MCDashboardSync      (see the table of runs)
    for m in GoSlicesProofs DashboardSyncProofs NotificationChannelsProofs \
             ClusterReconcileProofs DashboardPipelineProofs DatasourcesProofs \
             FolderAccessProofs GrafanaControllerProofs; do tlapm $m.tla; done

## 1. The system

### Components

| component | state it keeps | operations |
|---|---|---|
| Grafana controller (`grafana_controller.go`) | the draft of a status | Reconcile, manageSuccess, manageError, publish on the event channel |
| cluster reconciler (`grafana_reconciler.go`, `clusterState.go`, `clusterActions.go`, `model/`) | config hash, plugin list of one loop | read the caches, plan actions, run them one after the other |
| plugin selection (`pluginsHelper.go`, `pluginsList.go`) | none | filter what the dashboards ask for |
| ControllerConfig (`controller_config.go`), a singleton | known dashboards, plugins asked for, config items | AddDashboard, RemoveDashboard, InvalidateDashboards, Cleanup, SetPluginsFor, RemovePluginsFor, GetDashboards |
| dashboard reconciler (`grafanadashboard_controller.go`) | `ref.state`, a work queue for each controller | ticker, Reconcile, reconcileDashboards |
| dashboard pipeline (`dashboard_pipeline.go`, `grafanadashboard_types.go`) | the copy of the resource a pass works on | find the contents, hash, replace inputs, parse |
| Grafana client (`grafanadashboard/grafana_client.go`) | none | folders, dashboards, users, permissions |
| notification channels (`grafananotificationchannel/`, `notification_controller_config.go`) | a registry by namespace | ticker, Reconcile, pass |
| data sources (`grafanadatasource/`) | none: Grafana is asked | Reconcile, pass, status |
| namespace controller (`namespaceclaim_controller.go`) | an API key in a package variable | create two dashboards for each namespace |
| folder users (`grafanadashboard_controller.go`, `grafana_client.go`) | the same key | accounts for a dashboard's users, replace the list of its folder |
| administrators (GiveAdmin in `grafana_controller.go`) | none | accounts and rights for the cluster's admins |
| auto-detection (`auto_detect.go`) | the config item `ConfigOpenshift` | find OpenShift's Route, every 5 seconds |
| startup (`main.go`) | - | starts all of these, the dashboard and channel controllers once per watched namespace |

Not looked at further: see section 6.

### How they interact

* **Shared memory.** All dashboard reconcilers, the Grafana controller and the
  consumers of events run in one process and share ControllerConfig. Its mutex
  covers single statements: `AddDashboard` and `RemoveDashboard` search without
  it, `RemovePluginsFor` deletes without it, and `GetDashboards` hands out the
  slice itself.
* **One channel.** `ControllerEvents` has room for one value. The Grafana
  controller sends `GrafanaReady` and the admin url, or NotReady; every
  reconciler has a goroutine that receives. A value reaches one of them.
* **The API server**, through caches that lag. Updates conflict when the object
  has changed since it was read.
* **One API key.** The namespace controller and every dashboard goroutine ask for
  a key and keep it in one package variable; each sends what the last one put
  there. A request that fails puts the text of its error there.
* **Grafana's HTTP API**, where calls fail, are answered 503 (which several calls
  take for success), or take effect without an answer.
* **The status and the spec as memory.** Known dashboards and plugins live in
  memory only; `spec.json` keeps fetched contents; the status of the Grafana
  resource keeps plugins and the name of a service to be deleted.

### What is hard, and what has to be right

1. *Dashboard passes.* A pass reads the resources and the known list at its
   start and works through both, one call after the other, while resources,
   Grafana and the known list change under it, and a second goroutine may run
   the same pass. Right means: the known list has each uid once, says of each
   dashboard what Grafana has, forgets none; a folder is deleted only when it is
   empty; in the end, also after the crashes that races and some contents cause,
   Grafana shows what is declared and nothing that was withdrawn.
2. *Sources of contents.* Five sources in an order, each of which may fail; what
   was fetched is kept in the resource, and the hash is made of what was kept.
   Right means: a dashboard that is skipped because its hash is known shows what
   that hash stands for, and in the end the first source that answers is shown,
   whichever attempt of a pass failed before.
3. *Events.* A value for one consumer, several consumers, early returns before
   the send, a send that can block. Right means: each consumer learns of success
   and of failure, and a failure invalidates every hash.
4. *Notification channels.* As 1, with slices of pointers by namespace, without
   a look at Grafana for unchanged channels.
5. *Data sources.* No memory; urls identify what names identify in Grafana; the
   only retry is the event caused by the status update. Right means: a drained
   queue leaves nothing undone without saying so.
6. *The cluster loop.* Every plan is made on stale caches, conflicts count as
   success, the first failure ends the loop, and the status is written anyway.
   What kind of cluster it is may be found out in the middle of a loop. Right
   means: the objects come to be what the spec says, old services go, plugins
   reach the pod in one version, the way in is the one the cluster has.
7. *Who may see what.* Users are looked up and created one by one, no answer is
   looked at, the list then replaces the folder's, with a key that anybody may
   have changed in between. Right means: a folder never has a part of a list or a
   mixture of two, and in the end the users of a dashboard see its folder.

`PROJECT.json` lists the hazards behind this, each at its line and with the
properties that would catch it ("hazards").

## 2. Modules

    GoSlices -- KnownDashboards -- DashboardSync -- MCDashboardSync, DashboardSyncProofs
        |                               \ implements DashboardLedger
        +-- NotificationChannels -- MCNotificationChannels, NotificationChannelsProofs
        |  /
    Filters -- Plugins -- ClusterReconcile -- MCClusterReconcile, ClusterReconcileProofs
        \
         GoSlicesProofs (also of GoSlices; used by the three modules of proofs above)
    DashboardPipeline -- MCDashboardPipeline, DashboardPipelineProofs
    FolderAccess      -- MCFolderAccess,      FolderAccessProofs
    Datasources       -- MCDatasources,       DatasourcesProofs
    GrafanaController -- MCGrafanaController, GrafanaControllerProofs

Each module models one part with the others as its environment: the state
changes published by the Grafana controller are the action `StateChange` of the
reconcilers, their passes are the action `Pass` of `GrafanaController`, the
contents that `DashboardPipeline` obtains are one value in `DashboardSync`, the
plugins that `DashboardSync` enters are `Register` in `ClusterReconcile`, the
dashboards it submits are those that are `due` in `FolderAccess`.

An operator `X_Suffix` before an operator `X` is a deliberately wrong variant of
it, a bug of the kind that could have been in the code. No specification uses
one. Put in the place of `X`, it must make a property fail ("mutants" in
`PROJECT.json`): that is how we know that the property can fail at all.

### GoSlices, KnownDashboards, Filters

A Go slice is a backing array and a length. A reader either has a copy or looks
at the array that writers go on changing, until an append outgrows it and the
reader stays behind with the old one (`Shared`, `Detached`). `Dropped` is the
removal by "move the last one into the gap". `KnownDashboards` adds the lookups
by uid and by name and the invalidation, which writes through the pointers and
so reaches every reader. `Filters` has the loop that makes one list of another by
appending what passes a test (`Among`): the references of withdrawn channels, the
plugins of which no newer version is asked for, those the plugin site has.

### DashboardSync

The state: the resources (`crs`), what Grafana has (`dash`, `folders`), the
singleton (`known`, `plugins`, `synced`), and for each goroutine its queue, its
view of the known list, the references it has still to delete and the rest of
its pass (`job`). A pass is cut at every call to Grafana and at every place where
the singleton is read without the lock that the write then takes:

| action | code |
|---|---|
| `Tick`, `Reconcile`, `List`, `EndPass` | ticker, Reconcile, and reconcileDashboards up to the loops |
| `GetAllFolders`, `CreateFolder` | CreateOrUpdateFolder |
| `ProcessDashboard` | ProcessDashboard, and GetDashboard for a known dashboard |
| `ProcessFatal` | ProcessDashboard on json null, or a uid that is no string: a panic |
| `PostDashboard` | CreateOrUpdateDashboard |
| `FindSlot`, `AddDashboard`, `AddOutOfRange` | AddDashboard: without the lock, with the lock, index out of range |
| `SetPlugins` | SetPluginsFor |
| `DeleteDashboard`, `RemovePlugins` | the second loop: DeleteDashboardByUID, RemovePluginsFor |
| `RemoveDashboard`, `RemoveOutOfRange`, `DeleteFolder` | RemoveDashboard, SafeToDelete, DeleteFolder |
| `Invalidate`, `Cleanup`, `StateChange` | what the Grafana controller does to the reconciler; plugin updates invalidate too |
| `ChangeResource`, `ConsoleDelete`, `ConsoleCreate`, `Restart` | users, the Grafana console, a crash |

Every call ends in one of up to four ways: answered, failed, done but not
answered, answered 503. `unsure` is a history variable: the uids of which the
operator cannot know what Grafana holds, because the last call was not answered,
a restart or a Cleanup made it forget, or two passes submitted the uid before
either had entered it (`Crossed`). `Populations` bounds the resources there can be
together. `panicked` stands for a Go panic: it ends all
goroutines until `Restart`. An unsynchronised access to the plugin map is a
choice between working and aborting (`PluginMapRace`), as the Go runtime makes it.

### DashboardLedger, and DashboardSync as its implementation

`DashboardLedger` is what the operator's memory of dashboards amounts to, without
slices, indices, passes and goroutines: at most one entry for each uid. Grafana
accepts something (`Submit`) or leaves it open (`Unanswered`), the entry is made
(`Record`), Grafana has nothing left (`Withdraw`), the entry goes (`Forget`); all
entries lose their contents (`Invalidate`) or go with a restart (`Reset`); a folder
takes unknown dashboards along (`Collateral`), people work in the console
(`Outside`). `DashboardSync` instantiates it: `shown` is `dash`, the entries are
what the cells of the list point to, `doubt` is `unsure`, and a uid is pending
between the answer and AddDashboard. `KeepsLedger` says that every step of the
detailed module is one of the ledger's, or none.

### FolderAccess

| action | code |
|---|---|
| `NsReconcile`, `CreateUserDashboard` | the namespace controller: a key, and one dashboard after the other |
| `Submit` | a dashboard is submitted: manageSuccess begins |
| `LookUser`, `CreateUser`, `LookAgain` | GetGrafanaUser, CreateGrafanaUser, and once more for the id |
| `FindFolder`, `AskKey`, `PostPermissions` | CreateGrafanaPermission: the folder's uid, a key, the list |
| `ListAdmins`, `LookAdmin`, `CreateAdmin`, `LookId`, `MakeAdmin`, `MakeOrgAdmin` | GiveAdmin, at the end of a successful loop |
| `NoFirstSubject`, `Restart` | GetCRBAdmin takes the first subject of a binding without one; a crash |
| `EditNamespace`, `EditUsers`, `Resubmit`, `Bind` | people, and what makes a dashboard due again |

Accounts are addresses: one that is not found has the id 0, an administrator the
id -1, and what Grafana does with these ids in a list is in `Accepts`. `asked`,
`excused`, `metBefore` and `unserved` are history variables: the lists that were
asked for, and the exceptions the properties make.

### DashboardPipeline

One resource and one goroutine, the same pass seen from the contents: `Fetch`
(url or grafana.com), `Save` (the contents into `spec.json`, which conflicts when
the resource was edited meanwhile), `LoadLocal` (config map, json, jsonnet),
`Look` and `Post`. Documents are values, with the uid that is written in them;
one does not parse, one is the page that comes with an error status, one parses and
is empty (json null), and one has a uid that is no string. The last two crash the
operator (`Fatal`), which `Recover` starts again with an empty list.

Two things are as odd here as they are in the code. `Processed`: a pass that finds
a dashboard missing in Grafana makes a second attempt whatever became of the first
one, but the error of the first one is still there afterwards and ends the matter
(`grafanadashboard_controller.go:340`). `Hash`: the fields are run together, so the
hash is a sequence of texts and not a tuple of fields; a text that moves from json to
jsonnet, or from one name of an input rule to the next, leaves it as it was.

### GrafanaController

Reconcile as far as it decides what is published: `ReconcileGone`,
`ReconcileFound`, `ManageSuccess`, `Publish`, `ManageError` with their early
returns, and `Send`, which hands the value to the receiver that has waited
longest, buffers it, or blocks. `Receive` is a consumer's goroutine. Dashboards
are there as what is known of them: none, a current hash, a cleared hash.

### ClusterReconcile, Plugins

`Plan` is GrafanaReconciler.Reconcile on the cached objects: the list of actions
in the order of the code, with the status that is going to be written.
`RunAction` runs one action against the API server, `ManageSuccess` and
`ManageError` write the status. Kubernetes is the environment: `Progress` and
`Rollout` replace the pod after the template changed and touch the deployment in
doing so, `CatchUp` brings a cache up to date, `AssignAddress` makes an ingress
ready. The config item for OpenShift is asked for at three places of a loop
(when the cluster is read, when the way in is planned, when readiness is); `Views`
are the answers it can get while detectRoute may set it at any time. `PanicPlanning`
has the two nil dereferences: a `service` that was removed after a rename, and a
`config` without the oauth api_url of which the host is cut out. `Plugins` has
FilterPlugins and what it uses as operators.

### NotificationChannels, Datasources

The same cut as in `DashboardSync`. References of channels are pointers into
`heap`, since a pass writes through pointers that another one has copied.
Resources have a namespace and a name in it, because the registry is kept by
namespace and searched by name alone. A step that has nothing more to do in a pass
forgets what it read (`GoOn`), so that states which differ only in that are one.
What the process died of is kept (`panicked`): json without a uid, or a race.
`Datasources` has one worker and no ticker; `ManageError` puts the resource back
into the queue only if the status changes, `Resync` is the informer's. Resources
are in two namespaces, and a pass lists one of them.

## 3. What the runs check

| run | module | properties | what it shows |
|---|---|---|---|
| `SyncConverges` | MCDashboardSync | TypeOK, PluginsTracked, UniqueUids, RefsTellTruth, Tracked, EmptyFolderOnly, KeepsLedger, AllShown, NoStrays | one goroutine, all faults: the known list is a true and complete account of Grafana and a ledger, no plugin is left behind, and Grafana ends up as declared, also after crash loops |
| `SyncThreads` | MCDashboardSync | AllShown, DeletedForCause | two goroutines with all their races while resources come, change and go, the crashes these cause, and a Cleanup: every resource is shown in the end as it is then, save where two submissions crossed, and no pass deletes a dashboard whose resource it has listed |
| `SourcesReach` | MCDashboardPipeline | TypeOK, HashDecides, SourceReaches | a known hash stands for what is shown; the first source that answers is shown in the end, as far as the hash can tell |
| `EventsReach` | MCGrafanaController | TypeOK, ReadyReaches, FailureReaches, RecoveryResubmits | two consumers on one channel both learn of success and failure |
| `AccessReaches` | MCFolderAccess | TypeOK, ListWhole, UsersAdmitted, AdminsServed, NamespacesServed | a folder never has a part of a list; users, administrators and namespaces get what they are due |
| `ChannelsConverge` | MCNotificationChannels | TypeOK, RefsTellTruth, AllShown, NoStrays | the same as for dashboards, with two goroutines, two namespaces and crash loops |
| `DatasourcesConverge` | MCDatasources | TypeOK, Settled, AllShown, ShownAgain, NoStrays | a drained queue leaves nothing undone without a message; Grafana ends up as declared; two namespaces do not shut each other out |
| `ClusterConverges` | MCClusterReconcile | TypeOK, OneVersion, RecoversFromPanic, SpecReached, AccessFits, ServicesClean, PluginsReach | lost updates, stale plans and a kind of cluster that is found out late are made up for |
| `DocMove` | MCDashboardSync | MovedToDesiredFolder | violated, see below |
| `DocNamespaces` | MCDashboardSync | EveryNamespaceImported | violated, see below |
| `DocPriority` | MCDashboardPipeline | UrlFirst | violated, see below |
| `DocRestart` | MCClusterReconcile | RestartedWithConfig | violated, see below |

### Bounds

Every bound is a constant of the configuration. The counters `disturbed` and
`events` bound faults, changes by people, crashes and failures together; what the
operator does by itself is not bounded.

* **MaxDisturb, MaxEvents.** Two disturbances are the least that matter: one that
  brings the system off course and one while it recovers (a lost answer and a
  deletion, a failed call and a restart). `SyncConverges` and `ClusterConverges` have
  two; the invariants of `SyncConverges` are proved for any number. `SourcesReach`
  has three, since a first attempt that fails before a second one that does not
  takes a document that goes bad, one that is good again, and a dashboard that is
  missing in between. `EventsReach` has four, since creating the Grafana resource is one;
  `ChannelsConverge` has three, of which the resources there are at the start use
  up one each. `SyncThreads`, `DatasourcesConverge` and `AccessReaches` have one:
  with two goroutines, three competing resources whose initial contents are
  arbitrary, or four actors on the accounts, the interleavings do the rest, and a
  second one exceeds what TLC checks in minutes. The safety of the last two is
  proved for any number. `DocPriority` needs three (the url goes, the operator
  restarts, the url is back).
* **Resources.** Two dashboards are enough for the list to have a first and a
  last reference, for the swap in RemoveDashboard, for a full array and one that
  grows, and for a folder that is not empty. In `SyncConverges` one of the two has
  any contents and the other one valid ones (`MCFaultySecond`); in `SyncThreads`
  there is one with any contents and folder, or two of one content, of which the
  second may go (`MCOneOrTwo`): a stale pass on one resource, and a list of two under
  a pass that reads it. Three data sources in two namespaces
  compete for two names and two urls. Two notification channels of the same name
  in two namespaces; `Populations` says that the second one is valid and stands
  beside one that is, so that one channel has all six kinds of contents and the
  pair is about the name alone. `AccessReaches` has one namespace with the
  dashboard made for it and one that somebody declares in the same folder: the
  least for two lists to compete; two people, of whom one is also the default
  owner and an admin of the cluster.
* **Contents.** Two valid ones, one that does not parse and one that crashes the
  operator: a change, a change back, an error, a crash loop; in `SyncThreads` the
  two valid ones. `SourcesReach` has twelve specs, chosen so that each source stands
  before and after another one, and a few of the answers a url and a config map can
  give (`WebAnswers`, `MapEntries`). The uid of a dashboard is its resource's in the runs of
  `DashboardSync`; in `SourcesReach` it depends on the contents.
* **Plugins.** Three requests for one plugin, one for an old version and two that
  agree on a newer one, of which two can be there at a time, in each order: two
  versions, or one version twice. What FilterPlugins makes of other lists is proved.
* **Caches.** In `ClusterConverges` those of the config map and of the Grafana
  resource lag, in `DocRestart` that of the config map. The deployment conflicts
  through `Progress`, `Rollout` and `Touch`.
* `CHECK_DEADLOCK FALSE` in `EventsReach` and `DatasourcesConverge`: without a
  Grafana resource, or without data sources, there is nothing left to do once the
  bound is reached. In the other models a ticker goes on for ever.

No symmetry is used: every passing run checks liveness, which rules it out.

### Fairness

* A goroutine that can go on does: Go's scheduler runs each of them, and every
  call to Grafana and to the API server returns (the clients have time-outs; the
  fetch of a url has none, so that a server which neither answers nor hangs up
  would stop the pass: the models assume that none does).
  Hence weak fairness of each worker's steps, of the ticker and of taking a
  request from a queue. It says nothing about which outcome a call has; that
  failures do not go on for ever is in the bound on disturbances.
* The Grafana controller requeues itself every RequeueDelay and publishes its
  state then: weak fairness of `StateChange(.., TRUE)`. `EventsReach` is what
  justifies it: with the requeue every consumer is reached. GiveAdmin runs in the
  same loop.
* Work queues are first in, first out. `Datasources` keeps the queue as a set, so
  it is strong fairness of `Reconcile(n)` that says no request is overtaken for
  ever: with weak fairness a resource that comes back again and again would do so.
  In the other models weak fairness is enough.
* The kubelet restarts a crashed operator: weak fairness of `panicked /\ Restart`.
  So for `NoFirstSubject`, a crash and the restart in one. A restart that nobody
  forced is a disturbance without fairness.
* Informers deliver and resync; Kubernetes rolls a deployment out, and a load
  balancer assigns an address: weak fairness of `CatchUp`, `Resync`, `Progress`
  and `Rollout`, `AssignAddress`.

Users, the console and the web have none.

### What the exceptions in the properties say

* `unsure` (dashboards, channels, data sources): nobody can know what Grafana
  holds after a call without an answer, a 503, or a restart. That dashboards of
  resources deleted before a restart stay for ever is thus not a violation of
  `NoStrays`; it is the first thing to know about the operator's memory. Nor is it
  known what is there when two passes submit a uid or a channel at once: the races
  run, and what they leave is excepted by `Tracked` and `NoStrays` until the next
  submission. The crossed passes of notification channels (`NotificationChannels`,
  hazard at `notification_controller_config.go:53`) are described for this reason
  rather than caught.
* `Misled` (dashboards) is all that excuses `AllShown`: the list has the current hash
  of the resource, so that it is skipped, while its uid is unsure, or it went into the
  General folder after a 503. That takes a 503 to the last submission, a lost answer
  after which the resource goes back to what it was before, or two crossed
  submissions. A restart, a Cleanup, a failed deletion, or a lost answer alone does not
  lead there.
* `InFlight`: between the submission and the entry in the list.
* `orphans`: a renamed service whose name the status lost, by a failure in the loop
  that was to delete it, or because it was renamed again before the status knew
  it; and an ingress made on OpenShift before detectRoute was done. `ServicesClean`
  and `AccessFits` say there are no others.
* `Calm`, `Orderly`, `Bound`: some inputs make the operator crash again after each
  restart, or end each pass early: a dashboard that is json null or has a uid that is
  no string, a channel without a uid or with a type that is
  not a string, a data source resource with an empty list, a Grafana resource whose
  `service` was removed after a rename or whose config has no oauth api_url, a
  binding of cluster-admin without a subject. The models have them all; the
  liveness properties are about histories in which the input goes away, and say
  that the operator is back then. `RecoversFromPanic` is that for the cluster loop.
* Data sources in two namespaces delete each other (`datasource_controller.go:131`
  lists one namespace, and everything else in Grafana is undeclared). `AllShown` is
  about one namespace; `ShownAgain` says what is left with two: each is shown again
  and again. A name that a data source with another declared url occupies stays
  occupied (`Blocked`).
* `excused`, `metBefore`, `unserved` (`FolderAccess`): nothing there is retried. A
  dashboard is excused from the time a call of its submission fails, somebody's
  request for a key fails just before its list is sent, its annotation is edited,
  or another dashboard of the folder with other users comes later, until its users
  are sent again. Who got an account otherwise never becomes an administrator. A
  dashboard for a namespace is unserved when its own creation failed or its
  annotation, or the namespace's, was edited. The instance has one for each
  namespace: that a failed creation leaves the other one alone is in the module and
  not in the run. An annotation that names somebody without a name (`"ann,"`), whose
  list Grafana refuses for good, is left out by `AnnotationAssumption`.
* `HashDecides` and `SourceReaches` leave config maps out, because the hash does: a
  changed config map is not noticed until something else makes the dashboard be
  submitted. For the same reason they accept what another spec says that has the same
  uid and whose fields, run together, read the same (`Told`): nobody notices such an
  edit until then.

## 4. Where the code and what is said of it differ

Each of these is a run that ends in a counterexample.

* **`DocMove`** (`controller_config.go:97`). "simply remove or add the
  `CustomFolderName` field value from the dashboard spec, this will update the hash
  of the dashboard on the next reconcile loop, and re-add the dashboard to the
  desired folder" (documentation/dashboards.md:200). The ticker and a watch worker
  both found no reference with the uid, the older pass submits last and appends
  the second reference. `findHash` finds the first one, whose hash is current: the
  dashboard stays in the old folder.
* **`DocNamespaces`** (`controller_config.go:184`). "The operator can import
  dashboards from either one, some or all namespaces"
  (documentation/multi_namespace_support.md:12). Each reconciler has the resources
  of its namespace in its cache and the whole known list from `GetDashboards`,
  which ignores the namespace: it deletes the dashboards of the others, who submit
  them again.
* **`DocPriority`** (`dashboard_pipeline.go:142`). "The dashboard fetch priority by
  parameter is: url > configmap > json > jsonnet." (documentation/dashboards.md:19).
  While the url does not answer, a dashboard submitted after a restart takes its
  contents from the config map and its hash from `spec.json`, which has the url's.
  When the url answers again the hash is known, and the config map stays.
* **`DocRestart`** (`clusterActions.go:155`). "When the config object in the
  `Grafana` CR is modified, the `grafana.ini` will be automatically updated and
  Grafana will be restarted." (documentation/deploy_grafana.md:160). An update that
  conflicts counts as done, and Kubernetes writes to the deployment all through a
  rollout: the config map is updated, the deployment's hash is not, the pod starts
  with the new file and the old hash. When the config is changed back meanwhile,
  file and hash agree again, and the pod runs with the other file.

Met while modelling, without a run: the check of the label selectors in a pass is
commented out (`grafanadashboard_controller.go:285`), so that the ticker submits
also dashboards that documentation/dashboards.md:81 says are not discovered; the
comment that fetched contents save the fetching (`dashboard_pipeline.go:217`),
while every pass fetches; a uid in a config map or a jsonnet result is not used,
since UID() looks in `spec.json`; grafana.com's answer is taken whatever its
status; with two goroutines the plugin map and the indices found without the lock
do lead to panics (`PluginMapRace`, `AddOutOfRange` and `RemoveOutOfRange` happen in
`SyncThreads`, and the operator restarts); json null and a uid that is no string crash
it again and again (`dashboard_pipeline.go:94`, `grafanadashboard_types.go:140`); the
error of a first attempt outlives the second one, which succeeded
(`grafanadashboard_controller.go:340`); a text moved from json to jsonnet goes
unnoticed, since Hash() runs its fields together; documentation/datasources.md:10
speaks of a list of data sources in a resource, whose first one alone decides on what
is submitted and deleted; `VersionsOf` counts entries, so that two dashboards which agree
on a newer version of a plugin never get it; "Don't attempt to install plugins that
failed to install previously" (`pluginsHelper.go:106`) is kept for one change only,
as `FailuresForgotten` below proves: with two plugins that cannot be had, a
reconcile tries the one and the next the other, each forgets what failed before, and
every one of them has all dashboards imported again.

Likewise, on the other parts: an edited list of users is not sent until something
else makes the dashboard be submitted, as the hash leaves annotations out; each
submission of a dashboard without the annotation makes one more account with a
random login; who has an account already never becomes an administrator
(`grafana_controller.go:501`); with two goroutines and two resources in one
namespace, the index of a channel found without the lock may be overwritten through
the pointer, which keeps the other channel's name, and the pass that withdraws that
name then deletes the channel that is still declared (`DeletesOwn` below, which
one goroutine keeps); six fields of the config are never written to
`grafana.ini`, though the API has them (`Users.DefaultTheme`,
`Auth.LoginMaximumInactiveLifetimeDuration`, `Auth.LoginMaximumLifetimeDuration`,
`AuthGitlab.AllowedGroups`, `Live.MaxConnections`, `Live.AllowedOrigins`);
`main.go` starts the Grafana controller with SetupWithManager and not with `add`,
so that nobody receives from the detector's channel and its goroutine blocks; a
resource that takes over the uid of another one takes over its reference as well,
and the plugins of the first one stay in the map for good (`UidsApart` below
excludes that).

## 5. What is proved

The theorems hold for every value of the constants that satisfies the assumptions
of the modules (`ASSUME`, which the runs evaluate too): any number of goroutines,
resources, users, faults and disturbances, unless the table says otherwise.

| module | theorem | about | assumption |
|---|---|---|---|
| DashboardSyncProofs | `TypeCorrect` | TypeOK | none |
| | `UniqueUidsHolds`, `RefsTellTruthHolds`, `TrackedHolds`, `EmptyFolderOnlyHolds` | UniqueUids, RefsTellTruth, Tracked, EmptyFolderOnly | one goroutine |
| | `PluginsTrackedHolds` | PluginsTracked | one goroutine, no Cleanup, uids apart |
| | `DeletionsHaveCause` | DeletedForCause, for any number of goroutines | uids apart |
| | `OneWorkerWithdraws` | no folder takes a dashboard the operator can vouch for | one goroutine, uids apart |
| | `LedgerImplemented` | KeepsLedger: DashboardSync implements DashboardLedger | one goroutine |
| | `LedgerKept`, `ListIsLedger` | the ledger's own invariant, and that the known list has it | none; one goroutine |
| NotificationChannelsProofs | `TypesKept` | TypeOK | none |
| | `ReferencesTellTruth` | RefsTellTruth | one goroutine, or one resource in each namespace |
| | `DeletionsOwn` | a pass deletes the channels of the resource it did not find only | one goroutine, or one resource in each namespace |
| ClusterReconcileProofs | `TypesKept`, `OneVersionKept` | TypeOK, OneVersion | none |
| | `FilterPicksOneVersion` | what FilterPlugins computes for any lists | none |
| | `PluginsSettle` | a change of the plugins is followed by one more at most | the requests stay, all plugins can be had |
| | `FailuresForgotten` | a plugin that failed is tried again after any change | none |
| DashboardPipelineProofs | `TypeCorrect`, `HashDecidesHolds` | TypeOK, HashDecides | none |
| DatasourcesProofs | `TypesKept`, `SettledKept` | TypeOK, Settled | none |
| | `RemovalsFirst` | nothing is overwritten, only the undeclared is removed | none |
| FolderAccessProofs | `TypesKept`, `ListWholeKept` | TypeOK, ListWhole | none |
| GrafanaControllerProofs | `TypesKept` | TypeOK | none |

### Loops and slices

`GoSlicesProofs` has the lemmas the others rest on. The loops of the code are
recursive functions on the indices of a list; `Iterated` says that such a function
exists, with the type its steps keep, and `StepByStep` that what holds at the start
and is kept at each index holds at the end. Both come from the least exception there
would be, because NaturalsInduction's theorems, which take an operator, cannot be used
here. `AmongSteps`, `AmongOK` and `JoinedUp` are about the loops that filter a list
and that put lists together. The lemmas about slices say that appending, replacing
and dropping give a slice, and that a reader still finds a reference in every cell
it looks at after each of them.

### Dashboards

`TypeOK` is inductive as it stands, because it says of a pass what its next step
needs: that a resource in hand is on the list, that a reference in hand is one,
and that a view is a slice without empty cells. The last part is what is delicate:
a goroutine that reads a namespace's list shares the array with the writers, whose
swaps and removals must not leave a gap within the length that the reader
remembers.

The four invariants are not inductive, neither one by one nor together. `Safe`
adds what a goroutine relies on between two of its steps:

* `SlotRight`: the index found without the lock is still that of the uid, or there
  still is none. Without it, AddDashboard could enter a uid twice.
* `SubmittedTruth`: what is about to be entered is what Grafana holds. Without it,
  `RefsTellTruth` would not survive AddDashboard.
* `DeletedTruth`: a reference about to be dropped is of a dashboard that is gone,
  or unsure. Without it, `Tracked` would not survive RemoveDashboard.

All three need that nobody else writes in between: this is where one goroutine is
assumed (`OneWorker`), and where two break it, as `DocMove` shows. Each action has
a lemma that says it preserves `Safe`; most change nothing `Safe` speaks of
(`NeutralSafe`).

`PluginsTrackedHolds` assumes that no two resources ever have the same uid
(`UidsApart`). The plugin map and the list are changed at different times, so the
invariant follows a pass: what it sees has not left the list (`PassTracked`), plugins
go before the reference does, and a reference that is overwritten has the same
resource, since the uids are apart.

`DeletionsHaveCause` is the safety property of the contents that survives any
number of goroutines. When a pass starts, it sees the slice of its namespace, and
until a reference's turn comes, others overwrite, swap and blank the cells it still
has to look at. What they cannot do is take a reference apart: each carries the name
and the uid of one resource, in every cell of every array, in every view and in every
hand (`OwnOnly`). So the uid a pass withdraws is always that of the name it did not
find, and as the uids are apart (`UidsApart`) no resource it did find has it.
`OneWorkerWithdraws` adds that a folder which is removed is empty but for `unsure`
dashboards, from `EmptyFolderOnly`; with two goroutines the other one may submit a
dashboard to the folder between the look and the removal, and a dashboard may go
with its folder.

`LedgerKept` says what the ledger promises: one entry for each uid, none lies, none
is missing. Its invariant is inductive at once. `LedgerImplemented` shows that
`DashboardSync` with one goroutine implements it: a step of a pass that touches
neither Grafana nor the list nor a pending uid is a stutter (`NeutralRefines`); the
others map to one action each. It needs `Safe`: AddDashboard is a `Record` only if
the index is that of the uid and what it enters is what Grafana holds. `ListIsLedger`
puts the two together: what the ledger promises is true of the known list.

### Notification channels

`TypeOK` needs more than it says here, since the registry has a slice for each
namespace and passes hold pointers into a heap that grows under them. `Typed` adds
that a pass reads the array of a namespace in place only if it was started for that
one namespace, and is in step with its writers then (`ViewOK`); a pass for all
namespaces has a copy.

`Consistent` is behind `RefsTellTruth`. A pass between its call and the write to the
registry touches one uid (`Touches`), and the invariant says of it:

* `Sent`, `Withdrawn`: Grafana holds what it submitted, or nothing, and the uid has
  no second reference; or the uid is unsure.
* `SlotRight`: under the lock, the index is that of the channel.
* `Apart`: two passes that touch the same uid have made it unsure. That is the part
  that RefsTellTruth's exception for passes under way hides: without it the first of
  the two to finish would uncover what the second one overwrites.
* `Truth`: each reference is right, or its uid is unsure or touched. `Named` and
  `Placed` say that a reference has the uid of its resource and is in the slice of its
  namespace.

`SlotRight` is where the assumption is used. The map is searched without the lock, so
that another pass for the same namespace may have moved the reference. With one
resource in each namespace every reference of the slice is that resource's, and who
writes the slice touches its uid: two passes that race for it have made it unsure, and
otherwise nobody else has written. With two goroutines
and two resources in one namespace `RefsTellTruth` does not hold: the index found for
the second resource has become that of the first one's reference when the lock is taken,
and the uid and the hash of one channel are written over the reference of the other.
The dashboards have that race, too.

`DeletionsOwn` follows from the same invariant: `Named` says that a reference has the
uid of its resource, which is the uid a pass deletes when it does not find the name.
It is stated in the proof module only. The race above breaks it: the reference then
has the name of one resource and the uid of another one (TLC needs 24 steps with two
resources in one namespace). The dashboards are spared, because AddDashboard makes a new reference
where AddNotificationChannel writes through the pointer to the old one.

### The cluster

`OneVersion` is about three lists, of which each is a copy of another one: the status
is written at the end of a loop that may have planned it long before, the deployment
is updated in the middle of it, the pod starts at any time, and conflicts and crashes
leave each of them with what it had. The invariant `Typed` therefore says of every
place a list can be in, the caches and the actions still to be run included, that it
has one version of each plugin. The source of all of them is FilterPlugins, of which
`FilterPicksOneVersion` says that it makes such a list of any requests: both tests by
which its loop lets a plugin in ask that no version of it is on the new list yet,
which alone is enough (`FilteredOK`), also where `PickLatestVersions` leaves two
versions because neither can be parsed. What the plugin site then takes away leaves
one version of each (`AmongOneVersion`).

`PluginsSettle` is about a row of reconciles. `FilteredPicks` says exactly what the loop
makes of a list: it takes what is eligible (not failed, and installed, or of a new
name, or the only entry of its name), one version of each, and misses no name of which
something is eligible. Once FilterPlugins has made a change, what is installed is
among the latest requests (`FilterChosen`). From then on only a new name is a change
(`ChangeIsNew`, since the only entry of a name that is installed is the installed
one), every missing name comes in at the next change (`NothingNewLeft`), and none goes
(`NamesKept`). The order in which the Go map of dashboards is gone through does not
matter, because all that is used is which elements a list has (`LatestElements`,
`OrdersElements`); in which of two unparsable versions it ends does depend on it. That a
second change can happen, TLC shows on lists of three. `FailuresForgotten` is the
other side: with plugins that are missing there is no such end.

Along with `OneVersion` goes what `TypeOK` needs of a plan:
each action is on an object the operator knows, and the service to be deleted has a
name, because `Differs` asks for one that the status remembers.

### The others

The invariant `Typed` of `DashboardPipelineProofs` adds what a pass has in hand
(`InHand`): the contents it is about to save are those of the copy, and the copy's
hash stands for the contents it is about to submit. That is where the code could go
wrong: each of the five sources, the fallback after a failed fetch or a save that
conflicts, and the second attempt after the look at Grafana obtain contents in a
different way, and all of them have to leave contents and copy in agreement. The
assumptions on the constants say that a document is no mark of absence, that a
snippet evaluates to a document or fails, and that json, as jsonnet, evaluates to
itself. Of a hash that several specs share, `HashDecides` says that Grafana shows what
one of them says; if one of them has a config map, it says nothing.

`DatasourcesProofs`: `Settled` speaks of the moment at which nothing is left to do,
so the invariant says of every earlier one who is going to see to a resource: it is up
to date in the pass under way (`UpToDate`), or still in the queue, or was answered.
What Grafana was seen to have is still there, since a pass deletes only what no
resource of its list declares (`StillThere`, `OnlyStrays`), and who is not shown is
waiting or has a message (`AllCaredFor`).

`FolderAccessProofs`: a goroutine puts its list together over many calls, while the
others make accounts and administrators and ask for keys. The invariant (`Fits`) says
of every step: each user of the dashboard is on the list, is an administrator, or is
still to be looked for; or one is unknown, and then Grafana will refuse the list as a
whole. That administrators stay so is what is needed of the others; the key decides
only whether the list arrives.

`GrafanaControllerProofs`: what is not a matter of types in `TypesKept` is that the
channel has one value at most, and exactly those consumers wait for one that have none
in hand, each once (receivers queue in order of arrival).

### Only model-checked

All liveness properties: the prover does not reason about fairness or ENABLED here.
On dashboards with two goroutines the proofs say no more than `TypeCorrect` and
`DeletionsHaveCause`, because the invariants do not hold then; `SyncThreads` checks the
latter together with `AllShown`, which is liveness. The channels' `RefsTellTruth` with
two goroutines and several resources in a namespace does not hold either:
`ChannelsConverge` has two resources in two namespaces.

## 6. Not modelled

* The actions that export secrets and config maps as environment variables of the
  operator (getEnvVarsDesiredState): they write to the process and nothing in the
  models reads that. `preferService`, which selects one of two urls.
* Jsonnet: libraries are copied to files, snippets compiled; what a snippet
  evaluates to is a constant of `DashboardPipeline`.
* Rendering: the text of `grafana.ini`, labels, probes, volumes. Configurations are
  values, and different ones have different hashes.
* `dataSourcesState.go` and `datasource_pipeline.go`, which nothing calls, generated
  deep copies, helpers that read files, environment variables and the discovery
  API.
* Torn reads: of `ref.state` and the key, which their writers and readers do not
  synchronise. A value is read as one that was written.
* Namespaces that go away; the number of accounts without an address, which only
  grows.
* A dashboard whose uid changes: `Uid` depends on the contents in `DashboardSync`,
  and the proofs allow it, but its runs keep it fixed. `DashboardPipeline` has it for
  one resource.

## 7. Plan

What is left, in the order of what it would add:

1. A run of `DashboardSync` with uids that change: an old dashboard that keeps a
   reference under a name that still exists is never deleted, which needs its own
   exception in `NoStrays`.
2. The last action property of who may change what: when the status of the Grafana
   resource forgets a service that is still there.
3. A weaker `RefsTellTruth` for dashboards and channels with several goroutines
   and several names in a namespace, with the races as its exceptions.
4. Environment variables in the cluster loop, with their part in readiness.
5. A run of `FolderAccess` with both dashboards of a namespace, which today exceeds
   what TLC checks in minutes beside two lists that compete for the folder.
