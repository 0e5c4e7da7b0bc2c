--------------------------- MODULE ClusterReconcile ---------------------------
(***************************************************************************)
(* What a reconciliation of the Grafana resource does to the cluster          *)
(* (controllers/grafana/grafana_reconciler.go, controllers/common): it reads   *)
(* the cluster from the caches of its manager, plans a list of actions in a    *)
(* fixed order, runs them until one fails, and writes the status.  An update   *)
(* that conflicts, because the object changed after the cache saw it, counts   *)
(* as a success without having had an effect.                               *)
(*                                                                         *)
(* GrafanaController models what the controller then publishes; here is what  *)
(* becomes of the objects, the status and the running Grafana.              *)
(***************************************************************************)
EXTENDS Plugins

CONSTANTS
    Configs,      \* contents of spec.config, and of the grafana.ini made of it
    NoOauth,      \* those without auth.generic_oauth, or without a host in its api_url
    Names,        \* names spec.service can give the service
    DefaultName,  \* the name without one
    NoName,       \* a spec.service without a name
    NoService,    \* no spec.service
    Created,      \* the specs the resource can be created with
    Skip,         \* the objects the spec tells the operator not to make
    Clusters,     \* the kinds of cluster: "kubernetes", "openshift"
    Requests,     \* the plugins of dashboards: [by, name, version]
    Lagging,      \* the objects whose cache can be behind
    Disturbances, \* what can happen around the controller, and how calls fail
    MaxDisturb,   \* bound on all of them together
    Absent

ASSUME NameAssumption == NoService \notin Names \cup {NoName} /\ NoName \notin Names
ASSUME CreatedAssumption == Created \subseteq [config : Configs, service : Names \cup {NoName, NoService}, external : BOOLEAN]
ASSUME ClusterAssumption == Clusters \subseteq {"kubernetes", "openshift"}
ASSUME ConfigAssumption == Configs # {} /\ Absent \notin Configs
ASSUME BoundAssumption == IsFiniteSet(Requests) /\ MaxDisturb \in Nat

ServiceSpecs == Names \cup {NoName, NoService}
Services == Names \cup {DefaultName}
Plain == {"secret", "volume", "account", "datasources"}
Doors == {"ingress", "route"}
Objects == Plain \cup Services \cup Doors \cup {"config", "deployment"}
\* "cr" stands for the resource itself.
ASSUME ObjectAssumption == "cr" \notin Objects /\ Lagging \subseteq Objects \cup {"cr"}

PluginSet == { [name |-> r.name, version |-> r.version] : r \in Requests }
Statuses == [phase : {"none", "failing", "reconciling"}, previous : Services \cup {Absent},
             installed : Seq(PluginSet), failed : Seq(PluginSet)]

VARIABLES
    cr,         \* the Grafana resource in the API server, spec and status
    api,        \* the objects in the API server
    seenCr,     \* the resource as the cache has it
    cache,      \* the objects as the cache has them
    behind,     \* the objects, or "cr", whose cache is behind
    platform,   \* what kind of cluster it is
    detected,   \* the config item ConfigOpenshift
    job,        \* the loop that is under way
    pod,        \* the running Grafana: with what it was started
    wanted,     \* the plugins the dashboards ask for at present
    requests,   \* those the dashboard reconciler has entered in ControllerConfig
    panicked,   \* the process died
    orphans,    \* history: what the operator no longer knows it made
    disturbed   \* number of faults and disturbances so far

cluster == <<cr, api, seenCr, cache, behind>>
vars == <<cluster, platform, detected, job, pod, wanted, requests, panicked, orphans, disturbed>>

NoStatus == [phase |-> "none", previous |-> Absent, installed |-> <<>>, failed |-> <<>>]
IdleJob == [pc |-> "idle", status |-> NoStatus, actions |-> <<>>, stale |-> {}, url |-> FALSE]
NoPod == [hash |-> Absent, plugins |-> <<>>, config |-> Absent]

Init == /\ \E c \in Created : cr = [config |-> c.config, service |-> c.service,
                                      external |-> c.external, status |-> NoStatus]
        /\ seenCr = cr
        /\ api = [o \in Objects |-> Absent] /\ cache = api
        /\ behind = {}
        /\ platform \in Clusters /\ detected = FALSE
        /\ job = IdleJob
        /\ pod = NoPod
        /\ wanted = {} /\ requests = {}
        /\ panicked = FALSE
        /\ orphans = {}
        /\ disturbed = 0

-----------------------------------------------------------------------------
(* What a step is made of.                                                  *)

At(pc) == ~panicked /\ job.pc = pc
Undisturbed == disturbed' = disturbed
Disturbance(kind) == kind \in Disturbances /\ disturbed < MaxDisturb /\ disturbed' = disturbed + 1
Call(outcome) == IF outcome = "ok" THEN Undisturbed ELSE Disturbance(outcome)

\* An object changes in the API server: a loop that has read it is out of date,
\* and so is the cache until it catches up.
Changed(o, value) ==
    /\ api' = [api EXCEPT ![o] = value]
    /\ IF o \in Lagging THEN behind' = behind \cup {o} /\ cache' = cache
       ELSE behind' = behind /\ cache' = [cache EXCEPT ![o] = value]
    /\ UNCHANGED <<cr, seenCr>>

ChangedCr(resource) ==
    /\ cr' = resource
    /\ IF "cr" \in Lagging THEN behind' = behind \cup {"cr"} /\ seenCr' = seenCr
       ELSE behind' = behind /\ seenCr' = resource
    /\ UNCHANGED <<api, cache>>

ServiceName(c) == IF c.service \in Names THEN c.service ELSE DefaultName

-----------------------------------------------------------------------------
(* Planning: GrafanaReconciler.Reconcile, on what the cache has.             *)

\* What an object holds: a configuration or its hash, plugins, and what Kubernetes
\* reports about it.  What else the builders in controllers/model write into the
\* objects no other part of the system looks at.
Made == [config |-> Absent, plugins |-> <<>>, ready |-> TRUE]
ConfigFile(c) == [Made EXCEPT !.config = c.config]
NewIngress == [Made EXCEPT !.ready = FALSE]
Template(hash, plugins) == [Made EXCEPT !.config = hash, !.plugins = plugins]

MakeOver(there, o, value) == <<[op |-> IF there = Absent THEN "create" ELSE "update", obj |-> o, value |-> value]>>
Make(o, value) == MakeOver(cache[o], o, value)
MakeUnlessSkipped(o) == IF o \in Skip THEN <<>> ELSE Make(o, Made)
Remove(o) == <<[op |-> "delete", obj |-> o, value |-> Absent]>>
Check(ready) == <<[op |-> "check", obj |-> "deployment", value |-> ready]>>

\* The service there is is not the one the status remembers.  Only then is
\* spec.service.name read, without a look at spec.service; an empty name is not
\* valid and leaves both services as they are.  The host of the oauth api_url is
\* taken without a look too.
Differs(c) == cache[ServiceName(c)] # Absent /\ c.status.previous \notin {Absent, ServiceName(c)}
Dereferences_AnyChange(c) == c.config \in NoOauth \/ Differs(c)  \* mutant: every other service does it
Dereferences(c) == c.config \in NoOauth \/ (Differs(c) /\ c.service = NoService)
IsObsolete(c) == Differs(c) /\ c.service \in Names

\* What the status remembers after this loop, whatever becomes of the deletion.
Previous_Early(c) == ServiceName(c)  \* mutant: the new name is noted at once
Previous_SpecName(c) ==  \* mutant: what spec.service says is noted, not the name it stands for
    IF cache[ServiceName(c)] # Absent THEN c.service ELSE c.status.previous
Previous(c) ==
    CASE IsObsolete(c) -> Absent
      [] cache[ServiceName(c)] # Absent /\ c.status.previous = Absent -> ServiceName(c)
      [] OTHER -> c.status.previous

ServiceActions(c) == IF IsObsolete(c) THEN Remove(c.status.previous)
                     ELSE Make(ServiceName(c), Made)

\* The config map of the data sources is created and then left to others.
DatasourceActions == IF cache["datasources"] = Absent
                     THEN Make("datasources", Made) ELSE <<>>

ConfigActions_Once(c) ==  \* mutant: an existing config map is left alone
    IF cache["config"] = Absent THEN Make("config", ConfigFile(c)) ELSE <<>>
ConfigActions(c) == Make("config", ConfigFile(c))

\* Whether the operator takes the cluster for OpenShift.  The config item is asked
\* when the cluster is read, for the way in, and for the checks, and detectRoute may
\* set it in between, or only after the loop ("late").  It then sends what it found
\* to a channel with room for one, which nobody reads: 5 seconds later it sets the
\* item again and blocks.
Views == { v \in [read : BOOLEAN, way : BOOLEAN, checks : BOOLEAN] :
              /\ (v.read => v.way) /\ (v.way => v.checks) /\ (v.checks => platform = "openshift")
              /\ detected => v.read }
Late(v) == platform = "openshift" /\ ~v.read

Door(openshift) == IF openshift THEN "route" ELSE "ingress"
Read(v, o) == IF o = Door(v.read) THEN cache[o] ELSE Absent

AccessActions_Updates(c, v) ==  \* mutant: a way in is not made where there is none
    LET door == Door(v.way)
        there == Read(v, door)
    IN  CASE there = Absent -> <<>>
          [] c.external /\ there # Absent -> MakeOver(there, door, IF v.way THEN Made ELSE NewIngress)
          [] OTHER -> Remove(door)
AccessActions(c, v) ==
    LET door == Door(v.way)
        there == Read(v, door)
    IN  CASE c.external -> MakeOver(there, door, IF v.way THEN Made ELSE NewIngress)
          [] ~c.external /\ there # Absent -> Remove(door)
          [] OTHER -> <<>>

DeploymentActions_KeepsPlugins(c, hash, plugins) ==  \* mutant: an existing deployment keeps its plugins
    Make("deployment", Template(hash, IF cache["deployment"] = Absent THEN <<>>
                                      ELSE cache["deployment"].plugins))
DeploymentActions(c, hash, plugins) ==
    Make("deployment", Template(hash, IF cache["deployment"] = Absent THEN <<>> ELSE plugins))

\* The checks look at what was read before the actions ran.
Ready(object) == object # Absent /\ object.ready
ReadyActions(c, v) == (IF c.external THEN Check(Ready(Read(v, Door(v.checks)))) ELSE <<>>)
                      \o Check(Ready(cache["deployment"]))

\* getGrafanaAdminUrl finds the route, an ingress with an address, or the service.
HasUrl(c, v) == Ready(Read(v, Door(v.read))) \/ cache[ServiceName(c)] # Absent

\* FilterPlugins and reconcilePlugins: the plugin site is asked for each plugin.
Orders(S) == { f \in [1..Cardinality(S) -> S] : \A i, k \in DOMAIN f : f[i] = f[k] => i = k }
PluginsOf(order) == [i \in DOMAIN order |-> [name |-> order[i].name, version |-> order[i].version]]
Requested == { PluginsOf(order) : order \in Orders(requests) }

PluginExists(p, missing) == p.name \notin missing
NewPlugins(status, filter, missing) ==
    IF filter.updated
    THEN [installed |-> Among(filter.list, { p \in PluginSet : PluginExists(p, missing) }),
          failed |-> Among(filter.list, { p \in PluginSet : ~PluginExists(p, missing) })]
    ELSE [installed |-> status.installed, failed |-> status.failed]

Plan ==
    LET c == seenCr IN
    /\ At("idle") /\ ~Dereferences(c)
    /\ UNCHANGED <<cluster, platform, pod, wanted, requests, panicked, orphans>>
    /\ \E requested \in Requested, missing \in {{}} \cup { {r.name} : r \in Requests }, v \in Views :
        LET filter == FilterPlugins(c.status.installed, c.status.failed, requested)
            plugins == NewPlugins(c.status, filter, missing)
            planned == [c.status EXCEPT !.previous = Previous(c),
                                        !.installed = plugins.installed, !.failed = plugins.failed]
        IN  /\ missing # {} => filter.updated /\ ~Late(v)
            /\ Call(CASE missing # {} -> "no plugin" [] Late(v) -> "late" [] OTHER -> "ok")
            /\ job' = [pc |-> "run", status |-> planned, stale |-> behind,
                       actions |-> MakeUnlessSkipped("secret") \o ServiceActions(c)
                                   \o MakeUnlessSkipped("volume") \o MakeUnlessSkipped("account")
                                   \o ConfigActions(c) \o DatasourceActions \o AccessActions(c, v)
                                   \o DeploymentActions(c, c.config, plugins.installed) \o ReadyActions(c, v),
                       url |-> HasUrl(c, v)]
            /\ detected' = v.checks

PanicPlanning ==
    /\ At("idle") /\ Dereferences(seenCr)
    /\ panicked' = TRUE
    /\ UNCHANGED <<cluster, platform, detected, job, pod, wanted, requests, orphans, disturbed>>

-----------------------------------------------------------------------------
(* Running the actions: ClusterActionRunner.                                *)

\* Whether an action that reaches the API server fails there.
Fails(a) == CASE a.op = "create" -> api[a.obj] # Absent
              [] a.op = "check"  -> ~a.value
              [] OTHER           -> api[a.obj] = Absent

\* An update leaves what Kubernetes reports about the object alone.
Result(a) == CASE a.op = "delete" -> Absent
               [] a.op = "create" -> a.value
               [] OTHER           -> [a.value EXCEPT !.ready = api[a.obj].ready]

HasEffect(a) == /\ a.op # "check" /\ api[a.obj] # Result(a)
                /\ a.op = "update" => a.obj \notin job.stale

\* The deletion of a service that the new status has forgotten does not happen.
Forgotten(actions) == { actions[i].obj : i \in { k \in DOMAIN actions : actions[k].op = "delete" } } \cap Services

\* On OpenShift nobody looks at ingresses again once it is detected.
Mistaken(a) == IF platform = "openshift" /\ a.op = "create" /\ a.obj = "ingress" THEN {"ingress"} ELSE {}

RunAction ==
    \E outcome \in {"ok", "err"} :
        LET a == Head(job.actions)
            failed == outcome = "err" \/ Fails(a)
        IN  /\ At("run") /\ job.actions # <<>>
            /\ Call(outcome)
            /\ IF ~failed /\ HasEffect(a) THEN Changed(a.obj, Result(a)) ELSE UNCHANGED cluster
            /\ job' = [job EXCEPT !.pc = IF failed THEN "failed" ELSE "run",
                                  !.actions = IF failed THEN <<>> ELSE Tail(@),
                                  !.stale = IF failed THEN @ \cap {"cr"} ELSE @ \ {a.obj}]
            /\ orphans' = orphans \cup IF failed THEN { s \in Forgotten(job.actions) : api[s] # Absent }
                                    ELSE Mistaken(a)
            /\ UNCHANGED <<platform, detected, pod, wanted, requests, panicked>>

\* Both ends compare the status with that of the cached resource and write it
\* if it differs, which fails when the resource has changed.
WriteStatus(status) ==
    IF "cr" \in job.stale THEN UNCHANGED cluster ELSE ChangedCr([cr EXCEPT !.status = status])

ManageSuccess ==
    LET status == [job.status EXCEPT !.phase = "reconciling"]
        differs == status # seenCr.status
        fails == (differs /\ "cr" \in job.stale) \/ ~job.url
    IN  /\ At("run") /\ job.actions = <<>>
        /\ IF differs THEN WriteStatus(status) ELSE UNCHANGED cluster
        /\ job' = IF fails THEN [job EXCEPT !.pc = "failed"] ELSE IdleJob
        /\ UNCHANGED <<platform, detected, pod, wanted, requests, panicked, orphans, disturbed>>

ManageError ==
    LET status == [job.status EXCEPT !.phase = "failing"]
    IN  /\ At("failed")
        /\ IF status # seenCr.status THEN WriteStatus(status) ELSE UNCHANGED cluster
        /\ job' = IdleJob
        /\ UNCHANGED <<platform, detected, pod, wanted, requests, panicked, orphans, disturbed>>

-----------------------------------------------------------------------------
(* What happens around the controller.                                      *)

\* What the loop has read and still has to write is out of date.
ToWrite == {"cr"} \cup { job.actions[i].obj : i \in { k \in DOMAIN job.actions : job.actions[k].op = "update" } }
Stale(o) == job' = IF job.pc = "idle" THEN job ELSE [job EXCEPT !.stale = @ \cup ({o} \cap ToWrite)]

\* A renamed service whose name the status does not remember yet, or no longer
\* will, is nobody's from then on.
Unremembered == { s \in {ServiceName(cr)} : cr.status.previous # s }

ChangeSpec(resource, kind) ==
    /\ resource # cr /\ Disturbance(kind)
    /\ ChangedCr(resource) /\ Stale("cr")
    /\ orphans' = IF ServiceName(resource) = ServiceName(cr) THEN orphans ELSE orphans \cup Unremembered
    /\ UNCHANGED <<platform, detected, pod, wanted, requests, panicked>>

ChangeConfig == \E c \in Configs : ChangeSpec([cr EXCEPT !.config = c], "config")
Rename == \E s \in ServiceSpecs : ChangeSpec([cr EXCEPT !.service = s], "rename")
ChangeAccess == ChangeSpec([cr EXCEPT !.external = ~@], "access")

\* A dashboard begins or ceases to ask for its plugin, and in time its
\* reconciler enters that (SetPluginsFor, RemovePluginsFor).
WantPlugins(r) ==
    /\ Disturbance("plugins")
    /\ wanted' = IF r \in wanted THEN wanted \ {r} ELSE wanted \cup {r}
    /\ UNCHANGED <<cluster, platform, detected, job, pod, requests, panicked, orphans>>

Register(r) ==
    /\ ~panicked /\ (r \in wanted) # (r \in requests)
    /\ requests' = IF r \in wanted THEN requests \cup {r} ELSE requests \ {r}
    /\ UNCHANGED <<cluster, platform, detected, job, pod, wanted, panicked, orphans, disturbed>>

\* Somebody writes to an object what the operator does not look at.
Touch(o) ==
    /\ api[o] # Absent /\ job.pc # "idle" /\ o \in ToWrite \ job.stale /\ Disturbance("touch")
    /\ Stale(o)
    /\ UNCHANGED <<cluster, platform, detected, pod, wanted, requests, panicked, orphans>>

CatchUp(o) ==
    /\ o \in behind
    /\ behind' = behind \ {o}
    /\ IF o = "cr" THEN seenCr' = cr /\ UNCHANGED cache
       ELSE cache' = [cache EXCEPT ![o] = api[o]] /\ UNCHANGED seenCr
    /\ UNCHANGED <<cr, api, platform, detected, job, pod, wanted, requests, panicked, orphans, disturbed>>

\* Kubernetes replaces the pod after its template changed.  The pod reads the
\* config map when it starts, and only then.
RolledOut == api["deployment"] # Absent =>
    api["deployment"].config = pod.hash /\ api["deployment"].plugins = pod.plugins

Progress ==
    /\ ~RolledOut /\ api["deployment"].ready
    /\ Changed("deployment", [api["deployment"] EXCEPT !.ready = FALSE])
    /\ Stale("deployment")
    /\ UNCHANGED <<platform, detected, pod, wanted, requests, panicked, orphans, disturbed>>

Rollout ==
    /\ api["deployment"] # Absent /\ ~api["deployment"].ready /\ api["config"] # Absent
    /\ pod' = IF RolledOut THEN pod
              ELSE [hash |-> api["deployment"].config, plugins |-> api["deployment"].plugins,
                    config |-> api["config"].config]
    /\ Changed("deployment", [api["deployment"] EXCEPT !.ready = TRUE])
    /\ Stale("deployment")
    /\ UNCHANGED <<platform, detected, wanted, requests, panicked, orphans, disturbed>>

AssignAddress ==
    /\ api["ingress"] # Absent /\ ~api["ingress"].ready
    /\ Changed("ingress", [api["ingress"] EXCEPT !.ready = TRUE])
    /\ Stale("ingress")
    /\ UNCHANGED <<platform, detected, pod, wanted, requests, panicked, orphans, disturbed>>

\* The status survives, what the dashboards ask for has to be entered anew.
Restart ==
    /\ IF panicked THEN Undisturbed ELSE Disturbance("restart")
    /\ seenCr' = cr /\ cache' = api /\ behind' = {}
    /\ job' = IdleJob /\ requests' = {} /\ panicked' = FALSE /\ detected' = FALSE
    /\ UNCHANGED <<cr, api, platform, pod, wanted, orphans>>

Loop == Plan \/ PanicPlanning \/ RunAction \/ ManageSuccess \/ ManageError
Kubernetes == Progress \/ Rollout \/ AssignAddress

Next == \/ Loop \/ Kubernetes
        \/ ChangeConfig \/ Rename \/ ChangeAccess
        \/ \E r \in Requests : WantPlugins(r) \/ Register(r)
        \/ \E o \in Objects : Touch(o)
        \/ \E o \in Lagging : CatchUp(o)
        \/ Restart

\* The controller reconciles every RequeueDelay, the caches catch up, Kubernetes
\* rolls out, and the kubelet restarts a crashed operator.
Fairness == /\ WF_vars(Loop) /\ WF_vars(Progress \/ Rollout) /\ WF_vars(AssignAddress)
            /\ \A r \in Requests : WF_vars(Register(r))
            /\ \A o \in Lagging : WF_vars(CatchUp(o))
            /\ WF_vars(panicked /\ Restart)

Spec == Init /\ [][Next]_vars
FairSpec == Spec /\ Fairness

-----------------------------------------------------------------------------
(* Properties.                                                              *)

Values == {Absent} \cup [config : Configs \cup {Absent}, plugins : Seq(PluginSet), ready : BOOLEAN]
Specs == [config : Configs, service : ServiceSpecs, external : BOOLEAN, status : Statuses]

\* The types of the controller's state and of what it works on.
TypeOK ==
    /\ cr \in Specs /\ seenCr \in Specs
    /\ api \in [Objects -> Values] /\ cache \in [Objects -> Values]
    /\ behind \subseteq Lagging
    /\ \A o \in Objects \ behind : cache[o] = api[o]
    /\ platform \in Clusters /\ detected \in BOOLEAN
    /\ job.pc \in {"idle", "run", "failed"} /\ job.status \in Statuses
    /\ wanted \subseteq Requests /\ requests \subseteq Requests /\ panicked \in BOOLEAN
    /\ orphans \subseteq Services \cup {"ingress"} /\ disturbed \in 0..MaxDisturb

\* Neither the status nor the init container ever has a plugin in two versions,
\* or twice, whatever the dashboards ask for.
OneVersion ==
    /\ OneVersionEach(cr.status.installed) /\ OneVersionEach(pod.plugins)
    /\ api["deployment"] # Absent => OneVersionEach(api["deployment"].plugins)

Calm == <>[]~panicked

\* The operator dies of resources it could have been given, and again after every
\* restart, but no longer than they stay as they are.
RecoversFromPanic == <>[](cr.config \notin NoOauth /\ cr.service # NoService) => Calm

\* Once nothing disturbs it any more, the controller makes the objects what the
\* spec asks for, though it takes refused updates for successful ones.
SpecReached ==
    Calm => <>[](/\ api["config"] # Absent /\ api["config"].config = cr.config
                 /\ api["deployment"] # Absent /\ api["deployment"].config = cr.config
                 /\ api[ServiceName(cr)] # Absent)

\* Grafana can be reached from outside through what the cluster has for that, and
\* through nothing else, exactly if the spec says so, whenever detectRoute finds
\* out.  What stays is an ingress made on OpenShift before that.
AccessFits ==
    Calm => <>[](\A door \in Doors :
        IF door = Door(platform = "openshift") THEN api[door] # Absent <=> cr.external
        ELSE api[door] # Absent => door \in orphans)

\* A renamed service goes in the end, unless the operator lost its name: by a
\* failure in the loop that was to delete it, or by a second renaming.
ServicesClean ==
    Calm /\ <>[](cr.service # NoName) =>
        <>[](\A s \in Services : api[s] # Absent => s \in orphans \cup {ServiceName(cr)})

\* A plugin one dashboard alone asks for reaches the running Grafana, unless the
\* plugin site was once asked in vain.
PluginsReach ==
    Calm => <>[](\A r \in wanted :
        (\A q \in wanted : q.name = r.name => q = r) =>
            LET p == [name |-> r.name, version |-> r.version]
            IN  HasExactVersionOf(pod.plugins, p) \/ HasExactVersionOf(cr.status.failed, p))

\* A change of the config ends with a Grafana that was started with it.
RestartedWithConfig == <>[](pod.config = cr.config)
=============================================================================
