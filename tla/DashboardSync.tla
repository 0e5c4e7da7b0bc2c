---------------------------- MODULE DashboardSync ----------------------------
(***************************************************************************)
(* The dashboard reconciler (controllers/grafanadashboard): the passes that *)
(* bring the dashboards and folders of a Grafana instance in line with the  *)
(* GrafanaDashboard resources of the cluster.                               *)
(*                                                                         *)
(* A reconciler runs a pass in several goroutines at once: the ticker that   *)
(* SetupWithManager starts, and the workers of the two controllers it        *)
(* creates.  All of them, and the reconcilers of all watched namespaces,     *)
(* share one ControllerConfig.  A pass is cut into steps at every call to    *)
(* Grafana and at every place where the ControllerConfig is read without     *)
(* the lock that the following write takes.                                  *)
(***************************************************************************)
EXTENDS KnownDashboards, Sequences, FiniteSets

CONSTANTS
    Names,          \* the GrafanaDashboard resources: a namespace and a name each
    NsOf,           \* the namespace of each of them
    Jsons,          \* dashboard contents a resource can have
    InvalidJsons,   \* those that do not parse
    FatalJsons,     \* those that parse and crash the operator: null, or a uid that is no string
    Folders,        \* values of customFolderName
    PluginLists,    \* values of spec.plugins
    Populations,    \* the resources there can be together
    Uid,            \* UID(): from the resource and its json, Uid[n][json]
    ConsoleUids,    \* dashboards people create in the Grafana console
    Unmatched,      \* resources whose labels match no dashboardLabelSelector
    SelectedNs,     \* namespaces that dashboardNamespaceSelector selects
    Reconcilers,    \* one per watched namespace
    Scope,          \* the namespaces in the cache of each reconciler's manager
    ScanAll,        \* the reconciler was started for all namespaces ("")
    Threads,        \* the goroutines of a reconciler: Ticker and watch workers
    Ticker,
    FaultKinds,     \* how calls to Grafana can fail: "err", "lost", "503"
    Disturbances,   \* what else can happen around the reconcilers
    MaxDisturb,     \* bound on faults and disturbances together
    NoCR, Absent, NoPlugins, NoTitle, NoName

Workers == Reconcilers \X Threads
Namespaces == { NsOf[n] : n \in Names }
Specs == [json : Jsons, folder : Folders \cup {NoTitle}, plugins : PluginLists]
UIDs == { Uid[n][j] : n \in Names, j \in Jsons } \cup ConsoleUids

\* Hash() covers the contents, the namespace and customFolderName, and leaves
\* out the plugins and the uid a resource without one gets from its name.  It
\* runs its fields together; those a resource has here can be told apart all the
\* same, because what parses as json shows where it ends and the namespace of a
\* resource is fixed.  The fields that can be mistaken for one another are in
\* DashboardPipeline.
Hash(n, spec) == [json |-> spec.json, ns |-> NsOf[n], folder |-> spec.folder]
Hashes == [json : Jsons, ns : Namespaces, folder : Folders \cup {NoTitle}]

FolderName(n, spec) == IF spec.folder = NoTitle THEN NsOf[n] ELSE spec.folder

Refs == [name : Names, uid : UIDs, hash : Hashes \cup {NoHash}, fid : Nat,
         fname : Namespaces \cup Folders \cup {NoTitle}]

\* What a configuration has to provide.
ASSUME BoundAssumption == MaxDisturb \in Nat
ASSUME FaultAssumption == FaultKinds \subseteq {"err", "lost", "503"}
ASSUME ScanAssumption == ScanAll \in BOOLEAN
ASSUME ResourceAssumption ==
    /\ DOMAIN NsOf = Names
    /\ DOMAIN Uid = Names /\ \A n \in Names : DOMAIN Uid[n] = Jsons
ASSUME PopulationAssumption == Populations \subseteq [Names -> Specs \cup {NoCR}]
ASSUME ContentsAssumption == InvalidJsons \cap FatalJsons = {}
ASSUME NullAssumption ==
    /\ NoCR \notin Specs
    /\ Absent \notin [json : Jsons, folder : Nat]

VARIABLES
    crs,        \* the GrafanaDashboard resources in the API server
    dash,       \* Grafana: the dashboard stored under each uid
    folders,    \* Grafana: the title of folder 1, 2, ... (NoTitle: deleted)
    known,      \* ControllerConfig.Dashboards
    plugins,    \* ControllerConfig.Plugins
    synced,     \* the config item ConfigGrafanaDashboardsSynced
    ready,      \* r.state.GrafanaReady of each reconciler
    queue,      \* the work queue of each watch worker
    view,       \* the known dashboards as the pass of a goroutine sees them
    toDelete,   \* the references its pass still has to delete, by index
    job,        \* the rest of the pass each goroutine is in
    panicked,   \* the process died of a Go panic
    unsure,     \* history: uids of which the operator cannot know what Grafana has
    disturbed   \* number of faults and disturbances so far

grafana == <<dash, folders>>
config == <<known, plugins, synced>>
pass == <<view, toDelete, job>>
vars == <<crs, dash, folders, known, plugins, synced, ready, queue, view, toDelete, job,
          panicked, unsure, disturbed>>

NothingListed == [n \in Names |-> NoCR]
IdleJob == [pc |-> "idle", list |-> NothingListed, todo |-> {}, cur |-> NoName,
            ref |-> NoRef, fid |-> 0, slot |-> 0]
NothingToDelete == [i \in {} |-> NoRef]

Init == /\ crs \in Populations
        /\ dash = [u \in UIDs |-> Absent]
        /\ folders = <<>>
        /\ known = EmptySlice
        /\ plugins = [n \in Names |-> NoPlugins]
        /\ synced = FALSE
        /\ ready = [r \in Reconcilers |-> FALSE]
        /\ queue = [w \in Workers |->
                     IF w[2] = Ticker THEN {}
                     ELSE { n \in Names : crs[n] # NoCR /\ NsOf[n] \in Scope[w[1]] }]
        /\ view = [w \in Workers |-> NoView]
        /\ toDelete = [w \in Workers |-> NothingToDelete]
        /\ job = [w \in Workers |-> IdleJob]
        /\ panicked = FALSE
        /\ unsure = {}
        /\ disturbed = 0

-----------------------------------------------------------------------------
(* What one step of a pass is made of.                                      *)

At(w, pc) == ~panicked /\ job[w].pc = pc
Become(w, j) == job' = [job EXCEPT ![w] = j] /\ UNCHANGED <<view, toDelete>>
Idle(w) == /\ job' = [job EXCEPT ![w] = IdleJob]
           /\ view' = [view EXCEPT ![w] = NoView]
           /\ toDelete' = [toDelete EXCEPT ![w] = NothingToDelete]
Undisturbed == disturbed' = disturbed

\* A call to Grafana is answered ("ok"), fails without effect ("err"), takes
\* effect but its answer is lost ("lost"), or is answered 503 ("503").
Call(outcome) ==
    \/ outcome = "ok" /\ Undisturbed
    \/ /\ outcome \in FaultKinds
       /\ disturbed < MaxDisturb
       /\ disturbed' = disturbed + 1
Outcomes == {"ok"} \cup FaultKinds

\* continue: on to the next dashboard of the pass.
Continue(w) == Become(w, [job[w] EXCEPT !.pc = "next", !.cur = NoName, !.ref = NoRef,
                                        !.fid = 0, !.slot = 0])

Panic == panicked' = TRUE /\ UNCHANGED <<crs, grafana, config, ready, queue, pass, unsure, disturbed>>

\* RemovePluginsFor deletes from the plugin map without the lock.  The Go
\* runtime may abort the process when another goroutine is in that map.
UsesPlugins(w) == job[w].pc = "plug"
PluginMapRace(w) == \/ "collect" \in Disturbances
                    \/ \E v \in Workers \ {w} : UsesPlugins(v)

FolderExists(fid) == fid \in DOMAIN folders /\ folders[fid] # NoTitle
TitleExists(title) == \E i \in DOMAIN folders : folders[i] = title
FolderId(title) == CHOOSE i \in DOMAIN folders : folders[i] = title

-----------------------------------------------------------------------------
(* Reconcile and the first lines of reconcileDashboards.                    *)

StartPass(w, allNamespaces) ==
    /\ view' = [view EXCEPT ![w] = GetDashboards(known, allNamespaces)]
    /\ job' = [job EXCEPT ![w] = [IdleJob EXCEPT !.pc = "list"]]
    /\ UNCHANGED toDelete

\* The ticker's request has no name and the namespace the reconciler was
\* started for, which is "" with --scan-all.
Tick(w) ==
    /\ w[2] = Ticker
    /\ At(w, "idle") /\ ready[w[1]]
    /\ StartPass(w, ScanAll)
    /\ UNCHANGED <<crs, grafana, config, ready, queue, panicked, unsure, disturbed>>

\* isMatch and checkNamespaceLabels: the labels of a resource and of its
\* namespace against the selectors of the Grafana resource.
Matches(n) == n \notin Unmatched
Selected(n) == NsOf[n] \in SelectedNs

\* A request from the work queue names a resource.  It is dropped when no
\* Grafana is ready or the resource does not match the selectors; otherwise,
\* also when the resource is gone, the whole scope is synced.
Reconcile(w) ==
    \E n \in queue[w] :
        /\ At(w, "idle")
        /\ queue' = [queue EXCEPT ![w] = @ \ {n}]
        /\ IF ready[w[1]] /\ (crs[n] = NoCR \/ Matches(n))
           THEN StartPass(w, FALSE)
           ELSE UNCHANGED pass
        /\ UNCHANGED <<crs, grafana, config, ready, panicked, unsure, disturbed>>

\* List reads the cache of the reconciler's manager.  Known dashboards that
\* are not on the list are to be deleted.
InNamespace_AnyName(list, ref) ==  \* mutant: the name is not compared
    \E n \in Names : NsOf[n] = NsOf[ref.name] /\ list[n] # NoCR
InNamespace_SkipsLast(list, ref) ==  \* mutant: the last resource of the list is not looked at
    list[ref.name] # NoCR /\ \E n \in Names \ {ref.name} : list[n] # NoCR
InNamespace(list, ref) == list[ref.name] # NoCR

List(w) ==
    LET listed == [n \in Names |-> IF NsOf[n] \in Scope[w[1]] THEN crs[n] ELSE NoCR]
        seen == Seen(view[w], known)
        gone == { i \in 1..seen.len : ~InNamespace(listed, seen.cells[i]) }
    IN  /\ At(w, "list")
        /\ job' = [job EXCEPT ![w] = [@ EXCEPT
               !.pc = "next", !.list = listed, !.todo = { n \in Names : listed[n] # NoCR }]]
        /\ toDelete' = [toDelete EXCEPT ![w] = [i \in gone |-> seen.cells[i]]]
        /\ UNCHANGED <<crs, grafana, config, ready, queue, view, panicked, unsure, disturbed>>

EndPass(w) ==
    /\ At(w, "next") /\ job[w].todo = {} /\ DOMAIN toDelete[w] = {}
    /\ Idle(w)
    /\ UNCHANGED <<crs, grafana, config, ready, queue, panicked, unsure, disturbed>>

-----------------------------------------------------------------------------
(* The first loop: submit new and changed dashboards.  The cache lists the   *)
(* resources in no particular order.                                         *)

Wanted(w) == job[w].list[job[w].cur]
TargetUid(w) == Uid[job[w].cur][Wanted(w).json]

\* CreateOrUpdateFolder asks for all folders and creates the one that is
\* missing.  A 503 to the first request counts as "there are none", a 503 to
\* the second as a folder without an id, for which the General folder, 0,
\* is used.
GetAllFolders(w) ==
    \E n \in job[w].todo, outcome \in Outcomes \ {"lost"} :
        LET title == FolderName(n, job[w].list[n])
            found == outcome = "ok" /\ TitleExists(title)
            j == [job[w] EXCEPT !.todo = @ \ {n}]
        IN  /\ At(w, "next")
            /\ Call(outcome)
            /\ Become(w, CASE outcome = "err" -> j
                           [] found -> [j EXCEPT !.pc = "check", !.cur = n, !.fid = FolderId(title)]
                           [] OTHER -> [j EXCEPT !.pc = "mkdir", !.cur = n])
            /\ UNCHANGED <<crs, grafana, config, ready, queue, panicked, unsure>>

\* Grafana refuses a second folder with the same title.
CreateFolder(w) ==
    \E outcome \in Outcomes :
        LET title == FolderName(job[w].cur, Wanted(w))
            created == outcome \in {"ok", "lost"} /\ ~TitleExists(title)
        IN  /\ At(w, "mkdir")
            /\ Call(outcome)
            /\ folders' = IF created THEN Append(folders, title) ELSE folders
            /\ \/ /\ outcome = "ok" /\ created
                  /\ Become(w, [job[w] EXCEPT !.pc = "check", !.fid = Len(folders) + 1])
               \/ /\ outcome = "503"
                  /\ Become(w, [job[w] EXCEPT !.pc = "check", !.fid = 0])
               \/ /\ outcome \in {"err", "lost"} \/ (outcome = "ok" /\ ~created)
                  /\ Continue(w)
            /\ UNCHANGED <<crs, dash, config, ready, queue, panicked, unsure>>

Missing_Never(ref, outcome) == FALSE  \* mutant: the answer of GetDashboard is ignored
Missing(ref, outcome) == ref # NoRef /\ (outcome = "err" \/ dash[ref.uid] = Absent)

\* ProcessDashboard, and the look at Grafana for the dashboard the operator
\* knows: if it is not there, or the request fails, the dashboard is processed
\* again whatever its hash.  An unchanged dashboard only has its plugins noted.
ProcessDashboard(w) ==
    \E outcome \in Outcomes \ {"lost", "503"} :
        LET n == job[w].cur
            ref == Find(Seen(view[w], known), n)
            unchanged == ref # NoRef /\ ref.hash = Hash(n, Wanted(w))
            submits == ~unchanged \/ Missing(ref, outcome)
        IN  /\ At(w, "check") /\ Wanted(w).json \notin FatalJsons
            /\ IF ref = NoRef THEN outcome = "ok" /\ Undisturbed ELSE Call(outcome)
            /\ \/ /\ submits
                  /\ Wanted(w).json \notin InvalidJsons /\ Selected(n)
                  /\ Become(w, [job[w] EXCEPT !.pc = "post"])
               \/ /\ submits
                  /\ Wanted(w).json \in InvalidJsons \/ ~Selected(n)
                  /\ Continue(w)
               \/ /\ ~submits
                  /\ Become(w, [job[w] EXCEPT !.pc = "plug"])
            /\ UNCHANGED <<crs, grafana, config, ready, queue, panicked, unsure>>

\* The board of json null is a nil map, which cannot be written to, and UID()
\* asserts that the uid is a string.  Contents that the operator dies of never
\* get as far as to have a known hash, so each pass that meets them parses them.
ProcessFatal(w) == At(w, "check") /\ Wanted(w).json \in FatalJsons /\ Panic

\* Another pass has submitted the uid and not entered it yet: which of the two
\* submissions is the last one in Grafana, the list will not tell.
Crossed(w, uid) ==
    \E v \in Workers \ {w} : job[v].pc \in {"add", "addLocked"} /\ TargetUid(v) = uid

Accepted_Always(outcome, stored) == outcome # "lost"  \* mutant: the status code is not checked
Accepted(outcome, stored) == outcome = "503" \/ (outcome = "ok" /\ stored)

\* CreateOrUpdateDashboard overwrites what Grafana has under the uid.  Grafana
\* refuses a folder that is gone.  A 503 (with a body that decodes) passes for
\* success.
PostDashboard(w) ==
    \E outcome \in Outcomes :
        LET uid == TargetUid(w)
            refused == job[w].fid # 0 /\ ~FolderExists(job[w].fid)
            stored == outcome \in {"ok", "lost"} /\ ~refused
        IN  /\ At(w, "post")
            /\ Call(outcome)
            /\ dash' = IF stored
                       THEN [dash EXCEPT ![uid] = [json |-> Wanted(w).json, folder |-> job[w].fid]]
                       ELSE dash
            /\ unsure' = IF outcome \in {"lost", "503"} \/ (stored /\ Crossed(w, uid))
                         THEN unsure \cup {uid}
                         ELSE IF stored THEN unsure \ {uid} ELSE unsure
            /\ IF Accepted(outcome, stored)
               THEN Become(w, [job[w] EXCEPT !.pc = "add"])
               ELSE Continue(w)
            /\ UNCHANGED <<crs, folders, config, ready, queue, panicked>>

\* manageSuccess calls AddDashboard, which looks the uid up without the lock ...
FindSlot(w) ==
    /\ At(w, "add")
    /\ Become(w, [job[w] EXCEPT !.pc = "addLocked", !.slot = HasDashboard(known, TargetUid(w))])
    /\ UNCHANGED <<crs, grafana, config, ready, queue, panicked, unsure, disturbed>>

\* ... and then takes the lock and appends a reference, or overwrites the one
\* at the index it found.  A new reference keeps customFolderName as its folder
\* name, an overwritten one gets the name of the folder.
NewRef_ReadAgain(w) ==  \* mutant: the resource is read again for its hash
    LET n == job[w].cur
        again == IF crs[n] = NoCR THEN Wanted(w) ELSE crs[n]
    IN  [name |-> n, uid |-> TargetUid(w), hash |-> Hash(n, again), fid |-> job[w].fid,
         fname |-> IF job[w].slot = 0 THEN Wanted(w).folder ELSE FolderName(n, Wanted(w))]
NewRef(w) ==
    [name |-> job[w].cur, uid |-> TargetUid(w), hash |-> Hash(job[w].cur, Wanted(w)),
     fid |-> job[w].fid,
     fname |-> IF job[w].slot = 0 THEN Wanted(w).folder ELSE FolderName(job[w].cur, Wanted(w))]

DetachViews == view' = [w \in Workers |-> Detached(view[w], known)]

AddDashboard(w) ==
    /\ At(w, "addLocked")
    /\ \/ /\ job[w].slot = 0
          /\ known' = Appended(known, NewRef(w))
          /\ IF Reallocates(known) THEN DetachViews ELSE UNCHANGED view
       \/ /\ job[w].slot \in 1..known.len
          /\ known' = Replaced(known, job[w].slot, NewRef(w))
          /\ UNCHANGED view
    /\ job' = [job EXCEPT ![w] = [@ EXCEPT !.pc = "plug", !.slot = 0]]
    /\ UNCHANGED <<crs, grafana, plugins, synced, ready, queue, toDelete, panicked, unsure, disturbed>>

AddOutOfRange(w) == At(w, "addLocked") /\ job[w].slot > known.len /\ Panic

SetPlugins(w) ==
    /\ At(w, "plug")
    /\ plugins' = [plugins EXCEPT ![job[w].cur] = Wanted(w).plugins]
    /\ Continue(w)
    /\ UNCHANGED <<crs, grafana, known, synced, ready, queue, panicked, unsure, disturbed>>

-----------------------------------------------------------------------------
(* The second loop: delete what is gone, in the order of the known list.     *)

\* DeleteDashboardByUID.  An error is logged, the reference goes either way.
DeleteDashboard(w) ==
    \E outcome \in Outcomes \ {"503"}, i \in DOMAIN toDelete[w] :
        LET ref == toDelete[w][i]
        IN  /\ At(w, "next") /\ job[w].todo = {}
            /\ \A k \in DOMAIN toDelete[w] : i <= k
            /\ Call(outcome)
            /\ dash' = IF outcome = "err" THEN dash ELSE [dash EXCEPT ![ref.uid] = Absent]
            /\ unsure' = IF outcome = "err" /\ dash[ref.uid] # Absent
                       THEN unsure \cup {ref.uid} ELSE unsure \ {ref.uid}
            /\ job' = [job EXCEPT ![w] = [@ EXCEPT !.pc = "unplug", !.ref = ref]]
            /\ toDelete' = [toDelete EXCEPT ![w] =
                              [k \in DOMAIN toDelete[w] \ {i} |-> toDelete[w][k]]]
            /\ UNCHANGED <<crs, folders, config, ready, queue, view, panicked>>

Unplugged_Not(ref) == plugins  \* mutant: the entry is looked up under another key
Unplugged(ref) == [plugins EXCEPT ![ref.name] = NoPlugins]

\* RemovePluginsFor, and RemoveDashboard's look for the uid without the lock.
RemovePlugins(w) ==
    /\ At(w, "unplug")
    /\ \/ /\ plugins' = Unplugged(job[w].ref)
          /\ Become(w, [job[w] EXCEPT !.pc = "drop", !.slot = HasDashboard(known, job[w].ref.uid)])
          /\ UNCHANGED <<crs, grafana, known, synced, ready, queue, panicked, unsure, disturbed>>
       \/ PluginMapRace(w) /\ Panic

\* RemoveDashboard under the lock, the synced flag, and the check of the folder
\* against the refreshed list.  A folder in use ends the pass.
Managed(ref) == ref.fname = NoTitle \/ ref.fname = NsOf[ref.name]
SafeToDelete_OffByOne(s, fid) == \A i \in 2..s.len : s.cells[i].fid # fid  \* mutant: the first reference is not looked at
SafeToDelete(s, fid) == \A i \in 1..s.len : s.cells[i].fid # fid

RemoveDashboard(w) ==
    LET ref == job[w].ref
        left == IF job[w].slot = 0 THEN known ELSE Dropped(known, job[w].slot)
    IN  /\ At(w, "drop")
        /\ job[w].slot <= known.len
        /\ known' = left
        /\ synced' = TRUE
        /\ \/ ~Managed(ref) /\ Continue(w)
           \/ /\ Managed(ref) /\ SafeToDelete(left, ref.fid)
              /\ Become(w, [job[w] EXCEPT !.pc = "rmdir", !.fid = ref.fid, !.slot = 0])
           \/ /\ Managed(ref) /\ ~SafeToDelete(left, ref.fid)
              /\ Idle(w)
        /\ UNCHANGED <<crs, grafana, plugins, ready, queue, panicked, unsure, disturbed>>

RemoveOutOfRange(w) == At(w, "drop") /\ job[w].slot > known.len /\ Panic

\* DeleteFolder takes every dashboard in the folder along.  It fails for the
\* General folder and for a folder that is gone.
DeleteFolder(w) ==
    \E outcome \in Outcomes \ {"503"} :
        LET fid == job[w].fid
            deleted == outcome # "err" /\ FolderExists(fid)
        IN  /\ At(w, "rmdir")
            /\ Call(outcome)
            /\ folders' = IF deleted THEN [folders EXCEPT ![fid] = NoTitle] ELSE folders
            /\ dash' = IF deleted
                       THEN [u \in UIDs |-> IF dash[u] # Absent /\ dash[u].folder = fid
                                            THEN Absent ELSE dash[u]]
                       ELSE dash
            /\ Continue(w)
            /\ UNCHANGED <<crs, config, ready, queue, panicked, unsure>>

Work(w) == \/ List(w) \/ EndPass(w) \/ GetAllFolders(w) \/ CreateFolder(w)
           \/ ProcessDashboard(w) \/ ProcessFatal(w) \/ PostDashboard(w) \/ FindSlot(w)
           \/ AddDashboard(w) \/ AddOutOfRange(w) \/ SetPlugins(w)
           \/ DeleteDashboard(w) \/ RemovePlugins(w) \/ RemoveDashboard(w) \/ RemoveOutOfRange(w)
           \/ DeleteFolder(w)

-----------------------------------------------------------------------------
(* What happens around the reconcilers.                                     *)

Disturbance(kind) == /\ kind \in Disturbances
                     /\ disturbed < MaxDisturb
                     /\ disturbed' = disturbed + 1

\* A watch puts the name of a changed resource into the work queues.
Notify(n) == queue' = [w \in Workers |-> IF w[2] # Ticker /\ NsOf[n] \in Scope[w[1]]
                                         THEN queue[w] \cup {n} ELSE queue[w]]

ChangeResource(n) ==
    /\ \/ /\ crs[n] = NoCR /\ Disturbance("create")
          /\ \E s \in Specs : crs' = [crs EXCEPT ![n] = s]
       \/ /\ crs[n] # NoCR /\ Disturbance("update")
          /\ \E s \in Specs \ {crs[n]} : crs' = [crs EXCEPT ![n] = s]
       \/ /\ crs[n] # NoCR /\ Disturbance("delete")
          /\ crs' = [crs EXCEPT ![n] = NoCR]
    /\ crs' \in Populations
    /\ Notify(n)
    /\ UNCHANGED <<grafana, config, ready, pass, panicked, unsure>>

\* People delete dashboards in the Grafana console, and create some.
ConsoleDelete(u) ==
    /\ dash[u] # Absent /\ Disturbance("console delete")
    /\ dash' = [dash EXCEPT ![u] = Absent]
    /\ UNCHANGED <<crs, folders, config, ready, queue, pass, panicked, unsure>>

ConsoleCreate(u) ==
    /\ dash[u] = Absent /\ Disturbance("console create")
    /\ \E f \in DOMAIN folders, j \in Jsons :
          FolderExists(f) /\ dash' = [dash EXCEPT ![u] = [json |-> j, folder |-> f]]
    /\ unsure' = unsure \cup {u}
    /\ UNCHANGED <<crs, folders, config, ready, queue, pass, panicked>>

\* The Grafana controller failed, or changed the plugins: InvalidateDashboards.
Invalidate ==
    /\ ~panicked /\ Disturbance("invalidate")
    /\ known' = Invalidated(known)
    /\ view' = [w \in Workers |-> Blanking(view[w], known)]
    /\ UNCHANGED <<crs, grafana, plugins, synced, ready, queue, toDelete, job, panicked, unsure>>

Present == { u \in UIDs : dash[u] # Absent }

\* The Grafana controller found no Grafana resource: Cleanup(true).
Cleanup ==
    /\ ~panicked /\ Disturbance("cleanup")
    /\ known' = EmptySlice
    /\ plugins' = [n \in Names |-> NoPlugins]
    /\ DetachViews
    /\ unsure' = unsure \cup Present
    /\ UNCHANGED <<crs, grafana, synced, ready, queue, toDelete, job, panicked>>

\* A reconciler receives what the Grafana controller published.
StateChange(r, isReady) ==
    /\ ~panicked /\ ready[r] # isReady
    /\ IF isReady THEN Undisturbed ELSE Disturbance("not ready")
    /\ ready' = [ready EXCEPT ![r] = isReady]
    /\ UNCHANGED <<crs, grafana, config, queue, pass, panicked, unsure>>

\* The operator comes up again, after a panic or because its pod was moved.
Restart ==
    /\ IF panicked THEN Undisturbed ELSE Disturbance("restart")
    /\ known' = EmptySlice
    /\ plugins' = [n \in Names |-> NoPlugins]
    /\ synced' = FALSE
    /\ ready' = [r \in Reconcilers |-> FALSE]
    /\ queue' = [w \in Workers |->
                   IF w[2] = Ticker THEN {}
                   ELSE { n \in Names : crs[n] # NoCR /\ NsOf[n] \in Scope[w[1]] }]
    /\ view' = [w \in Workers |-> NoView]
    /\ toDelete' = [w \in Workers |-> NothingToDelete]
    /\ job' = [w \in Workers |-> IdleJob]
    /\ panicked' = FALSE
    /\ unsure' = unsure \cup Present
    /\ UNCHANGED <<crs, grafana>>

Next == \/ \E w \in Workers : Tick(w) \/ Reconcile(w) \/ Work(w)
        \/ \E n \in Names : ChangeResource(n)
        \/ \E u \in UIDs : ConsoleDelete(u)
        \/ \E u \in ConsoleUids : ConsoleCreate(u)
        \/ Invalidate \/ Cleanup \/ Restart
        \/ \E r \in Reconcilers, b \in BOOLEAN : StateChange(r, b)

\* The goroutines run, the ticker ticks, the Grafana controller publishes its
\* state every RequeueDelay, and the kubelet restarts a crashed operator.
Fairness ==
    /\ \A w \in Workers : WF_vars(Tick(w)) /\ WF_vars(Reconcile(w)) /\ WF_vars(Work(w))
    /\ \A r \in Reconcilers : WF_vars(StateChange(r, TRUE))
    /\ WF_vars(panicked /\ Restart)

Spec == Init /\ [][Next]_vars
FairSpec == Spec /\ Fairness

-----------------------------------------------------------------------------
(* Invariants.                                                              *)

Phases == {"idle", "list", "next", "mkdir", "check", "post", "add", "addLocked",
           "plug", "unplug", "drop", "rmdir"}
Submitting == {"mkdir", "check", "post", "add", "addLocked", "plug"}
Deleting == {"unplug", "drop", "rmdir"}

Jobs == [pc : Phases, list : [Names -> Specs \cup {NoCR}], todo : SUBSET Names,
         cur : Names \cup {NoName}, ref : Refs \cup {NoRef}, fid : Nat, slot : Nat]

\* A goroutine that works on a resource has it on its list, one that deletes
\* has a reference in hand.
JobOK(j) ==
    /\ j \in Jobs
    /\ \A n \in j.todo : j.list[n] # NoCR
    /\ j.pc \in Submitting => j.cur \in Names /\ j.list[j.cur] # NoCR
    /\ j.pc \in Deleting => j.ref \in Refs

ViewOK(v, s) ==
    /\ v.live \in BOOLEAN /\ v.slice.len \in Nat
    /\ IsSlice(Seen(v, s), Refs)

ToDeleteOK(d) ==
    /\ DOMAIN d \subseteq Nat
    /\ \A i \in DOMAIN d : d[i] \in Refs

PassOK ==
    /\ DOMAIN job = Workers /\ DOMAIN view = Workers /\ DOMAIN toDelete = Workers
    /\ \A w \in Workers : JobOK(job[w]) /\ ViewOK(view[w], known) /\ ToDeleteOK(toDelete[w])

\* The types of the reconciler's state.  The views are the delicate part: a
\* reader that shares the array of the known list with the writers finds a
\* reference in every cell it looks at, whatever the writers do meanwhile.
TypeOK ==
    /\ crs \in [Names -> Specs \cup {NoCR}]
    /\ dash \in [UIDs -> [json : Jsons, folder : Nat] \cup {Absent}]
    /\ folders \in Seq(Namespaces \cup Folders \cup {NoTitle})
    /\ IsSlice(known, Refs)
    /\ plugins \in [Names -> PluginLists \cup {NoPlugins}]
    /\ synced \in BOOLEAN /\ panicked \in BOOLEAN
    /\ ready \in [Reconcilers -> BOOLEAN]
    /\ queue \in [Workers -> SUBSET Names]
    /\ PassOK
    /\ unsure \subseteq UIDs
    /\ disturbed \in 0..MaxDisturb

InFlight(u) == \E w \in Workers : job[w].pc \in {"add", "addLocked"} /\ TargetUid(w) = u

\* RemoveDashboard and HasDashboard treat the uid as a key of the known list:
\* it never holds two references with the same uid.
UniqueUids == \A i, k \in 1..known.len : known.cells[i].uid = known.cells[k].uid => i = k

\* A pass skips a dashboard whose hash it knows, and keeps a folder some
\* reference points to.  Both are right only if a reference tells the truth
\* about Grafana: what is stored under its uid was submitted with its hash, in
\* its folder.  The exceptions are uids with a submission under way, and those
\* where Grafana never confirmed the last call.
RefsTellTruth ==
    \A i \in 1..known.len :
        LET r == known.cells[i]
        IN  \/ dash[r.uid] = Absent \/ r.uid \in unsure \/ InFlight(r.uid)
            \/ /\ dash[r.uid].folder = r.fid
               /\ r.hash # NoHash => dash[r.uid].json = r.hash.json

\* The operator keeps track of what it put into Grafana: every dashboard there
\* has a reference, by which it can be deleted when its resource goes away.
Tracked ==
    \A u \in Present :
        u \in unsure \/ InFlight(u) \/ \E r \in RefsIn(known) : r.uid = u

\* DeleteFolder is only called on managed folders that are empty: no dashboard
\* whose fate the operator can know is deleted along with its folder.
EmptyFolderOnly ==
    \A w \in Workers : At(w, "rmdir") =>
        \A u \in Present \ unsure : dash[u].folder # job[w].fid

\* Plugins stay requested only for dashboards the operator knows: an entry of
\* the plugin map that lost its reference is never removed again.
PluginsTracked ==
    \A n \in Names : plugins[n] # NoPlugins =>
        \/ \E r \in RefsIn(known) : r.name = n
        \/ \E w \in Workers : job[w].pc \in Submitting /\ job[w].cur = n

-----------------------------------------------------------------------------
(* What a step may never do, whoever takes it.                              *)

\* The pass w calls for the deletion of u, and none of the resources it has
\* listed could have a dashboard with this uid.
Withdraws(w, u) ==
    /\ job[w].pc = "next" /\ job'[w].pc = "unplug"
    /\ \A n \in Names, j \in Jsons : job[w].list[n] # NoCR => Uid[n][j] # u

\* A reference a pass has to delete may be replaced, blanked or moved by others
\* until its turn comes.  Still no dashboard ever leaves Grafana but for a pass
\* that found its resource gone, together with its folder, or by hand.
DeletedForCause ==
    [][\A u \in UIDs : dash[u] # Absent /\ dash'[u] = Absent =>
         \/ \E w \in Workers : Withdraws(w, u)
         \/ \E w \in Workers : job[w].pc = "rmdir" /\ dash[u].folder = job[w].fid
         \/ UNCHANGED pass]_vars

-----------------------------------------------------------------------------
(* What one goroutine at a time relies on between its steps: together with    *)
(* the invariants above, an inductive invariant when there is only one.       *)

OneWorker == \A v, w \in Workers : v = w

\* The index a writer found without the lock is still the place of its uid, or
\* there is still none.
SlotRight ==
    \A w \in Workers : job[w].pc \in {"addLocked", "drop"} =>
        LET uid == IF job[w].pc = "drop" THEN job[w].ref.uid ELSE TargetUid(w)
            slot == job[w].slot
        IN  /\ slot = 0 => \A i \in 1..known.len : known.cells[i].uid # uid
            /\ slot \in 1..known.len => known.cells[slot].uid = uid

\* What is about to be recorded is what Grafana holds ...
SubmittedTruth ==
    \A w \in Workers : job[w].pc \in {"add", "addLocked"} =>
        \/ TargetUid(w) \in unsure \/ dash[TargetUid(w)] = Absent
        \/ dash[TargetUid(w)] = [json |-> Wanted(w).json, folder |-> job[w].fid]

\* ... and what is about to be forgotten is gone.
DeletedTruth ==
    \A w \in Workers : job[w].pc \in {"unplug", "drop"} =>
        job[w].ref.uid \in unsure \/ dash[job[w].ref.uid] = Absent

Safe == /\ UniqueUids /\ RefsTellTruth /\ Tracked /\ EmptyFolderOnly
        /\ SlotRight /\ SubmittedTruth /\ DeletedTruth

-----------------------------------------------------------------------------
(* One goroutine implements the ledger of DashboardLedger.                    *)

EntryOf(ref) == [uid |-> ref.uid, folder |-> ref.fid,
                 json |-> IF ref.hash = NoHash THEN NoHash ELSE ref.hash.json]
Entries == { EntryOf(r) : r \in RefsIn(known) }
Pending == { u \in UIDs : InFlight(u) }

Ledger == INSTANCE DashboardLedger WITH
              shown <- dash, entries <- Entries, doubt <- unsure, pending <- Pending,
              Unknown <- NoHash

\* Every step of a pass, and everything that happens around it, is a step of the
\* ledger or none: AddDashboard replaces the entry of its own uid and no other,
\* RemoveDashboard crosses out one that is gone, the swap of the last reference
\* into the gap and the growth of the array are invisible, and the deletion of a
\* folder takes nothing along that has a reference.
KeepsLedger == Ledger!Spec

-----------------------------------------------------------------------------
(* Liveness: what the passes converge to once the disturbances are over.    *)

Due(n) == crs[n] # NoCR /\ crs[n].json \notin InvalidJsons \cup FatalJsons /\ Selected(n)
Shown(n) ==
    LET d == dash[Uid[n][crs[n].json]]
    IN  /\ d # Absent
        /\ d.json = crs[n].json
        /\ d.folder \in DOMAIN folders /\ folders[d.folder] = FolderName(n, crs[n])

\* Contents that are fatal crash the operator again after every restart, before
\* or after it has seen to the other resources.
Calm == <>[](\A n \in Names : crs[n] = NoCR \/ crs[n].json \notin FatalJsons)

\* The list has the resource with its current hash, so that every pass skips it,
\* though Grafana may have something else: it answered the last submission with
\* a 503, or the request for the folder; it took a submission that it did not
\* answer, and the resource has gone back to what it was before; or two passes
\* submitted the uid at once.
Misled(n) ==
    \E ref \in RefsIn(known) :
        /\ ref.name = n /\ ref.hash = Hash(n, crs[n])
        /\ ref.uid \in unsure \/ ref.fid = 0

\* Every valid resource in the selected namespaces ends up in Grafana, with
\* its current contents and in its folder, and stays there, unless the operator
\* is misled about just these contents.  Lost memory, a failed deletion, a crash,
\* or a lost answer by itself is no excuse.
AllShown == Calm => <>[](\A n \in Names : Due(n) => Shown(n) \/ Misled(n))

\* Dashboards whose resource is gone leave Grafana and stay away, except where
\* Grafana did not confirm a call, or the operator lost its memory.
NoStrays ==
    Calm => <>[](\A u \in Present \ unsure :
                    \E n \in Names : crs[n] # NoCR /\ Uid[n][crs[n].json] = u)

-----------------------------------------------------------------------------
(* What the documentation and the comments of the repository say.           *)

InFolder(u, title) ==
    dash[u] # Absent /\ dash[u].folder \in DOMAIN folders /\ folders[dash[u].folder] = title

\* "simply remove or add the CustomFolderName field value from the dashboard
\* spec, this will update the hash of the dashboard on the next reconcile loop,
\* and re-add the dashboard to the desired folder" (documentation/dashboards.md).
MovedToDesiredFolder ==
    <>[](\A n \in Names : Due(n) => InFolder(Uid[n][crs[n].json], FolderName(n, crs[n])))

\* "The operator can import dashboards from either one, some or all namespaces"
\* (documentation/multi_namespace_support.md), as long as it does not crash.
EveryNamespaceImported ==
    <>[]~panicked => <>[](\A n \in Names : Due(n) => dash[Uid[n][crs[n].json]] # Absent)
=============================================================================
