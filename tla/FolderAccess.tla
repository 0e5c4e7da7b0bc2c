----------------------------- MODULE FolderAccess -----------------------------
(***************************************************************************)
(* Who may see what: the dashboards the namespace controller makes for the   *)
(* owner of every namespace, the accounts and folder permissions that a       *)
(* submitted dashboard leads to (manageSuccess of the dashboard reconciler),  *)
(* and the administrators among the cluster's admins (GiveAdmin of the        *)
(* Grafana controller).                                                       *)
(*                                                                         *)
(* All goroutines that do so send the API key that one package variable       *)
(* holds.  No answer is looked at and nothing is retried: what is not done     *)
(* waits for the next submission of a dashboard of the folder.                *)
(***************************************************************************)
EXTENDS Integers, FiniteSets

CONSTANTS
    Namespaces,
    Kinds,        \* the dashboards each namespace gets: of metrics, of logs
    Declared,     \* dashboards that people declare themselves, in a namespace each
    FolderOf,     \* the folder of each dashboard: its namespace, or a custom one
    People,       \* by the address they have in Grafana
    DefaultOwner, \* kubernetes-admin@localhost
    Annotations,  \* values of the userId annotation of a dashboard
    NsAnnotations, \* values of the owner and creator annotations of a namespace
    Bindings,     \* the first subjects that the bindings of cluster-admin can have
    Workers,      \* goroutines of the dashboard reconcilers
    Faults,       \* calls may fail
    MaxEvents,    \* bound on faults and on what people do, together
    Nobody,       \* a dashboard without the annotation: the address ""
    NoSubject,    \* a binding of cluster-admin to no subject at all
    NoCR, NoName, Unset

Dashboards == (Namespaces \X Kinds) \cup Declared
Folders == { FolderOf[d] : d \in Dashboards }

ASSUME EventsAssumption == MaxEvents \in Nat
ASSUME PeopleAssumption == DefaultOwner \in People /\ Faults \in BOOLEAN
\* An annotation such as "ann," also names somebody without a name, whose id is 0
\* and whose list Grafana refuses for good: such an annotation is left out.
ASSUME AnnotationAssumption ==
    /\ \A a \in Annotations : a = {Nobody} \/ (a # {} /\ a \subseteq People)
    /\ NsAnnotations \subseteq [owner : People \cup {NoName}, creator : People \cup {NoName}]
    /\ \A b \in Bindings : b \subseteq People \cup {NoSubject}
ASSUME DashboardAssumption == DOMAIN FolderOf = Dashboards
ASSUME NobodyAssumption ==
    /\ NoName \notin People \cup Namespaces \cup {Nobody} /\ NoSubject \notin People
    /\ NoCR \notin Dashboards \cup Annotations \cup { {u} : u \in People }

VARIABLES
    ns,         \* the annotations of the namespaces in the API server
    nsQueue,    \* the work queue of the namespace controller
    nsJob,      \* what is left of its Reconcile
    owners,     \* the userId annotation of the GrafanaDashboard resources
    due,        \* those a pass is going to submit: no current hash is known
    job,        \* manageSuccess in each goroutine
    bindings,   \* the first subjects of the cluster-admin bindings
    admJob,     \* GiveAdmin in the Grafana controller
    accounts,   \* Grafana: who has an account
    admins,     \* Grafana: who is an administrator ...
    orgAdmins,  \* ... and an administrator of the organisation
    acl,        \* Grafana: who is on the list of each folder
    key,        \* model.GrafanaKey: does it hold a valid key?
    asked,      \* history: the lists some submission of the folder asked for
    excused,    \* history: dashboards whose list a fault, an edit or another one kept out
    metBefore,  \* history: who had an account before GiveAdmin made one, or lost a call of it
    unserved,   \* history: dashboards for a namespace edited, or not created after a fault
    events

resources == <<ns, owners, bindings>>
grafana == <<accounts, admins, orgAdmins, acl>>
history == <<asked, excused, metBefore, unserved>>
vars == <<ns, nsQueue, nsJob, owners, due, job, bindings, admJob, accounts, admins,
          orgAdmins, acl, key, asked, excused, metBefore, unserved, events>>

NsIdle == [cur |-> NoName, owner |-> NoName, todo |-> {}]
Idle == [pc |-> "idle", dash |-> NoCR, users |-> {}, todo |-> {}, cur |-> NoName,
         list |-> {}, unknown |-> FALSE, folder |-> Unset]
AdmIdle == [pc |-> "idle", todo |-> {}, cur |-> NoName, found |-> FALSE]

Init == /\ ns \in [Namespaces -> NsAnnotations]
        /\ nsQueue = Namespaces
        /\ nsJob = NsIdle
        /\ owners \in [Dashboards -> Annotations \cup {NoCR}]
        /\ \A d \in Namespaces \X Kinds : owners[d] = NoCR
        /\ due = { d \in Dashboards : owners[d] # NoCR }
        /\ job = [w \in Workers |-> Idle]
        /\ bindings \in Bindings
        /\ admJob = AdmIdle
        /\ accounts = {} /\ admins = {} /\ orgAdmins = {}
        /\ acl = [f \in Folders |-> Unset]
        /\ key = FALSE
        /\ asked = [f \in Folders |-> {}]
        /\ excused = {} /\ metBefore = {} /\ unserved = {}
        /\ events = 0

-----------------------------------------------------------------------------
(* Calls, and the API key.                                                   *)

Fails(failed) == \/ ~failed /\ UNCHANGED events
                 \/ failed /\ Faults /\ events < MaxEvents /\ events' = events + 1

Working == { w \in Workers : job[w].pc # "idle" }
Sending == { w \in Workers : job[w].pc = "post" }

\* GetGrafanaKey, and the assignment by its caller: a request that fails puts
\* the text of the error where the key of everybody else was.
NewKey(failed) == ~failed

-----------------------------------------------------------------------------
(* The namespace controller.                                                 *)

Owner(annotations) == IF annotations.owner # NoName THEN annotations.owner
                      ELSE IF annotations.creator # NoName THEN annotations.creator
                      ELSE DefaultOwner

\* The dashboards are made whether or not there is a key.
Begun_WithKey(n, failed) ==  \* mutant: Reconcile gives up without a key
    IF failed THEN NsIdle ELSE [cur |-> n, owner |-> Owner(ns[n]), todo |-> Kinds]
Begun(n, failed) == [cur |-> n, owner |-> Owner(ns[n]), todo |-> Kinds]

NsReconcile ==
    \E n \in nsQueue, failed \in BOOLEAN :
        /\ nsJob = NsIdle
        /\ Fails(failed)
        /\ nsQueue' = nsQueue \ {n}
        /\ nsJob' = Begun(n, failed)
        /\ key' = NewKey(failed)
        /\ excused' = IF failed THEN excused \cup { job[w].dash : w \in Sending } ELSE excused
        /\ UNCHANGED <<resources, due, job, admJob, grafana, asked, metBefore, unserved>>

\* CreateUserDashboard: a dashboard that is there already stays as it is, and a
\* failure of the first one does not keep the second one from being made.
AfterCreation(k) ==
    IF nsJob.todo = {k} THEN NsIdle ELSE [nsJob EXCEPT !.todo = @ \ {k}]

CreateUserDashboard ==
    \E k \in nsJob.todo, failed \in BOOLEAN :
        LET d == <<nsJob.cur, k>>
            created == ~failed /\ owners[d] = NoCR
        IN  /\ Fails(failed)
            /\ owners' = IF created THEN [owners EXCEPT ![d] = {nsJob.owner}] ELSE owners
            /\ due' = IF created THEN due \cup {d} ELSE due
            /\ unserved' = IF failed THEN unserved \cup {d} ELSE unserved
            /\ nsJob' = AfterCreation(k)
            /\ UNCHANGED <<ns, bindings, nsQueue, job, admJob, grafana, key, asked, excused, metBefore>>

-----------------------------------------------------------------------------
(* manageSuccess: the accounts of a dashboard's users and the permissions of   *)
(* its folder.                                                               *)

At(w, pc) == job[w].pc = pc
Become(w, j) == job' = [job EXCEPT ![w] = j]

\* A call of this goroutine's submission has failed.
Excuse(w, failed) == excused' = IF failed THEN excused \cup {job[w].dash} ELSE excused

\* A pass submits the dashboard, and AddDashboard remembers its hash, of which
\* the annotation is no part.
Submit(w) ==
    \E d \in due :
        /\ At(w, "idle")
        /\ due' = due \ {d}
        /\ Become(w, [Idle EXCEPT !.pc = "users", !.dash = d, !.users = owners[d], !.todo = owners[d]])
        /\ UNCHANGED <<resources, nsQueue, nsJob, admJob, grafana, key, history, events>>

\* GetGrafanaUser: an administrator is -1, whoever is not found is 0, and so is
\* everybody when the request fails.
Found(u, failed) == ~failed /\ u \in accounts
NextUser(w, u) ==
    Become(w, [job[w] EXCEPT !.pc = "users", !.todo = @ \ {u}, !.cur = NoName,
                             !.list = IF u \in admins THEN @ ELSE @ \cup {u}])

LookUser(w) ==
    \E u \in job[w].todo, failed \in BOOLEAN :
        /\ At(w, "users")
        /\ Fails(failed) /\ Excuse(w, failed)
        /\ IF Found(u, failed) THEN NextUser(w, u)
           ELSE Become(w, [job[w] EXCEPT !.pc = "create", !.cur = u])
        /\ UNCHANGED <<resources, nsQueue, nsJob, due, admJob, grafana, key, asked, metBefore, unserved>>

\* CreateGrafanaUser: Grafana refuses an address it knows, and makes an account
\* nobody can find for the address "".
CreateUser(w) ==
    \E failed \in BOOLEAN :
        LET u == job[w].cur
            created == ~failed /\ u # Nobody /\ u \notin accounts
        IN  /\ At(w, "create")
            /\ Fails(failed) /\ Excuse(w, failed)
            /\ accounts' = IF created THEN accounts \cup {u} ELSE accounts
            /\ metBefore' = IF created THEN metBefore \cup {u} ELSE metBefore
            /\ Become(w, [job[w] EXCEPT !.pc = "again"])
            /\ UNCHANGED <<resources, nsQueue, nsJob, due, admJob, admins, orgAdmins, acl, key, asked, unserved>>

FoundAgain_Unasked(u, failed) == FALSE  \* mutant: the id of a new account is not looked up
FoundAgain_Assumed(u, failed) == ~failed  \* mutant: who was just created is taken to be there
FoundAgain(u, failed) == Found(u, failed)

\* The id stays 0, and goes on the list as that.
NotFound_LeftOut(j) == [j EXCEPT !.todo = @ \ {j.cur}]  \* mutant: the list goes without
NotFound(j) == [j EXCEPT !.todo = @ \ {j.cur}, !.unknown = TRUE]

LookAgain(w) ==
    \E failed \in BOOLEAN :
        /\ At(w, "again")
        /\ Fails(failed) /\ Excuse(w, failed)
        /\ IF FoundAgain(job[w].cur, failed) THEN NextUser(w, job[w].cur)
           ELSE Become(w, [NotFound(job[w]) EXCEPT !.pc = "users", !.cur = NoName])
        /\ UNCHANGED <<resources, nsQueue, nsJob, due, admJob, grafana, key, asked, metBefore, unserved>>

\* CreateGrafanaPermission: the uid of the folder, ...
FindFolder(w) ==
    \E failed \in BOOLEAN :
        /\ At(w, "users") /\ job[w].todo = {}
        /\ Fails(failed) /\ Excuse(w, failed)
        /\ Become(w, [job[w] EXCEPT !.pc = "key",
                                    !.folder = IF failed THEN Unset ELSE FolderOf[job[w].dash]])
        /\ UNCHANGED <<resources, nsQueue, nsJob, due, admJob, grafana, key, asked, metBefore, unserved>>

\* ... a new key, kept where all goroutines keep it, ...
AskKey(w) ==
    \E failed \in BOOLEAN :
        /\ At(w, "key")
        /\ Fails(failed)
        /\ key' = NewKey(failed)
        /\ excused' = IF failed
                      THEN excused \cup { job[v].dash : v \in Sending \cup {w} } ELSE excused
        /\ Become(w, [job[w] EXCEPT !.pc = "post"])
        /\ UNCHANGED <<resources, nsQueue, nsJob, due, admJob, grafana, asked, metBefore, unserved>>

\* ... and the list, which replaces the one the folder has.  Grafana refuses an
\* entry for the id 0, and takes one for the id -1 as an entry for nobody.
Accepts(w) == key /\ job[w].folder # Unset /\ ~job[w].unknown
InFolder(d) == { e \in Dashboards : FolderOf[e] = FolderOf[d] /\ owners[e] # NoCR }
SameUsers(w) == { e \in InFolder(job[w].dash) : owners[e] = job[w].users }

PostPermissions(w) ==
    \E failed \in BOOLEAN :
        LET f == job[w].folder
            set == ~failed /\ Accepts(w)
        IN  /\ At(w, "post")
            /\ Fails(failed)
            /\ acl' = IF set THEN [acl EXCEPT ![f] = job[w].list] ELSE acl
            /\ asked' = IF set THEN [asked EXCEPT ![f] = @ \cup {job[w].users}] ELSE asked
            /\ excused' = IF set
                          THEN (excused \cup InFolder(job[w].dash)) \ SameUsers(w)
                          ELSE IF failed THEN excused \cup {job[w].dash} ELSE excused
            /\ Become(w, Idle)
            /\ UNCHANGED <<resources, nsQueue, nsJob, due, admJob, accounts, admins, orgAdmins, key,
                           metBefore, unserved>>

-----------------------------------------------------------------------------
(* GiveAdmin, at the end of each successful loop of the Grafana controller.    *)

AdmAt(pc) == admJob.pc = pc
Miss(failed) == metBefore' = IF failed THEN metBefore \cup {admJob.cur} ELSE metBefore

\* On to the next user, or the end.
Done(todo) == IF todo = {} THEN AdmIdle ELSE [AdmIdle EXCEPT !.pc = "next", !.todo = todo]

ListAdmins ==
    /\ AdmAt("idle") /\ NoSubject \notin bindings
    /\ admJob' = Done(bindings)
    /\ UNCHANGED <<resources, nsQueue, nsJob, due, job, grafana, key, history, events>>

\* Only who has no account is made an administrator.
LookAdmin ==
    \E u \in admJob.todo, failed \in BOOLEAN :
        /\ AdmAt("next")
        /\ Fails(failed)
        /\ admJob' = IF Found(u, failed) THEN Done(admJob.todo \ {u})
                     ELSE [admJob EXCEPT !.pc = "create", !.cur = u, !.todo = @ \ {u}]
        /\ UNCHANGED <<resources, nsQueue, nsJob, due, job, grafana, key, history>>

CreateAdmin ==
    \E failed \in BOOLEAN :
        /\ AdmAt("create")
        /\ Fails(failed)
        /\ accounts' = IF failed THEN accounts ELSE accounts \cup {admJob.cur}
        /\ admJob' = [admJob EXCEPT !.pc = "id"]
        /\ UNCHANGED <<resources, nsQueue, nsJob, due, job, admins, orgAdmins, acl, key, history>>

\* The id, 0 or -1 unless it is an ordinary user's, and the two requests with it.
IsUser_BeforeCreation(u, failed) == FALSE  \* mutant: the id is the one of the first look
IsUser(u, failed) == Found(u, failed) /\ u \notin admins

LookId ==
    \E failed \in BOOLEAN :
        /\ AdmAt("id")
        /\ Fails(failed) /\ Miss(failed)
        /\ admJob' = [admJob EXCEPT !.pc = "put", !.found = IsUser(admJob.cur, failed)]
        /\ UNCHANGED <<resources, nsQueue, nsJob, due, job, grafana, key, asked, excused, unserved>>

MakeAdmin ==
    \E failed \in BOOLEAN :
        /\ AdmAt("put")
        /\ Fails(failed) /\ Miss(failed)
        /\ admins' = IF ~failed /\ admJob.found THEN admins \cup {admJob.cur} ELSE admins
        /\ admJob' = [admJob EXCEPT !.pc = "patch"]
        /\ UNCHANGED <<resources, nsQueue, nsJob, due, job, accounts, orgAdmins, acl, key,
                       asked, excused, unserved>>

MakeOrgAdmin ==
    \E failed \in BOOLEAN :
        /\ AdmAt("patch")
        /\ Fails(failed) /\ Miss(failed)
        /\ orgAdmins' = IF ~failed /\ admJob.found THEN orgAdmins \cup {admJob.cur} ELSE orgAdmins
        /\ admJob' = Done(admJob.todo)
        /\ UNCHANGED <<resources, nsQueue, nsJob, due, job, accounts, admins, acl, key,
                       asked, excused, unserved>>

-----------------------------------------------------------------------------
(* Restarts, and what people do.                                             *)

Event == events < MaxEvents /\ events' = events + 1

\* The operator starts again: no hash is known, every namespace is listed.
StartsAgain ==
    /\ nsQueue' = Namespaces
    /\ nsJob' = NsIdle
    /\ due' = { d \in Dashboards : owners[d] # NoCR }
    /\ job' = [w \in Workers |-> Idle]
    /\ admJob' = AdmIdle
    /\ key' = FALSE
    /\ metBefore' = metBefore \cup ({admJob.cur} \ {NoName})
    /\ UNCHANGED <<resources, grafana, asked, excused, unserved>>

\* GetCRBAdmin takes the first subject of a binding that has none.
NoFirstSubject == AdmAt("idle") /\ NoSubject \in bindings /\ StartsAgain /\ UNCHANGED events
Restart == Event /\ StartsAgain

EditNamespace(n) ==
    /\ Event
    /\ \E a \in NsAnnotations \ {ns[n]} : ns' = [ns EXCEPT ![n] = a]
    /\ nsQueue' = nsQueue \cup {n}
    /\ unserved' = unserved \cup ({n} \X Kinds)
    /\ UNCHANGED <<owners, bindings, nsJob, due, job, admJob, grafana, key, asked, excused, metBefore>>

\* The annotation changes and nothing else: the hash is the same.
EditUsers(d) ==
    /\ Event /\ owners[d] # NoCR
    /\ \E a \in Annotations \ {owners[d]} : owners' = [owners EXCEPT ![d] = a]
    /\ excused' = excused \cup {d}
    /\ unserved' = unserved \cup ({d} \ Declared)
    /\ UNCHANGED <<ns, bindings, nsQueue, nsJob, due, job, admJob, grafana, key, asked, metBefore>>

\* The contents change, or the dashboard is deleted in Grafana, or a failure of
\* the Grafana controller invalidates its hash.
Resubmit(d) ==
    /\ Event /\ owners[d] # NoCR /\ d \notin due
    /\ due' = due \cup {d}
    /\ UNCHANGED <<resources, nsQueue, nsJob, job, admJob, grafana, key, history>>

Bind ==
    /\ Event
    /\ \E b \in Bindings \ {bindings} : bindings' = b
    /\ UNCHANGED <<ns, owners, nsQueue, nsJob, due, job, admJob, grafana, key, history>>

GiveAdmin == ListAdmins \/ LookAdmin \/ CreateAdmin \/ LookId \/ MakeAdmin \/ MakeOrgAdmin
ManageSuccess(w) == \/ Submit(w) \/ LookUser(w) \/ CreateUser(w) \/ LookAgain(w)
                    \/ FindFolder(w) \/ AskKey(w) \/ PostPermissions(w)

Next == \/ NsReconcile \/ CreateUserDashboard
        \/ \E w \in Workers : ManageSuccess(w)
        \/ GiveAdmin \/ NoFirstSubject \/ Restart \/ Bind
        \/ \E n \in Namespaces : EditNamespace(n)
        \/ \E d \in Dashboards : EditUsers(d) \/ Resubmit(d)

Fairness == /\ WF_vars(NsReconcile) /\ WF_vars(CreateUserDashboard)
            /\ \A w \in Workers : WF_vars(ManageSuccess(w))
            /\ WF_vars(GiveAdmin) /\ WF_vars(NoFirstSubject)

Spec == Init /\ [][Next]_vars
FairSpec == Spec /\ Fairness

-----------------------------------------------------------------------------
(* Properties.                                                               *)

NsOwned == { {u} : u \in People }
Asking == {"create", "again"}
Jobs == [pc : {"idle", "users", "create", "again", "key", "post"},
         dash : Dashboards \cup {NoCR}, users : Annotations \cup NsOwned \cup {{}},
         todo : SUBSET (People \cup {Nobody}), cur : People \cup {Nobody, NoName},
         list : SUBSET People, unknown : BOOLEAN, folder : Folders \cup {Unset}]
AdmJobs == [pc : {"idle", "next", "create", "id", "put", "patch"},
            todo : SUBSET People, cur : People \cup {NoName}, found : BOOLEAN]
NsJobs == [cur : Namespaces \cup {NoName}, owner : People \cup {NoName}, todo : SUBSET Kinds]

\* The types; and a goroutine in manageSuccess has a dashboard in hand, one that
\* looks for somebody somebody.
TypeOK ==
    /\ ns \in [Namespaces -> NsAnnotations] /\ nsQueue \subseteq Namespaces
    /\ owners \in [Dashboards -> Annotations \cup NsOwned \cup {NoCR}]
    /\ bindings \in Bindings
    /\ \A d \in due : d \in Dashboards /\ owners[d] # NoCR
    /\ job \in [Workers -> Jobs]
    /\ \A w \in Working : job[w].dash # NoCR /\ job[w].users # {}
    /\ \A w \in Workers : job[w].pc \in Asking => job[w].cur # NoName
    /\ nsJob \in NsJobs /\ (nsJob.todo # {} => nsJob.cur # NoName /\ nsJob.owner # NoName)
    /\ admJob \in AdmJobs
    /\ admJob.pc \notin {"idle", "next"} => admJob.cur # NoName
    /\ accounts \subseteq People /\ admins \subseteq accounts /\ orgAdmins \subseteq accounts
    /\ acl \in [Folders -> (SUBSET People) \cup {Unset}]
    /\ key \in BOOLEAN
    /\ asked \in [Folders -> SUBSET (Annotations \cup NsOwned)]
    /\ excused \subseteq Dashboards /\ metBefore \subseteq People /\ unserved \subseteq Dashboards
    /\ events \in 0..MaxEvents

\* The list of a folder is one that the annotation of one of its dashboards asked
\* for, never a part of one or a mixture of two, whatever calls failed while it
\* was put together: who is missing from it is an administrator.
ListWhole ==
    \A f \in Folders : acl[f] # Unset =>
        \E users \in asked[f] : acl[f] \subseteq users /\ users \ acl[f] \subseteq admins

\* The operator crashes again and again while a binding has no subject.
Bound == NoSubject \notin bindings
Viewers(f) == IF acl[f] = Unset THEN {} ELSE acl[f]

\* The users of a dashboard come to see its folder.  The exceptions: one of the
\* calls for it failed, or a request for a key by somebody else just before it
\* sent the list; the annotation was edited; the folder has another dashboard
\* with other users, whose list came later.
UsersAdmitted ==
    <>[]Bound => <>[](\A d \in Dashboards \ excused :
        owners[d] \notin {NoCR, {Nobody}} => owners[d] \subseteq Viewers(FolderOf[d]) \cup admins)

\* The cluster's admins become administrators of Grafana, except who had an
\* account before, or lost one of the calls: the next loop passes them over.
AdminsServed ==
    <>[]Bound => <>[](bindings \ metBefore \subseteq admins \cap orgAdmins)

\* Each namespace gets its dashboards, for its owner, but for one whose own
\* creation failed or whose annotation, or the namespace's, somebody changed: the
\* failure of one keeps no other from being made, nor does a missing key.
NamespacesServed ==
    <>[]Bound => <>[](\A d \in (Namespaces \X Kinds) \ unserved : owners[d] = {Owner(ns[d[1]])})
=============================================================================
