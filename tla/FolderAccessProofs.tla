--------------------------- MODULE FolderAccessProofs ---------------------------
(***************************************************************************)
(* Proofs about the accounts and folder lists: their state keeps its types,    *)
(* and no folder ever has a part of a list, or a mixture of two, however many    *)
(* goroutines submit dashboards and whatever calls fail.                      *)
(***************************************************************************)
EXTENDS FolderAccess, TLAPS

\* TypeOK by who owns the variables.
NsTypes ==
    /\ ns \in [Namespaces -> NsAnnotations] /\ nsQueue \subseteq Namespaces
    /\ nsJob \in NsJobs /\ (nsJob.todo # {} => nsJob.cur # NoName /\ nsJob.owner # NoName)
    /\ unserved \subseteq Dashboards
DashboardTypes ==
    /\ owners \in [Dashboards -> Annotations \cup NsOwned \cup {NoCR}]
    /\ \A d \in due : d \in Dashboards /\ owners[d] # NoCR
JobTypes ==
    /\ job \in [Workers -> Jobs]
    /\ \A w \in Working : job[w].dash # NoCR /\ job[w].users # {}
    /\ \A w \in Workers : job[w].pc \in Asking => job[w].cur # NoName
AdminTypes ==
    /\ bindings \in Bindings /\ admJob \in AdmJobs
    /\ admJob.pc \notin {"idle", "next"} => admJob.cur # NoName
    /\ admJob.found => admJob.pc \in {"put", "patch"} /\ admJob.cur \in accounts
GrafanaTypes ==
    /\ accounts \subseteq People /\ admins \subseteq accounts /\ orgAdmins \subseteq accounts
    /\ acl \in [Folders -> (SUBSET People) \cup {Unset}]
    /\ key \in BOOLEAN
HistoryTypes ==
    /\ asked \in [Folders -> SUBSET (Annotations \cup NsOwned)]
    /\ excused \subseteq Dashboards /\ metBefore \subseteq People
EventTypes == events \in 0..MaxEvents

Types == NsTypes /\ DashboardTypes /\ JobTypes /\ AdminTypes /\ GrafanaTypes /\ HistoryTypes /\ EventTypes

\* Of the users of the dashboard a goroutine has in hand, each is on its list, is an
\* administrator, or still has to be looked for; or one was not found.
Fits(j, administrators) ==
    /\ j.list \subseteq j.users /\ j.todo \subseteq j.users
    /\ j.pc \in Asking => j.cur \in j.todo
    /\ j.pc \in {"key", "post"} => j.todo = {}
    /\ ~j.unknown => j.users \ j.list \subseteq administrators \cup j.todo
Listing(w) == Fits(job[w], admins)

Inductive == Types /\ ListWhole /\ \A w \in Workers : Listing(w)

-----------------------------------------------------------------------------
(* Constants and helpers.                                                    *)

\* Whom an annotation names.
LEMMA AnnotationTypes ==
    \A a \in Annotations \cup NsOwned :
        a # {} /\ a \subseteq People \cup {Nobody} /\ a # NoCR
BY AnnotationAssumption, NobodyAssumption DEF NsOwned

\* Every dashboard has a folder.
LEMMA FolderTypes == \A d \in Dashboards : FolderOf[d] \in Folders /\ d # NoCR
BY NobodyAssumption DEF Folders

\* The owner of a namespace is a person.
LEMMA OwnerType ==
    ASSUME NEW a \in NsAnnotations
    PROVE  Owner(a) \in People /\ Owner(a) # NoName
BY AnnotationAssumption, PeopleAssumption, NobodyAssumption DEF Owner

\* Faults and events stay within their bound.
LEMMA FailsType ==
    ASSUME EventTypes, NEW failed, Fails(failed)
    PROVE  EventTypes'
BY EventsAssumption DEF EventTypes, Fails

\* What people do stays within the bound.
LEMMA EventType ==
    ASSUME EventTypes, Event
    PROVE  EventTypes'
BY EventsAssumption DEF EventTypes, Event

\* A goroutine between two dashboards.
LEMMA IdleTypes == Idle \in Jobs /\ NsIdle \in NsJobs /\ AdmIdle \in AdmJobs
BY DEF Idle, Jobs, NsIdle, NsJobs, AdmIdle, AdmJobs

\* At the start no list is set and nobody is looked for.
LEMMA InitInductive == Init => Inductive
<1> SUFFICES ASSUME Init PROVE Inductive
    OBVIOUS
<1> USE IdleTypes DEF Init
<1>1. NsTypes
    BY DEF NsTypes, NsIdle
<1>2. DashboardTypes
    BY DEF DashboardTypes
<1>3. JobTypes
    BY DEF JobTypes, Working, Idle, Asking
<1>4. AdminTypes
    BY DEF AdminTypes, AdmIdle
<1>5. GrafanaTypes
    BY DEF GrafanaTypes
<1>6. HistoryTypes
    BY DEF HistoryTypes
<1>7. EventTypes
    BY EventsAssumption DEF EventTypes
<1>8. ListWhole
    BY DEF ListWhole
<1>9. \A w \in Workers : Listing(w)
    BY DEF Listing, Fits, Idle, Asking
<1> QED BY <1>1, <1>2, <1>3, <1>4, <1>5, <1>6, <1>7, <1>8, <1>9 DEF Inductive, Types

-----------------------------------------------------------------------------
(* Steps that leave the goroutines and the lists alone.                       *)

\* What a list owes to the administrators it keeps when there are more of them.
LEMMA Frame ==
    ASSUME Inductive, UNCHANGED <<job, acl, asked>>, admins \subseteq admins'
    PROVE  JobTypes' /\ ListWhole' /\ \A w \in Workers : Listing(w)'
<1>1. JobTypes'
    BY DEF Inductive, Types, JobTypes, Working
<1>2. ListWhole'
    BY DEF Inductive, ListWhole
<1>3. ASSUME NEW w \in Workers PROVE Listing(w)'
    BY DEF Inductive, Listing, Fits
<1> QED BY <1>1, <1>2, <1>3

\* The namespace controller touches neither lists nor submissions: only the key.
LEMMA NsReconcileInductive ==
    ASSUME Inductive, NsReconcile
    PROVE  Inductive'
<1> USE DEF Inductive, Types
<1>1. PICK n \in nsQueue, failed \in BOOLEAN :
        /\ Fails(failed) /\ nsQueue' = nsQueue \ {n} /\ nsJob' = Begun(n, failed) /\ key' = NewKey(failed)
        /\ excused' = IF failed THEN excused \cup { job[w].dash : w \in Sending } ELSE excused
    BY DEF NsReconcile
<1>2. UNCHANGED <<resources, due, job, admJob, grafana, asked, metBefore, unserved>>
    BY DEF NsReconcile
<1> USE DEF resources, grafana
<1>3. n \in Namespaces /\ ns[n] \in NsAnnotations
    BY DEF NsTypes
<1>4. NsTypes'
    BY <1>1, <1>2, <1>3, OwnerType, NobodyAssumption DEF NsTypes, Begun, NsJobs
<1>5. DashboardTypes' /\ AdminTypes'
    BY <1>2 DEF DashboardTypes, AdminTypes
<1>6. GrafanaTypes'
    BY <1>1, <1>2 DEF GrafanaTypes, NewKey
<1>7. excused' \subseteq Dashboards
  <2>1. \A w \in Sending : job[w].dash \in Dashboards
    BY DEF Sending, JobTypes, Working, Jobs
  <2> QED BY <1>1, <2>1 DEF HistoryTypes
<1>8. HistoryTypes' /\ EventTypes'
    BY <1>1, <1>2, <1>7, FailsType DEF HistoryTypes
<1> QED BY <1>2, <1>4, <1>5, <1>6, <1>8, Frame

\* A new dashboard has its owner for its one user.
LEMMA CreateUserDashboardInductive ==
    ASSUME Inductive, CreateUserDashboard
    PROVE  Inductive'
<1> USE DEF Inductive, Types
<1>1. PICK k \in nsJob.todo, failed \in BOOLEAN :
        LET d == <<nsJob.cur, k>>
            created == ~failed /\ owners[d] = NoCR
        IN  /\ Fails(failed)
            /\ owners' = IF created THEN [owners EXCEPT ![d] = {nsJob.owner}] ELSE owners
            /\ due' = IF created THEN due \cup {d} ELSE due
            /\ unserved' = IF failed THEN unserved \cup {d} ELSE unserved
            /\ nsJob' = AfterCreation(k)
    BY DEF CreateUserDashboard
<1>2. UNCHANGED <<ns, bindings, nsQueue, job, admJob, grafana, key, asked, excused, metBefore>>
    BY DEF CreateUserDashboard
<1> USE DEF grafana
<1>3. nsJob.cur \in Namespaces /\ nsJob.owner \in People /\ k \in Kinds
    BY DEF NsTypes, NsJobs
<1>4. <<nsJob.cur, k>> \in Dashboards /\ {nsJob.owner} \in NsOwned /\ {nsJob.owner} # NoCR
    BY <1>3, AnnotationTypes DEF Dashboards, NsOwned
<1>5. NsTypes'
    BY <1>1, <1>2, <1>3, <1>4 DEF NsTypes, NsJobs, AfterCreation, NsIdle
<1>6. DashboardTypes'
    BY <1>1, <1>4 DEF DashboardTypes
<1>7. AdminTypes' /\ GrafanaTypes'
    BY <1>2 DEF AdminTypes, GrafanaTypes
<1>8. HistoryTypes' /\ EventTypes'
    BY <1>1, <1>2, FailsType DEF HistoryTypes
<1> QED BY <1>2, <1>5, <1>6, <1>7, <1>8, Frame

\* GiveAdmin.  What a step finds stays found: accounts do not go away.
LEMMA GiveAdminInductive ==
    ASSUME Inductive, GiveAdmin
    PROVE  Inductive'
<1> USE DEF Inductive, Types
<1>1. UNCHANGED <<ns, owners, bindings, nsQueue, nsJob, due, job, acl, key, asked, excused, unserved>>
    BY DEF GiveAdmin, ListAdmins, LookAdmin, CreateAdmin, LookId, MakeAdmin, MakeOrgAdmin, resources, grafana, history
<1>2. EventTypes'
    BY FailsType DEF GiveAdmin, ListAdmins, LookAdmin, CreateAdmin, LookId, MakeAdmin, MakeOrgAdmin, EventTypes
<1>3. NsTypes' /\ DashboardTypes'
    BY <1>1 DEF NsTypes, DashboardTypes
<1>4. admJob.cur # NoName => admJob.cur \in People
    BY DEF AdminTypes, AdmJobs
<1>5. AdminTypes' /\ GrafanaTypes' /\ metBefore' \subseteq People /\ admins \subseteq admins'
  <2>1. CASE ListAdmins
    <3>1. bindings \subseteq People
      BY <2>1, AnnotationAssumption DEF ListAdmins, AdminTypes
    <3>2. Done(bindings) \in AdmJobs /\ ~Done(bindings).found /\ Done(bindings).pc \in {"idle", "next"}
      BY <3>1, IdleTypes DEF Done, AdmJobs, AdmIdle
    <3> QED BY <2>1, <1>1, <3>2 DEF ListAdmins, AdminTypes, GrafanaTypes, HistoryTypes, grafana, history
  <2>2. CASE LookAdmin
    <3>1. PICK u \in admJob.todo, failed \in BOOLEAN :
            admJob' = IF Found(u, failed) THEN Done(admJob.todo \ {u})
                      ELSE [admJob EXCEPT !.pc = "create", !.cur = u, !.todo = @ \ {u}]
      BY <2>2 DEF LookAdmin
    <3>2. u \in People /\ admJob.todo \subseteq People /\ u # NoName
      BY NobodyAssumption DEF AdminTypes, AdmJobs
    <3>3. Done(admJob.todo \ {u}) \in AdmJobs /\ ~Done(admJob.todo \ {u}).found
          /\ Done(admJob.todo \ {u}).pc \in {"idle", "next"}
      BY <3>2, IdleTypes DEF Done, AdmJobs, AdmIdle
    <3>4. CASE Found(u, failed)
      BY <2>2, <1>1, <3>1, <3>3, <3>4 DEF LookAdmin, AdminTypes, GrafanaTypes, HistoryTypes, grafana, history
    <3>5. CASE ~Found(u, failed)
      <4>1. /\ admJob' \in AdmJobs /\ admJob'.pc = "create" /\ admJob'.cur = u
            /\ admJob'.found = admJob.found
        BY <3>1, <3>2, <3>5 DEF AdminTypes, AdmJobs
      <4>2. ~admJob.found
        BY <2>2 DEF LookAdmin, AdmAt, AdminTypes
      <4> QED BY <2>2, <1>1, <3>2, <4>1, <4>2 DEF LookAdmin, AdminTypes, GrafanaTypes, HistoryTypes, grafana, history
    <3> QED BY <3>4, <3>5
  <2>3. CASE CreateAdmin
    <3>1. admJob.cur \in People
      BY <2>3, <1>4 DEF CreateAdmin, AdmAt, AdminTypes
    <3>2. /\ admJob' = [admJob EXCEPT !.pc = "id"] /\ accounts \subseteq accounts' /\ accounts' \subseteq People
          /\ UNCHANGED <<admins, orgAdmins, acl, key, metBefore>>
      BY <2>3, <3>1 DEF CreateAdmin, GrafanaTypes, history
    <3> QED BY <2>3, <1>1, <3>2 DEF CreateAdmin, AdmAt, AdminTypes, AdmJobs, GrafanaTypes, HistoryTypes
  <2>4. CASE LookId
    <3>1. PICK failed \in BOOLEAN :
            /\ Miss(failed)
            /\ admJob' = [admJob EXCEPT !.pc = "put", !.found = IsUser(admJob.cur, failed)]
      BY <2>4 DEF LookId
    <3>2. IsUser(admJob.cur, failed) \in BOOLEAN /\ (IsUser(admJob.cur, failed) => admJob.cur \in accounts)
      BY DEF IsUser, Found
    <3>3. metBefore' \subseteq People
      BY <2>4, <1>4, <3>1 DEF LookId, AdmAt, Miss, AdminTypes, HistoryTypes
    <3>4. UNCHANGED <<bindings, accounts, admins, orgAdmins, acl, key>>
      BY <2>4, <1>1 DEF LookId, grafana
    <3>5. /\ admJob' \in AdmJobs /\ admJob'.cur = admJob.cur /\ admJob'.found = IsUser(admJob.cur, failed)
          /\ admJob.cur # NoName /\ admJob'.pc = "put"
      BY <2>4, <3>1, <3>2 DEF LookId, AdmAt, AdminTypes, AdmJobs
    <3> QED BY <3>2, <3>3, <3>4, <3>5 DEF AdminTypes, GrafanaTypes
  <2>5. CASE MakeAdmin
    <3>1. PICK failed \in BOOLEAN :
            /\ Miss(failed)
            /\ admins' = IF ~failed /\ admJob.found THEN admins \cup {admJob.cur} ELSE admins
            /\ admJob' = [admJob EXCEPT !.pc = "patch"]
      BY <2>5 DEF MakeAdmin
    <3>2. metBefore' \subseteq People
      BY <2>5, <1>4, <3>1 DEF MakeAdmin, AdmAt, Miss, AdminTypes, HistoryTypes
    <3>3. UNCHANGED <<bindings, accounts, orgAdmins, acl, key>>
      BY <2>5, <1>1 DEF MakeAdmin
    <3>4. admins \subseteq admins' /\ admins' \subseteq accounts
      BY <3>1 DEF AdminTypes, GrafanaTypes
    <3>5. /\ admJob' \in AdmJobs /\ admJob'.cur = admJob.cur /\ admJob'.found = admJob.found
          /\ admJob.cur # NoName /\ admJob'.pc = "patch"
      BY <2>5, <3>1 DEF MakeAdmin, AdmAt, AdminTypes, AdmJobs
    <3> QED BY <3>2, <3>3, <3>4, <3>5 DEF AdminTypes, GrafanaTypes
  <2>6. CASE MakeOrgAdmin
    <3>1. PICK failed \in BOOLEAN :
            /\ Miss(failed)
            /\ orgAdmins' = IF ~failed /\ admJob.found THEN orgAdmins \cup {admJob.cur} ELSE orgAdmins
            /\ admJob' = Done(admJob.todo)
      BY <2>6 DEF MakeOrgAdmin
    <3>2. metBefore' \subseteq People
      BY <2>6, <1>4, <3>1 DEF MakeOrgAdmin, AdmAt, Miss, AdminTypes, HistoryTypes
    <3>3. UNCHANGED <<bindings, accounts, admins, acl, key>>
      BY <2>6, <1>1 DEF MakeOrgAdmin
    <3>4. orgAdmins' \subseteq accounts
      BY <3>1 DEF AdminTypes, GrafanaTypes
    <3>5. admJob' \in AdmJobs /\ ~admJob'.found /\ admJob'.pc \in {"idle", "next"}
      BY <3>1, IdleTypes DEF Done, AdminTypes, AdmJobs, AdmIdle
    <3> QED BY <3>2, <3>3, <3>4, <3>5 DEF AdminTypes, GrafanaTypes
  <2> QED BY <2>1, <2>2, <2>3, <2>4, <2>5, <2>6 DEF GiveAdmin
<1>6. HistoryTypes'
    BY <1>1, <1>5 DEF HistoryTypes
<1> QED BY <1>1, <1>2, <1>3, <1>5, <1>6, Frame

\* Restarts, and what people do.
LEMMA StartsAgainInductive ==
    ASSUME Inductive, StartsAgain, EventTypes'
    PROVE  Inductive'
<1> USE IdleTypes DEF Inductive, Types
<1>1. /\ nsQueue' = Namespaces /\ nsJob' = NsIdle /\ due' = { d \in Dashboards : owners[d] # NoCR }
      /\ job' = [w \in Workers |-> Idle] /\ admJob' = AdmIdle /\ key' = FALSE
      /\ metBefore' = metBefore \cup ({admJob.cur} \ {NoName})
    BY DEF StartsAgain
<1>2. UNCHANGED <<ns, owners, bindings, accounts, admins, orgAdmins, acl, asked, excused, unserved>>
    BY DEF StartsAgain, resources, grafana
<1>3. NsTypes' /\ DashboardTypes'
    BY <1>1, <1>2 DEF NsTypes, NsIdle, DashboardTypes
<1>4. JobTypes' /\ \A w \in Workers : Listing(w)'
    BY <1>1 DEF JobTypes, Working, Idle, Asking, Listing, Fits
<1>5. AdminTypes' /\ GrafanaTypes'
    BY <1>1, <1>2 DEF AdminTypes, AdmIdle, GrafanaTypes
<1>6. HistoryTypes'
    BY <1>1, <1>2 DEF HistoryTypes, AdminTypes, AdmJobs
<1>7. ListWhole'
    BY <1>2 DEF ListWhole
<1> QED BY <1>3, <1>4, <1>5, <1>6, <1>7

\* Edits and bindings do not reach what a submission has in hand.
LEMMA PeopleInductive ==
    ASSUME Inductive,
           \/ \E n \in Namespaces : EditNamespace(n)
           \/ \E d \in Dashboards : EditUsers(d) \/ Resubmit(d)
           \/ Bind
    PROVE  Inductive'
<1> USE DEF Inductive, Types
<1>1. EventTypes' /\ UNCHANGED <<nsJob, job, admJob, grafana, key, asked, metBefore>>
    BY EventType DEF EditNamespace, EditUsers, Resubmit, Bind, history
<1>2. GrafanaTypes'
    BY <1>1 DEF GrafanaTypes, grafana
<1>3. NsTypes' /\ DashboardTypes' /\ AdminTypes' /\ excused' \subseteq Dashboards
  <2>1. ASSUME NEW n \in Namespaces, EditNamespace(n) PROVE NsTypes' /\ DashboardTypes' /\ AdminTypes' /\ excused' \subseteq Dashboards
    <3>1. NsTypes'
      BY <1>1, <2>1 DEF EditNamespace, NsTypes, Dashboards
    <3> QED BY <1>1, <2>1, <3>1 DEF EditNamespace, DashboardTypes, AdminTypes, HistoryTypes, grafana
  <2>2. ASSUME NEW d \in Dashboards, EditUsers(d) PROVE NsTypes' /\ DashboardTypes' /\ AdminTypes' /\ excused' \subseteq Dashboards
    <3>1. PICK a \in Annotations \ {owners[d]} : owners' = [owners EXCEPT ![d] = a]
      BY <2>2 DEF EditUsers
    <3>2. DashboardTypes'
      BY <2>2, <3>1, AnnotationTypes DEF EditUsers, DashboardTypes
    <3>3. NsTypes'
      BY <1>1, <2>2 DEF EditUsers, NsTypes, Dashboards
    <3> QED BY <1>1, <2>2, <3>2, <3>3 DEF EditUsers, AdminTypes, HistoryTypes, grafana
  <2>3. ASSUME NEW d \in Dashboards, Resubmit(d) PROVE NsTypes' /\ DashboardTypes' /\ AdminTypes' /\ excused' \subseteq Dashboards
    BY <1>1, <2>3 DEF Resubmit, NsTypes, DashboardTypes, AdminTypes, HistoryTypes, resources, grafana, history
  <2>4. CASE Bind
    BY <1>1, <2>4 DEF Bind, NsTypes, DashboardTypes, AdminTypes, HistoryTypes, grafana, history
  <2> QED BY <2>1, <2>2, <2>3, <2>4
<1>4. HistoryTypes'
    BY <1>1, <1>3 DEF HistoryTypes
<1> QED BY <1>1, <1>2, <1>3, <1>4, Frame DEF grafana

-----------------------------------------------------------------------------
(* manageSuccess.                                                            *)

\* One goroutine takes a step of its submission.
LEMMA JobStep ==
    ASSUME JobTypes, \A v \in Workers : Listing(v), NEW w \in Workers, NEW j \in Jobs, Become(w, j),
           admins \subseteq admins', Fits(j, admins'),
           j.pc # "idle" => j.dash # NoCR /\ j.users # {}, j.pc \in Asking => j.cur # NoName
    PROVE  JobTypes' /\ \A v \in Workers : Listing(v)'
<1>1. job' = [job EXCEPT ![w] = j]
    BY DEF Become
<1>2. JobTypes'
    BY <1>1 DEF JobTypes, Working
<1>3. ASSUME NEW v \in Workers PROVE Listing(v)'
    BY <1>1 DEF JobTypes, Listing, Fits
<1> QED BY <1>2, <1>3

\* The dashboard in hand, while there is one.
LEMMA InHand ==
    ASSUME JobTypes, NEW w \in Workers, job[w].pc # "idle"
    PROVE  /\ job[w] \in Jobs /\ job[w].dash \in Dashboards /\ job[w].users # {}
           /\ job[w].users \in Annotations \cup NsOwned
BY DEF JobTypes, Working, Jobs

\* A call that fails excuses a dashboard.
LEMMA ExcuseType ==
    ASSUME Inductive, NEW w \in Workers, job[w].pc # "idle", NEW failed \in BOOLEAN, Excuse(w, failed)
    PROVE  excused' \subseteq Dashboards
BY InHand DEF Excuse, Inductive, Types, HistoryTypes

\* What a submission leaves alone: the queues and the administrators.
LEMMA SubmissionFrame ==
    ASSUME Inductive, UNCHANGED <<resources, nsQueue, nsJob, due, admJob, admins, orgAdmins, unserved>>,
           accounts \subseteq accounts'
    PROVE  NsTypes' /\ DashboardTypes' /\ AdminTypes'
BY DEF Inductive, Types, NsTypes, DashboardTypes, AdminTypes, resources

\* A submission starts with everybody it is for still to be looked for.
LEMMA SubmitInductive ==
    ASSUME Inductive, NEW w \in Workers, Submit(w)
    PROVE  Inductive'
<1> USE DEF Inductive, Types
<1>1. PICK d \in due :
        /\ due' = due \ {d}
        /\ Become(w, [Idle EXCEPT !.pc = "users", !.dash = d, !.users = owners[d], !.todo = owners[d]])
    BY DEF Submit
<1>2. UNCHANGED <<resources, nsQueue, nsJob, admJob, grafana, key, history, events>>
    BY DEF Submit
<1> USE DEF resources, grafana, history
<1>3. d \in Dashboards /\ owners[d] \in Annotations \cup NsOwned /\ d # NoCR
    BY FolderTypes DEF DashboardTypes
<1> DEFINE j == [Idle EXCEPT !.pc = "users", !.dash = d, !.users = owners[d], !.todo = owners[d]]
<1>4. /\ j \in Jobs /\ j.pc = "users" /\ j.dash = d /\ j.users = owners[d] /\ j.todo = owners[d]
      /\ j.list = {}
    BY <1>3, AnnotationTypes, IdleTypes DEF Idle, Jobs
<1>5. Fits(j, admins')
    BY <1>4 DEF Fits, Asking
<1>6. JobTypes' /\ \A v \in Workers : Listing(v)'
    BY <1>1, <1>2, <1>3, <1>4, <1>5, AnnotationTypes, JobStep DEF Asking
<1>7. NsTypes' /\ DashboardTypes' /\ AdminTypes'
    BY <1>1, <1>2 DEF NsTypes, DashboardTypes, AdminTypes
<1>8. GrafanaTypes' /\ HistoryTypes' /\ EventTypes' /\ ListWhole'
    BY <1>2 DEF GrafanaTypes, HistoryTypes, EventTypes, ListWhole
<1> QED BY <1>6, <1>7, <1>8

\* Whoever is found goes on the list, unless as an administrator.
LEMMA NextUserStep ==
    ASSUME Inductive, NEW w \in Workers, job[w].pc # "idle", NEW u \in job[w].todo, u \in accounts,
           job[w].pc \in Asking \cup {"users"}, NextUser(w, u), admins' = admins
    PROVE  JobTypes' /\ \A v \in Workers : Listing(v)'
<1> USE DEF Inductive, Types
<1> DEFINE j == [job[w] EXCEPT !.pc = "users", !.todo = @ \ {u}, !.cur = NoName,
                               !.list = IF u \in admins THEN @ ELSE @ \cup {u}]
<1>1. job[w] \in Jobs /\ job[w].dash # NoCR /\ job[w].users # {} /\ Fits(job[w], admins) /\ u \in People
    BY InHand, FolderTypes DEF Listing, GrafanaTypes
<1>2. /\ j.pc = "users" /\ j.todo = job[w].todo \ {u} /\ j.users = job[w].users /\ j.dash = job[w].dash
      /\ j.list = IF u \in admins THEN job[w].list ELSE job[w].list \cup {u}
      /\ j.unknown = job[w].unknown /\ j.cur = NoName /\ j.folder = job[w].folder
    BY <1>1 DEF Jobs
<1>3. j \in Jobs
    BY <1>1, <1>2 DEF Jobs
<1>4. Fits(j, admins')
    BY <1>1, <1>2 DEF Fits, Asking
<1>5. Become(w, j)
    BY DEF NextUser
<1> QED BY <1>1, <1>2, <1>3, <1>4, <1>5, JobStep DEF Asking

\* Who is not found will be created.
LEMMA LookUserInductive ==
    ASSUME Inductive, NEW w \in Workers, LookUser(w)
    PROVE  Inductive'
<1> USE DEF Inductive, Types
<1>1. PICK u \in job[w].todo, failed \in BOOLEAN :
        /\ Fails(failed) /\ Excuse(w, failed)
        /\ IF Found(u, failed) THEN NextUser(w, u)
           ELSE Become(w, [job[w] EXCEPT !.pc = "create", !.cur = u])
    BY DEF LookUser
<1>2. /\ job[w].pc = "users"
      /\ UNCHANGED <<resources, nsQueue, nsJob, due, admJob, grafana, key, asked, metBefore, unserved>>
    BY DEF LookUser, At
<1>3. EventTypes' /\ excused' \subseteq Dashboards
    BY <1>1, <1>2, FailsType, ExcuseType
<1>4. NsTypes' /\ DashboardTypes' /\ AdminTypes'
    BY <1>2, SubmissionFrame DEF grafana
<1>5. GrafanaTypes' /\ HistoryTypes' /\ ListWhole'
    BY <1>2, <1>3 DEF GrafanaTypes, HistoryTypes, ListWhole, grafana
<1>6. JobTypes' /\ \A v \in Workers : Listing(v)'
  <2>1. CASE Found(u, failed)
    BY <1>1, <1>2, <2>1, NextUserStep DEF Found, grafana
  <2>2. CASE ~Found(u, failed)
    <3> DEFINE j == [job[w] EXCEPT !.pc = "create", !.cur = u]
    <3>1. job[w] \in Jobs /\ job[w].dash # NoCR /\ job[w].users # {} /\ Fits(job[w], admins)
      BY <1>2, InHand, FolderTypes DEF Listing
    <3>2. u \in People \cup {Nobody} /\ u # NoName
      BY <3>1, NobodyAssumption DEF Jobs
    <3>3. /\ j.pc = "create" /\ j.cur = u /\ j.todo = job[w].todo /\ j.users = job[w].users
          /\ j.dash = job[w].dash /\ j.list = job[w].list /\ j.unknown = job[w].unknown
          /\ j.folder = job[w].folder
      BY <3>1 DEF Jobs
    <3>4. j \in Jobs
      BY <3>1, <3>2, <3>3 DEF Jobs
    <3>5. Fits(j, admins')
      BY <1>2, <3>1, <3>3 DEF Fits, Asking, grafana
    <3> QED BY <1>1, <1>2, <2>2, <3>1, <3>2, <3>3, <3>4, <3>5, JobStep DEF grafana
  <2> QED BY <2>1, <2>2
<1> QED BY <1>3, <1>4, <1>5, <1>6

\* An account more leaves the list that is put together as it is.
LEMMA CreateUserInductive ==
    ASSUME Inductive, NEW w \in Workers, CreateUser(w)
    PROVE  Inductive'
<1> USE DEF Inductive, Types
<1> DEFINE u == job[w].cur
           j == [job[w] EXCEPT !.pc = "again"]
<1>1. PICK failed \in BOOLEAN :
        LET created == ~failed /\ u # Nobody /\ u \notin accounts
        IN  /\ Fails(failed) /\ Excuse(w, failed)
            /\ accounts' = IF created THEN accounts \cup {u} ELSE accounts
            /\ metBefore' = IF created THEN metBefore \cup {u} ELSE metBefore
    BY DEF CreateUser
<1>2. /\ job[w].pc = "create" /\ Become(w, j)
      /\ UNCHANGED <<resources, nsQueue, nsJob, due, admJob, admins, orgAdmins, acl, key, asked, unserved>>
    BY DEF CreateUser, At
<1>3. /\ job[w] \in Jobs /\ job[w].dash # NoCR /\ job[w].users # {} /\ Fits(job[w], admins)
      /\ u # NoName
    BY <1>2, InHand, FolderTypes DEF Listing, JobTypes, Asking
<1>4. accounts \subseteq accounts' /\ accounts' \subseteq People /\ metBefore' \subseteq People
    BY <1>1, <1>3 DEF GrafanaTypes, HistoryTypes, Jobs
<1>5. EventTypes' /\ excused' \subseteq Dashboards
    BY <1>1, <1>2, FailsType, ExcuseType
<1>6. NsTypes' /\ DashboardTypes' /\ AdminTypes'
    BY <1>2, <1>4, SubmissionFrame
<1>7. GrafanaTypes' /\ HistoryTypes' /\ ListWhole'
    BY <1>2, <1>4, <1>5 DEF GrafanaTypes, HistoryTypes, ListWhole
<1>8. /\ j.pc = "again" /\ j.cur = u /\ j.todo = job[w].todo /\ j.users = job[w].users
      /\ j.dash = job[w].dash /\ j.list = job[w].list /\ j.unknown = job[w].unknown
      /\ j.folder = job[w].folder
    BY <1>3 DEF Jobs
<1>9. j \in Jobs
    BY <1>3, <1>8 DEF Jobs
<1>10. Fits(j, admins')
    BY <1>2, <1>3, <1>8 DEF Fits, Asking
<1>11. JobTypes' /\ \A v \in Workers : Listing(v)'
    BY <1>2, <1>3, <1>8, <1>9, <1>10, JobStep
<1> QED BY <1>5, <1>6, <1>7, <1>11

\* Whoever was looked for is on the list now, an administrator, or unknown.
LEMMA LookAgainInductive ==
    ASSUME Inductive, NEW w \in Workers, LookAgain(w)
    PROVE  Inductive'
<1> USE DEF Inductive, Types
<1> DEFINE u == job[w].cur
           j == [NotFound(job[w]) EXCEPT !.pc = "users", !.cur = NoName]
<1>1. PICK failed \in BOOLEAN :
        /\ Fails(failed) /\ Excuse(w, failed)
        /\ IF FoundAgain(u, failed) THEN NextUser(w, u) ELSE Become(w, j)
    BY DEF LookAgain
<1>2. /\ job[w].pc = "again"
      /\ UNCHANGED <<resources, nsQueue, nsJob, due, admJob, grafana, key, asked, metBefore, unserved>>
    BY DEF LookAgain, At
<1>3. EventTypes' /\ excused' \subseteq Dashboards
    BY <1>1, <1>2, FailsType, ExcuseType
<1>4. NsTypes' /\ DashboardTypes' /\ AdminTypes'
    BY <1>2, SubmissionFrame DEF grafana
<1>5. GrafanaTypes' /\ HistoryTypes' /\ ListWhole'
    BY <1>2, <1>3 DEF GrafanaTypes, HistoryTypes, ListWhole, grafana
<1>6. job[w] \in Jobs /\ job[w].dash # NoCR /\ job[w].users # {} /\ Fits(job[w], admins)
    BY <1>2, InHand, FolderTypes DEF Listing
<1>7. u \in job[w].todo
    BY <1>2, <1>6 DEF Fits, Asking
<1>8. JobTypes' /\ \A v \in Workers : Listing(v)'
  <2>1. CASE FoundAgain(u, failed)
    BY <1>1, <1>2, <1>7, <2>1, NextUserStep DEF FoundAgain, Found, Asking, grafana
  <2>2. CASE ~FoundAgain(u, failed)
    <3>1. /\ j.pc = "users" /\ j.todo = job[w].todo \ {u} /\ j.users = job[w].users
          /\ j.dash = job[w].dash /\ j.list = job[w].list /\ j.unknown /\ j.cur = NoName
          /\ j.folder = job[w].folder
      BY <1>6 DEF NotFound, Jobs
    <3>2. j \in Jobs
      BY <1>6, <3>1 DEF NotFound, Jobs
    <3>3. Fits(j, admins')
      BY <1>6, <3>1 DEF Fits, Asking
    <3> QED BY <1>1, <1>2, <1>6, <2>2, <3>1, <3>2, <3>3, JobStep DEF Asking, grafana
  <2> QED BY <2>1, <2>2
<1> QED BY <1>3, <1>4, <1>5, <1>8

\* With nobody left to look for the list is complete, or Grafana will refuse it.
LEMMA FindFolderInductive ==
    ASSUME Inductive, NEW w \in Workers, FindFolder(w)
    PROVE  Inductive'
<1> USE DEF Inductive, Types
<1>1. PICK failed \in BOOLEAN :
        /\ Fails(failed) /\ Excuse(w, failed)
        /\ Become(w, [job[w] EXCEPT !.pc = "key",
                                    !.folder = IF failed THEN Unset ELSE FolderOf[job[w].dash]])
    BY DEF FindFolder
<1>2. /\ job[w].pc = "users" /\ job[w].todo = {}
      /\ UNCHANGED <<resources, nsQueue, nsJob, due, admJob, grafana, key, asked, metBefore, unserved>>
    BY DEF FindFolder, At
<1> DEFINE f == IF failed THEN Unset ELSE FolderOf[job[w].dash]
           j == [job[w] EXCEPT !.pc = "key", !.folder = f]
<1>3. EventTypes' /\ excused' \subseteq Dashboards
    BY <1>1, <1>2, FailsType, ExcuseType
<1>4. NsTypes' /\ DashboardTypes' /\ AdminTypes'
    BY <1>2, SubmissionFrame DEF grafana
<1>5. GrafanaTypes' /\ HistoryTypes' /\ ListWhole'
    BY <1>2, <1>3 DEF GrafanaTypes, HistoryTypes, ListWhole, grafana
<1>6. /\ job[w] \in Jobs /\ job[w].dash # NoCR /\ job[w].users # {} /\ Fits(job[w], admins)
      /\ f \in Folders \cup {Unset}
    BY <1>2, InHand, FolderTypes DEF Listing
<1>7. /\ j.pc = "key" /\ j.todo = job[w].todo /\ j.users = job[w].users /\ j.dash = job[w].dash
      /\ j.list = job[w].list /\ j.unknown = job[w].unknown /\ j.cur = job[w].cur /\ j.folder = f
    BY <1>6 DEF Jobs
<1>8. j \in Jobs
    BY <1>6, <1>7 DEF Jobs
<1>9. Fits(j, admins')
    BY <1>2, <1>6, <1>7 DEF Fits, Asking, grafana
<1>10. JobTypes' /\ \A v \in Workers : Listing(v)'
    BY <1>1, <1>2, <1>6, <1>7, <1>8, <1>9, JobStep DEF Asking, grafana
<1> QED BY <1>3, <1>4, <1>5, <1>10

\* A request for a key changes nothing but the key and the goroutine that made it.
LEMMA AskKeyInductive ==
    ASSUME Inductive, NEW w \in Workers, AskKey(w)
    PROVE  Inductive'
<1> USE DEF Inductive, Types
<1> DEFINE j == [job[w] EXCEPT !.pc = "post"]
<1>1. PICK failed \in BOOLEAN :
        /\ Fails(failed) /\ key' = NewKey(failed) /\ Become(w, j)
        /\ excused' = IF failed THEN excused \cup { job[v].dash : v \in Sending \cup {w} } ELSE excused
    BY DEF AskKey
<1>2. /\ job[w].pc = "key"
      /\ UNCHANGED <<resources, nsQueue, nsJob, due, admJob, grafana, asked, metBefore, unserved>>
    BY DEF AskKey, At
<1>3. EventTypes'
    BY <1>1, FailsType
<1>4. excused' \subseteq Dashboards
  <2>1. \A v \in Sending \cup {w} : job[v].dash \in Dashboards
    BY <1>2, InHand DEF Sending
  <2> QED BY <1>1, <2>1 DEF HistoryTypes
<1>5. NsTypes' /\ DashboardTypes' /\ AdminTypes'
    BY <1>2, SubmissionFrame DEF grafana
<1>6. GrafanaTypes' /\ HistoryTypes' /\ ListWhole'
    BY <1>1, <1>2, <1>4 DEF GrafanaTypes, HistoryTypes, ListWhole, grafana, NewKey
<1>7. job[w] \in Jobs /\ job[w].dash # NoCR /\ job[w].users # {} /\ Fits(job[w], admins)
    BY <1>2, InHand, FolderTypes DEF Listing
<1>8. /\ j.pc = "post" /\ j.todo = job[w].todo /\ j.users = job[w].users /\ j.dash = job[w].dash
      /\ j.list = job[w].list /\ j.unknown = job[w].unknown /\ j.cur = job[w].cur
      /\ j.folder = job[w].folder
    BY <1>7 DEF Jobs
<1>9. j \in Jobs
    BY <1>7, <1>8 DEF Jobs
<1>10. Fits(j, admins')
    BY <1>2, <1>7, <1>8 DEF Fits, Asking, grafana
<1>11. JobTypes' /\ \A v \in Workers : Listing(v)'
    BY <1>1, <1>2, <1>7, <1>8, <1>9, <1>10, JobStep DEF Asking, grafana
<1> QED BY <1>3, <1>4, <1>5, <1>6, <1>11

\* A list that is sent is complete, but for the administrators.
LEMMA PostPermissionsInductive ==
    ASSUME Inductive, NEW w \in Workers, PostPermissions(w)
    PROVE  Inductive'
<1> USE DEF Inductive, Types
<1>1. PICK failed \in BOOLEAN :
        LET f == job[w].folder
            set == ~failed /\ Accepts(w)
        IN  /\ Fails(failed)
            /\ acl' = IF set THEN [acl EXCEPT ![f] = job[w].list] ELSE acl
            /\ asked' = IF set THEN [asked EXCEPT ![f] = @ \cup {job[w].users}] ELSE asked
            /\ excused' = IF set
                          THEN (excused \cup InFolder(job[w].dash)) \ SameUsers(w)
                          ELSE IF failed THEN excused \cup {job[w].dash} ELSE excused
    BY DEF PostPermissions
<1>2. /\ job[w].pc = "post" /\ Become(w, Idle)
      /\ UNCHANGED <<resources, nsQueue, nsJob, due, admJob, accounts, admins, orgAdmins, key, metBefore, unserved>>
    BY DEF PostPermissions, At
<1>3. EventTypes'
    BY <1>1, FailsType
<1>4. /\ job[w] \in Jobs /\ job[w].dash \in Dashboards /\ Fits(job[w], admins)
      /\ job[w].users \in Annotations \cup NsOwned
    BY <1>2, InHand DEF Listing
<1>5. excused' \subseteq Dashboards
    BY <1>1, <1>4 DEF HistoryTypes, InFolder
<1>6. NsTypes' /\ DashboardTypes' /\ AdminTypes'
    BY <1>2, SubmissionFrame
<1>7. JobTypes' /\ \A v \in Workers : Listing(v)'
  <2>1. Idle \in Jobs /\ Idle.pc = "idle" /\ Fits(Idle, admins')
    BY IdleTypes DEF Idle, Fits, Asking
  <2> QED BY <1>2, <2>1, JobStep DEF Asking
<1>8. GrafanaTypes' /\ HistoryTypes' /\ ListWhole'
  <2>1. CASE ~failed /\ Accepts(w)
    <3> DEFINE f == job[w].folder
               list == job[w].list
               users == job[w].users
    <3>1. f \in Folders /\ list \subseteq People /\ ~job[w].unknown
      BY <1>4, <2>1 DEF Accepts, Jobs
    <3>2. acl' = [acl EXCEPT ![f] = list] /\ asked' = [asked EXCEPT ![f] = @ \cup {users}]
      BY <1>1, <2>1
    <3>3. list \subseteq users /\ users \ list \subseteq admins
      BY <1>2, <1>4, <3>1 DEF Fits
    <3>4. GrafanaTypes' /\ HistoryTypes'
      BY <1>2, <1>4, <1>5, <3>1, <3>2 DEF GrafanaTypes, HistoryTypes
    <3>5. ListWhole'
      <4> SUFFICES ASSUME NEW g \in Folders, acl'[g] # Unset
                   PROVE  \E us \in asked'[g] : acl'[g] \subseteq us /\ us \ acl'[g] \subseteq admins
        BY <1>2 DEF ListWhole
      <4>1. CASE g = f
        BY <3>1, <3>2, <3>3, <4>1 DEF GrafanaTypes, HistoryTypes
      <4>2. CASE g # f
        BY <3>2, <4>2 DEF GrafanaTypes, HistoryTypes, ListWhole
      <4> QED BY <4>1, <4>2
    <3> QED BY <3>4, <3>5
  <2>2. CASE ~(~failed /\ Accepts(w))
    BY <1>1, <1>2, <1>5, <2>2 DEF GrafanaTypes, HistoryTypes, ListWhole
  <2> QED BY <2>1, <2>2
<1> QED BY <1>3, <1>6, <1>7, <1>8

-----------------------------------------------------------------------------
(* Every step, and the theorems.                                             *)

\* Every step keeps the invariant.
LEMMA NextInductive == Inductive /\ [Next]_vars => Inductive'
<1> SUFFICES ASSUME Inductive, [Next]_vars PROVE Inductive'
    OBVIOUS
<1>1. CASE NsReconcile
    BY <1>1, NsReconcileInductive
<1>2. CASE CreateUserDashboard
    BY <1>2, CreateUserDashboardInductive
<1>3. ASSUME NEW w \in Workers, ManageSuccess(w) PROVE Inductive'
    BY <1>3, SubmitInductive, LookUserInductive, CreateUserInductive, LookAgainInductive,
       FindFolderInductive, AskKeyInductive, PostPermissionsInductive DEF ManageSuccess
<1>4. CASE GiveAdmin
    BY <1>4, GiveAdminInductive
<1>5. CASE NoFirstSubject
    BY <1>5, StartsAgainInductive DEF NoFirstSubject, Inductive, Types, EventTypes
<1>6. CASE Restart
    BY <1>6, EventType, StartsAgainInductive DEF Restart, Inductive, Types
<1>7. CASE Bind \/ (\E n \in Namespaces : EditNamespace(n)) \/ \E d \in Dashboards : EditUsers(d) \/ Resubmit(d)
    BY <1>7, PeopleInductive
<1>8. CASE UNCHANGED vars
    BY <1>8, Frame DEF vars, Inductive, Types, NsTypes, DashboardTypes, AdminTypes, GrafanaTypes,
       HistoryTypes, EventTypes
<1> QED BY <1>1, <1>2, <1>3, <1>4, <1>5, <1>6, <1>7, <1>8 DEF Next

\* The state of the accounts, lists and jobs keeps its types.
THEOREM TypesKept == Spec => []TypeOK
<1>1. Inductive => TypeOK
    BY DEF Inductive, Types, NsTypes, DashboardTypes, JobTypes, AdminTypes, GrafanaTypes,
       HistoryTypes, EventTypes, TypeOK
<1> QED BY <1>1, InitInductive, NextInductive, PTL DEF Spec

\* No folder ever has a part of a list or a mixture of two.
THEOREM ListWholeKept == Spec => []ListWhole
<1>1. Inductive => ListWhole
    BY DEF Inductive
<1> QED BY <1>1, InitInductive, NextInductive, PTL DEF Spec
=============================================================================
