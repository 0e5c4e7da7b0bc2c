-------------------------- MODULE GrafanaController --------------------------
(***************************************************************************)
(* The Grafana controller (controllers/grafana/grafana_controller.go) and    *)
(* the way the other controllers learn from it whether there is a Grafana to  *)
(* talk to: it sends its state to common.ControllerEvents, a Go channel with  *)
(* room for one value, from which every other controller receives.  A value   *)
(* reaches one receiver only, the one that has waited longest.                *)
(*                                                                         *)
(* The cluster actions of a reconciliation are one step that succeeds while   *)
(* the cluster is healthy; a dashboard pass is one step that leaves the known *)
(* list equal to the dashboards wanted (module DashboardSync has the details).*)
(***************************************************************************)
EXTENDS Naturals, Sequences, FiniteSets

CONSTANTS
    DashboardConsumers,  \* the dashboard reconcilers, one per watched namespace
    OtherConsumers,      \* the notification channel and datasource reconcilers
    Dashboards,          \* the GrafanaDashboard resources there can be
    Urls,                \* admin urls the Grafana resource can lead to
    MaxEvents,           \* bound on changes of the environment and failing calls
    NoCR, NotReady, Nothing

Consumers == DashboardConsumers \cup OtherConsumers
States == Urls \cup {NotReady}

ASSUME ConsumersAssumption == IsFiniteSet(Consumers)
ASSUME NothingAssumption == Nothing \notin States
ASSUME EventsAssumption == MaxEvents \in Nat

\* What the known list holds for a dashboard: no reference, one with its hash,
\* or one whose hash InvalidateDashboards has cleared.
References == {"none", "fresh", "blank"}

VARIABLES
    cr,        \* the Grafana resource: the url it leads to, or NoCR
    healthy,   \* the cluster actions of a reconciliation succeed
    wanted,    \* the GrafanaDashboard resources there are
    status,    \* status of the Grafana resource: phase and InstalledDashboards
    touched,   \* the resource has changed since the controller read it
    due,       \* the work queue of the controller has a request
    pc,        \* where Reconcile is
    draft,     \* Reconcile's copy of the resource: cr.Status and the url
    msg,       \* the value to send
    requeue,   \* the Result asks for another reconciliation
    known,     \* ControllerConfig.Dashboards
    synced,    \* ConfigGrafanaDashboardsSynced
    buffer,    \* the channel's buffer
    waiting,   \* the consumers blocked in a receive, longest waiting first
    got,       \* the value a consumer has received and not yet stored
    state,     \* ref.state of each consumer
    events     \* number of environment changes and failed calls so far

environment == <<cr, healthy, wanted>>
reconcile == <<pc, draft, msg, requeue>>
channel == <<buffer, waiting, got, state>>
vars == <<cr, healthy, wanted, status, touched, due, pc, draft, msg, requeue,
          known, synced, buffer, waiting, got, state, events>>

NoStatus == [phase |-> "none", dashboards |-> {}]
NoDraft == [status |-> NoStatus, url |-> NoCR]

Init == /\ cr = NoCR /\ healthy = TRUE /\ wanted \in SUBSET Dashboards
        /\ status = NoStatus /\ touched = FALSE /\ due = FALSE
        /\ pc = "idle" /\ draft = NoDraft /\ msg = Nothing /\ requeue = FALSE
        /\ known = [d \in Dashboards |-> "none"] /\ synced = FALSE
        /\ buffer = <<>>
        /\ waiting \in { s \in [1..Cardinality(Consumers) -> Consumers] :
                           \A i, k \in DOMAIN s : s[i] = s[k] => i = k }
        /\ got = [c \in Consumers |-> Nothing]
        /\ state = [c \in Consumers |-> NotReady]
        /\ events = 0

-----------------------------------------------------------------------------
(* The environment.                                                         *)

Event == events < MaxEvents /\ events' = events + 1
Quiet == events' = events
Installed == { d \in Dashboards : known[d] # "none" }

\* Users create, change and delete the Grafana resource; each change is watched.
ChangeGrafana ==
    /\ Event
    /\ \E c \in (Urls \cup {NoCR}) \ {cr} :
         cr' = c /\ status' = IF NoCR \in {c, cr} THEN NoStatus ELSE status
    /\ touched' = TRUE /\ due' = TRUE
    /\ UNCHANGED <<healthy, wanted, reconcile, known, synced, channel>>

\* A cluster action starts to fail, or to work again.
ChangeHealth ==
    /\ Event
    /\ healthy' = ~healthy
    /\ UNCHANGED <<cr, wanted, status, touched, due, reconcile, known, synced, channel>>

ChangeDashboards ==
    /\ Event
    /\ \E d \in Dashboards : wanted' = IF d \in wanted THEN wanted \ {d} ELSE wanted \cup {d}
    /\ UNCHANGED <<cr, healthy, status, touched, due, reconcile, known, synced, channel>>

-----------------------------------------------------------------------------
(* Reconcile.                                                               *)

\* There is no Grafana resource: Cleanup, one NotReady, and no requeue.
ReconcileGone ==
    /\ pc = "idle" /\ due /\ cr = NoCR
    /\ due' = FALSE
    /\ known' = [d \in Dashboards |-> "none"]
    /\ pc' = "send" /\ msg' = NotReady /\ requeue' = FALSE
    /\ UNCHANGED <<environment, status, touched, draft, synced, channel, events>>

\* Read the cluster state, run the cluster actions and the config map reconciler.
ReconcileFound ==
    /\ pc = "idle" /\ due /\ cr # NoCR
    /\ due' = FALSE /\ touched' = FALSE
    /\ draft' = [status |-> status, url |-> cr]
    /\ pc' = IF healthy THEN "success" ELSE "error"
    /\ UNCHANGED <<environment, status, msg, requeue, known, synced, channel, events>>

\* Status().Update: nothing to do, done, refused because the resource changed,
\* or failed.
Same(new) == new = status
Updates(new) == ~Same(new) /\ ~touched
Store(new) == IF Same(new) THEN UNCHANGED <<status, due>>
              ELSE status' = new /\ due' = TRUE

\* manageSuccess up to the status update; any trouble leads to manageError.
\* The dashboards are written to the status only once the synced flag is set.
SuccessStatus == [phase |-> "reconciling",
                  dashboards |-> IF synced THEN Installed ELSE draft.status.dashboards]
ManageSuccess ==
    /\ pc = "success"
    /\ draft' = [draft EXCEPT !.status = SuccessStatus]
    /\ \/ /\ cr # NoCR /\ (Same(SuccessStatus) \/ Updates(SuccessStatus))
          /\ Store(SuccessStatus) /\ pc' = "publish" /\ Quiet
       \/ /\ cr = NoCR \/ (~Same(SuccessStatus) /\ touched)
          /\ pc' = "error" /\ Quiet /\ UNCHANGED <<status, due>>
       \/ pc' = "error" /\ Event /\ UNCHANGED <<status, due>>
    /\ UNCHANGED <<environment, touched, msg, requeue, known, synced, channel>>

\* The rest of manageSuccess: find the admin url and publish it.
SendUrl_Once == pc' = "send" /\ msg' = draft.url /\ requeue' = FALSE  \* mutant: no RequeueAfter
SendUrl == pc' = "send" /\ msg' = draft.url /\ requeue' = TRUE
Publish ==
    /\ pc = "publish"
    /\ \/ SendUrl /\ Quiet
       \/ pc' = "error" /\ Event /\ UNCHANGED <<msg, requeue>>
    /\ UNCHANGED <<environment, status, touched, due, draft, known, synced, channel>>

\* manageError: a resource that is gone or a failed update ends the
\* reconciliation with an error, which requeues; a conflict ends it without.
\* Only otherwise are the hashes cleared and NotReady published.
FailingStatus == [phase |-> "failing", dashboards |-> draft.status.dashboards]
Invalidated_Not == known  \* mutant: InvalidateDashboards is not called
Invalidated == [d \in Dashboards |-> IF known[d] = "none" THEN "none" ELSE "blank"]
SendNotReady == pc' = "send" /\ msg' = NotReady /\ requeue' = TRUE
GiveUp == /\ pc' = "idle" /\ draft' = NoDraft
          /\ UNCHANGED <<status, msg, requeue, known>>
ManageError ==
    /\ pc = "error"
    /\ \/ cr = NoCR /\ GiveUp /\ due' = TRUE /\ Quiet
       \/ ~Same(FailingStatus) /\ touched /\ cr # NoCR /\ GiveUp /\ UNCHANGED due /\ Quiet
       \/ Event /\ GiveUp /\ due' = TRUE
       \/ /\ cr # NoCR /\ (Same(FailingStatus) \/ Updates(FailingStatus))
          /\ Store(FailingStatus)
          /\ known' = Invalidated /\ SendNotReady /\ UNCHANGED draft /\ Quiet
    /\ UNCHANGED <<environment, touched, synced, channel>>

Capacity_Two == 2  \* mutant: make(chan ControllerState, 2)
Capacity == 1
HasRoom == Len(buffer) < Capacity

\* The send hands the value to the receiver that has waited longest, or leaves
\* it in the buffer, or blocks.
Send ==
    /\ pc = "send"
    /\ \/ /\ waiting # <<>>
          /\ got' = [got EXCEPT ![Head(waiting)] = msg]
          /\ waiting' = Tail(waiting) /\ UNCHANGED buffer
       \/ /\ waiting = <<>> /\ HasRoom
          /\ buffer' = Append(buffer, msg) /\ UNCHANGED <<waiting, got>>
    /\ due' = (due \/ requeue)
    /\ pc' = "idle" /\ draft' = NoDraft /\ msg' = Nothing /\ requeue' = FALSE
    /\ UNCHANGED <<environment, status, touched, known, synced, state, events>>

-----------------------------------------------------------------------------
(* The consumers.                                                           *)

\* for stateChange := range ControllerEvents { ref.state = stateChange }: store
\* the value and receive again.
Receive(c) ==
    /\ got[c] # Nothing
    /\ state' = [state EXCEPT ![c] = got[c]]
    /\ IF buffer # <<>>
       THEN got' = [got EXCEPT ![c] = Head(buffer)] /\ buffer' = Tail(buffer) /\ UNCHANGED waiting
       ELSE got' = [got EXCEPT ![c] = Nothing] /\ waiting' = Append(waiting, c) /\ UNCHANGED buffer
    /\ UNCHANGED <<environment, status, touched, due, reconcile, known, synced, events>>

\* What a pass makes of a reference: only a hash that is known and current saves
\* a dashboard from being submitted.
Processed_SkipsBlank(d) ==  \* mutant: any reference counts as up to date
    IF d \notin wanted THEN "none" ELSE IF known[d] = "none" THEN "fresh" ELSE known[d]
Processed(d) == IF d \in wanted THEN "fresh" ELSE "none"

\* A dashboard pass.  The synced flag is set where a dashboard is deleted, and
\* nowhere else.
Pass(c) ==
    /\ state[c] # NotReady
    /\ known' = [d \in Dashboards |-> Processed(d)]
    /\ synced' = (synced \/ Installed \ wanted # {})
    /\ UNCHANGED <<environment, status, touched, due, reconcile, channel, events>>

Reconcile == ReconcileGone \/ ReconcileFound \/ ManageSuccess \/ Publish \/ ManageError \/ Send

Next == \/ ChangeGrafana \/ ChangeHealth \/ ChangeDashboards
        \/ Reconcile
        \/ \E c \in Consumers : Receive(c)
        \/ \E c \in DashboardConsumers : Pass(c)

\* The controllers and their goroutines run; RequeueAfter and the ticker of the
\* dashboard reconcilers come around.
Fairness == /\ WF_vars(Reconcile)
            /\ \A c \in Consumers : WF_vars(Receive(c))
            /\ \A c \in DashboardConsumers : WF_vars(Pass(c))

Spec == Init /\ [][Next]_vars
FairSpec == Spec /\ Fairness

-----------------------------------------------------------------------------
(* Properties.                                                              *)

Phases == {"idle", "success", "publish", "error", "send"}
Status == [phase : {"none", "reconciling", "failing"}, dashboards : SUBSET Dashboards]

\* The types of the controller's state and of the channel; a goroutine of a
\* consumer waits in the channel exactly while it has no value in hand.
TypeOK ==
    /\ cr \in Urls \cup {NoCR} /\ healthy \in BOOLEAN /\ wanted \subseteq Dashboards
    /\ status \in Status /\ touched \in BOOLEAN /\ due \in BOOLEAN
    /\ pc \in Phases /\ draft \in [status : Status, url : Urls \cup {NoCR}]
    /\ msg \in States \cup {Nothing} /\ requeue \in BOOLEAN
    /\ known \in [Dashboards -> References] /\ synced \in BOOLEAN
    /\ buffer \in Seq(States) /\ Len(buffer) <= 1
    /\ waiting \in Seq(Consumers)
    /\ got \in [Consumers -> States \cup {Nothing}]
    /\ state \in [Consumers -> States]
    /\ events \in 0..MaxEvents
    /\ \A c \in Consumers : got[c] = Nothing <=> \E i \in DOMAIN waiting : waiting[i] = c

\* A value reaches one consumer only, so it takes as many reconciliations as
\* there are consumers until each has heard of it: while the cluster is healthy
\* and the resource stays as it is, every consumer comes to use its admin url.
ReadyReaches ==
    \A u \in Urls : <>[](healthy /\ cr = u) => <>[](\A c \in Consumers : state[c] = u)

\* A reconciliation that keeps failing makes every consumer stop, whatever
\* conflicts the status updates run into, and no hash computed before the failure
\* survives it, also those that a dashboard pass wrote between InvalidateDashboards
\* and the arrival of NotReady.
FailureReaches ==
    <>[](~healthy /\ cr # NoCR) =>
        <>[](/\ \A c \in Consumers : state[c] = NotReady
             /\ \A d \in Dashboards : known[d] # "fresh")

\* Whatever failed before: once Grafana works again, every dashboard that is
\* wanted is submitted again and stays so.
RecoveryResubmits ==
    \A D \in SUBSET Dashboards :
        <>[](healthy /\ cr # NoCR /\ wanted = D)
            => <>[](\A d \in Dashboards : known[d] = IF d \in D THEN "fresh" ELSE "none")
=============================================================================
