----------------------------- MODULE Datasources -----------------------------
(***************************************************************************)
(* The data source reconciler (controllers/grafanadatasource).               *)
(*                                                                         *)
(* It keeps no list of its own: a pass asks Grafana for its data sources,     *)
(* creates what the resources of the request's namespace declare and removes  *)
(* the rest, and it tells data sources apart by their urls, while Grafana     *)
(* tells them apart by their names.  There is one worker and no ticker: a     *)
(* pass is started by an event about a resource, and one that failed is made   *)
(* up for by the event its own status update causes, if it changes the status. *)
(***************************************************************************)
EXTENDS Integers, FiniteSets

CONSTANTS
    CRs,          \* the GrafanaDataSource resources
    NsOf,         \* the namespace of each
    Specs,        \* the first data source a resource can declare: [name, url]
    Empty,        \* a resource with an empty list of data sources
    Disturbances, \* what can happen around the reconciler, and how calls fail
    MaxDisturb,   \* bound on all of them together
    NoCR, Absent

ASSUME SpecsAssumption == Empty \notin Specs /\ NoCR \notin Specs \cup {Empty}
ASSUME UrlAssumption == \A s \in Specs : s.url # Absent
ASSUME BoundAssumption == MaxDisturb \in Nat

DsNames == { s.name : s \in Specs }
Urls == { s.url : s \in Specs }

VARIABLES
    crs,        \* the resources in the API server
    status,     \* their status: the last failure written to it
    stored,     \* Grafana: the url of the data source with each name
    state,      \* r.state, as the events left it: is there an AdminUrl
    queue,      \* the work queue of the controller
    job,        \* the rest of the worker's pass
    panicked,   \* the process died
    unsure,     \* history: urls that Grafana gave no clear answer for, or that
                \* someone else removed
    disturbed   \* number of faults and disturbances so far

vars == <<crs, status, stored, state, queue, job, panicked, unsure, disturbed>>

IdleJob == [pc |-> "idle", known |-> {}, list |-> [n \in CRs |-> NoCR], todo |-> {}, toDelete |-> {}]
Existing == { n \in CRs : crs[n] # NoCR }

Init == /\ crs \in [CRs -> Specs \cup {Empty, NoCR}]
        /\ status = [n \in CRs |-> "none"]
        /\ stored = [d \in DsNames |-> Absent]
        /\ state = FALSE
        /\ queue = Existing
        /\ job = IdleJob
        /\ panicked = FALSE
        /\ unsure = {}
        /\ disturbed = 0

-----------------------------------------------------------------------------
(* What a step is made of.                                                  *)

At(pc) == ~panicked /\ job.pc = pc
Undisturbed == disturbed' = disturbed
Disturbance(kind) == kind \in Disturbances /\ disturbed < MaxDisturb /\ disturbed' = disturbed + 1

\* A call to Grafana is answered, fails without effect, takes effect but its
\* answer is lost, or is answered 503, which the client takes for success.
Outcomes == {"ok", "err", "lost", "503"}
Call(outcome) == IF outcome = "ok" THEN Undisturbed ELSE Disturbance(outcome)

Listing_All == { [name |-> d, url |-> stored[d]] : d \in DsNames }  \* mutant: empty entries too
Listing == { [name |-> d, url |-> stored[d]] : d \in { e \in DsNames : stored[e] # Absent } }
UrlsOf(datasources) == { d.url : d \in datasources }

-----------------------------------------------------------------------------
(* Reconcile.                                                               *)

\* Without an AdminUrl the request is requeued; with one, a list that cannot be
\* had counts as empty.  The resources are those of the request's namespace.
Declared(list) == { list[n].url : n \in { m \in CRs : list[m] \in Specs } }

Undeclared_Known(known, list) ==  \* mutant: a url that is skipped is not collected
    known
Undeclared_ByName(known, list) ==  \* mutant: the names are compared
    { d \in known : \A n \in CRs : list[n] \in Specs => list[n].name # d.name }
Undeclared(known, list) == { d \in known : d.url \notin Declared(list) }

Neighbours(n) == [m \in CRs |-> IF NsOf[m] = NsOf[n] THEN crs[m] ELSE NoCR]
Pass(known, list) == [pc |-> "create", known |-> known, list |-> list,
                      todo |-> { n \in CRs : list[n] # NoCR }, toDelete |-> Undeclared(known, list)]

Reconcile(n) ==
    \E outcome \in Outcomes \ {"lost"} :
        /\ At("idle") /\ n \in queue /\ state
        /\ Call(outcome)
        /\ queue' = queue \ {n}
        /\ job' = Pass(IF outcome = "ok" THEN Listing ELSE {}, Neighbours(n))
        /\ UNCHANGED <<crs, status, stored, state, panicked, unsure>>

\* Spec.Datasources[0] of an empty list.
IndexEmpty(n) ==
    /\ At("create") /\ n \in job.todo /\ job.list[n] = Empty
    /\ panicked' = TRUE
    /\ UNCHANGED <<crs, status, stored, state, queue, job, unsure, disturbed>>

\* checkdup: a url Grafana had when the pass began is not submitted.
IsKnown(n) == job.list[n].url \in UrlsOf(job.known)

SkipKnown(n) ==
    /\ At("create") /\ n \in job.todo /\ job.list[n] # Empty /\ IsKnown(n)
    /\ job' = [job EXCEPT !.todo = @ \ {n}]
    /\ UNCHANGED <<crs, status, stored, state, queue, panicked, unsure, disturbed>>

\* Grafana refuses a name it has.  A failure is written to the status, unless
\* the resource has changed meanwhile; manageSuccess writes nothing.
Failure(outcome, free) == IF outcome \in {"err", "lost"} THEN "unreachable" ELSE IF free THEN "none" ELSE "409"
Accepted(outcome, free) == outcome = "503" \/ Failure(outcome, free) = "none"

ManageError_NoUpdate(n, message) ==  \* mutant: the status is only changed locally
    UNCHANGED <<status, queue>>
ManageError(n, message) ==
    IF crs[n] = job.list[n] /\ status[n] # message
    THEN status' = [status EXCEPT ![n] = message] /\ queue' = queue \cup {n}
    ELSE UNCHANGED <<status, queue>>

Create(n) ==
    \E outcome \in Outcomes :
        LET d == job.list[n]
            free == stored[d.name] = Absent
            effect == outcome \in {"ok", "lost"} /\ free
        IN  /\ At("create") /\ n \in job.todo /\ d # Empty /\ ~IsKnown(n)
            /\ Call(outcome)
            /\ stored' = IF effect THEN [stored EXCEPT ![d.name] = d.url] ELSE stored
            /\ unsure' = IF outcome = "503" THEN unsure \cup {d.url}
                         ELSE IF effect THEN unsure \ {d.url} ELSE unsure
            /\ IF Accepted(outcome, free) THEN UNCHANGED <<status, queue>>
               ELSE ManageError(n, Failure(outcome, free))
            /\ job' = [job EXCEPT !.todo = @ \ {n}]
            /\ UNCHANGED <<crs, state, panicked>>

\* Removal by the uid that was listed, whatever the answer: also of what a
\* resource of another namespace declares, or someone made in the console.
Elsewhere(url) == \E n \in Existing : crs[n] \in Specs /\ crs[n].url = url /\ job.list[n] = NoCR

Delete(d) ==
    \E outcome \in Outcomes :
        LET effect == outcome \in {"ok", "lost"} /\ stored[d.name] = d.url
        IN  /\ At("create") /\ job.todo = {} /\ d \in job.toDelete
            /\ Call(outcome)
            /\ stored' = IF effect THEN [stored EXCEPT ![d.name] = Absent] ELSE stored
            /\ unsure' = IF Elsewhere(d.url) \/ ~effect THEN unsure \cup {d.url} ELSE unsure
            /\ job' = [job EXCEPT !.toDelete = @ \ {d}]
            /\ UNCHANGED <<crs, status, state, queue, panicked>>

EndPass ==
    /\ At("create") /\ job.todo = {} /\ job.toDelete = {}
    /\ job' = IdleJob
    /\ UNCHANGED <<crs, status, stored, state, queue, panicked, unsure, disturbed>>

Work == \/ \E n \in CRs : IndexEmpty(n) \/ SkipKnown(n) \/ Create(n)
        \/ \E d \in job.toDelete : Delete(d)
        \/ EndPass

-----------------------------------------------------------------------------
(* What happens around the reconciler.                                      *)

ChangeResource(n) ==
    \E c \in (Specs \cup {Empty, NoCR}) \ {crs[n]} :
        /\ Disturbance(IF c = NoCR THEN "delete" ELSE IF crs[n] = NoCR THEN "create" ELSE "update")
        /\ crs' = [crs EXCEPT ![n] = c]
        /\ status' = IF c = NoCR THEN [status EXCEPT ![n] = "none"] ELSE status
        /\ queue' = queue \cup {n}
        /\ UNCHANGED <<stored, state, job, panicked, unsure>>

ConsoleDelete(d) ==
    /\ stored[d] # Absent /\ Disturbance("console delete")
    /\ stored' = [stored EXCEPT ![d] = Absent]
    /\ unsure' = unsure \cup {stored[d]}
    /\ UNCHANGED <<crs, status, state, queue, job, panicked>>

\* A data source made anew has a uid the pass that is under way has not listed.
ConsoleCreate(s) ==
    /\ stored[s.name] = Absent /\ s \notin job.known /\ Disturbance("console create")
    /\ stored' = [stored EXCEPT ![s.name] = s.url]
    /\ unsure' = unsure \cup {s.url}
    /\ UNCHANGED <<crs, status, state, queue, job, panicked>>

\* The event consumer stores what the Grafana controller published; the value
\* that announces a failure has no AdminUrl.
StateChange(hasUrl) ==
    /\ ~panicked /\ state # hasUrl
    /\ IF hasUrl THEN Undisturbed ELSE Disturbance("not ready")
    /\ state' = hasUrl
    /\ UNCHANGED <<crs, status, stored, queue, job, panicked, unsure>>

\* The informer presents every resource again from time to time.
Resync ==
    /\ ~panicked /\ ~(Existing \subseteq queue)
    /\ queue' = queue \cup Existing
    /\ UNCHANGED <<crs, status, stored, state, job, panicked, unsure, disturbed>>

Restart ==
    /\ IF panicked THEN Undisturbed ELSE Disturbance("restart")
    /\ state' = FALSE /\ queue' = Existing /\ job' = IdleJob /\ panicked' = FALSE
    /\ unsure' = unsure \cup UrlsOf(Listing)
    /\ UNCHANGED <<crs, status, stored>>

Next == \/ \E n \in CRs : Reconcile(n) \/ ChangeResource(n)
        \/ Work
        \/ \E d \in DsNames : ConsoleDelete(d)
        \/ \E s \in Specs : ConsoleCreate(s)
        \/ \E b \in BOOLEAN : StateChange(b)
        \/ Resync \/ Restart

\* The worker runs and takes the requests in the order of their arrival, the Grafana
\* controller publishes its state again and again, the informer resyncs, and the
\* kubelet restarts a crashed operator.
Fairness == /\ \A n \in CRs : SF_vars(Reconcile(n))
            /\ WF_vars(Work)
            /\ WF_vars(StateChange(TRUE)) /\ WF_vars(Resync)
            /\ WF_vars(panicked /\ Restart)

Spec == Init /\ [][Next]_vars
FairSpec == Spec /\ Fairness

-----------------------------------------------------------------------------
(* Properties.                                                              *)

\* The types of the reconciler's state.
TypeOK ==
    /\ crs \in [CRs -> Specs \cup {Empty, NoCR}]
    /\ status \in [CRs -> {"none", "409", "unreachable"}]
    /\ stored \in [DsNames -> Urls \cup {Absent}]
    /\ state \in BOOLEAN /\ panicked \in BOOLEAN /\ queue \subseteq CRs
    /\ job.pc \in {"idle", "create"} /\ job.known \subseteq [name : DsNames, url : Urls]
    /\ job.list \in [CRs -> Specs \cup {Empty, NoCR}]
    /\ job.todo \subseteq { n \in CRs : job.list[n] # NoCR } /\ job.toDelete \subseteq job.known
    /\ unsure \subseteq Urls /\ disturbed \in 0..MaxDisturb

Shown(n) == crs[n] # Empty /\ \E d \in DsNames : stored[d] = crs[n].url

\* No two resources ask for the same name in Grafana.
NamesDiffer == \A m, n \in Existing : crs[m] # Empty /\ crs[n] # Empty /\ crs[m].name = crs[n].name => m = n

\* When the queue is drained nothing brings the worker back: by then the url of
\* every resource is in Grafana, unless its status reports a failure, Grafana
\* gave an answer the client misread, or somebody else removed it.
Settled ==
    (~panicked /\ job.pc = "idle" /\ queue = {}) =>
        \A n \in Existing : crs[n] # Empty /\ status[n] = "none" => Shown(n) \/ crs[n].url \in unsure

\* Resources of one namespace, none empty and none in another's way.
Orderly == /\ NamesDiffer /\ \A n \in Existing : crs[n] # Empty
           /\ \A m, n \in Existing : NsOf[m] = NsOf[n]

\* The name of a resource belongs to a data source whose url another resource
\* declares: the creation is refused and the data source in the way never goes.
Blocked(n) == crs[n] # Empty /\ stored[crs[n].name] \in Declared(crs)

\* In the end, and counting on the resync, every declared url is in Grafana
\* unless its name is blocked, also when an update met the old data source of
\* the same name.
AllShown == <>[]Orderly => <>[](\A n \in Existing : Shown(n) \/ Blocked(n))

\* Passes over two namespaces each remove what the other declares, but none keeps
\* the other's data sources away for good, whatever the order of the requests, nor
\* does the operator stay dead of a resource that was empty for a while.
ShownAgain ==
    <>[](NamesDiffer /\ \A n \in CRs : crs[n] # Empty) =>
        \A n \in CRs : []<>(n \in Existing => Shown(n) \/ Blocked(n))

\* In the end Grafana has no data source that no resource declares, as long as
\* there is a resource left to cause a pass.
NoStrays ==
    <>[](Orderly /\ Existing # {}) =>
        <>[](\A d \in DsNames : stored[d] # Absent => stored[d] \in Declared(crs))
=============================================================================
