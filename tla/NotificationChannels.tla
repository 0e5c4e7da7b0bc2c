------------------------- MODULE NotificationChannels -------------------------
(***************************************************************************)
(* The notification channel reconciler                                       *)
(* (controllers/grafananotificationchannel) and the registry it keeps,       *)
(* NotificationControllerConfig: per namespace a slice of pointers to        *)
(* references, of which HasNotificationChannel reads without the lock.       *)
(*                                                                         *)
(* As in DashboardSync a ticker and the worker of the controller run passes  *)
(* at the same time.  Unlike there, Grafana is never asked whether a channel *)
(* that is up to date still exists, nothing clears the hashes, and both the  *)
(* search for a known hash and the search for deleted resources compare the  *)
(* names of resources and leave their namespaces out.                       *)
(***************************************************************************)
EXTENDS GoSlices, Filters, Sequences, FiniteSets

CONSTANTS
    Names,        \* the GrafanaNotificationChannel resources
    NsOf,         \* the namespace of each
    BaseName,     \* the name of each within its namespace
    Uid,          \* the uid in the json of each
    Contents,     \* what a resource can hold otherwise
    Invalid,      \* contents whose json does not parse
    Mistyped,     \* ... whose json has a field of another type than Grafana's
    Uidless,      \* ... whose json has no uid
    Unlabelled,   \* ... of a resource whose labels match no selector
    ScanAll,      \* the reconciler was started for all namespaces ("none")
    Threads,      \* its goroutines: Ticker and the watch worker
    Ticker,
    Disturbances, \* what can happen around the reconciler, and how calls fail
    Populations,  \* bound on what the resources hold together
    MaxDisturb,   \* bound on all of them together, and on the resources at the start
    NoCR, Absent, NoHash, NoName

Namespaces == { NsOf[n] : n \in Names }
UIDs == { Uid[n] : n \in Names }

\* generateHash covers spec.json, the uid in it included.
Hash(n, content) == [uid |-> Uid[n], content |-> content]
Hashes == [uid : UIDs, content : Contents]
Refs == [name : Names, uid : UIDs, hash : Hashes]

ASSUME ContentAssumption == Invalid \cup Mistyped \cup Uidless \cup Unlabelled \subseteq Contents
ASSUME PopulationAssumption == Populations \subseteq [Names -> Contents \cup {NoCR}]
ASSUME NamespaceAssumption == ScanAll \/ Cardinality(Namespaces) = 1
ASSUME BoundAssumption ==
    /\ IsFiniteSet(Names) /\ MaxDisturb \in Nat
    /\ \A p \in Populations : Cardinality({ n \in Names : p[n] # NoCR }) <= MaxDisturb
ASSUME KeyAssumption ==
    \A m, n \in Names : (Uid[m] = Uid[n] \/ <<NsOf[m], BaseName[m]>> = <<NsOf[n], BaseName[n]>>) => m = n
ASSUME NullAssumption == Absent \notin Contents /\ NoCR \notin Contents

VARIABLES
    crs,        \* the resources in the API server
    channels,   \* Grafana: the channel stored under each uid
    heap,       \* the references the pointers in the slices lead to
    known,      \* NotificationControllerConfig.NotificationChannels
    ready,      \* r.state.GrafanaReady
    queue,      \* the work queue of the controller
    view,       \* the known references as the pass of a goroutine sees them
    toDelete,   \* the references its pass still has to delete
    job,        \* the rest of the pass each goroutine is in
    panicked,   \* what the process died of, if it did
    unsure,     \* history: uids Grafana gave no clear answer for, or on which
                \* two passes worked at once
    disturbed   \* number of faults and disturbances so far, as which the resources
                \* there were at the start count too

registry == <<heap, known>>
pass == <<view, toDelete, job>>
vars == <<crs, channels, heap, known, ready, queue, view, toDelete, job, panicked, unsure, disturbed>>

NothingListed == [n \in Names |-> NoCR]
IdleJob == [pc |-> "idle", ns |-> Namespaces, request |-> NoName, list |-> NothingListed,
            todo |-> {}, cur |-> NoName, ref |-> 0, slot |-> 0]

Existing == { n \in Names : crs[n] # NoCR }

Init == /\ crs \in Populations
        /\ channels = [u \in UIDs |-> Absent]
        /\ heap = <<>> /\ known = [ns \in Namespaces |-> EmptySlice]
        /\ ready = FALSE
        /\ queue = Existing
        /\ view = [w \in Threads |-> NoView]
        /\ toDelete = [w \in Threads |-> <<>>]
        /\ job = [w \in Threads |-> IdleJob]
        /\ panicked = "none"
        /\ unsure = {}
        /\ disturbed = Cardinality(Existing)

-----------------------------------------------------------------------------
(* The registry.                                                            *)

Indices(ns, n) == { i \in 1..known[ns].len : heap[known[ns].cells[i]].name = n }
HasChannel_Minus(n) ==  \* mutant: the index -1 is used although "exists" is false
    IF Indices(NsOf[n], n) = {} THEN -1 ELSE Least(Indices(NsOf[n], n))
HasChannel(n) == IF Indices(NsOf[n], n) = {} THEN 0 ELSE Least(Indices(NsOf[n], n))

Listed(s) == [i \in 1..s.len |-> s.cells[i]]

\* The slice of one namespace is handed out as it is; for all namespaces the
\* slices are copied one after the other, in the order of a Go map.
Concatenated(order) ==
    LET at[k \in 0..Len(order)] ==
            IF k = 0 THEN <<>>
            ELSE at[k-1] \o Listed(known[order[k]])
        cells == at[Len(order)]
    IN  [live |-> FALSE, slice |-> [cells |-> cells, cap |-> Len(cells), len |-> Len(cells)]]
MapOrders == { o \in [1..Cardinality(Namespaces) -> Namespaces] :
                 \A i, k \in DOMAIN o : o[i] = o[k] => i = k }

Sees(w) == IF view[w].live THEN Seen(view[w], known[CHOOSE ns \in job[w].ns : TRUE])
           ELSE view[w].slice

\* findHash: the first known reference with this name in any namespace.
FindHash(w, n) ==
    LET s == Sees(w)
        found == { i \in 1..s.len : BaseName[heap[s.cells[i]].name] = BaseName[n] }
    IN  IF found = {} THEN NoHash ELSE heap[s.cells[Least(found)]].hash

-----------------------------------------------------------------------------
(* What a step is made of.                                                  *)

Alive == panicked = "none"
At(w, pc) == Alive /\ job[w].pc = pc
Become(w, j) == job' = [job EXCEPT ![w] = j] /\ UNCHANGED <<view, toDelete>>

\* A pass goes on without the resource it was at; after the last one it needs
\* nothing of what it has read but the references it is to delete.
Beyond(j, n) ==
    LET rest == [j EXCEPT !.pc = "next", !.todo = @ \ {n}, !.list[n] = NoCR, !.cur = NoName, !.slot = 0]
    IN  IF rest.todo = {} THEN [IdleJob EXCEPT !.pc = "next"] ELSE rest
ViewBeyond(w, v, j) == IF j.todo = {} THEN [v EXCEPT ![w] = NoView] ELSE v
GoOn(w, n) ==
    LET j == Beyond(job[w], n) IN
    job' = [job EXCEPT ![w] = j] /\ view' = ViewBeyond(w, view, j) /\ UNCHANGED toDelete
Idle(w) == /\ job' = [job EXCEPT ![w] = IdleJob]
           /\ view' = [view EXCEPT ![w] = NoView]
           /\ toDelete' = [toDelete EXCEPT ![w] = <<>>]
Panic(cause) == panicked' = cause /\ UNCHANGED <<crs, channels, registry, ready, queue, pass, unsure, disturbed>>

\* manageSuccess and manageError end with Status().Update, which brings the
\* resource back to the queue when the status changes and the update neither
\* conflicts nor finds the resource gone.
UpdateStatus(n) == queue' \in {queue, queue \cup {n}}

Undisturbed == disturbed' = disturbed
Disturbance(kind) == kind \in Disturbances /\ disturbed < MaxDisturb /\ disturbed' = disturbed + 1

\* A call to Grafana is answered 200, fails without effect, or takes effect but
\* its answer is lost.
Outcomes == {"ok", "err", "lost"}
Call(outcome) == IF outcome = "ok" THEN Undisturbed ELSE Disturbance(outcome)

\* Another pass is between a call for this uid and its entry in the registry.
Crossed(w, uid) ==
    \E v \in Threads \ {w} :
        \/ job[v].pc \in {"add", "addLocked"} /\ Uid[job[v].cur] = uid
        \/ job[v].pc \in {"drop", "dropLocked"} /\ heap[job[v].ref].uid = uid

\* Two passes that crossed have left two references for one channel.
Doubled(uid) ==
    \E ns \in Namespaces : \E i, k \in 1..known[ns].len :
        i < k /\ heap[known[ns].cells[i]].uid = uid /\ heap[known[ns].cells[k]].uid = uid

\* Reading the map without the lock while another goroutine writes it can make
\* the Go runtime abort the process.
MapRace(w) == \E v \in Threads \ {w} : job[v].pc \in {"addLocked", "dropLocked"}

-----------------------------------------------------------------------------
(* Reconcile.                                                               *)

InNamespace(list, ref) == \E m \in Names : list[m] # NoCR /\ BaseName[m] = BaseName[heap[ref].name]
Gone_SkipsFirst(s) ==  \* mutant: the first known reference is not looked at
    Among(Listed(s), { r \in RefsIn(s) : r # s.cells[1] /\ ~InNamespace(crs, r) })
Gone(s) == Among(Listed(s), { r \in RefsIn(s) : ~InNamespace(crs, r) })

\* A pass reads the known references and then, both locally, lists all resources
\* in the cache of its manager.
StartPass(w, v, namespaces, name) ==
    /\ view' = [view EXCEPT ![w] = v]
    /\ job' = [job EXCEPT ![w] = [IdleJob EXCEPT
           !.pc = "next", !.ns = namespaces, !.request = name, !.list = crs,
           !.todo = Existing]]
    /\ \E ns \in namespaces : toDelete' = [toDelete EXCEPT ![w] = Gone(Seen(v, known[ns]))]

TickerViews == IF ScanAll THEN { Concatenated(o) : o \in MapOrders }
               ELSE { Shared(known[ns]) : ns \in Namespaces }

Tick(w) ==
    /\ w = Ticker /\ At(w, "idle") /\ ready
    /\ \E v \in TickerViews : StartPass(w, v, Namespaces, NoName)
    /\ UNCHANGED <<crs, channels, registry, ready, queue, panicked, unsure, disturbed>>

\* A request names a resource; the pass it starts sees the references of that
\* namespace only, but the resources of all.
Relevant(n) == crs[n] = NoCR \/ crs[n] \notin Unlabelled

Reconcile(w) ==
    /\ w # Ticker /\ At(w, "idle")
    /\ \E n \in queue :
         /\ queue' = queue \ {n}
         /\ IF ready /\ Relevant(n)
            THEN StartPass(w, Shared(known[NsOf[n]]), {NsOf[n]}, n)
            ELSE UNCHANGED pass
    /\ UNCHANGED <<crs, channels, registry, ready, panicked, unsure, disturbed>>

\* The resources come in no particular order.  One that does not match, does
\* not parse or has not changed is passed over.
Unchanged_Known(w, n) == FindHash(w, n) # NoHash  \* mutant: any known hash counts as current
Unchanged(w, n) == FindHash(w, n) = Hash(n, job[w].list[n])

Passed(w, n) == \/ job[w].list[n] \in Unlabelled \cup Invalid
                \/ Unchanged(w, n)

PassOver(w) ==
    /\ At(w, "next")
    /\ \E n \in job[w].todo :
        /\ Passed(w, n)
        /\ IF job[w].list[n] \in Invalid /\ ~Unchanged(w, n)
           THEN UpdateStatus(n) ELSE UNCHANGED queue
        /\ GoOn(w, n)
        /\ UNCHANGED <<crs, channels, registry, ready, panicked, unsure, disturbed>>

\* Json that parses but does not fit a channel ends the whole pass with an
\* error, which requeues the request; one without a uid is dereferenced.
Abort(w) ==
    /\ At(w, "next")
    /\ \E n \in job[w].todo :
        /\ ~Passed(w, n) /\ job[w].list[n] \in Mistyped
        /\ queue' = IF job[w].request = NoName THEN queue ELSE queue \cup {job[w].request}
        /\ Idle(w)
        /\ UNCHANGED <<crs, channels, registry, ready, panicked, unsure, disturbed>>

DereferenceUid(w) ==
    /\ At(w, "next")
    /\ \E n \in job[w].todo : ~Passed(w, n) /\ job[w].list[n] \in Uidless
    /\ Panic("uid")

\* GetNotificationChannel decides between creation and update; a failure counts
\* as "does not exist".
GetChannel(w) ==
    /\ At(w, "next")
    /\ \E n \in job[w].todo, outcome \in Outcomes \ {"lost"} :
        LET exists == outcome = "ok" /\ channels[Uid[n]] # Absent
        IN  /\ ~Passed(w, n)
            /\ job[w].list[n] \notin Mistyped \cup Uidless
            /\ Call(outcome)
            /\ Become(w, [job[w] EXCEPT !.pc = IF exists THEN "update" ELSE "create",
                                        !.todo = @ \ {n}, !.cur = n])
            /\ UNCHANGED <<crs, channels, registry, ready, queue, panicked, unsure>>

\* Grafana refuses to create a uid it has and to update one it has not.
Accepted_Always(outcome, stored) == outcome # "lost"  \* mutant: the status code is not checked
Accepted(outcome, stored) == outcome = "ok" /\ stored

Submit(w) ==
    /\ At(w, "create") \/ At(w, "update")
    /\ \E outcome \in Outcomes :
        LET uid == Uid[job[w].cur]
            fits == At(w, "update") <=> channels[uid] # Absent
            stored == outcome # "err" /\ fits
        IN  /\ Call(outcome)
            /\ channels' = IF stored THEN [channels EXCEPT ![uid] = job[w].list[job[w].cur]] ELSE channels
            /\ unsure' = IF ~stored THEN unsure
                         ELSE IF outcome = "lost" \/ Crossed(w, uid) \/ Doubled(uid) THEN unsure \cup {uid}
                         ELSE unsure \ {uid}
            /\ IF Accepted(outcome, stored) THEN Become(w, [job[w] EXCEPT !.pc = "add"]) /\ UNCHANGED queue
               ELSE GoOn(w, job[w].cur) /\ UpdateStatus(job[w].cur)
            /\ UNCHANGED <<crs, registry, ready, panicked>>

\* HasNotificationChannel, called without the lock by both writers.
Look(w) ==
    LET adds == job[w].pc = "add"
        n == IF adds THEN job[w].cur ELSE heap[job[w].ref].name
    IN  /\ At(w, "add") \/ At(w, "drop")
        /\ \/ /\ Become(w, [job[w] EXCEPT !.pc = IF adds THEN "addLocked" ELSE "dropLocked",
                                          !.slot = HasChannel(n)])
              /\ UNCHANGED <<crs, channels, registry, ready, queue, panicked, unsure, disturbed>>
           \/ MapRace(w) /\ Panic("race")

\* AddNotificationChannel under the lock: a new reference, or the old one
\* written through its pointer.
NewRef(w) == [name |-> job[w].cur, uid |-> Uid[job[w].cur],
              hash |-> Hash(job[w].cur, job[w].list[job[w].cur])]

AddChannel(w) ==
    LET ns == NsOf[job[w].cur]
        s == known[ns]
        j == Beyond(job[w], job[w].cur)
    IN  /\ At(w, "addLocked")
        /\ \/ /\ job[w].slot = 0
              /\ heap' = Append(heap, NewRef(w))
              /\ known' = [known EXCEPT ![ns] = Appended(s, Len(heap) + 1)]
              /\ view' = ViewBeyond(w, [v \in Threads |-> IF Reallocates(s) /\ job[v].ns = {ns}
                                                          THEN Detached(view[v], s) ELSE view[v]], j)
           \/ /\ job[w].slot \in 1..s.len
              /\ heap' = [heap EXCEPT ![s.cells[job[w].slot]].uid = Uid[job[w].cur],
                                      ![s.cells[job[w].slot]].hash = NewRef(w).hash]
              /\ view' = ViewBeyond(w, view, j) /\ UNCHANGED known
        /\ job' = [job EXCEPT ![w] = j]
        /\ UpdateStatus(job[w].cur)
        /\ UNCHANGED <<crs, channels, ready, toDelete, panicked, unsure, disturbed>>

\* DeleteNotificationChannelByUID; the reference goes whatever the answer.
DeleteChannel(w) ==
    /\ At(w, "next") /\ job[w].todo = {} /\ toDelete[w] # <<>>
    /\ \E outcome \in Outcomes :
        LET ref == Head(toDelete[w])
            uid == heap[ref].uid
            stays == outcome = "err" /\ channels[uid] # Absent
        IN  /\ Call(outcome)
            /\ channels' = IF outcome = "err" THEN channels ELSE [channels EXCEPT ![uid] = Absent]
            /\ unsure' = IF stays \/ Crossed(w, uid) \/ Doubled(uid) THEN unsure \cup {uid} ELSE unsure \ {uid}
            /\ toDelete' = [toDelete EXCEPT ![w] = Tail(@)]
            /\ job' = [job EXCEPT ![w] = [@ EXCEPT !.pc = "drop", !.ref = ref]]
            /\ UNCHANGED <<crs, registry, ready, queue, view, panicked>>

\* RemoveNotificationChannel under the lock.
DropChannel(w) ==
    LET ns == NsOf[heap[job[w].ref].name]
    IN  /\ At(w, "dropLocked") /\ job[w].slot <= known[ns].len
        /\ known' = IF job[w].slot = 0 THEN known
                    ELSE [known EXCEPT ![ns] = Dropped(@, job[w].slot)]
        /\ Become(w, [job[w] EXCEPT !.pc = "next", !.ref = 0, !.slot = 0])
        /\ UNCHANGED <<crs, channels, heap, ready, queue, panicked, unsure, disturbed>>

\* The index found without the lock is out of range by now.
OutOfRange(w) ==
    /\ At(w, "addLocked") \/ At(w, "dropLocked")
    /\ LET n == IF job[w].pc = "addLocked" THEN job[w].cur ELSE heap[job[w].ref].name
       IN  job[w].slot > known[NsOf[n]].len
    /\ Panic("race")

EndPass(w) ==
    /\ At(w, "next") /\ job[w].todo = {} /\ toDelete[w] = <<>>
    /\ Idle(w)
    /\ UNCHANGED <<crs, channels, registry, ready, queue, panicked, unsure, disturbed>>

Work(w) == \/ PassOver(w) \/ Abort(w) \/ DereferenceUid(w) \/ GetChannel(w)
           \/ Submit(w) \/ Look(w) \/ AddChannel(w) \/ DeleteChannel(w) \/ DropChannel(w)
           \/ OutOfRange(w) \/ EndPass(w)

-----------------------------------------------------------------------------
(* What happens around the reconciler.                                      *)

ChangeResource(n) ==
    /\ \E c \in (Contents \cup {NoCR}) \ {crs[n]} :
         /\ [crs EXCEPT ![n] = c] \in Populations
         /\ Disturbance(IF c = NoCR THEN "delete" ELSE IF crs[n] = NoCR THEN "create" ELSE "update")
         /\ crs' = [crs EXCEPT ![n] = c]
    /\ queue' = queue \cup {n}
    /\ UNCHANGED <<channels, registry, ready, pass, panicked, unsure>>

\* Someone deletes a channel in the Grafana console: the operator cannot know.
ConsoleDelete(u) ==
    /\ channels[u] # Absent /\ Disturbance("console delete")
    /\ channels' = [channels EXCEPT ![u] = Absent]
    /\ unsure' = unsure \cup {u}
    /\ UNCHANGED <<crs, registry, ready, queue, pass, panicked>>

\* The event consumer stores what the Grafana controller published.
StateChange(isReady) ==
    /\ Alive /\ ready # isReady
    /\ IF isReady THEN Undisturbed ELSE Disturbance("not ready")
    /\ ready' = isReady
    /\ UNCHANGED <<crs, channels, registry, queue, pass, panicked, unsure>>

Present == { u \in UIDs : channels[u] # Absent }

Restart ==
    /\ IF ~Alive THEN Undisturbed ELSE Disturbance("restart")
    /\ heap' = <<>> /\ known' = [ns \in Namespaces |-> EmptySlice]
    /\ ready' = FALSE
    /\ queue' = Existing
    /\ view' = [w \in Threads |-> NoView]
    /\ toDelete' = [w \in Threads |-> <<>>]
    /\ job' = [w \in Threads |-> IdleJob]
    /\ panicked' = "none"
    /\ unsure' = unsure \cup Present
    /\ UNCHANGED <<crs, channels>>

Run(w) == Tick(w) \/ Reconcile(w) \/ Work(w)

Next == \/ \E w \in Threads : Run(w)
        \/ \E n \in Names : ChangeResource(n)
        \/ \E u \in UIDs : ConsoleDelete(u)
        \/ \E b \in BOOLEAN : StateChange(b)
        \/ Restart

\* The goroutines run, the ticker ticks, the Grafana controller publishes its
\* state every RequeueDelay, and the kubelet restarts a crashed operator.
Fairness == /\ \A w \in Threads : WF_vars(Run(w))
            /\ WF_vars(StateChange(TRUE))
            /\ WF_vars(~Alive /\ Restart)

Spec == Init /\ [][Next]_vars
FairSpec == Spec /\ Fairness

-----------------------------------------------------------------------------
(* Properties.                                                              *)

Phases == {"idle", "next", "create", "update", "add", "addLocked", "drop", "dropLocked"}
Pointers == DOMAIN heap

\* The types of the reconciler's state.  No cell a reader or writer looks at is
\* empty, also when a slice shares its array with a reader.
TypeOK ==
    /\ crs \in [Names -> Contents \cup {NoCR}]
    /\ channels \in [UIDs -> Contents \cup {Absent}]
    /\ heap \in Seq(Refs)
    /\ DOMAIN known = Namespaces /\ \A ns \in Namespaces : IsSlice(known[ns], Pointers)
    /\ ready \in BOOLEAN /\ panicked \in {"none", "uid", "race"} /\ queue \subseteq Names
    /\ job \in [Threads -> [pc : Phases, ns : SUBSET Namespaces, request : Names \cup {NoName},
                            list : [Names -> Contents \cup {NoCR}], todo : SUBSET Names,
                            cur : Names \cup {NoName}, ref : Pointers \cup {0}, slot : Nat]]
    /\ \A w \in Threads : IsSlice(Sees(w), Pointers)
    /\ toDelete \in [Threads -> Seq(Pointers)]
    /\ unsure \subseteq UIDs
    /\ disturbed \in 0..MaxDisturb

\* An unchanged channel is never looked at again, so the hash of a reference
\* has to be that of what Grafana holds: unless a submission is under way, two
\* passes crossed, or Grafana never confirmed the last call.  It holds with one
\* goroutine, or one resource in each namespace.  With two of both it does not:
\* the index that Look finds may be that of another reference under the lock.
RefsTellTruth ==
    \A ns \in Namespaces : \A i \in 1..known[ns].len :
        LET r == heap[known[ns].cells[i]]
        IN  \/ r.uid \in unsure
            \/ \E w \in Threads : job[w].pc \in {"add", "addLocked", "drop", "dropLocked"}
            \/ channels[r.uid] = r.hash.content

\* No resource makes passes end early or the operator panic.  It dies of json
\* without a uid, and again after every restart, but no longer than there is some.
Orderly == \A n \in Names : crs[n] \notin Mistyped \cup Uidless
Calm == <>[]Orderly /\ <>[](panicked # "race")
Due(n) == crs[n] \notin {NoCR} \cup Invalid \cup Mistyped \cup Uidless \cup Unlabelled

\* Once nothing disturbs it any more, the reconciler brings every channel that
\* has a valid resource to Grafana with its current contents, also when another
\* namespace has a resource of the same name.  The exceptions are the uids that are
\* unsure: Grafana left a call for one unanswered, two passes crossed on it, or
\* people deleted it in the console, and no clear answer has come since.
AllShown == Calm => <>[](\A n \in Names : Due(n) => channels[Uid[n]] = crs[n] \/ Uid[n] \in unsure)

\* Channels whose resource is gone leave Grafana, except while a resource of
\* the same name in another namespace is taken for it, and except the unsure ones.
NoStrays ==
    Calm => <>[](\A n \in Names :
        channels[Uid[n]] # Absent /\ Uid[n] \notin unsure =>
            \E m \in Names : crs[m] # NoCR /\ BaseName[m] = BaseName[n])
=============================================================================
