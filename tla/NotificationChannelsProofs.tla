---------------------- MODULE NotificationChannelsProofs ----------------------
(***************************************************************************)
(* Theorems about NotificationChannels, for any resources, namespaces,        *)
(* goroutines and faults: the types of the registry and of the passes that    *)
(* share its slices, and that the hashes in it are those of what Grafana has. *)
(***************************************************************************)
EXTENDS NotificationChannels, GoSlicesProofs, FiniteSetTheorems

-----------------------------------------------------------------------------
(* The invariant behind the types: what a pass has in hand, and that a view   *)
(* of a slice that its writers still change is of the one namespace the pass  *)
(* was started for.  It is stated for the pointers there are, since the heap   *)
(* grows under the passes.                                                   *)

Jobs(pointers) ==
    [pc : Phases, ns : SUBSET Namespaces, request : Names \cup {NoName},
     list : [Names -> Contents \cup {NoCR}], todo : SUBSET Names,
     cur : Names \cup {NoName}, ref : pointers \cup {0}, slot : Nat]

Submitting == {"create", "update", "add", "addLocked"}
Dropping == {"drop", "dropLocked"}

JobOK(j, pointers) ==
    /\ j \in Jobs(pointers)
    /\ \A n \in j.todo : j.list[n] # NoCR
    /\ j.pc \in Submitting => j.cur \in Names /\ j.list[j.cur] # NoCR
    /\ j.pc \in Dropping => j.ref \in pointers

ViewOK(v, j, slices, pointers) ==
    /\ v.live \in BOOLEAN /\ v.slice.len \in Nat
    /\ v.live => \E ns \in Namespaces : j.ns = {ns} /\ IsSlice(Seen(v, slices[ns]), pointers)
    /\ ~v.live => IsSlice(v.slice, pointers)

RegistryOK == /\ heap \in Seq(Refs)
              /\ DOMAIN known = Namespaces
              /\ \A ns \in Namespaces : IsSlice(known[ns], Pointers)

PassesOK == /\ job \in [Threads -> Jobs(Pointers)]
            /\ DOMAIN view = Threads
            /\ toDelete \in [Threads -> Seq(Pointers)]
            /\ \A w \in Threads : JobOK(job[w], Pointers) /\ ViewOK(view[w], job[w], known, Pointers)

SurroundingsOK ==
    /\ crs \in [Names -> Contents \cup {NoCR}]
    /\ channels \in [UIDs -> Contents \cup {Absent}]
    /\ ready \in BOOLEAN /\ panicked \in {"none", "uid", "race"} /\ queue \subseteq Names
    /\ unsure \subseteq UIDs
    /\ disturbed \in 0..MaxDisturb

Typed == RegistryOK /\ PassesOK /\ SurroundingsOK

LEMMA TypedImpliesTypeOK == Typed => TypeOK
<1> SUFFICES ASSUME Typed PROVE TypeOK
  OBVIOUS
<1>1. ASSUME NEW w \in Threads PROVE IsSlice(Sees(w), Pointers)
  <2>1. ViewOK(view[w], job[w], known, Pointers)
    BY DEF Typed, PassesOK
  <2>2. CASE view[w].live
    <3>1. PICK ns \in Namespaces : job[w].ns = {ns} /\ IsSlice(Seen(view[w], known[ns]), Pointers)
      BY <2>1, <2>2 DEF ViewOK
    <3>2. (CHOOSE m \in job[w].ns : TRUE) = ns
      BY <3>1
    <3> QED BY <2>2, <3>1, <3>2 DEF Sees
  <2>3. CASE ~view[w].live
    BY <2>1, <2>3 DEF ViewOK, Sees
  <2> QED BY <2>2, <2>3
<1> QED BY <1>1 DEF Typed, RegistryOK, PassesOK, SurroundingsOK, TypeOK, Jobs

-----------------------------------------------------------------------------
(* The operators of the model.                                              *)

LEMMA NamesTyped == \A n \in Names : NsOf[n] \in Namespaces /\ Uid[n] \in UIDs
BY DEF Namespaces, UIDs

LEMMA HeapTyped ==
    ASSUME RegistryOK, NEW p \in Pointers
    PROVE  heap[p] \in Refs /\ heap[p].name \in Names /\ heap[p].uid \in UIDs
<1>1. heap[p] \in Refs
  BY ElementOfSeq DEF RegistryOK, Pointers
<1> QED BY <1>1 DEF Refs

\* A reference keeps being one when others are added.
LEMMA MorePointers ==
    ASSUME NEW P, NEW Q, P \subseteq Q
    PROVE  /\ \A s : IsSlice(s, P) => IsSlice(s, Q)
           /\ Seq(P) \subseteq Seq(Q)
           /\ \A j : JobOK(j, P) => JobOK(j, Q)
           /\ \A v, j, slices : ViewOK(v, j, slices, P) => ViewOK(v, j, slices, Q)
<1>1. ASSUME NEW s, IsSlice(s, P) PROVE IsSlice(s, Q)
  BY <1>1 DEF IsSlice
<1>2. Seq(P) \subseteq Seq(Q)
  BY SeqDef
<1>3. ASSUME NEW j, JobOK(j, P) PROVE JobOK(j, Q)
  BY <1>3 DEF JobOK, Jobs
<1>4. ASSUME NEW v, NEW j, NEW slices, ViewOK(v, j, slices, P) PROVE ViewOK(v, j, slices, Q)
  BY <1>1, <1>4 DEF ViewOK
<1> QED BY <1>1, <1>2, <1>3, <1>4

\* The slice of a registry as a list.
LEMMA ListedOK ==
    ASSUME NEW P, NEW s, IsSlice(s, P) PROVE Listed(s) \in Seq(P)
BY DEF Listed, IsSlice

\* What a pass is to delete are references.
LEMMA GoneOK ==
    ASSUME NEW P, NEW s, IsSlice(s, P) PROVE Gone(s) \in Seq(P)
BY ListedOK, AmongOK DEF Gone

\* HasNotificationChannel answers with an index, if there is one.
LEMMA HasChannelFinds ==
    ASSUME RegistryOK, NEW n \in Names
    PROVE  LET s == known[NsOf[n]] IN
           /\ HasChannel(n) \in 0..s.len /\ s.len \in Nat
           /\ HasChannel(n) = 0 => \A i \in 1..s.len : heap[s.cells[i]].name # n
           /\ HasChannel(n) # 0 => heap[s.cells[HasChannel(n)]].name = n
<1> DEFINE s == known[NsOf[n]]
           found == Indices(NsOf[n], n)
<1>1. s.len \in Nat /\ found \in SUBSET Nat /\ found = { i \in 1..s.len : heap[s.cells[i]].name = n }
  BY NamesTyped DEF RegistryOK, IsSlice, Indices
<1>2. CASE found = {}
  <2>1. HasChannel(n) = 0
    BY <1>2 DEF HasChannel
  <2>2. \A i \in 1..s.len : heap[s.cells[i]].name # n
    BY <1>1, <1>2
  <2> QED BY <1>1, <2>1, <2>2
<1>3. CASE found # {}
  <2>1. HasChannel(n) \in found
    BY <1>1, <1>3, LeastProperties DEF HasChannel
  <2> QED BY <1>1, <2>1
<1> QED BY <1>2, <1>3

\* There are finitely many namespaces, so a map of them has an order.
LEMMA NamespacesFinite == IsFiniteSet(Namespaces) /\ Cardinality(Namespaces) \in Nat
<1> DEFINE f == [n \in Names |-> NsOf[n]]
<1>1. f \in Surjection(Names, Namespaces)
  BY DEF Surjection, Namespaces
<1>2. IsFiniteSet(Names)
  BY BoundAssumption
<1>3. IsFiniteSet(Namespaces)
  <2> HIDE DEF f
  <2> QED BY <1>1, <1>2, FS_Surjection
<1> QED BY <1>3, FS_CardinalityType

\* The copies of the slices, one after the other, are a slice.
LEMMA ConcatenatedOK ==
    ASSUME RegistryOK, NEW order \in MapOrders
    PROVE  /\ Concatenated(order).live = FALSE
           /\ Concatenated(order).slice.len \in Nat
           /\ IsSlice(Concatenated(order).slice, Pointers)
<1> DEFINE n == Len(order)
           lists == [k \in 1..n |-> Listed(known[order[k]])]
           Joined(k, list) == list \o Listed(known[order[k]])
           Is(f) == f = [k \in 0..n |-> IF k = 0 THEN <<>>
                                        ELSE f[k-1] \o Listed(known[order[k]])]
           at == CHOOSE f : Is(f)
           V == Seq(Pointers)
<1>1. order \in Seq(Namespaces) /\ n \in Nat /\ \A k \in 1..n : order[k] \in Namespaces
  BY NamespacesFinite DEF MapOrders
<1>2. \A k \in 1..n : Listed(known[order[k]]) \in V
  BY <1>1, ListedOK DEF RegistryOK
<1>3. \A k \in 1..n, list \in V : Joined(k, list) \in V
  BY <1>2, ConcatProperties
<1>4. PICK f \in [0..n -> V] : f[0] = <<>> /\ \A k \in 1..n : f[k] = Joined(k, f[k-1])
  <2>1. AreLists(lists, n, Pointers)
    BY <1>1, <1>2 DEF AreLists
  <2>2. \E f : AreJoined(f, lists, n, Pointers)
    BY <2>1, JoinedUp
  <2> HIDE DEF n
  <2>3. \A k \in 1..n : lists[k] = Listed(known[order[k]])
    OBVIOUS
  <2> HIDE DEF lists
  <2> QED BY <2>2, <2>3 DEF AreJoined
<1>5. Is(f)
  <2>1. \A k \in 0..n : k = 0 \/ k \in 1..n
    BY <1>1
  <2> QED BY <1>4, <2>1
<1>6. Is(at)
  BY <1>5, Zenon
<1> DEFINE cells == at[n]
<1>7. Concatenated(order) = [live |-> FALSE, slice |-> [cells |-> cells, cap |-> Len(cells), len |-> Len(cells)]]
  BY DEF Concatenated
<1> HIDE DEF at
<1>8. cells \in V
  <2> DEFINE T == { k \in 0..n : at[k] \in V }
  <2> HIDE DEF n, Joined, V
  <2>1. at[0] = <<>> /\ \A k \in 1..n : at[k] = Joined(k, at[k-1])
    BY <1>1, <1>6 DEF Joined
  <2>2. 0 \in T /\ \A k \in 1..n : k - 1 \in T => k \in T
    <3>1. 0 \in 0..n /\ \A k \in 1..n : k \in 0..n
      BY <1>1
    <3>2. <<>> \in V
      BY EmptySeq DEF V
    <3>3. 0 \in T
      BY <2>1, <3>1, <3>2
    <3>4. ASSUME NEW k \in 1..n, k - 1 \in T PROVE k \in T
      <4>1. at[k - 1] \in V /\ at[k] = Joined(k, at[k - 1])
        BY <2>1, <3>4
      <4>2. at[k] \in V
        BY <1>3, <4>1
      <4> QED BY <3>1, <4>2
    <3> QED BY <3>3, <3>4
  <2>3. 0..n \subseteq T
    <3> HIDE DEF T
    <3> QED BY <1>1, <2>2, StepByStep
  <2>4. n \in 0..n
    BY <1>1
  <2> QED BY <2>3, <2>4
<1> HIDE DEF cells
<1>9. Len(cells) \in Nat /\ cells \in [1..Len(cells) -> Pointers]
  BY <1>8, LenProperties DEF V
<1>10. /\ Concatenated(order).live = FALSE
       /\ Concatenated(order).slice = [cells |-> cells, cap |-> Len(cells), len |-> Len(cells)]
  BY <1>7
<1> HIDE DEF Is, Joined, V, n
<1> QED BY <1>9, <1>10 DEF IsSlice

-----------------------------------------------------------------------------
(* What a step does to the pass of its goroutine.                           *)

LEMMA IdleJobOK ==
    ASSUME NEW P
    PROVE  /\ JobOK(IdleJob, P) /\ JobOK([IdleJob EXCEPT !.pc = "next"], P)
           /\ \A j, slices : ViewOK(NoView, j, slices, P)
<1>1. NothingListed \in [Names -> Contents \cup {NoCR}]
  BY DEF NothingListed
<1>2. JobOK(IdleJob, P) /\ JobOK([IdleJob EXCEPT !.pc = "next"], P)
  BY <1>1 DEF JobOK, Jobs, IdleJob, Phases, Submitting, Dropping
<1>3. IsSlice(EmptySlice, P) /\ EmptySlice.len = 0
  BY EmptySliceOK DEF EmptySlice
<1> QED BY <1>2, <1>3 DEF ViewOK, NoView

LEMMA BeyondOK ==
    ASSUME NEW P, NEW j, JobOK(j, P), NEW n \in Names
    PROVE  /\ JobOK(Beyond(j, n), P)
           /\ Beyond(j, n).todo # {} => Beyond(j, n).ns = j.ns
           /\ Beyond(j, n).pc = "next"
<1> DEFINE rest == [j EXCEPT !.pc = "next", !.todo = @ \ {n}, !.list[n] = NoCR, !.cur = NoName, !.slot = 0]
<1>1. rest = [j EXCEPT !.pc = "next", !.todo = j.todo \ {n}, !.list = [j.list EXCEPT ![n] = NoCR],
                       !.cur = NoName, !.slot = 0]
  BY DEF JobOK, Jobs
<1>2. rest \in Jobs(P) /\ rest.pc = "next" /\ rest.ns = j.ns /\ rest.todo = j.todo \ {n}
      /\ rest.list = [j.list EXCEPT ![n] = NoCR]
  BY <1>1 DEF JobOK, Jobs, Phases
<1>3. Beyond(j, n) = IF rest.todo = {} THEN [IdleJob EXCEPT !.pc = "next"] ELSE rest
  BY DEF Beyond
<1> HIDE DEF rest
<1>4. JobOK(rest, P)
  BY <1>2 DEF JobOK, Jobs, Submitting, Dropping
<1>5. [IdleJob EXCEPT !.pc = "next"].todo = {} /\ [IdleJob EXCEPT !.pc = "next"].pc = "next"
  BY DEF IdleJob
<1> QED BY <1>2, <1>3, <1>4, <1>5, IdleJobOK

\* A step of one goroutine that leaves the registry alone leaves the other
\* passes as they are.
LEMMA OnePass ==
    ASSUME PassesOK, UNCHANGED registry, NEW w \in Threads, NEW j, JobOK(j, Pointers),
           job' = [job EXCEPT ![w] = j],
           DOMAIN view' = Threads, \A v \in Threads \ {w} : view'[v] = view[v],
           ViewOK(view'[w], j, known, Pointers),
           toDelete' \in [Threads -> Seq(Pointers)]
    PROVE  PassesOK'
<1>1. job' \in [Threads -> Jobs(Pointers)] /\ job'[w] = j /\ \A v \in Threads \ {w} : job'[v] = job[v]
  BY DEF PassesOK, JobOK
<1>2. \A v \in Threads : JobOK(job'[v], Pointers) /\ ViewOK(view'[v], job'[v], known, Pointers)
  BY <1>1 DEF PassesOK
<1>3. known' = known /\ heap' = heap
  BY DEF registry
<1> QED BY <1>1, <1>2, <1>3 DEF PassesOK, Pointers

LEMMA BecomeOK ==
    ASSUME PassesOK, UNCHANGED registry, NEW w \in Threads, NEW j, Become(w, j),
           JobOK(j, Pointers), j.ns = job[w].ns
    PROVE  PassesOK'
<1>1. job' = [job EXCEPT ![w] = j] /\ view' = view /\ toDelete' = toDelete
  BY DEF Become
<1>2. ViewOK(view[w], j, known, Pointers)
  BY DEF PassesOK, ViewOK
<1> QED BY <1>1, <1>2, OnePass DEF PassesOK

LEMMA GoOnOK ==
    ASSUME PassesOK, UNCHANGED registry, NEW w \in Threads, NEW n \in Names, GoOn(w, n)
    PROVE  PassesOK'
<1> DEFINE j == Beyond(job[w], n)
<1>1. JobOK(job[w], Pointers) /\ ViewOK(view[w], job[w], known, Pointers) /\ DOMAIN view = Threads
  BY DEF PassesOK
<1>2. JobOK(j, Pointers) /\ (j.todo # {} => j.ns = job[w].ns)
  BY <1>1, BeyondOK
<1>3. job' = [job EXCEPT ![w] = j] /\ view' = ViewBeyond(w, view, j) /\ toDelete' = toDelete
  BY DEF GoOn
<1> HIDE DEF j
<1> DEFINE vs == ViewBeyond(w, view, j)
<1>4. /\ DOMAIN vs = Threads /\ ViewOK(vs[w], j, known, Pointers)
      /\ \A v \in Threads \ {w} : vs[v] = view[v]
  <2>1. ViewOK(view[w], job[w], known, Pointers) /\ DOMAIN view = Threads
    BY <1>1
  <2>2. CASE j.todo = {}
    BY <2>1, <2>2, IdleJobOK DEF ViewBeyond
  <2>3. CASE j.todo # {}
    BY <1>2, <2>1, <2>3 DEF ViewBeyond, ViewOK
  <2> QED BY <2>2, <2>3
<1> HIDE DEF vs
<1>5. view' = vs
  BY <1>3 DEF vs
<1> QED BY <1>2, <1>3, <1>4, <1>5, OnePass DEF PassesOK

LEMMA IdleOK ==
    ASSUME PassesOK, UNCHANGED registry, NEW w \in Threads, Idle(w)
    PROVE  PassesOK'
<1>1. /\ job' = [job EXCEPT ![w] = IdleJob]
      /\ view' = [view EXCEPT ![w] = NoView]
      /\ toDelete' = [toDelete EXCEPT ![w] = <<>>]
  BY DEF Idle
<1>2. toDelete' \in [Threads -> Seq(Pointers)]
  BY <1>1, EmptySeq DEF PassesOK
<1>3. /\ DOMAIN view' = Threads /\ view'[w] = NoView
      /\ \A v \in Threads \ {w} : view'[v] = view[v]
  BY <1>1 DEF PassesOK
<1> QED BY <1>1, <1>2, <1>3, IdleJobOK, OnePass

-----------------------------------------------------------------------------
(* The views a pass starts with, and what the writers do to them.           *)

LEMMA SharedOK ==
    ASSUME RegistryOK, NEW ns \in Namespaces
    PROVE  /\ IsSlice(Seen(Shared(known[ns]), known[ns]), Pointers)
           /\ \A j : j.ns = {ns} => ViewOK(Shared(known[ns]), j, known, Pointers)
<1>1. IsSlice(known[ns], Pointers)
  BY DEF RegistryOK
<1>2. Seen(Shared(known[ns]), known[ns]) = known[ns] /\ Shared(known[ns]).live = TRUE
      /\ Shared(known[ns]).slice.len = known[ns].len
  BY <1>1 DEF Seen, Shared, IsSlice
<1>3. known[ns].len \in Nat
  BY <1>1 DEF IsSlice
<1> HIDE DEF Shared
<1> QED BY <1>1, <1>2, <1>3 DEF ViewOK

\* Without a namespace to watch there is only one.
LEMMA OneNamespace ==
    ASSUME ~ScanAll, NEW ns \in Namespaces PROVE Namespaces = {ns}
<1>1. Cardinality(Namespaces) = 1
  BY NamespaceAssumption
<1>2. \E x : Namespaces = {x}
  BY <1>1, NamespacesFinite, FS_Singleton
<1> QED BY <1>2

LEMMA TickerViewsOK ==
    ASSUME RegistryOK, NEW v \in TickerViews, NEW ns \in Namespaces
    PROVE  /\ IsSlice(Seen(v, known[ns]), Pointers)
           /\ \A j : j.ns = Namespaces => ViewOK(v, j, known, Pointers)
<1>1. CASE ScanAll
  <2>1. PICK o \in MapOrders : v = Concatenated(o)
    BY <1>1 DEF TickerViews
  <2>2. v.live = FALSE /\ v.slice.len \in Nat /\ IsSlice(v.slice, Pointers)
    BY <2>1, ConcatenatedOK
  <2> QED BY <2>2 DEF Seen, ViewOK
<1>2. CASE ~ScanAll
  <2>1. PICK m \in Namespaces : v = Shared(known[m])
    BY <1>2 DEF TickerViews
  <2>2. m = ns /\ Namespaces = {ns}
    BY <1>2, OneNamespace
  <2> QED BY <2>1, <2>2, SharedOK
<1> QED BY <1>1, <1>2

LEMMA StartPassOK ==
    ASSUME PassesOK, UNCHANGED registry, crs \in [Names -> Contents \cup {NoCR}],
           NEW w \in Threads, NEW v, NEW namespaces \in SUBSET Namespaces,
           NEW name \in Names \cup {NoName},
           \A ns \in namespaces : IsSlice(Seen(v, known[ns]), Pointers),
           \A j : j.ns = namespaces => ViewOK(v, j, known, Pointers),
           StartPass(w, v, namespaces, name)
    PROVE  PassesOK'
<1> DEFINE j == [IdleJob EXCEPT !.pc = "next", !.ns = namespaces, !.request = name,
                                !.list = crs, !.todo = Existing]
<1>1. JobOK(j, Pointers) /\ j.ns = namespaces
  <2>1. Existing \subseteq Names /\ \A n \in Existing : crs[n] # NoCR
    BY DEF Existing
  <2>2. JobOK(IdleJob, Pointers)
    BY IdleJobOK
  <2> HIDE DEF IdleJob, Existing
  <2>3. j \in Jobs(Pointers) /\ j.pc = "next" /\ j.todo = Existing /\ j.list = crs /\ j.ns = namespaces
    BY <2>1, <2>2 DEF JobOK, Jobs, Phases
  <2> HIDE DEF j
  <2> QED BY <2>1, <2>3 DEF JobOK, Submitting, Dropping
<1>2. view' = [view EXCEPT ![w] = v] /\ job' = [job EXCEPT ![w] = j]
  BY DEF StartPass
<1> HIDE DEF j
<1>3. DOMAIN view' = Threads /\ view'[w] = v /\ \A u \in Threads \ {w} : view'[u] = view[u]
  BY <1>2 DEF PassesOK
<1>4. toDelete' \in [Threads -> Seq(Pointers)]
  <2>1. PICK ns \in namespaces : toDelete' = [toDelete EXCEPT ![w] = Gone(Seen(v, known[ns]))]
    BY DEF StartPass
  <2>2. Gone(Seen(v, known[ns])) \in Seq(Pointers)
    BY GoneOK
  <2> QED BY <2>1, <2>2 DEF PassesOK
<1>5. ViewOK(view'[w], j, known, Pointers)
  BY <1>1, <1>3
<1> QED BY <1>1, <1>2, <1>3, <1>4, <1>5, OnePass

\* A new reference: readers of the array see it in place, or keep the old array.
LEMMA ViewAppended ==
    ASSUME NEW P, NEW slices, DOMAIN slices = Namespaces, NEW ns \in Namespaces, NEW ref \in P,
           IsSlice(slices[ns], P), NEW v, NEW j, ViewOK(v, j, slices, P)
    PROVE  ViewOK(IF Reallocates(slices[ns]) /\ j.ns = {ns} THEN Detached(v, slices[ns]) ELSE v,
                  j, [slices EXCEPT ![ns] = Appended(slices[ns], ref)], P)
<1> DEFINE s == slices[ns]
           more == [slices EXCEPT ![ns] = Appended(s, ref)]
<1>1. more[ns] = Appended(s, ref) /\ \A m \in Namespaces : m # ns => more[m] = slices[m]
  OBVIOUS
<1>2. CASE ~v.live
  <2>1. Detached(v, s) = v
    BY <1>2 DEF Detached
  <2> QED BY <1>2, <2>1 DEF ViewOK
<1>3. CASE v.live
  <2>1. PICK m \in Namespaces : j.ns = {m} /\ IsSlice(Seen(v, slices[m]), P)
    BY <1>3 DEF ViewOK
  <2>2. v.live \in BOOLEAN /\ v.slice.len \in Nat
    BY DEF ViewOK
  <2> HIDE DEF more
  <2>3. CASE m # ns
    <3>1. more[m] = slices[m] /\ j.ns # {ns}
      BY <1>1, <2>1, <2>3
    <3> QED BY <1>3, <2>1, <2>2, <3>1 DEF ViewOK, more
  <2>4. CASE m = ns /\ Reallocates(s)
    <3>1. /\ IsSlice(Seen(Detached(v, s), s), P)
          /\ Detached(v, s).live \in BOOLEAN /\ Detached(v, s).slice.len \in Nat
      BY <2>1, <2>2, <2>4, SeenDetached
    <3>2. Detached(v, s).live = FALSE
      BY <1>3 DEF Detached
    <3> QED BY <2>1, <2>4, <3>1, <3>2 DEF ViewOK, Seen
  <2>5. CASE m = ns /\ ~Reallocates(s)
    <3>1. IsSlice(Seen(v, Appended(s, ref)), P)
      BY <2>1, <2>5, SeenAppended
    <3> QED BY <1>1, <1>3, <2>1, <2>2, <2>5, <3>1 DEF ViewOK, more
  <2> QED BY <2>3, <2>4, <2>5
<1> QED BY <1>2, <1>3

\* A dropped reference leaves the readers of the array with others.
LEMMA ViewDropped ==
    ASSUME NEW P, NEW slices, DOMAIN slices = Namespaces, NEW ns \in Namespaces,
           IsSlice(slices[ns], P), NEW i \in 1..slices[ns].len, NEW v, NEW j,
           ViewOK(v, j, slices, P)
    PROVE  ViewOK(v, j, [slices EXCEPT ![ns] = Dropped(slices[ns], i)], P)
<1> DEFINE less == [slices EXCEPT ![ns] = Dropped(slices[ns], i)]
<1>1. less[ns] = Dropped(slices[ns], i) /\ \A m \in Namespaces : m # ns => less[m] = slices[m]
  OBVIOUS
<1>2. CASE ~v.live
  BY <1>2 DEF ViewOK
<1>3. CASE v.live
  <2>1. PICK m \in Namespaces : j.ns = {m} /\ IsSlice(Seen(v, slices[m]), P)
    BY <1>3 DEF ViewOK
  <2>2. IsSlice(Seen(v, less[m]), P)
    <3> HIDE DEF less
    <3>1. CASE m = ns
      BY <1>1, <2>1, <3>1, SeenDropped
    <3>2. CASE m # ns
      BY <1>1, <2>1, <3>2
    <3> QED BY <3>1, <3>2
  <2> HIDE DEF less
  <2> QED BY <1>3, <2>1, <2>2 DEF ViewOK, less
<1> QED BY <1>2, <1>3

-----------------------------------------------------------------------------
(* The steps keep the types.                                                *)

LEMMA RegistryKept == RegistryOK /\ UNCHANGED registry => RegistryOK'
BY DEF RegistryOK, registry, Pointers

LEMMA Counted ==
    ASSUME disturbed \in 0..MaxDisturb,
           Undisturbed \/ (\E kind : Disturbance(kind)) \/ (\E outcome : Call(outcome))
    PROVE  disturbed' \in 0..MaxDisturb
BY BoundAssumption DEF Undisturbed, Disturbance, Call

LEMMA QueueKept ==
    ASSUME queue \subseteq Names, NEW n \in Names, UpdateStatus(n) PROVE queue' \subseteq Names
BY DEF UpdateStatus

LEMMA TodoNamed ==
    ASSUME PassesOK, NEW w \in Threads
    PROVE  /\ JobOK(job[w], Pointers) /\ job[w].todo \subseteq Names
           /\ \A n \in job[w].todo : job[w].list[n] \in Contents
           /\ job[w].list \in [Names -> Contents \cup {NoCR}]
           /\ job[w].pc \in Submitting => job[w].cur \in Names /\ job[w].list[job[w].cur] \in Contents
           /\ job[w].pc \in Dropping => job[w].ref \in Pointers
BY DEF PassesOK, JobOK, Jobs

LEMMA PassOverTyped ==
    ASSUME Typed, NEW w \in Threads, PassOver(w) PROVE Typed'
<1>1. PICK n \in job[w].todo :
        /\ IF job[w].list[n] \in Invalid /\ ~Unchanged(w, n)
           THEN UpdateStatus(n) ELSE UNCHANGED queue
        /\ GoOn(w, n)
        /\ UNCHANGED <<crs, channels, registry, ready, panicked, unsure, disturbed>>
  BY DEF PassOver
<1>2. RegistryOK /\ PassesOK /\ SurroundingsOK /\ n \in Names
  BY TodoNamed DEF Typed
<1>3. PassesOK' /\ RegistryOK'
  BY <1>1, <1>2, GoOnOK, RegistryKept
<1>4. queue' \subseteq Names
  BY <1>1, <1>2, QueueKept DEF SurroundingsOK
<1> QED BY <1>1, <1>2, <1>3, <1>4 DEF Typed, SurroundingsOK

LEMMA IdleTyped ==
    ASSUME Typed, NEW w \in Threads, Idle(w), queue' \subseteq Names,
           UNCHANGED <<crs, channels, registry, ready, panicked, unsure, disturbed>>
    PROVE  Typed'
<1>1. RegistryOK' /\ PassesOK'
  BY IdleOK, RegistryKept DEF Typed
<1> QED BY <1>1 DEF Typed, SurroundingsOK

LEMMA AbortTyped ==
    ASSUME Typed, NEW w \in Threads, Abort(w) PROVE Typed'
<1>1. /\ queue' = IF job[w].request = NoName THEN queue ELSE queue \cup {job[w].request}
      /\ Idle(w)
      /\ UNCHANGED <<crs, channels, registry, ready, panicked, unsure, disturbed>>
  BY DEF Abort
<1>2. queue' \subseteq Names
  BY <1>1 DEF Typed, SurroundingsOK, PassesOK, Jobs
<1> QED BY <1>1, <1>2, IdleTyped

LEMMA EndPassTyped ==
    ASSUME Typed, NEW w \in Threads, EndPass(w) PROVE Typed'
<1>1. Idle(w) /\ UNCHANGED <<crs, channels, registry, ready, queue, panicked, unsure, disturbed>>
  BY DEF EndPass
<1> QED BY <1>1, IdleTyped DEF Typed, SurroundingsOK

LEMMA PanicTyped ==
    ASSUME Typed, NEW cause \in {"uid", "race"}, Panic(cause) PROVE Typed'
BY RegistryKept DEF Panic, Typed, SurroundingsOK, PassesOK, pass, registry, Pointers

LEMMA TickTyped ==
    ASSUME Typed, NEW w \in Threads, Tick(w) PROVE Typed'
<1>1. PICK v \in TickerViews : StartPass(w, v, Namespaces, NoName)
  BY DEF Tick
<1>2. UNCHANGED <<crs, channels, registry, ready, queue, panicked, unsure, disturbed>>
  BY DEF Tick
<1>3. RegistryOK /\ PassesOK /\ SurroundingsOK
  BY DEF Typed
<1>4. \A ns \in Namespaces : IsSlice(Seen(v, known[ns]), Pointers)
  BY <1>3, TickerViewsOK
<1>5. \A j : j.ns = Namespaces => ViewOK(v, j, known, Pointers)
  <2>1. Namespaces # {}
    BY <1>1 DEF StartPass
  <2> QED BY <1>3, <2>1, TickerViewsOK
<1>6. PassesOK'
  BY <1>1, <1>2, <1>3, <1>4, <1>5, StartPassOK DEF SurroundingsOK
<1> QED BY <1>2, <1>3, <1>6, RegistryKept DEF Typed, SurroundingsOK

LEMMA ReconcileTyped ==
    ASSUME Typed, NEW w \in Threads, Reconcile(w) PROVE Typed'
<1>1. PICK n \in queue :
         /\ queue' = queue \ {n}
         /\ IF ready /\ Relevant(n)
            THEN StartPass(w, Shared(known[NsOf[n]]), {NsOf[n]}, n)
            ELSE UNCHANGED pass
  BY DEF Reconcile
<1>2. UNCHANGED <<crs, channels, registry, ready, panicked, unsure, disturbed>>
  BY DEF Reconcile
<1>3. RegistryOK /\ PassesOK /\ SurroundingsOK /\ n \in Names /\ NsOf[n] \in Namespaces
  BY NamesTyped DEF Typed, SurroundingsOK
<1>4. PassesOK'
  <2>1. CASE UNCHANGED pass
    BY <1>2, <1>3, <2>1 DEF PassesOK, pass, registry, Pointers
  <2>2. CASE StartPass(w, Shared(known[NsOf[n]]), {NsOf[n]}, n)
    <3> DEFINE v == Shared(known[NsOf[n]])
    <3>1. /\ IsSlice(Seen(v, known[NsOf[n]]), Pointers)
          /\ \A j : j.ns = {NsOf[n]} => ViewOK(v, j, known, Pointers)
      BY <1>3, SharedOK
    <3> HIDE DEF v
    <3>2. {NsOf[n]} \in SUBSET Namespaces /\ n \in Names \cup {NoName} /\ StartPass(w, v, {NsOf[n]}, n)
      BY <1>3, <2>2 DEF v
    <3> QED BY <1>2, <1>3, <3>1, <3>2, StartPassOK DEF SurroundingsOK
  <2> QED BY <1>1, <2>1, <2>2
<1> QED BY <1>1, <1>2, <1>3, <1>4, RegistryKept DEF Typed, SurroundingsOK

LEMMA GetChannelTyped ==
    ASSUME Typed, NEW w \in Threads, GetChannel(w) PROVE Typed'
<1>1. PICK n \in job[w].todo, outcome \in Outcomes, pc \in {"update", "create"} :
        /\ Call(outcome)
        /\ Become(w, [job[w] EXCEPT !.pc = pc, !.todo = @ \ {n}, !.cur = n])
  BY DEF GetChannel
<1>2. UNCHANGED <<crs, channels, registry, ready, queue, panicked, unsure>>
  BY DEF GetChannel
<1>3. RegistryOK /\ PassesOK /\ SurroundingsOK
  BY DEF Typed
<1> DEFINE j == [job[w] EXCEPT !.pc = pc, !.todo = @ \ {n}, !.cur = n]
<1>4. JobOK(job[w], Pointers) /\ n \in Names
  BY <1>3, TodoNamed
<1>5. JobOK(j, Pointers) /\ j.ns = job[w].ns
  BY <1>4 DEF JobOK, Jobs, Phases, Submitting, Dropping
<1>6. PassesOK'
  <2> HIDE DEF j
  <2>1. Become(w, j)
    BY <1>1 DEF j
  <2> QED BY <1>2, <1>3, <1>5, <2>1, BecomeOK
<1> QED BY <1>1, <1>2, <1>3, <1>6, RegistryKept, Counted DEF Typed, SurroundingsOK

\* What a call stores in Grafana is a content.
LEMMA SubmitTyped ==
    ASSUME Typed, NEW w \in Threads, Submit(w) PROVE Typed'
<1> DEFINE n == job[w].cur
<1>1. PICK outcome \in Outcomes, stored \in BOOLEAN :
        /\ Call(outcome)
        /\ channels' = IF stored THEN [channels EXCEPT ![Uid[n]] = job[w].list[n]] ELSE channels
        /\ IF Accepted(outcome, stored) THEN Become(w, [job[w] EXCEPT !.pc = "add"]) /\ UNCHANGED queue
           ELSE GoOn(w, n) /\ UpdateStatus(n)
  BY DEF Submit
<1>2. /\ unsure' \in {unsure, unsure \cup {Uid[n]}, unsure \ {Uid[n]}}
      /\ UNCHANGED <<crs, registry, ready, panicked>> /\ job[w].pc \in {"create", "update"}
  BY DEF Submit, At
<1>3. RegistryOK /\ PassesOK /\ SurroundingsOK
  BY DEF Typed
<1>4. JobOK(job[w], Pointers) /\ n \in Names /\ job[w].list[n] \in Contents
  BY <1>2, <1>3, TodoNamed DEF Submitting
<1>5. PassesOK' /\ queue' \subseteq Names
  <2>1. CASE Become(w, [job[w] EXCEPT !.pc = "add"]) /\ UNCHANGED queue
    <3> DEFINE j == [job[w] EXCEPT !.pc = "add"]
    <3>1. JobOK(j, Pointers) /\ j.ns = job[w].ns
      BY <1>2, <1>4 DEF JobOK, Jobs, Phases, Submitting, Dropping
    <3> HIDE DEF j
    <3>2. Become(w, j)
      BY <2>1 DEF j
    <3> QED BY <1>2, <1>3, <2>1, <3>1, <3>2, BecomeOK DEF SurroundingsOK
  <2>2. CASE GoOn(w, n) /\ UpdateStatus(n)
    <3> HIDE DEF n
    <3> QED BY <1>2, <1>3, <1>4, <2>2, GoOnOK, QueueKept DEF SurroundingsOK
  <2> QED BY <1>1, <2>1, <2>2
<1>6. channels' \in [UIDs -> Contents \cup {Absent}] /\ unsure' \subseteq UIDs
  BY <1>1, <1>2, <1>3, <1>4, NamesTyped DEF SurroundingsOK
<1>7. RegistryOK' /\ disturbed' \in 0..MaxDisturb
  BY <1>1, <1>2, <1>3, RegistryKept, Counted DEF SurroundingsOK
<1> QED BY <1>2, <1>3, <1>5, <1>6, <1>7 DEF Typed, SurroundingsOK

LEMMA LookTyped ==
    ASSUME Typed, NEW w \in Threads, Look(w) PROVE Typed'
<1> DEFINE n == IF job[w].pc = "add" THEN job[w].cur ELSE heap[job[w].ref].name
           j == [job[w] EXCEPT !.pc = IF job[w].pc = "add" THEN "addLocked" ELSE "dropLocked",
                               !.slot = HasChannel(n)]
<1>1. CASE MapRace(w) /\ Panic("race")
  BY <1>1, PanicTyped
<1>2. CASE Become(w, j) /\ UNCHANGED <<crs, channels, registry, ready, queue, panicked, unsure, disturbed>>
  <2>1. RegistryOK /\ PassesOK /\ SurroundingsOK /\ job[w].pc \in {"add", "drop"}
    BY DEF Typed, Look, At
  <2>2. n \in Names
    BY <2>1, TodoNamed, HeapTyped DEF Submitting, Dropping
  <2>3. HasChannel(n) \in Nat
    <3> HIDE DEF n
    <3> QED BY <2>1, <2>2, HasChannelFinds
  <2>4. JobOK(j, Pointers) /\ j.ns = job[w].ns
    <3> HIDE DEF n
    <3> QED BY <2>1, <2>3, TodoNamed DEF JobOK, Jobs, Phases, Submitting, Dropping
  <2>5. PassesOK'
    <3> HIDE DEF j
    <3> QED BY <1>2, <2>1, <2>4, BecomeOK
  <2> QED BY <1>2, <2>1, <2>5, RegistryKept DEF Typed, SurroundingsOK
<1> QED BY <1>1, <1>2 DEF Look

LEMMA DeleteChannelTyped ==
    ASSUME Typed, NEW w \in Threads, DeleteChannel(w) PROVE Typed'
<1> DEFINE ref == Head(toDelete[w])
           uid == heap[ref].uid
           j == [job[w] EXCEPT !.pc = "drop", !.ref = ref]
<1>1. PICK outcome \in Outcomes :
        /\ Call(outcome)
        /\ channels' = IF outcome = "err" THEN channels ELSE [channels EXCEPT ![uid] = Absent]
  BY DEF DeleteChannel
<1>2. /\ unsure' \in {unsure \cup {uid}, unsure \ {uid}}
      /\ toDelete' = [toDelete EXCEPT ![w] = Tail(@)]
      /\ job' = [job EXCEPT ![w] = j]
      /\ UNCHANGED <<crs, registry, ready, queue, view, panicked>>
      /\ toDelete[w] # <<>>
  BY DEF DeleteChannel
<1>3. RegistryOK /\ PassesOK /\ SurroundingsOK
  BY DEF Typed
<1>4. toDelete[w] \in Seq(Pointers)
  BY <1>3 DEF PassesOK
<1>5. ref \in Pointers /\ Tail(toDelete[w]) \in Seq(Pointers)
  BY <1>2, <1>4, HeadTailProperties
<1>6. uid \in UIDs
  <2> HIDE DEF ref
  <2> QED BY <1>3, <1>5, HeapTyped
<1> HIDE DEF ref
<1>7. JobOK(j, Pointers) /\ j.ns = job[w].ns
  BY <1>3, <1>5, TodoNamed DEF JobOK, Jobs, Phases, Submitting, Dropping
<1> HIDE DEF j
<1>8. PassesOK'
  <2>1. toDelete' \in [Threads -> Seq(Pointers)]
    BY <1>2, <1>3, <1>5 DEF PassesOK
  <2>2. ViewOK(view[w], j, known, Pointers)
    BY <1>3, <1>7 DEF PassesOK, ViewOK
  <2> QED BY <1>2, <1>3, <1>7, <2>1, <2>2, OnePass DEF PassesOK
<1>9. channels' \in [UIDs -> Contents \cup {Absent}] /\ unsure' \subseteq UIDs
  <2> HIDE DEF uid
  <2> QED BY <1>1, <1>2, <1>3, <1>6 DEF SurroundingsOK
<1>10. RegistryOK' /\ disturbed' \in 0..MaxDisturb
  BY <1>1, <1>2, <1>3, RegistryKept, Counted DEF SurroundingsOK
<1> QED BY <1>2, <1>3, <1>8, <1>9, <1>10 DEF Typed, SurroundingsOK

\* A new reference is one more pointer; a written one keeps its pointer.
LEMMA NewRefOK ==
    ASSUME PassesOK, NEW w \in Threads, job[w].pc = "addLocked"
    PROVE  /\ NewRef(w) \in Refs /\ job[w].cur \in Names
           /\ NewRef(w).name = job[w].cur /\ NewRef(w).uid = Uid[job[w].cur]
           /\ NewRef(w).hash = Hash(job[w].cur, job[w].list[job[w].cur])
           /\ NewRef(w).hash.content = job[w].list[job[w].cur]
<1>1. job[w].cur \in Names /\ job[w].list[job[w].cur] \in Contents
  BY TodoNamed DEF Submitting
<1> QED BY <1>1, NamesTyped DEF NewRef, Refs, Hash, Hashes

LEMMA AddChannelTyped ==
    ASSUME Typed, NEW w \in Threads, AddChannel(w) PROVE Typed'
<1> DEFINE n == job[w].cur
           ns == NsOf[n]
           s == known[ns]
           j == Beyond(job[w], n)
<1>1. RegistryOK /\ PassesOK /\ SurroundingsOK /\ job[w].pc = "addLocked"
  BY DEF Typed, AddChannel, At
<1>2. NewRef(w) \in Refs /\ n \in Names /\ ns \in Namespaces
  BY <1>1, NewRefOK, NamesTyped
<1>3. /\ job' = [job EXCEPT ![w] = j] /\ UpdateStatus(n)
      /\ UNCHANGED <<crs, channels, ready, toDelete, panicked, unsure, disturbed>>
  BY DEF AddChannel
<1>4. JobOK(job[w], Pointers)
  BY <1>1, TodoNamed
<1>5. \A v \in Threads : ViewOK(view[v], job[v], known, Pointers)
  BY <1>1 DEF PassesOK
<1>6. DOMAIN view = Threads /\ DOMAIN known = Namespaces /\ IsSlice(s, Pointers)
      /\ job \in [Threads -> Jobs(Pointers)]
      /\ \A v \in Threads : JobOK(job[v], Pointers)
      /\ \A m \in Namespaces : IsSlice(known[m], Pointers)
  BY <1>1, <1>2 DEF PassesOK, RegistryOK
<1> HIDE DEF n, ns
<1>7. RegistryOK' /\ PassesOK'
  <2>1. CASE /\ heap' = Append(heap, NewRef(w))
             /\ known' = [known EXCEPT ![ns] = Appended(s, Len(heap) + 1)]
             /\ view' = ViewBeyond(w, [v \in Threads |-> IF Reallocates(s) /\ job[v].ns = {ns}
                                                         THEN Detached(view[v], s) ELSE view[v]], j)
    <3> DEFINE ref == Len(heap) + 1
               P == Pointers \cup {ref}
               vs == [v \in Threads |-> IF Reallocates(s) /\ job[v].ns = {ns}
                                        THEN Detached(view[v], s) ELSE view[v]]
    <3>1. heap \in Seq(Refs) /\ Len(heap) \in Nat
      BY <1>1, LenProperties DEF RegistryOK
    <3>2. heap' \in Seq(Refs) /\ Pointers' = P
      BY <1>2, <2>1, <3>1, AppendProperties, LenProperties DEF Pointers
    <3>3. Pointers \subseteq P /\ ref \in P
      OBVIOUS
    <3> HIDE DEF P, ref
    <3>4. IsSlice(s, P) /\ \A v \in Threads : ViewOK(view[v], job[v], known, P)
      BY <1>5, <1>6, <3>3, MorePointers
    <3>5. \A m \in Namespaces : IsSlice(known'[m], P)
      <4>1. IsSlice(Appended(s, ref), P)
        BY <3>3, <3>4, AppendedOK
      <4>2. \A m \in Namespaces : known'[m] = IF m = ns THEN Appended(s, ref) ELSE known[m]
        BY <1>6, <2>1 DEF ref
      <4> QED BY <1>6, <3>3, <4>1, <4>2, MorePointers
    <3>6. DOMAIN known' = Namespaces
      BY <1>6, <2>1
    <3>7. ASSUME NEW v \in Threads PROVE ViewOK(vs[v], job[v], known', P)
      <4> DEFINE vv == IF Reallocates(s) /\ job[v].ns = {ns} THEN Detached(view[v], s) ELSE view[v]
      <4>1. ViewOK(vv, job[v], [known EXCEPT ![ns] = Appended(s, ref)], P)
        BY <1>2, <1>6, <3>3, <3>4, ViewAppended
      <4>2. vs[v] = vv /\ known' = [known EXCEPT ![ns] = Appended(s, ref)]
        BY <2>1 DEF ref
      <4> HIDE DEF vs, vv
      <4> QED BY <4>1, <4>2
    <3>8. view' = ViewBeyond(w, vs, j) /\ DOMAIN vs = Threads
      BY <2>1
    <3> HIDE DEF vs
    <3>9. JobOK(j, P) /\ (j.todo # {} => j.ns = job[w].ns)
      BY <1>2, <1>4, <3>3, BeyondOK, MorePointers DEF n
    <3> HIDE DEF j
    <3>10. DOMAIN view' = Threads /\ \A v \in Threads : ViewOK(view'[v], job'[v], known', P)
      <4>1. \A v \in Threads \ {w} : job'[v] = job[v]
        BY <1>3, <1>6
      <4>2. job'[w] = j
        BY <1>3, <1>6
      <4>3. CASE j.todo = {}
        BY <3>7, <3>8, <4>1, <4>2, <4>3, IdleJobOK DEF ViewBeyond
      <4>4. CASE j.todo # {}
        BY <3>7, <3>8, <3>9, <4>1, <4>2, <4>4 DEF ViewBeyond, ViewOK
      <4> QED BY <4>3, <4>4
    <3>11. \A v \in Threads : JobOK(job'[v], P)
      BY <1>3, <1>6, <3>3, <3>9, MorePointers
    <3>12. job' \in [Threads -> Jobs(P)]
      <4>1. job' = [v \in Threads |-> job'[v]]
        BY <1>3, <1>6
      <4> QED BY <3>11, <4>1 DEF JobOK
    <3>13. toDelete' \in [Threads -> Seq(P)]
      BY <1>1, <1>3, <3>3, MorePointers DEF PassesOK
    <3> QED BY <3>2, <3>5, <3>6, <3>10, <3>11, <3>12, <3>13 DEF RegistryOK, PassesOK
  <2>2. CASE /\ job[w].slot \in 1..s.len
             /\ heap' = [heap EXCEPT ![s.cells[job[w].slot]].uid = Uid[n],
                                     ![s.cells[job[w].slot]].hash = NewRef(w).hash]
             /\ view' = ViewBeyond(w, view, j) /\ UNCHANGED known
    <3> DEFINE p == s.cells[job[w].slot]
    <3>1. p \in Pointers
      BY <1>6, <2>2 DEF IsSlice
    <3>2. heap \in Seq(Refs) /\ heap[p] \in Refs
      BY <1>1, <3>1, HeapTyped DEF RegistryOK
    <3> HIDE DEF p
    <3>3. heap' = [heap EXCEPT ![p] = [heap[p] EXCEPT !.uid = Uid[n], !.hash = NewRef(w).hash]]
      BY <2>2, <3>1, <3>2 DEF p, Pointers
    <3>4. [heap[p] EXCEPT !.uid = Uid[n], !.hash = NewRef(w).hash] \in Refs
      BY <1>2, <3>2, NamesTyped DEF Refs, n
    <3>5. heap' \in Seq(Refs) /\ Pointers' = Pointers
      BY <3>1, <3>2, <3>3, <3>4, ExceptSeq DEF Pointers
    <3>6. JobOK(j, Pointers) /\ (j.todo # {} => j.ns = job[w].ns)
      BY <1>2, <1>4, BeyondOK DEF n
    <3> HIDE DEF j
    <3>7. \A v \in Threads : job'[v] = IF v = w THEN j ELSE job[v]
      BY <1>3, <1>6
    <3>8. DOMAIN view' = Threads /\ \A v \in Threads : ViewOK(view'[v], job'[v], known, Pointers)
      <4>1. CASE j.todo = {}
        <5>1. view' = [view EXCEPT ![w] = NoView]
          BY <2>2, <4>1 DEF ViewBeyond
        <5>2. ViewOK(NoView, job'[w], known, Pointers)
          BY IdleJobOK
        <5> QED BY <1>5, <1>6, <3>7, <5>1, <5>2
      <4>2. CASE j.todo # {}
        <5>1. view' = view
          BY <2>2, <4>2 DEF ViewBeyond
        <5>2. ViewOK(view[w], j, known, Pointers)
          BY <1>5, <3>6, <4>2 DEF ViewOK
        <5> QED BY <1>5, <1>6, <3>7, <5>1, <5>2
      <4> QED BY <4>1, <4>2
    <3>9. \A v \in Threads : JobOK(job'[v], Pointers)
      BY <1>6, <3>6, <3>7
    <3>10. job' \in [Threads -> Jobs(Pointers)] /\ toDelete' \in [Threads -> Seq(Pointers)]
      BY <1>1, <1>3, <1>6, <3>6 DEF JobOK, PassesOK
    <3> QED BY <1>6, <2>2, <3>5, <3>8, <3>9, <3>10 DEF RegistryOK, PassesOK
  <2> QED BY <2>1, <2>2 DEF AddChannel, n, ns
<1>8. queue' \subseteq Names
  BY <1>1, <1>2, <1>3, QueueKept DEF SurroundingsOK
<1> QED BY <1>1, <1>3, <1>7, <1>8 DEF Typed, SurroundingsOK

LEMMA DropChannelTyped ==
    ASSUME Typed, NEW w \in Threads, DropChannel(w) PROVE Typed'
<1> DEFINE ns == NsOf[heap[job[w].ref].name]
           s == known[ns]
           i == job[w].slot
           j == [job[w] EXCEPT !.pc = "next", !.ref = 0, !.slot = 0]
<1>1. RegistryOK /\ PassesOK /\ SurroundingsOK /\ job[w].pc = "dropLocked"
  BY DEF Typed, DropChannel, At
<1>2. /\ i <= s.len /\ known' = IF i = 0 THEN known ELSE [known EXCEPT ![ns] = Dropped(@, i)]
      /\ job' = [job EXCEPT ![w] = j] /\ UNCHANGED <<view, toDelete>>
      /\ UNCHANGED <<crs, channels, heap, ready, queue, panicked, unsure, disturbed>>
  BY DEF DropChannel, Become
<1>3. JobOK(job[w], Pointers) /\ ns \in Namespaces
  BY <1>1, TodoNamed, HeapTyped, NamesTyped DEF Dropping
<1>4. IsSlice(s, Pointers) /\ i \in Nat /\ s.len \in Nat
  <2>1. i \in Nat
    BY <1>3 DEF JobOK, Jobs
  <2> HIDE DEF ns, i
  <2>2. IsSlice(s, Pointers)
    BY <1>1, <1>3 DEF RegistryOK
  <2> QED BY <2>1, <2>2 DEF IsSlice
<1>5. JobOK(j, Pointers) /\ j.ns = job[w].ns
  BY <1>3 DEF JobOK, Jobs, Phases, Submitting, Dropping
<1> HIDE DEF ns, i, j
<1>6. /\ DOMAIN known' = Namespaces /\ \A m \in Namespaces : IsSlice(known'[m], Pointers)
      /\ \A v \in Threads : ViewOK(view[v], job[v], known', Pointers)
  <2>1. CASE i = 0
    BY <1>1, <1>2, <2>1 DEF RegistryOK, PassesOK
  <2>2. CASE i # 0
    <3>1. i \in 1..s.len /\ DOMAIN known = Namespaces
      BY <1>1, <1>2, <1>4, <2>2 DEF RegistryOK
    <3>2. known' = [known EXCEPT ![ns] = Dropped(s, i)]
      BY <1>2, <2>2
    <3>3. IsSlice(Dropped(s, i), Pointers)
      BY <1>4, <3>1, DroppedOK
    <3>4. DOMAIN known' = Namespaces /\ \A m \in Namespaces : IsSlice(known'[m], Pointers)
      BY <1>1, <3>1, <3>2, <3>3 DEF RegistryOK
    <3>5. \A v \in Threads : ViewOK(view[v], job[v], [known EXCEPT ![ns] = Dropped(s, i)], Pointers)
      BY <1>1, <1>3, <1>4, <3>1, ViewDropped DEF PassesOK
    <3> QED BY <3>2, <3>4, <3>5
  <2> QED BY <2>1, <2>2
<1>7. RegistryOK'
  BY <1>1, <1>2, <1>6 DEF RegistryOK, Pointers
<1>8. PassesOK'
  <2>1. \A v \in Threads : job'[v] = IF v = w THEN j ELSE job[v]
    BY <1>1, <1>2 DEF PassesOK
  <2>2. ASSUME NEW v \in Threads
        PROVE JobOK(job'[v], Pointers) /\ ViewOK(view[v], job'[v], known', Pointers)
    <3>1. job'[v].ns = job[v].ns
      BY <1>5, <2>1
    <3>2. JobOK(job'[v], Pointers)
      BY <1>1, <1>5, <2>1 DEF PassesOK
    <3>3. ViewOK(view[v], job[v], known', Pointers)
      BY <1>6
    <3> HIDE DEF s
    <3> QED BY <3>1, <3>2, <3>3 DEF ViewOK
  <2>3. job' \in [Threads -> Jobs(Pointers)]
    BY <1>1, <1>2, <1>5 DEF PassesOK, JobOK
  <2> QED BY <1>1, <1>2, <2>2, <2>3 DEF PassesOK, Pointers
<1> QED BY <1>1, <1>2, <1>7, <1>8 DEF Typed, SurroundingsOK

LEMMA FreshStart ==
    ASSUME heap = <<>>, known = [ns \in Namespaces |-> EmptySlice],
           view = [w \in Threads |-> NoView], toDelete = [w \in Threads |-> <<>>],
           job = [w \in Threads |-> IdleJob]
    PROVE  RegistryOK /\ PassesOK
<1>1. RegistryOK
  BY EmptySliceOK, EmptySeq DEF RegistryOK
<1>2. \A w \in Threads : JobOK(job[w], Pointers) /\ ViewOK(view[w], job[w], known, Pointers)
  BY IdleJobOK
<1>3. job \in [Threads -> Jobs(Pointers)]
  BY IdleJobOK DEF JobOK
<1>4. toDelete \in [Threads -> Seq(Pointers)]
  BY EmptySeq
<1> QED BY <1>1, <1>2, <1>3, <1>4 DEF PassesOK

LEMMA InitTyped == Init => Typed
<1> SUFFICES ASSUME Init PROVE Typed
  OBVIOUS
<1>1. RegistryOK /\ PassesOK
  BY FreshStart DEF Init
<1>2. crs \in Populations /\ crs \in [Names -> Contents \cup {NoCR}]
  BY PopulationAssumption DEF Init
<1>3. disturbed \in 0..MaxDisturb
  <2>1. Existing \subseteq Names /\ IsFiniteSet(Names) /\ MaxDisturb \in Nat
    BY BoundAssumption DEF Existing
  <2>2. Cardinality(Existing) \in Nat
    BY <2>1, FS_Subset, FS_CardinalityType
  <2>3. Cardinality(Existing) <= MaxDisturb
    BY <1>2, BoundAssumption DEF Existing
  <2> QED BY <2>1, <2>2, <2>3 DEF Init
<1>4. channels \in [UIDs -> Contents \cup {Absent}] /\ queue \subseteq Names
  BY DEF Init, Existing
<1>5. ready = FALSE /\ panicked = "none" /\ unsure = {}
  BY DEF Init
<1> QED BY <1>1, <1>2, <1>3, <1>4, <1>5 DEF Typed, SurroundingsOK

LEMMA AroundTyped ==
    ASSUME Typed,
           \/ \E n \in Names : ChangeResource(n)
           \/ \E u \in UIDs : ConsoleDelete(u)
           \/ \E b \in BOOLEAN : StateChange(b)
    PROVE  Typed'
<1>0. RegistryOK /\ PassesOK /\ SurroundingsOK
  BY DEF Typed
<1>1. UNCHANGED <<registry, pass, panicked>> /\ disturbed' \in 0..MaxDisturb
  BY <1>0, Counted DEF ChangeResource, ConsoleDelete, StateChange, SurroundingsOK
<1>2. RegistryOK' /\ PassesOK'
  BY <1>0, <1>1, RegistryKept DEF PassesOK, registry, pass, Pointers
<1>3. ASSUME NEW n \in Names, ChangeResource(n) PROVE SurroundingsOK'
  <2>1. PICK c \in Contents \cup {NoCR} : crs' = [crs EXCEPT ![n] = c]
    BY <1>3 DEF ChangeResource
  <2> QED BY <1>0, <1>1, <1>3, <2>1 DEF SurroundingsOK, ChangeResource
<1>4. ASSUME NEW u \in UIDs, ConsoleDelete(u) PROVE SurroundingsOK'
  BY <1>0, <1>1, <1>4 DEF SurroundingsOK, ConsoleDelete
<1>5. ASSUME NEW b \in BOOLEAN, StateChange(b) PROVE SurroundingsOK'
  BY <1>0, <1>1, <1>5 DEF SurroundingsOK, StateChange
<1> QED BY <1>2, <1>3, <1>4, <1>5 DEF Typed

LEMMA RestartTyped ==
    ASSUME Typed, Restart PROVE Typed'
<1>1. RegistryOK' /\ PassesOK'
  <2>1. /\ heap' = <<>> /\ known' = [ns \in Namespaces |-> EmptySlice]
        /\ view' = [w \in Threads |-> NoView] /\ toDelete' = [w \in Threads |-> <<>>]
        /\ job' = [w \in Threads |-> IdleJob]
    BY DEF Restart
  <2>2. RegistryOK'
    BY <2>1, EmptySliceOK, EmptySeq DEF RegistryOK
  <2>3. \A w \in Threads : JobOK(job'[w], Pointers') /\ ViewOK(view'[w], job'[w], known', Pointers')
    BY <2>1, IdleJobOK
  <2>4. job' \in [Threads -> Jobs(Pointers')]
    BY <2>1, IdleJobOK DEF JobOK
  <2>5. toDelete' \in [Threads -> Seq(Pointers')]
    BY <2>1, EmptySeq
  <2> QED BY <2>1, <2>2, <2>3, <2>4, <2>5 DEF PassesOK
<1>2. disturbed' \in 0..MaxDisturb
  BY Counted DEF Restart, Typed, SurroundingsOK
<1>3. queue' \subseteq Names /\ unsure' \subseteq UIDs
  BY DEF Restart, Existing, Present, Typed, SurroundingsOK
<1> QED BY <1>1, <1>2, <1>3 DEF Restart, Typed, SurroundingsOK

LEMMA RunTyped ==
    ASSUME Typed, NEW w \in Threads, Run(w) PROVE Typed'
<1>1. CASE OutOfRange(w)
  BY <1>1, PanicTyped DEF OutOfRange
<1>2. CASE DereferenceUid(w)
  BY <1>2, PanicTyped DEF DereferenceUid
<1> QED BY <1>1, <1>2, TickTyped, ReconcileTyped, PassOverTyped, AbortTyped, GetChannelTyped,
           SubmitTyped, LookTyped, AddChannelTyped, DeleteChannelTyped, DropChannelTyped,
           EndPassTyped DEF Run, Work

LEMMA NextTyped == Typed /\ [Next]_vars => Typed'
<1> SUFFICES ASSUME Typed, [Next]_vars PROVE Typed'
  OBVIOUS
<1>1. CASE UNCHANGED vars
  BY <1>1 DEF vars, registry, pass, Typed, RegistryOK, PassesOK, SurroundingsOK, Pointers
<1> QED BY <1>1, RunTyped, AroundTyped, RestartTyped DEF Next

\* Whatever resources there are, however the passes of the goroutines cut
\* into each other and whatever calls fail, no goroutine ever reads a cell of a
\* slice that holds no reference, be the slice its own copy, an array it shares
\* with the writers or one they have left (GetNotificationChannels, Add- and
\* RemoveNotificationChannel).
THEOREM TypesKept == Spec => []TypeOK
<1>1. Spec => []Typed
  BY InitTyped, NextTyped, PTL DEF Spec
<1> QED BY <1>1, TypedImpliesTypeOK, PTL

-----------------------------------------------------------------------------
(* References tell the truth.  A pass that has submitted or deleted a channel *)
(* and not entered it yet touches its uid.  What it knows of that uid it can   *)
(* rely on, unless the uid is unsure: Grafana holds what it sent, and there is *)
(* no second reference.  What it knows of the place of the reference it can    *)
(* rely on only while nobody else rewrites the slice of that namespace: with   *)
(* one goroutine, or one resource in each namespace.  With two of each a pass  *)
(* writes through the index of a reference that another has moved by now, and  *)
(* the invariant does not hold.                                               *)

OneWorker == \A v, w \in Threads : v = w
Alone == \A m, n \in Names : NsOf[m] = NsOf[n] => m = n

Adding(w) == job[w].pc \in {"add", "addLocked"}
Removing(w) == job[w].pc \in {"drop", "dropLocked"}
Locked(w) == job[w].pc \in {"addLocked", "dropLocked"}
Target(w) == IF Adding(w) THEN job[w].cur ELSE heap[job[w].ref].name
Touches(w, u) == (Adding(w) \/ Removing(w)) /\ Uid[Target(w)] = u

\* What a cell of the registry leads to.
Entry(ns, i) == heap[known[ns].cells[i]]

\* The names in the registry.
Named == \A p \in Pointers : heap[p].uid = Uid[heap[p].name]
Placed == \A ns \in Namespaces : \A i \in 1..known[ns].len : NsOf[Entry(ns, i).name] = ns

Truth == \A ns \in Namespaces : \A i \in 1..known[ns].len : \A u \in UIDs :
            Entry(ns, i).uid = u => \/ u \in unsure
                                  \/ \E w \in Threads : Touches(w, u)
                                  \/ channels[u] = Entry(ns, i).hash.content

\* Two passes at one uid, each half done.
Apart == \A v, w \in Threads : \A u \in UIDs :
            v # w /\ Touches(v, u) /\ Touches(w, u) => u \in unsure

Sent(w) == Adding(w) => LET u == Uid[job[w].cur] IN
              u \in unsure \/ (channels[u] = job[w].list[job[w].cur] /\ ~Doubled(u))
Withdrawn(w) == Removing(w) => LET u == Uid[heap[job[w].ref].name] IN
              u \in unsure \/ (channels[u] = Absent /\ ~Doubled(u))
SlotRight(w) == Locked(w) /\ (OneWorker \/ Uid[Target(w)] \notin unsure) =>
              \A n \in Names : n = Target(w) => job[w].slot = HasChannel(n)

Consistent == /\ Named /\ Placed /\ Truth /\ Apart
              /\ \A w \in Threads : Sent(w) /\ Withdrawn(w) /\ SlotRight(w)

\* A reference of the registry is one, and of a name.
LEMMA CellTyped ==
    ASSUME RegistryOK, NEW ns \in Namespaces, NEW i \in 1..known[ns].len
    PROVE  /\ known[ns].cells[i] \in Pointers /\ Entry(ns, i) \in Refs
           /\ Entry(ns, i).name \in Names /\ Entry(ns, i).uid \in UIDs
<1>1. known[ns].cells[i] \in Pointers
  BY DEF RegistryOK, IsSlice
<1> QED BY <1>1, HeapTyped DEF Entry

LEMMA ConsistentImpliesTruth == Typed /\ Consistent => RefsTellTruth
BY CellTyped DEF Typed, Consistent, Truth, RefsTellTruth, Entry, Touches, Adding, Removing

LEMMA TargetTyped ==
    ASSUME Typed, NEW w \in Threads, Adding(w) \/ Removing(w)
    PROVE  /\ Target(w) \in Names /\ Uid[Target(w)] \in UIDs
           /\ Adding(w) => job[w].cur \in Names /\ Target(w) = job[w].cur /\ ~Removing(w)
           /\ Removing(w) => /\ job[w].ref \in Pointers /\ Target(w) = heap[job[w].ref].name
                             /\ ~Adding(w)
<1>1. Adding(w) => job[w].cur \in Names /\ ~Removing(w)
  BY TodoNamed DEF Typed, Adding, Removing, Submitting
<1>2. Removing(w) => job[w].ref \in Pointers /\ heap[job[w].ref].name \in Names /\ ~Adding(w)
  BY TodoNamed, HeapTyped DEF Typed, Adding, Removing, Dropping
<1> QED BY <1>1, <1>2, NamesTyped DEF Target

\* Crossed sees the passes that touch the uid.
LEMMA CrossedTouches ==
    ASSUME Typed, Named, NEW w \in Threads, NEW u
    PROVE  Crossed(w, u) <=> \E v \in Threads \ {w} : Touches(v, u)
<1>1. ASSUME NEW v \in Threads
      PROVE Touches(v, u) <=> \/ job[v].pc \in {"add", "addLocked"} /\ Uid[job[v].cur] = u
                              \/ job[v].pc \in {"drop", "dropLocked"} /\ heap[job[v].ref].uid = u
  <2>1. CASE Adding(v)
    BY <2>1, TargetTyped DEF Touches, Adding, Removing
  <2>2. CASE Removing(v)
    BY <2>2, TargetTyped DEF Touches, Adding, Removing, Named
  <2>3. CASE ~Adding(v) /\ ~Removing(v)
    BY <2>3 DEF Touches, Adding, Removing
  <2> QED BY <2>1, <2>2, <2>3
<1> QED BY <1>1 DEF Crossed

\* What is not doubled has one cell.
LEMMA SingleCell ==
    ASSUME RegistryOK, NEW u, ~Doubled(u), NEW ns \in Namespaces,
           NEW i \in 1..known[ns].len, NEW k \in 1..known[ns].len,
           Entry(ns, i).uid = u, Entry(ns, k).uid = u
    PROVE  i = k
<1>1. known[ns].len \in Nat
  BY DEF RegistryOK, IsSlice
<1>2. ~(i < k) /\ ~(k < i)
  BY DEF Doubled, Entry
<1> QED BY <1>1, <1>2

\* A reference with the uid of a resource is that of the resource.
LEMMA UidNames ==
    ASSUME RegistryOK, Named, Placed, NEW n \in Names, NEW ns \in Namespaces,
           NEW i \in 1..known[ns].len, Entry(ns, i).uid = Uid[n]
    PROVE  Entry(ns, i).name = n /\ ns = NsOf[n]
<1>1. Uid[Entry(ns, i).name] = Uid[n] /\ Entry(ns, i).name \in Names
  BY CellTyped DEF Named, Entry
<1> QED BY <1>1, KeyAssumption DEF Placed

\* Nobody ever changes the name in a reference.
NamesKept == /\ Pointers \subseteq Pointers' /\ \A p \in Pointers : heap'[p].name = heap[p].name
             /\ \A p \in Pointers : heap'[p].uid = heap[p].uid

LEMMA TouchesKept ==
    ASSUME Typed, NamesKept, NEW v \in Threads, job'[v] = job[v]
    PROVE  /\ Adding(v)' <=> Adding(v)
           /\ Removing(v)' <=> Removing(v)
           /\ Adding(v) \/ Removing(v) => Target(v)' = Target(v)
           /\ \A u : Touches(v, u)' <=> Touches(v, u)
<1>1. (Adding(v)' <=> Adding(v)) /\ (Removing(v)' <=> Removing(v))
  BY DEF Adding, Removing
<1>2. ASSUME Adding(v) \/ Removing(v) PROVE Target(v)' = Target(v)
  <2>1. CASE Adding(v)
    BY <1>1, <2>1 DEF Target
  <2>2. CASE Removing(v)
    <3>1. job[v].ref \in Pointers /\ ~Adding(v)
      BY <2>2, TargetTyped
    <3> QED BY <1>1, <3>1 DEF Target, NamesKept
  <2> QED BY <1>2, <2>1, <2>2
<1>3. ASSUME NEW u PROVE Touches(v, u)' <=> Touches(v, u)
  BY <1>1, <1>2 DEF Touches
<1> QED BY <1>1, <1>2, <1>3

LEMMA HasChannelKept ==
    ASSUME Typed, NamesKept, NEW n \in Names, known'[NsOf[n]] = known[NsOf[n]]
    PROVE  HasChannel(n)' = HasChannel(n)
<1> DEFINE s == known[NsOf[n]]
<1>1. \A i \in 1..s.len : s.cells[i] \in Pointers
  BY NamesTyped, CellTyped DEF Typed
<1>2. \A i \in 1..s.len : heap'[s.cells[i]].name = heap[s.cells[i]].name
  BY <1>1 DEF NamesKept
<1>3. Indices(NsOf[n], n)' = Indices(NsOf[n], n)
  BY <1>2 DEF Indices
<1> QED BY <1>3 DEF HasChannel

\* A step that leaves the registry alone, and what is sure of one uid at most;
\* it may be that from now on its goroutine touches this uid.
LEMMA CallKeeps ==
    ASSUME Typed, Consistent, UNCHANGED registry, NEW w \in Threads, NEW u,
           ~Adding(w), ~Removing(w), \A v \in Threads \ {w} : job'[v] = job[v],
           \A x \in UIDs \ {u} : channels'[x] = channels[x] /\ (x \in unsure' <=> x \in unsure),
           ~Locked(w)', Adding(w)' \/ Removing(w)' => Uid[Target(w)'] = u,
           Adding(w)' => Target(w)' = job'[w].cur,
           Removing(w)' => Target(w)' = heap[job'[w].ref].name,
           \/ u \in unsure'
           \/ /\ ~Adding(w)' /\ ~Removing(w)' /\ channels'[u] = channels[u]
              /\ u \in unsure' <=> u \in unsure
           \/ /\ \A v \in Threads \ {w} : ~Touches(v, u)
              /\ Adding(w)' \/ Removing(w)'
              /\ ~Doubled(u)
              /\ Adding(w)' => channels'[u] = job'[w].list[job'[w].cur]
              /\ Removing(w)' => channels'[u] = Absent
    PROVE  Consistent'
<1>1. heap' = heap /\ known' = known /\ NamesKept
  BY DEF registry, NamesKept, Pointers
<1>2. RegistryOK /\ PassesOK /\ SurroundingsOK /\ Named /\ Placed /\ Truth /\ Apart
  BY DEF Typed, Consistent
<1>3. \A ns, i : Entry(ns, i)' = Entry(ns, i)
  BY <1>1 DEF Entry
<1>4. Named' /\ Placed'
  BY <1>1, <1>2, <1>3 DEF Named, Placed, Pointers
<1>5. \A v \in Threads \ {w} : \A x : Touches(v, x)' <=> Touches(v, x)
  BY <1>1, TouchesKept
<1>6. \A x : Touches(w, x)' => x = u
  BY DEF Touches
<1>7. \A x : ~Touches(w, x)
  BY DEF Touches
<1>8. Truth'
  <2> SUFFICES ASSUME NEW ns \in Namespaces, NEW i \in 1..known[ns].len, NEW x \in UIDs,
                      Entry(ns, i).uid = x
               PROVE  \/ x \in unsure' \/ \E v \in Threads : Touches(v, x)'
                      \/ channels'[x] = Entry(ns, i).hash.content
    BY <1>1, <1>3 DEF Truth
  <2>1. x \in unsure \/ (\E v \in Threads : Touches(v, x)) \/ channels[x] = Entry(ns, i).hash.content
    BY <1>2 DEF Truth
  <2>2. CASE x # u
    BY <1>5, <1>7, <2>1, <2>2
  <2>3. CASE x = u /\ u \notin unsure' /\ (Adding(w)' \/ Removing(w)')
    BY <2>3 DEF Touches
  <2>4. CASE x = u /\ u \notin unsure' /\ ~Adding(w)' /\ ~Removing(w)'
    BY <1>5, <1>7, <2>1, <2>4
  <2> QED BY <2>2, <2>3, <2>4
<1>9. Apart'
  <2> SUFFICES ASSUME NEW v \in Threads, NEW z \in Threads, NEW x \in UIDs, v # z,
                      Touches(v, x)', Touches(z, x)'
               PROVE  x \in unsure'
    BY DEF Apart
  <2>1. CASE x # u
    BY <1>2, <1>5, <1>6, <2>1 DEF Apart
  <2>2. CASE x = u /\ (Adding(w)' \/ Removing(w)')
    BY <1>5, <2>2
  <2>3. CASE x = u /\ ~Adding(w)' /\ ~Removing(w)'
    <3>1. v # w /\ z # w
      BY <2>3 DEF Touches
    <3> QED BY <1>2, <1>5, <2>3, <3>1 DEF Apart
  <2> QED BY <2>1, <2>2, <2>3
<1>10. \A x : Doubled(x)' <=> Doubled(x)
  BY <1>1 DEF Doubled
<1>11. ASSUME NEW v \in Threads PROVE Sent(v)' /\ Withdrawn(v)' /\ SlotRight(v)'
  <2>1. CASE v = w
    <3>1. Sent(w)'
      BY <1>10 DEF Sent
    <3>2. Withdrawn(w)'
      BY <1>1, <1>10 DEF Withdrawn
    <3>3. SlotRight(w)'
      BY DEF SlotRight
    <3> QED BY <2>1, <3>1, <3>2, <3>3
  <2>2. CASE v # w /\ (Adding(v) \/ Removing(v))
    <3> DEFINE x == Uid[Target(v)]
    <3>1. /\ x \in UIDs /\ Target(v) \in Names /\ Target(v)' = Target(v)
          /\ (Adding(v)' <=> Adding(v)) /\ (Removing(v)' <=> Removing(v)) /\ job'[v] = job[v]
      BY <1>1, <2>2, TargetTyped, TouchesKept
    <3>2. /\ Adding(v) => Target(v) = job[v].cur
          /\ Removing(v) => Target(v) = heap[job[v].ref].name
      BY <2>2, TargetTyped
    <3>3. Sent(v) /\ Withdrawn(v) /\ SlotRight(v)
      BY DEF Consistent
    <3>4. Touches(v, x)
      BY <2>2 DEF Touches
    <3> HIDE DEF x
    <3>5. x \in unsure' \/ (x \notin unsure /\ channels'[x] = channels[x])
      BY <2>2, <3>1, <3>4
    <3>6. Sent(v)' /\ Withdrawn(v)'
      BY <1>1, <1>10, <3>1, <3>2, <3>3, <3>5 DEF Sent, Withdrawn, x
    <3>7. \A n \in Names : HasChannel(n)' = HasChannel(n)
      BY <1>1, HasChannelKept
    <3>8. SlotRight(v)'
      BY <3>1, <3>3, <3>5, <3>7 DEF SlotRight, Locked, x
    <3> QED BY <3>6, <3>8
  <2>3. CASE v # w /\ ~Adding(v) /\ ~Removing(v)
    <3>1. ~Adding(v)' /\ ~Removing(v)' /\ ~Locked(v)'
      BY <2>3 DEF Adding, Removing, Locked
    <3> QED BY <3>1 DEF Sent, Withdrawn, SlotRight
  <2> QED BY <2>1, <2>2, <2>3
<1> QED BY <1>4, <1>8, <1>9, <1>11 DEF Consistent

\* A step under the lock ends what its goroutine had in hand.  The others can
\* still rely on what they know: those at the same uid know nothing for sure,
\* and there are no others at the same slice.
LEMMA EntryKeeps ==
    ASSUME OneWorker \/ Alone, Typed, Consistent, NamesKept, NEW w \in Threads, NEW n \in Names,
           Adding(w) \/ Removing(w), Target(w) = n, ~Adding(w)', ~Removing(w)',
           UNCHANGED <<channels, unsure>>, \A v \in Threads \ {w} : job'[v] = job[v],
           \A ns \in Namespaces \ {NsOf[n]} : known'[ns] = known[ns],
           \A x \in UIDs \ {Uid[n]} : ~Doubled(x) => ~Doubled(x)'
    PROVE  Apart' /\ \A v \in Threads : Sent(v)' /\ Withdrawn(v)' /\ SlotRight(v)'
<1>1. Apart /\ Touches(w, Uid[n])
  BY DEF Consistent, Touches
<1>2. \A v \in Threads \ {w} : \A x : Touches(v, x)' <=> Touches(v, x)
  BY TouchesKept
<1>3. \A x : ~Touches(w, x)'
  BY DEF Touches
<1>4. Apart'
  <2> SUFFICES ASSUME NEW v \in Threads, NEW z \in Threads, NEW x \in UIDs, v # z,
                      Touches(v, x)', Touches(z, x)'
               PROVE  x \in unsure'
    BY DEF Apart
  <2>1. v # w /\ z # w
    BY <1>3
  <2> QED BY <1>1, <1>2, <2>1 DEF Apart
<1>5. ~Locked(w)'
  BY DEF Locked, Adding, Removing
<1>6. ASSUME NEW v \in Threads PROVE Sent(v)' /\ Withdrawn(v)' /\ SlotRight(v)'
  <2>1. CASE v = w
    <3>1. Sent(w)' /\ Withdrawn(w)' /\ SlotRight(w)'
      BY <1>5 DEF Sent, Withdrawn, SlotRight
    <3> QED BY <2>1, <3>1
  <2>2. CASE v # w /\ (Adding(v) \/ Removing(v))
    <3>1. PICK m \in Names : m = Target(v)
      BY <2>2, TargetTyped
    <3>2. /\ Target(v)' = m /\ Uid[m] \in UIDs
          /\ (Adding(v)' <=> Adding(v)) /\ (Removing(v)' <=> Removing(v)) /\ job'[v] = job[v]
          /\ Adding(v) => m = job[v].cur
          /\ Removing(v) => /\ m = heap[job[v].ref].name /\ heap'[job[v].ref].name = m
      BY <2>2, <3>1, TargetTyped, TouchesKept, NamesTyped DEF NamesKept
    <3>3. Sent(v) /\ Withdrawn(v) /\ SlotRight(v)
      BY DEF Consistent
    <3>4. Touches(v, Uid[m])
      BY <2>2, <3>1 DEF Touches
    <3>5. CASE Uid[m] \in unsure
      <4>1. Sent(v)' /\ Withdrawn(v)'
        BY <3>2, <3>5 DEF Sent, Withdrawn
      <4>2. SlotRight(v)'
        BY <2>2, <3>2, <3>5 DEF SlotRight, OneWorker
      <4> QED BY <4>1, <4>2
    <3>6. CASE Uid[m] \notin unsure
      <4>1. Uid[m] # Uid[n]
        BY <1>1, <2>2, <3>2, <3>4, <3>6 DEF Apart
      <4>2. ~Doubled(Uid[m]) => ~Doubled(Uid[m])'
        BY <3>2, <4>1
      <4>3. Sent(v)' /\ Withdrawn(v)'
        BY <3>2, <3>3, <3>6, <4>2 DEF Sent, Withdrawn
      <4>4. NsOf[m] # NsOf[n]
        BY <2>2, <4>1 DEF OneWorker, Alone
      <4>5. HasChannel(m)' = HasChannel(m)
        BY <4>4, NamesTyped, HasChannelKept
      <4>6. Locked(v)' <=> Locked(v)
        BY <3>2 DEF Locked
      <4>7. SlotRight(v)'
        BY <3>1, <3>2, <3>3, <3>6, <4>5, <4>6 DEF SlotRight
      <4> QED BY <4>3, <4>7
    <3> QED BY <3>5, <3>6
  <2>3. CASE v # w /\ ~Adding(v) /\ ~Removing(v)
    <3>1. ~Adding(v)' /\ ~Removing(v)' /\ ~Locked(v)'
      BY <2>3 DEF Adding, Removing, Locked
    <3> QED BY <3>1 DEF Sent, Withdrawn, SlotRight
  <2> QED BY <2>1, <2>2, <2>3
<1> QED BY <1>4, <1>6

\* What a pass with the lock has in hand.
LEMMA LockedAdd ==
    ASSUME Typed, Consistent, NEW w \in Threads, NEW n \in Names, n = job[w].cur,
           job[w].pc = "addLocked"
    PROVE  /\ Adding(w) /\ Locked(w) /\ Target(w) = n
           /\ Uid[n] \in unsure \/ (channels[Uid[n]] = job[w].list[n] /\ ~Doubled(Uid[n]))
           /\ OneWorker \/ Uid[n] \notin unsure => job[w].slot = HasChannel(n)
<1>1. Adding(w) /\ Locked(w) /\ Target(w) = n
  BY DEF Adding, Locked, Target
<1>2. Sent(w) /\ SlotRight(w)
  BY DEF Consistent
<1> QED BY <1>1, <1>2 DEF Sent, SlotRight

\* A new reference for the name the pass is at joins the registry.
Joins(w, n) ==
    /\ n = job[w].cur /\ job[w].pc = "addLocked" /\ job[w].slot = 0
    /\ heap' = Append(heap, NewRef(w))
    /\ known' = [known EXCEPT ![NsOf[n]] = Appended(known[NsOf[n]], Len(heap) + 1)]
    /\ ~Adding(w)' /\ ~Removing(w)' /\ \A v \in Threads \ {w} : job'[v] = job[v]
    /\ UNCHANGED <<channels, unsure>>

LEMMA AppendKeeps ==
    ASSUME OneWorker \/ Alone, Typed, Consistent, NEW w \in Threads, NEW n \in Names, Joins(w, n)
    PROVE  Consistent'
<1> DEFINE ns == NsOf[n]
           u == Uid[n]
           ref == Len(heap) + 1
<1>0. /\ n = job[w].cur /\ job[w].pc = "addLocked" /\ job[w].slot = 0
      /\ ~Adding(w)' /\ ~Removing(w)' /\ \A v \in Threads \ {w} : job'[v] = job[v]
      /\ UNCHANGED <<channels, unsure>>
  BY DEF Joins
<1>1. RegistryOK /\ PassesOK /\ Named /\ Placed /\ Truth /\ ns \in Namespaces /\ u \in UIDs
  BY NamesTyped DEF Typed, Consistent
<1>2. heap \in Seq(Refs) /\ Len(heap) \in Nat /\ Pointers = 1..Len(heap)
  BY <1>1, LenProperties DEF RegistryOK, Pointers
<1>3. /\ NewRef(w).name = n /\ NewRef(w).uid = u /\ NewRef(w).hash.content = job[w].list[n]
      /\ NewRef(w) \in Refs
  BY <1>0, <1>1, NewRefOK
<1>4. /\ Pointers' = 1..ref /\ heap'[ref] = NewRef(w) /\ \A p \in Pointers : heap'[p] = heap[p]
  <2>1. heap' = Append(heap, NewRef(w))
    BY DEF Joins
  <2> QED BY <1>2, <1>3, <2>1, AppendProperties, LenProperties DEF Pointers
<1>5. NamesKept
  BY <1>2, <1>4 DEF NamesKept
<1>6. IsSlice(known[ns], Pointers) /\ DOMAIN known = Namespaces /\ known[ns].len \in Nat
  BY <1>1 DEF RegistryOK, IsSlice
<1> DEFINE t == Appended(known[ns], ref)
           P == Pointers \cup {ref}
<1>7. /\ t.len = known[ns].len + 1 /\ t.cells[known[ns].len + 1] = ref
      /\ \A i \in 1..known[ns].len : t.cells[i] = known[ns].cells[i]
  <2>1. IsSlice(known[ns], P) /\ ref \in P
    BY <1>6, MorePointers
  <2> HIDE DEF P, ref, ns
  <2> QED BY <2>1, AppendedOK
<1>8. known'[ns] = t /\ \A m \in Namespaces \ {ns} : known'[m] = known[m]
  <2>1. known' = [known EXCEPT ![ns] = t]
    BY DEF Joins
  <2> HIDE DEF ns, t
  <2> QED BY <1>1, <1>6, <2>1
<1> HIDE DEF ns, u, ref, t
<1>9. ASSUME NEW m \in Namespaces, NEW i \in 1..known'[m].len
      PROVE  \/ m = ns /\ i = known[ns].len + 1 /\ Entry(m, i)' = NewRef(w)
             \/ i \in 1..known[m].len /\ Entry(m, i)' = Entry(m, i)
  <2>1. CASE m = ns /\ i = known[ns].len + 1
    BY <1>4, <1>7, <1>8, <2>1 DEF Entry
  <2>2. CASE ~(m = ns /\ i = known[ns].len + 1)
    <3>1. i \in 1..known[m].len /\ known'[m].cells[i] = known[m].cells[i]
      <4>1. CASE m = ns
        BY <1>6, <1>7, <1>8, <2>2, <4>1
      <4>2. CASE m # ns
        BY <1>8, <4>2
      <4> QED BY <4>1, <4>2
    <3>2. known[m].cells[i] \in Pointers
      BY <1>1, <3>1, CellTyped
    <3> QED BY <1>4, <3>1, <3>2 DEF Entry
  <2> QED BY <2>1, <2>2
<1>10. Named'
  <2>1. ASSUME NEW q \in 1..ref PROVE heap'[q].uid = Uid[heap'[q].name]
    <3>1. CASE q = ref
      BY <1>3, <1>4, <3>1 DEF u
    <3>2. CASE q # ref
      <4>1. q \in Pointers
        BY <1>2, <3>2 DEF ref
      <4> QED BY <1>1, <1>4, <4>1 DEF Named
    <3> QED BY <3>1, <3>2
  <2> QED BY <1>4, <2>1 DEF Named
<1>11. Placed'
  BY <1>1, <1>3, <1>9 DEF Placed, ns
<1>12. ASSUME NEW x \in UIDs \ {u}, ~Doubled(x) PROVE ~Doubled(x)'
  <2> SUFFICES ASSUME NEW m \in Namespaces, NEW i \in 1..known'[m].len, NEW k \in 1..known'[m].len,
                      i < k, Entry(m, i)'.uid = x, Entry(m, k)'.uid = x
               PROVE  FALSE
    BY <1>12 DEF Doubled, Entry
  <2>1. /\ i \in 1..known[m].len /\ Entry(m, i).uid = x
        /\ k \in 1..known[m].len /\ Entry(m, k).uid = x
    BY <1>3, <1>9
  <2> QED BY <1>12, <2>1 DEF Doubled, Entry
<1>13. Apart' /\ \A v \in Threads : Sent(v)' /\ Withdrawn(v)' /\ SlotRight(v)'
  <2>1. Target(w) = n /\ Adding(w)
    BY <1>0, LockedAdd
  <2>2. \A m \in Namespaces \ {NsOf[n]} : known'[m] = known[m]
    BY <1>8 DEF ns
  <2>3. \A x \in UIDs \ {Uid[n]} : ~Doubled(x) => ~Doubled(x)'
    BY <1>12 DEF u
  <2> QED BY <1>0, <1>5, <2>1, <2>2, <2>3, EntryKeeps
<1>14. Truth'
  <2> SUFFICES ASSUME NEW m \in Namespaces, NEW i \in 1..known'[m].len, NEW x \in UIDs,
                      Entry(m, i)'.uid = x, x \notin unsure
               PROVE  (\E v \in Threads : Touches(v, x)') \/ channels[x] = Entry(m, i)'.hash.content
    BY <1>0 DEF Truth
  <2>1. \A v \in Threads \ {w} : Touches(v, x)' <=> Touches(v, x)
    BY <1>0, <1>5, TouchesKept
  <2>2. Touches(w, x) => x = u
    BY <1>0, LockedAdd DEF Touches, u
  <2>3. CASE Entry(m, i)' = NewRef(w)
    BY <1>0, <1>3, <2>3, LockedAdd DEF u
  <2>4. CASE i \in 1..known[m].len /\ Entry(m, i)' = Entry(m, i) /\ x # u
    BY <1>1, <2>1, <2>2, <2>4 DEF Truth
  <2>5. CASE i \in 1..known[m].len /\ Entry(m, i)' = Entry(m, i) /\ x = u
    <3>1. Entry(m, i).name = n /\ m = ns
      BY <1>1, <2>5, UidNames DEF ns, u
    <3>2. HasChannel(n) = 0
      BY <1>0, <2>5, LockedAdd DEF u
    <3> QED BY <1>1, <2>5, <3>1, <3>2, HasChannelFinds DEF Entry, ns
  <2> QED BY <1>9, <2>3, <2>4, <2>5
<1> QED BY <1>10, <1>11, <1>13, <1>14 DEF Consistent

\* A reference the registry holds is rewritten where it is, for the name the
\* pass is at.
Rewrites(w, n, p) ==
    /\ n = job[w].cur /\ job[w].pc = "addLocked" /\ job[w].slot \in 1..known[NsOf[n]].len
    /\ p = known[NsOf[n]].cells[job[w].slot]
    /\ heap' = [heap EXCEPT ![p] = [heap[p] EXCEPT !.uid = Uid[n], !.hash = NewRef(w).hash]]
    /\ known' = known
    /\ ~Adding(w)' /\ ~Removing(w)' /\ \A v \in Threads \ {w} : job'[v] = job[v]
    /\ UNCHANGED <<channels, unsure>>

LEMMA ReplaceKeeps ==
    ASSUME OneWorker \/ Alone, Typed, Consistent, NEW w \in Threads, NEW n \in Names,
           NEW p, Rewrites(w, n, p)
    PROVE  Consistent'
<1> DEFINE ns == NsOf[n]
           u == Uid[n]
           slot == job[w].slot
<1>0. /\ n = job[w].cur /\ job[w].pc = "addLocked" /\ slot \in 1..known[ns].len
      /\ p = known[ns].cells[slot] /\ known' = known
      /\ ~Adding(w)' /\ ~Removing(w)' /\ \A v \in Threads \ {w} : job'[v] = job[v]
      /\ UNCHANGED <<channels, unsure>>
  BY DEF Rewrites
<1>1. RegistryOK /\ PassesOK /\ Named /\ Placed /\ Truth /\ ns \in Namespaces /\ u \in UIDs
  BY NamesTyped DEF Typed, Consistent
<1>2. p \in Pointers /\ heap[p] \in Refs /\ heap[p] = Entry(ns, slot)
  BY <1>0, <1>1, CellTyped DEF Entry
\* With one goroutine the index is right; alone in its namespace, any is.
<1>3. heap[p].name = n
  <2>1. CASE OneWorker
    <3>1. slot = HasChannel(n)
      BY <1>0, <2>1, LockedAdd
    <3>2. slot # 0
      <4> HIDE DEF slot, ns
      <4>1. known[ns].len \in Nat
        BY <1>1 DEF RegistryOK, IsSlice
      <4>2. slot \in 1..known[ns].len
        BY <1>0
      <4> QED BY <4>1, <4>2
    <3> QED BY <1>0, <1>1, <3>1, <3>2, HasChannelFinds
  <2>2. CASE Alone
    <3>1. NsOf[Entry(ns, slot).name] = ns /\ Entry(ns, slot).name \in Names
      BY <1>0, <1>1, CellTyped DEF Placed
    <3> QED BY <1>2, <2>2, <3>1 DEF Alone
  <2> QED BY <2>1, <2>2
<1>4. heap[p].uid = u
  BY <1>1, <1>2, <1>3 DEF Named
<1>5. /\ Pointers' = Pointers /\ heap'[p].name = n /\ heap'[p].uid = u
      /\ heap'[p].hash.content = job[w].list[n]
      /\ \A q \in Pointers \ {p} : heap'[q] = heap[q]
  <2>1. heap' = [heap EXCEPT ![p] = [heap[p] EXCEPT !.uid = u, !.hash = NewRef(w).hash]]
    BY DEF Rewrites
  <2>2. heap \in Seq(Refs) /\ NewRef(w).hash.content = job[w].list[n]
    BY <1>0, <1>1, NewRefOK DEF RegistryOK
  <2> HIDE DEF u
  <2>3. Pointers' = Pointers /\ DOMAIN heap = Pointers
    BY <2>1, <2>2 DEF Pointers
  <2>4. heap'[p] = [heap[p] EXCEPT !.uid = u, !.hash = NewRef(w).hash]
    BY <1>2, <2>1, <2>3
  <2>5. heap'[p].name = n /\ heap'[p].uid = u /\ heap'[p].hash = NewRef(w).hash
    BY <1>2, <1>3, <2>4 DEF Refs
  <2>6. \A q \in Pointers \ {p} : heap'[q] = heap[q]
    BY <2>1, <2>3
  <2> QED BY <2>2, <2>3, <2>5, <2>6
<1> HIDE DEF ns, u, slot
<1>6. NamesKept
  BY <1>3, <1>4, <1>5 DEF NamesKept
<1>7. ASSUME NEW m \in Namespaces, NEW i \in 1..known[m].len
      PROVE  /\ Entry(m, i)'.name = Entry(m, i).name /\ Entry(m, i)'.uid = Entry(m, i).uid
             /\ known[m].cells[i] # p => Entry(m, i)' = Entry(m, i)
  <2>1. known[m].cells[i] \in Pointers
    BY <1>1, CellTyped
  <2>2. Entry(m, i)' = heap'[known[m].cells[i]]
    BY <1>0 DEF Entry
  <2> QED BY <1>5, <1>6, <2>1, <2>2 DEF Entry, NamesKept
<1>8. Named' /\ Placed'
  <2>1. \A q \in Pointers : heap'[q].name = heap[q].name /\ heap'[q].uid = heap[q].uid
    BY <1>6 DEF NamesKept
  <2>2. Named'
    BY <1>1, <1>5, <2>1 DEF Named
  <2>3. Placed'
    BY <1>0, <1>1, <1>7 DEF Placed
  <2> QED BY <2>2, <2>3
<1>9. ASSUME NEW x, ~Doubled(x) PROVE ~Doubled(x)'
  <2> SUFFICES ASSUME NEW m \in Namespaces, NEW i \in 1..known[m].len, NEW k \in 1..known[m].len,
                      i < k, Entry(m, i)'.uid = x, Entry(m, k)'.uid = x
               PROVE  FALSE
    BY <1>0 DEF Doubled, Entry
  <2>1. Entry(m, i).uid = x /\ Entry(m, k).uid = x
    BY <1>7
  <2> QED BY <1>9, <2>1 DEF Doubled, Entry
<1>10. Apart' /\ \A v \in Threads : Sent(v)' /\ Withdrawn(v)' /\ SlotRight(v)'
  <2>1. Target(w) = n /\ Adding(w)
    BY <1>0, LockedAdd
  <2> QED BY <1>0, <1>6, <1>9, <2>1, EntryKeeps
<1>11. Truth'
  <2> SUFFICES ASSUME NEW m \in Namespaces, NEW i \in 1..known[m].len, NEW x \in UIDs,
                      Entry(m, i)'.uid = x, x \notin unsure
               PROVE  (\E v \in Threads : Touches(v, x)') \/ channels[x] = Entry(m, i)'.hash.content
    BY <1>0 DEF Truth
  <2>1. \A v \in Threads \ {w} : Touches(v, x)' <=> Touches(v, x)
    BY <1>0, <1>6, TouchesKept
  <2>2. Touches(w, x) => x = u
    BY <1>0, LockedAdd DEF Touches, u
  <2>3. CASE x # u
    <3>1. Entry(m, i)' = Entry(m, i)
      BY <1>2, <1>4, <1>7, <2>3 DEF Entry
    <3> QED BY <1>1, <2>1, <2>2, <2>3, <3>1 DEF Truth
  <2>4. CASE x = u
    <3>1. channels[u] = job[w].list[n] /\ ~Doubled(u)
      BY <1>0, <2>4, LockedAdd DEF u
    <3>2. Entry(m, i).uid = u /\ Entry(ns, slot).uid = u
      BY <1>2, <1>4, <1>7, <2>4
    <3>3. m = ns
      BY <1>1, <3>2, UidNames DEF ns, u
    <3>4. i = slot
      BY <1>0, <1>1, <3>1, <3>2, <3>3, SingleCell
    <3> QED BY <1>0, <1>5, <2>4, <3>1, <3>3, <3>4 DEF Entry
  <2> QED BY <2>3, <2>4
<1> QED BY <1>8, <1>10, <1>11 DEF Consistent

LEMMA AddChannelKeeps ==
    ASSUME OneWorker \/ Alone, Typed, Consistent, NEW w \in Threads, AddChannel(w)
    PROVE  Consistent'
<1>1. RegistryOK /\ PassesOK /\ job[w].pc = "addLocked"
  BY DEF Typed, AddChannel, At
<1>2. PICK n \in Names : n = job[w].cur
  BY <1>1, NewRefOK
<1>3. JobOK(job[w], Pointers) /\ IsSlice(known[NsOf[n]], Pointers) /\ NsOf[n] \in Namespaces
  BY <1>1, TodoNamed, NamesTyped DEF RegistryOK
<1>4. ~Adding(w)' /\ ~Removing(w)' /\ \A v \in Threads \ {w} : job'[v] = job[v]
  <2>1. job' = [job EXCEPT ![w] = Beyond(job[w], n)]
    BY <1>2 DEF AddChannel
  <2>2. Beyond(job[w], n).pc = "next"
    BY <1>3, BeyondOK
  <2>3. job'[w].pc = "next" /\ \A v \in Threads \ {w} : job'[v] = job[v]
    BY <1>1, <2>1, <2>2 DEF PassesOK
  <2> QED BY <2>3 DEF Adding, Removing
<1>5. UNCHANGED <<channels, unsure>>
  BY DEF AddChannel
<1>6. CASE /\ job[w].slot = 0
           /\ heap' = Append(heap, NewRef(w))
           /\ known' = [known EXCEPT ![NsOf[n]] = Appended(known[NsOf[n]], Len(heap) + 1)]
  <2>1. Joins(w, n)
    BY <1>1, <1>2, <1>4, <1>5, <1>6 DEF Joins
  <2> QED BY <2>1, AppendKeeps
<1>7. CASE /\ job[w].slot \in 1..known[NsOf[n]].len
           /\ heap' = [heap EXCEPT ![known[NsOf[n]].cells[job[w].slot]].uid = Uid[n],
                                   ![known[NsOf[n]].cells[job[w].slot]].hash = NewRef(w).hash]
           /\ UNCHANGED known
  <2> DEFINE p == known[NsOf[n]].cells[job[w].slot]
  <2>1. p \in Pointers
    BY <1>3, <1>7 DEF IsSlice
  <2>2. heap \in Seq(Refs) /\ heap[p] \in Refs
    BY <1>1, <2>1, HeapTyped DEF RegistryOK
  <2>3. PICK q : q = p
    OBVIOUS
  <2>4. heap' = [heap EXCEPT ![q].uid = Uid[n], ![q].hash = NewRef(w).hash]
    BY <1>7, <2>3
  <2> HIDE DEF p
  <2>5. heap' = [heap EXCEPT ![q] = [heap[q] EXCEPT !.uid = Uid[n], !.hash = NewRef(w).hash]]
    BY <2>1, <2>2, <2>3, <2>4 DEF Pointers
  <2>6. Rewrites(w, n, q)
    BY <1>1, <1>2, <1>4, <1>5, <1>7, <2>3, <2>5 DEF Rewrites, p
  <2> QED BY <2>6, ReplaceKeeps
<1> QED BY <1>2, <1>6, <1>7 DEF AddChannel

\* The cells after a reference is dropped are others of before.
LEMMA DropChannelKeeps ==
    ASSUME OneWorker \/ Alone, Typed, Consistent, NEW w \in Threads, DropChannel(w)
    PROVE  Consistent'
<1>1. RegistryOK /\ PassesOK /\ Named /\ Placed /\ Truth /\ job[w].pc = "dropLocked"
  BY DEF Typed, Consistent, DropChannel, At
<1>2. Removing(w) /\ Locked(w) /\ ~Adding(w)
  BY <1>1 DEF Removing, Locked, Adding
<1>3. PICK n \in Names : n = Target(w) /\ n = heap[job[w].ref].name
  BY <1>2, TargetTyped
<1> DEFINE ns == NsOf[n]
           u == Uid[n]
           slot == job[w].slot
<1>4. ns \in Namespaces /\ u \in UIDs /\ IsSlice(known[ns], Pointers) /\ DOMAIN known = Namespaces
  BY <1>1, NamesTyped DEF RegistryOK
<1>5. slot \in Nat /\ known[ns].len \in Nat /\ slot <= known[ns].len
  <2>1. slot \in Nat
    BY <1>1, TodoNamed DEF JobOK, Jobs
  <2>2. slot <= known[ns].len
    BY <1>3 DEF DropChannel
  <2> QED BY <1>4, <2>1, <2>2 DEF IsSlice
<1>6. /\ known' = IF slot = 0 THEN known ELSE [known EXCEPT ![ns] = Dropped(@, slot)]
      /\ UNCHANGED <<channels, heap, unsure>>
      /\ job' = [job EXCEPT ![w] = [job[w] EXCEPT !.pc = "next", !.ref = 0, !.slot = 0]]
  BY <1>3 DEF DropChannel, Become
<1>7. ~Adding(w)' /\ ~Removing(w)' /\ \A v \in Threads \ {w} : job'[v] = job[v]
  <2>1. job[w] \in Jobs(Pointers)
    BY <1>1 DEF PassesOK
  <2>2. job'[w].pc = "next" /\ \A v \in Threads \ {w} : job'[v] = job[v]
    BY <1>1, <1>6, <2>1 DEF PassesOK, Jobs
  <2> QED BY <2>2 DEF Adding, Removing
<1>8. NamesKept
  BY <1>6 DEF NamesKept, Pointers
<1>9. \A m \in Namespaces \ {ns} : known'[m] = known[m]
  BY <1>4, <1>6
\* Where a cell was before.
<1> DEFINE Before(m, i) == IF m = ns /\ slot # 0 /\ i = slot THEN known[ns].len ELSE i
<1>10. ASSUME NEW m \in Namespaces, NEW i \in 1..known'[m].len
       PROVE  /\ Before(m, i) \in 1..known[m].len /\ Entry(m, i)' = Entry(m, Before(m, i))
              /\ m = ns /\ slot # 0 => Before(m, i) # slot
  <2>1. CASE m # ns \/ slot = 0
    <3>1. known'[m] = known[m]
      BY <1>6, <1>9, <2>1
    <3> QED BY <1>6, <2>1, <3>1 DEF Entry
  <2>2. CASE m = ns /\ slot # 0
    <3>1. slot \in 1..known[ns].len
      BY <1>5, <2>2
    <3>2. known'[ns] = Dropped(known[ns], slot)
      BY <1>4, <1>6, <2>2
    <3> DEFINE t == Dropped(known[ns], slot)
    <3>3. /\ t.len = known[ns].len - 1
          /\ \A k \in 1..(known[ns].len - 1) :
                t.cells[k] = IF k = slot THEN known[ns].cells[known[ns].len] ELSE known[ns].cells[k]
      BY <1>4, <3>1, DroppedOK
    <3> HIDE DEF t
    <3>4. i \in 1..(known[ns].len - 1) /\ known'[m].cells[i] = t.cells[i]
      BY <2>2, <3>2, <3>3 DEF t
    <3>5. known'[m].cells[i] = known[m].cells[Before(m, i)]
      BY <2>2, <3>3, <3>4
    <3>6. Before(m, i) \in 1..known[m].len /\ Before(m, i) # slot
      BY <1>5, <2>2, <3>4
    <3> HIDE DEF Before
    <3> QED BY <1>6, <2>2, <3>5, <3>6 DEF Entry
  <2> QED BY <2>1, <2>2
<1>11. ASSUME NEW m \in Namespaces, NEW i \in 1..known'[m].len, NEW k \in 1..known'[m].len, i # k
       PROVE  Before(m, i) # Before(m, k)
  <2>1. CASE m # ns \/ slot = 0
    BY <1>11, <2>1
  <2>2. CASE m = ns /\ slot # 0
    <3>1. known'[ns].len = known[ns].len - 1
      BY <1>4, <1>5, <1>6, <2>2 DEF Dropped
    <3> QED BY <1>5, <1>11, <2>2, <3>1
  <2> QED BY <2>1, <2>2
<1>12. Named' /\ Placed'
  <2>1. Named'
    BY <1>1, <1>6 DEF Named, Pointers
  <2>2. Placed'
    <3> HIDE DEF Before
    <3> QED BY <1>1, <1>10 DEF Placed
  <2> QED BY <2>1, <2>2
<1>13. ASSUME NEW x, ~Doubled(x) PROVE ~Doubled(x)'
  <2> SUFFICES ASSUME NEW m \in Namespaces, NEW i \in 1..known'[m].len, NEW k \in 1..known'[m].len,
                      i < k, Entry(m, i)'.uid = x, Entry(m, k)'.uid = x
               PROVE  FALSE
    BY DEF Doubled, Entry
  <2>1. /\ Before(m, i) \in 1..known[m].len /\ Entry(m, Before(m, i)).uid = x
        /\ Before(m, k) \in 1..known[m].len /\ Entry(m, Before(m, k)).uid = x
    <3> HIDE DEF Before
    <3> QED BY <1>10
  <2>2. Before(m, i) # Before(m, k)
    BY <1>11
  <2> HIDE DEF Before
  <2> QED BY <1>1, <1>13, <2>1, <2>2, SingleCell
<1>14. Apart' /\ \A v \in Threads : Sent(v)' /\ Withdrawn(v)' /\ SlotRight(v)'
  <2> HIDE DEF u, ns, slot, Before
  <2>1. \A x \in UIDs \ {Uid[n]} : ~Doubled(x) => ~Doubled(x)'
    BY <1>13
  <2>2. \A m \in Namespaces \ {NsOf[n]} : known'[m] = known[m]
    BY <1>9 DEF ns
  <2>3. Target(w) = n /\ UNCHANGED <<channels, unsure>>
    BY <1>3, <1>6
  <2> QED BY <1>2, <1>7, <1>8, <2>1, <2>2, <2>3, EntryKeeps
<1>15. u \in unsure \/ (channels[u] = Absent /\ ~Doubled(u) /\ slot = HasChannel(n))
  <2>1. Withdrawn(w) /\ SlotRight(w)
    BY DEF Consistent
  <2> QED BY <1>2, <1>3, <2>1 DEF Withdrawn, SlotRight
<1>16. Truth'
  <2> SUFFICES ASSUME NEW m \in Namespaces, NEW i \in 1..known'[m].len, NEW x \in UIDs,
                      Entry(m, i)'.uid = x, x \notin unsure
               PROVE  (\E v \in Threads : Touches(v, x)') \/ channels[x] = Entry(m, i)'.hash.content
    BY <1>6 DEF Truth
  <2> DEFINE b == Before(m, i)
  <2>1. b \in 1..known[m].len /\ Entry(m, i)' = Entry(m, b) /\ (m = ns /\ slot # 0 => b # slot)
    BY <1>10
  <2> HIDE DEF b
  <2>2. \A v \in Threads \ {w} : Touches(v, x)' <=> Touches(v, x)
    BY <1>7, <1>8, TouchesKept
  <2>3. Touches(w, x) => x = u
    BY <1>3 DEF Touches
  <2>4. CASE x # u
    BY <1>1, <2>1, <2>2, <2>3, <2>4 DEF Truth
  <2>5. CASE x = u
    <3>1. ~Doubled(u) /\ slot = HasChannel(n)
      BY <1>15, <2>5
    <3>2. Entry(m, b).name = n /\ m = ns
      BY <1>1, <2>1, <2>5, UidNames
    <3>3. slot # 0 /\ Entry(ns, slot).name = n
      BY <1>1, <2>1, <3>1, <3>2, HasChannelFinds DEF Entry
    <3>4. slot \in 1..known[ns].len /\ Entry(ns, slot).uid = u
      <4>1. slot \in 1..known[ns].len
        BY <1>5, <3>3
      <4>2. known[ns].cells[slot] \in Pointers
        BY <1>1, <1>4, <4>1, CellTyped
      <4> QED BY <1>1, <3>3, <4>1, <4>2 DEF Named, Entry
    <3>5. b = slot
      BY <1>1, <1>4, <2>1, <2>5, <3>1, <3>2, <3>4, SingleCell
    <3> QED BY <2>1, <3>2, <3>3, <3>5
  <2> QED BY <2>4, <2>5
<1> QED BY <1>12, <1>14, <1>16 DEF Consistent

\* A step around the passes, or one that ends in a panic.
LEMMA AsideKeeps ==
    ASSUME Typed, Consistent, UNCHANGED <<registry, job>>,
           \A x \in UIDs : \/ x \in unsure'
                           \/ channels'[x] = channels[x] /\ x \notin unsure
    PROVE  Consistent'
<1>1. heap' = heap /\ known' = known /\ job' = job
  BY DEF registry
<1>2. RegistryOK /\ Named /\ Placed /\ Truth /\ Apart
  BY DEF Typed, Consistent
<1>3. \A v \in Threads : \A x : Touches(v, x)' <=> Touches(v, x)
  BY <1>1 DEF Touches, Adding, Removing, Target
<1>4. \A ns, i : Entry(ns, i)' = Entry(ns, i)
  BY <1>1 DEF Entry
<1>5. Named' /\ Placed'
  BY <1>1, <1>2 DEF Named, Placed, Pointers, Entry
<1>6. Truth'
  BY <1>1, <1>2, <1>3, <1>4 DEF Truth
<1>7. Apart'
  BY <1>2, <1>3 DEF Apart
<1>8. \A x : Doubled(x)' <=> Doubled(x)
  BY <1>1 DEF Doubled
<1>9. ASSUME NEW v \in Threads PROVE Sent(v)' /\ Withdrawn(v)' /\ SlotRight(v)'
  <2>1. CASE Adding(v) \/ Removing(v)
    <3>1. PICK m \in Names : m = Target(v)
      BY <2>1, TargetTyped
    <3>2. /\ Adding(v) => m = job[v].cur
          /\ Removing(v) => m = heap[job[v].ref].name
          /\ Uid[m] \in UIDs /\ Target(v)' = m
          /\ (Adding(v)' <=> Adding(v)) /\ (Removing(v)' <=> Removing(v)) /\ (Locked(v)' <=> Locked(v))
      BY <1>1, <2>1, <3>1, TargetTyped, NamesTyped DEF Adding, Removing, Locked, Target
    <3>3. Sent(v) /\ Withdrawn(v) /\ SlotRight(v)
      BY DEF Consistent
    <3>4. HasChannel(m)' = HasChannel(m)
      BY <1>1, HasChannelKept DEF NamesKept, Pointers
    <3>5. Sent(v)' /\ Withdrawn(v)'
      BY <1>1, <1>8, <3>2, <3>3 DEF Sent, Withdrawn
    <3>6. SlotRight(v)'
      BY <1>1, <3>1, <3>2, <3>3, <3>4 DEF SlotRight
    <3> QED BY <3>5, <3>6
  <2>2. CASE ~Adding(v) /\ ~Removing(v)
    <3>1. ~Adding(v)' /\ ~Removing(v)' /\ ~Locked(v)'
      BY <1>1, <2>2 DEF Adding, Removing, Locked
    <3> QED BY <3>1 DEF Sent, Withdrawn, SlotRight
  <2> QED BY <2>1, <2>2
<1> QED BY <1>5, <1>6, <1>7, <1>9 DEF Consistent

\* A step of a goroutine that has nothing in hand, before or after.
LEMMA QuietKeeps ==
    ASSUME Typed, Consistent, NEW w \in Threads, ~Adding(w), ~Removing(w), ~Adding(w)', ~Removing(w)',
           UNCHANGED <<registry, channels, unsure>>, \A v \in Threads \ {w} : job'[v] = job[v]
    PROVE  Consistent'
<1>1. ~Locked(w)'
  BY DEF Locked, Adding, Removing
<1>2. UNCHANGED registry
  OBVIOUS
<1> QED BY <1>1, <1>2, CallKeeps

LEMMA SubmitKeeps ==
    ASSUME Typed, Consistent, NEW w \in Threads, Submit(w) PROVE Consistent'
<1>1. RegistryOK /\ PassesOK /\ SurroundingsOK /\ Named /\ job[w].pc \in {"create", "update"}
  BY DEF Typed, Consistent, Submit, At
<1>2. PICK n \in Names : n = job[w].cur
  BY <1>1, TodoNamed DEF Submitting
<1> DEFINE u == Uid[n]
<1>3. PICK outcome \in Outcomes, stored \in BOOLEAN :
        /\ stored => outcome # "err"
        /\ channels' = IF stored THEN [channels EXCEPT ![u] = job[w].list[n]] ELSE channels
        /\ unsure' = IF ~stored THEN unsure
                     ELSE IF outcome = "lost" \/ Crossed(w, u) \/ Doubled(u) THEN unsure \cup {u}
                     ELSE unsure \ {u}
        /\ IF Accepted(outcome, stored) THEN Become(w, [job[w] EXCEPT !.pc = "add"]) /\ UNCHANGED queue
           ELSE GoOn(w, n) /\ UpdateStatus(n)
  BY <1>2 DEF Submit
<1>4. UNCHANGED registry /\ ~Adding(w) /\ ~Removing(w)
  BY <1>1 DEF Submit, Adding, Removing
<1>5. JobOK(job[w], Pointers) /\ u \in UIDs /\ job[w] \in Jobs(Pointers)
      /\ job \in [Threads -> Jobs(Pointers)] /\ channels \in [UIDs -> Contents \cup {Absent}]
  BY <1>1, NamesTyped DEF PassesOK, JobOK, SurroundingsOK
<1> HIDE DEF u
<1>6. CASE Accepted(outcome, stored)
  <2>1. outcome = "ok" /\ stored /\ Become(w, [job[w] EXCEPT !.pc = "add"])
    BY <1>3, <1>6 DEF Accepted
  <2>2. /\ job'[w].pc = "add" /\ job'[w].cur = n /\ job'[w].list = job[w].list
        /\ \A v \in Threads \ {w} : job'[v] = job[v]
    BY <1>2, <1>5, <2>1 DEF Become, Jobs
  <2>3. Adding(w)' /\ ~Removing(w)' /\ ~Locked(w)' /\ Target(w)' = job'[w].cur
        /\ Uid[Target(w)'] = u
    BY <2>2 DEF Adding, Removing, Locked, Target, u
  <2>4. /\ channels'[u] = job[w].list[n]
        /\ \A x \in UIDs \ {u} : channels'[x] = channels[x] /\ (x \in unsure' <=> x \in unsure)
    BY <1>3, <1>5, <2>1
  <2>5. u \in unsure' \/ (~Doubled(u) /\ \A v \in Threads \ {w} : ~Touches(v, u))
    BY <1>1, <1>3, <2>1, CrossedTouches
  <2> QED BY <1>4, <2>2, <2>3, <2>4, <2>5, CallKeeps
<1>7. CASE ~Accepted(outcome, stored)
  <2>1. outcome # "ok" \/ ~stored
    BY <1>7 DEF Accepted
  <2>2. /\ job'[w].pc = "next" /\ \A v \in Threads \ {w} : job'[v] = job[v]
    <3>1. job' = [job EXCEPT ![w] = Beyond(job[w], n)]
      BY <1>3, <1>7 DEF GoOn
    <3>2. Beyond(job[w], n).pc = "next"
      BY <1>5, BeyondOK
    <3> QED BY <1>5, <3>1, <3>2
  <2>3. ~Adding(w)' /\ ~Removing(w)' /\ ~Locked(w)'
    BY <2>2 DEF Adding, Removing, Locked
  <2>4. CASE stored
    <3>1. outcome = "lost"
      BY <1>3, <2>1, <2>4 DEF Outcomes
    <3>2. /\ u \in unsure'
          /\ \A x \in UIDs \ {u} : channels'[x] = channels[x] /\ (x \in unsure' <=> x \in unsure)
      BY <1>3, <1>5, <2>4, <3>1
    <3> QED BY <1>4, <2>2, <2>3, <3>2, CallKeeps
  <2>5. CASE ~stored
    <3>1. UNCHANGED <<registry, channels, unsure>>
      BY <1>3, <1>4, <2>5
    <3> QED BY <1>4, <2>2, <2>3, <3>1, QuietKeeps
  <2> QED BY <2>4, <2>5
<1> QED BY <1>6, <1>7

LEMMA DeleteChannelKeeps ==
    ASSUME Typed, Consistent, NEW w \in Threads, DeleteChannel(w) PROVE Consistent'
<1>1. RegistryOK /\ PassesOK /\ SurroundingsOK /\ Named /\ job[w].pc = "next"
  BY DEF Typed, Consistent, DeleteChannel, At
<1>2. PICK ref \in Pointers : ref = Head(toDelete[w])
  <2>1. toDelete[w] \in Seq(Pointers) /\ toDelete[w] # <<>>
    BY <1>1 DEF PassesOK, DeleteChannel
  <2> QED BY <2>1, HeadTailProperties
<1>3. PICK u \in UIDs : u = heap[ref].uid
  BY <1>1, HeapTyped
<1>4. PICK outcome \in Outcomes :
        /\ channels' = IF outcome = "err" THEN channels ELSE [channels EXCEPT ![u] = Absent]
        /\ unsure' = IF (outcome = "err" /\ channels[u] # Absent) \/ Crossed(w, u) \/ Doubled(u)
                     THEN unsure \cup {u} ELSE unsure \ {u}
  BY <1>2, <1>3 DEF DeleteChannel
<1>5. job' = [job EXCEPT ![w] = [job[w] EXCEPT !.pc = "drop", !.ref = ref]] /\ UNCHANGED registry
  BY <1>1, <1>2 DEF DeleteChannel, PassesOK
<1>6. job[w] \in Jobs(Pointers) /\ job \in [Threads -> Jobs(Pointers)]
      /\ channels \in [UIDs -> Contents \cup {Absent}]
  BY <1>1 DEF PassesOK, SurroundingsOK
<1>7. /\ job'[w].pc = "drop" /\ job'[w].ref = ref
      /\ \A v \in Threads \ {w} : job'[v] = job[v]
  BY <1>5, <1>6 DEF Jobs
<1>8. ~Adding(w) /\ ~Removing(w) /\ ~Adding(w)' /\ Removing(w)' /\ ~Locked(w)'
  BY <1>1, <1>7 DEF Adding, Removing, Locked
<1>9. Target(w)' = heap[ref].name /\ Uid[Target(w)'] = u
  <2>1. heap' = heap
    BY <1>5 DEF registry
  <2>2. Target(w)' = heap[ref].name
    BY <1>7, <1>8, <2>1 DEF Target
  <2> QED BY <1>1, <1>2, <1>3, <2>2 DEF Named
<1>10. \A x \in UIDs \ {u} : channels'[x] = channels[x] /\ (x \in unsure' <=> x \in unsure)
  BY <1>4, <1>6
<1>11. u \in unsure' \/ (channels'[u] = Absent /\ ~Doubled(u) /\ \A v \in Threads \ {w} : ~Touches(v, u))
  BY <1>1, <1>4, <1>6, CrossedTouches
<1> QED BY <1>5, <1>7, <1>8, <1>9, <1>10, <1>11, CallKeeps

LEMMA LookKeeps ==
    ASSUME Typed, Consistent, NEW w \in Threads, Look(w) PROVE Consistent'
<1>1. CASE Panic("race")
  <2>1. UNCHANGED <<registry, job, channels, unsure>>
    BY <1>1 DEF Panic, pass
  <2> QED BY <2>1, AsideKeeps
<1>2. CASE ~Panic("race")
  <2>1. RegistryOK /\ PassesOK /\ SurroundingsOK /\ job[w].pc \in {"add", "drop"}
    BY DEF Typed, Look, At
  <2>2. Adding(w) \/ Removing(w)
    BY <2>1 DEF Adding, Removing
  <2>3. PICK n \in Names : n = Target(w)
    BY <2>2, TargetTyped
  <2>4. n = IF job[w].pc = "add" THEN job[w].cur ELSE heap[job[w].ref].name
    BY <2>1, <2>3 DEF Target, Adding
  <2>5. /\ job' = [job EXCEPT ![w] = [job[w] EXCEPT
                      !.pc = IF job[w].pc = "add" THEN "addLocked" ELSE "dropLocked",
                      !.slot = HasChannel(n)]]
        /\ UNCHANGED <<channels, registry, unsure>>
    BY <1>2, <2>4 DEF Look, Become
  <2>6. heap' = heap /\ known' = known
    BY <2>5 DEF registry
  <2>7. job[w] \in Jobs(Pointers) /\ job \in [Threads -> Jobs(Pointers)]
    BY <2>1 DEF PassesOK
  <2>8. /\ job'[w].pc = IF job[w].pc = "add" THEN "addLocked" ELSE "dropLocked"
        /\ job'[w].slot = HasChannel(n) /\ job'[w].cur = job[w].cur
        /\ job'[w].ref = job[w].ref /\ job'[w].list = job[w].list
        /\ \A v \in Threads \ {w} : job'[v] = job[v]
    <3> DEFINE slot == HasChannel(n)
    <3> HIDE DEF slot
    <3>1. job' = [job EXCEPT ![w] = [job[w] EXCEPT
                      !.pc = IF job[w].pc = "add" THEN "addLocked" ELSE "dropLocked",
                      !.slot = slot]]
      BY <2>5 DEF slot
    <3>2. /\ job'[w].pc = IF job[w].pc = "add" THEN "addLocked" ELSE "dropLocked"
          /\ job'[w].slot = slot /\ job'[w].cur = job[w].cur
          /\ job'[w].ref = job[w].ref /\ job'[w].list = job[w].list
          /\ \A v \in Threads \ {w} : job'[v] = job[v]
      BY <2>7, <3>1 DEF Jobs
    <3> QED BY <3>2 DEF slot
  <2>9. \A v \in Threads : /\ Adding(v)' <=> Adding(v)
                           /\ Removing(v)' <=> Removing(v)
    <3>1. (Adding(w)' <=> Adding(w)) /\ (Removing(w)' <=> Removing(w))
      BY <2>1, <2>8 DEF Adding, Removing
    <3> QED BY <2>8, <3>1 DEF Adding, Removing
  <2>10. \A v \in Threads : Target(v)' = Target(v) /\ job'[v].cur = job[v].cur
                            /\ job'[v].ref = job[v].ref /\ job'[v].list = job[v].list
    <3>1. \A v \in Threads : job'[v].cur = job[v].cur /\ job'[v].ref = job[v].ref
                             /\ job'[v].list = job[v].list
      BY <2>8
    <3> QED BY <2>6, <2>9, <3>1 DEF Target
  <2>11. \A v \in Threads : \A x : Touches(v, x)' <=> Touches(v, x)
    BY <2>9, <2>10 DEF Touches
  <2>12. \A ns, i : Entry(ns, i)' = Entry(ns, i)
    BY <2>6 DEF Entry
  <2>13. Named /\ Placed /\ Truth /\ Apart
    BY DEF Consistent
  <2>14. Named' /\ Placed' /\ Apart'
    BY <2>6, <2>11, <2>12, <2>13, <2>5 DEF Named, Placed, Apart, Pointers
  <2>15. Truth'
    BY <2>5, <2>6, <2>11, <2>12, <2>13 DEF Truth
  <2>16. \A x : Doubled(x)' <=> Doubled(x)
    BY <2>6 DEF Doubled
  <2>17. ASSUME NEW v \in Threads PROVE Sent(v)' /\ Withdrawn(v)' /\ SlotRight(v)'
    <3>1. Sent(v) /\ Withdrawn(v) /\ SlotRight(v)
      BY DEF Consistent
    <3>2. Sent(v)'
      BY <2>5, <2>9, <2>10, <2>16, <3>1 DEF Sent
    <3>3. Withdrawn(v)'
      <4>1. Removing(v)' <=> Removing(v)
        BY <2>9
      <4>2. heap'[job'[v].ref].name = heap[job[v].ref].name
        BY <2>6, <2>10
      <4>3. \A u : Withdrawn(v) /\ Removing(v) /\ Uid[heap[job[v].ref].name] = u
                  => u \in unsure \/ (channels[u] = Absent /\ ~Doubled(u))
        BY DEF Withdrawn
      <4> QED BY <2>5, <2>16, <3>1, <4>1, <4>2, <4>3 DEF Withdrawn
    <3>4. \A m \in Names : HasChannel(m)' = HasChannel(m)
      BY <2>6, HasChannelKept DEF NamesKept, Pointers
    <3>5. SlotRight(v)'
      <4>1. CASE v = w
        <5>1. Target(w)' = n /\ job'[w].slot = HasChannel(n)'
          BY <2>3, <2>8, <2>10, <3>4
        <5> QED BY <4>1, <5>1 DEF SlotRight
      <4>2. CASE v # w
        <5>1. job'[v] = job[v] /\ (Locked(v)' <=> Locked(v)) /\ Target(v)' = Target(v) /\ unsure' = unsure
          BY <2>5, <2>8, <2>10, <4>2 DEF Locked
        <5> QED BY <3>1, <3>4, <5>1 DEF SlotRight
      <4> QED BY <4>1, <4>2
    <3> QED BY <3>2, <3>3, <3>5
  <2> QED BY <2>14, <2>15, <2>17 DEF Consistent
<1> QED BY <1>1, <1>2

LEMMA OwnStepKeeps ==
    ASSUME Typed, Consistent, NEW w \in Threads,
           Tick(w) \/ Reconcile(w) \/ PassOver(w) \/ Abort(w) \/ GetChannel(w) \/ EndPass(w)
    PROVE  Consistent'
<1>1. UNCHANGED <<registry, channels, unsure>>
  BY DEF Tick, Reconcile, PassOver, Abort, GetChannel, EndPass
<1>2. job[w].pc \in {"idle", "next"} /\ job \in [Threads -> Jobs(Pointers)] /\ JobOK(job[w], Pointers)
  BY DEF Tick, Reconcile, PassOver, Abort, GetChannel, EndPass, At, Typed, PassesOK
<1>3. \E j : job' = [job EXCEPT ![w] = j] /\ j.pc \in {"idle", "next", "create", "update"}
  <2>1. CASE Tick(w) \/ Reconcile(w)
    <3>1. CASE UNCHANGED pass
      BY <1>2, <3>1 DEF pass
    <3>2. CASE \E v, namespaces, name : StartPass(w, v, namespaces, name)
      <4>1. PICK v, namespaces, name : StartPass(w, v, namespaces, name)
        BY <3>2
      <4> DEFINE j == [IdleJob EXCEPT !.pc = "next", !.ns = namespaces, !.request = name,
                                      !.list = crs, !.todo = Existing]
      <4>2. job' = [job EXCEPT ![w] = j]
        BY <4>1 DEF StartPass
      <4>3. j.pc = "next"
        BY DEF IdleJob
      <4> HIDE DEF j
      <4> QED BY <4>2, <4>3
    <3> QED BY <2>1, <3>1, <3>2 DEF Tick, Reconcile
  <2>2. CASE PassOver(w)
    <3>1. PICK n \in Names : GoOn(w, n)
      BY <2>2, TodoNamed DEF PassOver, Typed
    <3> DEFINE j == Beyond(job[w], n)
    <3>2. job' = [job EXCEPT ![w] = j]
      BY <3>1 DEF GoOn
    <3>3. j.pc = "next"
      BY <1>2, BeyondOK
    <3> HIDE DEF j
    <3> QED BY <3>2, <3>3
  <2>3. CASE Abort(w) \/ EndPass(w)
    <3>1. job' = [job EXCEPT ![w] = IdleJob] /\ IdleJob.pc = "idle"
      BY <2>3 DEF Abort, EndPass, Idle, IdleJob
    <3> QED BY <3>1
  <2>4. CASE GetChannel(w)
    <3>1. PICK n \in job[w].todo, pc \in {"update", "create"} :
            job' = [job EXCEPT ![w] = [job[w] EXCEPT !.pc = pc, !.todo = @ \ {n}, !.cur = n]]
      BY <2>4 DEF GetChannel, Become
    <3> DEFINE j == [job[w] EXCEPT !.pc = pc, !.todo = @ \ {n}, !.cur = n]
    <3>2. j.pc = pc
      BY <1>2 DEF Jobs
    <3>3. job' = [job EXCEPT ![w] = j]
      BY <3>1
    <3> HIDE DEF j
    <3> QED BY <3>2, <3>3
  <2> QED BY <2>1, <2>2, <2>3, <2>4
<1>4. ~Adding(w)' /\ ~Removing(w)' /\ \A v \in Threads \ {w} : job'[v] = job[v]
  <2>1. PICK j : job' = [job EXCEPT ![w] = j] /\ j.pc \in {"idle", "next", "create", "update"}
    BY <1>3
  <2>2. job'[w] = j /\ \A v \in Threads \ {w} : job'[v] = job[v]
    BY <1>2, <2>1
  <2> QED BY <2>1, <2>2 DEF Adding, Removing
<1>5. ~Adding(w) /\ ~Removing(w)
  BY <1>2 DEF Adding, Removing
<1> QED BY <1>1, <1>4, <1>5, QuietKeeps

LEMMA FreshConsistent ==
    ASSUME heap = <<>>, known = [ns \in Namespaces |-> EmptySlice],
           job = [w \in Threads |-> IdleJob]
    PROVE  Consistent
<1>1. \A w \in Threads : ~Adding(w) /\ ~Removing(w) /\ ~Locked(w)
  BY DEF Adding, Removing, Locked, IdleJob
<1>2. \A ns \in Namespaces : known[ns].len = 0
  BY DEF EmptySlice
<1>3. Named
  BY DEF Named, Pointers
<1>4. Placed /\ Truth
  BY <1>2 DEF Placed, Truth
<1>5. Apart /\ \A w \in Threads : Sent(w) /\ Withdrawn(w) /\ SlotRight(w)
  BY <1>1 DEF Apart, Touches, Sent, Withdrawn, SlotRight
<1> QED BY <1>3, <1>4, <1>5 DEF Consistent

LEMMA RestartConsistent == Restart => Consistent'
<1> SUFFICES ASSUME Restart PROVE Consistent'
  OBVIOUS
<1>0. heap' = <<>> /\ known' = [ns \in Namespaces |-> EmptySlice] /\ job' = [w \in Threads |-> IdleJob]
  BY DEF Restart
<1>1. \A w \in Threads : ~Adding(w)' /\ ~Removing(w)' /\ ~Locked(w)'
  BY <1>0 DEF Adding, Removing, Locked, IdleJob
<1>2. \A ns \in Namespaces : known'[ns].len = 0
  BY <1>0 DEF EmptySlice
<1>3. Named'
  BY <1>0 DEF Named, Pointers
<1>4. Placed' /\ Truth'
  BY <1>2 DEF Placed, Truth
<1>5. Apart' /\ \A w \in Threads : Sent(w)' /\ Withdrawn(w)' /\ SlotRight(w)'
  BY <1>1 DEF Apart, Touches, Sent, Withdrawn, SlotRight
<1> QED BY <1>3, <1>4, <1>5 DEF Consistent

LEMMA NextConsistent ==
    ASSUME OneWorker \/ Alone
    PROVE  Typed /\ Consistent /\ [Next]_vars => Consistent'
<1> SUFFICES ASSUME Typed, Consistent, [Next]_vars PROVE Consistent'
  OBVIOUS
<1>1. ASSUME NEW w \in Threads, Run(w) PROVE Consistent'
  <2>1. CASE OutOfRange(w) \/ DereferenceUid(w)
    <3>1. UNCHANGED <<registry, job, channels, unsure>>
      BY <2>1 DEF OutOfRange, DereferenceUid, Panic, pass
    <3> QED BY <3>1, AsideKeeps
  <2> QED BY <1>1, <2>1, OwnStepKeeps, SubmitKeeps, LookKeeps, AddChannelKeeps, DeleteChannelKeeps,
             DropChannelKeeps DEF Run, Work
<1>2. ASSUME NEW u \in UIDs, ConsoleDelete(u) PROVE Consistent'
  <2>1. UNCHANGED <<registry, job>> /\ unsure' = unsure \cup {u} /\ channels' = [channels EXCEPT ![u] = Absent]
    BY <1>2 DEF ConsoleDelete, pass
  <2>2. channels \in [UIDs -> Contents \cup {Absent}]
    BY DEF Typed, SurroundingsOK
  <2>3. \A x \in UIDs : x \in unsure' \/ (channels'[x] = channels[x] /\ x \notin unsure)
    BY <2>1, <2>2
  <2> QED BY <2>1, <2>3, AsideKeeps
<1>3. ASSUME UNCHANGED <<registry, job, channels, unsure>> PROVE Consistent'
  BY <1>3, AsideKeeps
<1>4. CASE UNCHANGED vars
  BY <1>3, <1>4 DEF vars, registry
<1>5. ASSUME NEW n \in Names, ChangeResource(n) PROVE Consistent'
  BY <1>3, <1>5 DEF ChangeResource, pass
<1>6. ASSUME NEW b \in BOOLEAN, StateChange(b) PROVE Consistent'
  BY <1>3, <1>6 DEF StateChange, pass
<1> QED BY <1>1, <1>2, <1>4, <1>5, <1>6, RestartConsistent DEF Next

\* With one goroutine, or with one resource in each namespace whose passes may
\* cut into each other, the registry never claims of a channel what Grafana does
\* not have: not after failed, lost or refused calls, deletions in the console,
\* restarts, or resources that are deleted and created again while a pass is
\* under way.  The hash that findHash trusts for good is therefore right.
THEOREM ReferencesTellTruth ==
    ASSUME OneWorker \/ Alone
    PROVE  Spec => []RefsTellTruth
<1>1. Init => Consistent
  BY FreshConsistent DEF Init
<1>2. Spec => [](Typed /\ Consistent)
  BY <1>1, InitTyped, NextTyped, NextConsistent, PTL DEF Spec
<1> QED BY <1>2, ConsistentImpliesTruth, PTL

-----------------------------------------------------------------------------
(* What a pass deletes.                                                      *)

\* A channel leaves Grafana by hand, or because a pass goes through the references
\* whose resource it did not find, and then it is the channel of the resource the
\* reference names.  The uid stands beside the name in the reference, where
\* AddNotificationChannel writes it through the pointer and keeps the name.
DeletesOwn ==
    [][\A u \in UIDs : channels[u] # Absent /\ channels'[u] = Absent =>
         \/ \E w \in Threads : /\ job[w].pc = "next" /\ job'[w].pc = "drop"
                               /\ u = Uid[heap[job'[w].ref].name]
         \/ UNCHANGED pass]_vars

\* With one goroutine, or with one resource in each namespace whose passes may cut
\* into each other, a deletion never hits the channel of another resource.
THEOREM DeletionsOwn == ASSUME OneWorker \/ Alone PROVE Spec => DeletesOwn
<1> DEFINE Own(u) == \/ \E w \in Threads : /\ job[w].pc = "next" /\ job'[w].pc = "drop"
                                           /\ u = Uid[heap[job'[w].ref].name]
                     \/ UNCHANGED pass
           AllOwn == \A u \in UIDs : channels[u] # Absent /\ channels'[u] = Absent => Own(u)
<1>1. Typed /\ Consistent /\ [Next]_vars => [AllOwn]_vars
  <2> SUFFICES ASSUME Typed, Consistent, [Next]_vars, NEW u \in UIDs,
                      channels[u] # Absent, channels'[u] = Absent
               PROVE  Own(u)
    OBVIOUS
  <2>1. RegistryOK /\ PassesOK /\ SurroundingsOK /\ Named
    BY DEF Typed, Consistent
  <2>2. channels \in [UIDs -> Contents \cup {Absent}]
    BY <2>1 DEF SurroundingsOK
  <2>3. ASSUME NEW w \in Threads, DeleteChannel(w)
        PROVE  job[w].pc = "next" /\ job'[w].pc = "drop" /\ u = Uid[heap[job'[w].ref].name]
    <3>1. PICK ref \in Pointers : ref = Head(toDelete[w])
      <4>1. toDelete[w] \in Seq(Pointers) /\ toDelete[w] # <<>>
        BY <2>1, <2>3 DEF PassesOK, DeleteChannel
      <4> QED BY <4>1, HeadTailProperties
    <3>2. /\ job[w].pc = "next"
          /\ job' = [job EXCEPT ![w] = [job[w] EXCEPT !.pc = "drop", !.ref = ref]]
          /\ channels' \in {channels, [channels EXCEPT ![heap[ref].uid] = Absent]}
      BY <2>1, <2>3, <3>1 DEF DeleteChannel, At, PassesOK
    <3>3. job[w] \in Jobs(Pointers) /\ job \in [Threads -> Jobs(Pointers)]
      BY <2>1 DEF PassesOK
    <3>4. job'[w].pc = "drop" /\ job'[w].ref = ref
      BY <3>2, <3>3 DEF Jobs
    <3>5. u = heap[ref].uid
      BY <2>2, <3>2
    <3> QED BY <2>1, <3>1, <3>2, <3>4, <3>5 DEF Named
  <2>4. ASSUME NEW w \in Threads, Submit(w) PROVE FALSE
    <3>1. job[w].pc \in Submitting /\ JobOK(job[w], Pointers)
      BY <2>1, <2>4 DEF Submit, At, Submitting, PassesOK
    <3>2. job[w].list[job[w].cur] # Absent
      BY <3>1, NullAssumption DEF JobOK, Jobs
    <3>3. \/ channels' = channels
          \/ channels' = [channels EXCEPT ![Uid[job[w].cur]] = job[w].list[job[w].cur]]
      BY <2>4 DEF Submit
    <3> QED BY <2>2, <3>2, <3>3
  <2>5. channels' # channels
    OBVIOUS
  <2>6. ASSUME NEW w \in Threads, Run(w) PROVE DeleteChannel(w)
    <3>1. ~Tick(w) /\ ~Reconcile(w) /\ ~PassOver(w) /\ ~Abort(w) /\ ~GetChannel(w) /\ ~EndPass(w)
      BY <2>5 DEF Tick, Reconcile, PassOver, Abort, GetChannel, EndPass
    <3>2. ~DereferenceUid(w) /\ ~OutOfRange(w) /\ ~Look(w) /\ ~AddChannel(w) /\ ~DropChannel(w)
      BY <2>5 DEF DereferenceUid, OutOfRange, Look, AddChannel, DropChannel, Panic
    <3> QED BY <2>4, <2>6, <3>1, <3>2, Zenon DEF Run, Work
  <2>7. CASE \/ \E n \in Names : ChangeResource(n)
             \/ \E v \in UIDs : ConsoleDelete(v)
             \/ \E b \in BOOLEAN : StateChange(b)
             \/ UNCHANGED vars
    BY <2>7 DEF ChangeResource, ConsoleDelete, StateChange, vars, pass
  <2>8. ~Restart
    BY <2>5 DEF Restart
  <2>9. CASE \E w \in Threads : Run(w)
    BY <2>3, <2>6, <2>9
  <2> QED BY <2>7, <2>8, <2>9, Zenon DEF Next
<1> HIDE DEF AllOwn
<1>2. Init => Consistent
  BY FreshConsistent DEF Init
<1>3. Spec => [][AllOwn]_vars
  BY <1>1, <1>2, InitTyped, NextTyped, NextConsistent, PTL DEF Spec
<1> USE DEF AllOwn
<1> QED BY <1>3 DEF DeletesOwn
=============================================================================
