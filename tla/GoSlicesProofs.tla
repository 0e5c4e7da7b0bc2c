---------------------------- MODULE GoSlicesProofs ----------------------------
(***************************************************************************)
(* Facts about loops and about the slices of the registries, for any length.  *)
(* A loop that computes a list has at each index what the recursion says; a    *)
(* writer leaves a well-formed slice to the other writers and to the readers   *)
(* that still share its array.                                              *)
(***************************************************************************)
EXTENDS GoSlices, Filters, SequenceTheorems, WellFoundedInduction, TLAPS

\* A set of natural numbers that is not empty has a least element.
LEMMA LeastProperties ==
    ASSUME NEW S \in SUBSET Nat, S # {}
    PROVE  /\ Least(S) \in S
           /\ \A j \in S : Least(S) <= j
<1> DEFINE less == { p \in Nat \X Nat : p[1] < p[2] }
<1>1. IsWellFoundedOn(less, Nat)
  BY NatLessThanWellFounded DEF OpToRel
<1>2. PICK i \in S : \A j \in S : <<j, i>> \notin less
  <2> HIDE DEF less
  <2> QED BY <1>1, WFMin
<1>3. \A j \in S : i <= j
  <2>1. \A j \in S : ~(j < i)
    BY <1>2
  <2> QED BY <2>1
<1> QED BY <1>3 DEF Least

-----------------------------------------------------------------------------
(* Loops.                                                                   *)

\* What holds at the start, and at each index if it holds at the one before,
\* holds throughout: a set of exceptions would have a least element.
LEMMA StepByStep ==
    ASSUME NEW n \in Nat, NEW S, 0 \in S, \A k \in 1..n : k - 1 \in S => k \in S
    PROVE  0..n \subseteq S
<1> DEFINE Exceptions == (0..n) \ S
<1> SUFFICES ASSUME Exceptions # {} PROVE FALSE
  OBVIOUS
<1>1. /\ Least(Exceptions) \in Exceptions
      /\ \A j \in Exceptions : Least(Exceptions) <= j
  <2>1. Exceptions \in SUBSET Nat
    OBVIOUS
  <2> HIDE DEF Exceptions
  <2> QED BY <2>1, LeastProperties
<1> DEFINE i == Least(Exceptions)
<1> HIDE DEF i
<1>2. i \in 1..n /\ i - 1 \in 0..n /\ ~(i <= i - 1)
  BY <1>1 DEF i
<1> QED BY <1>1, <1>2 DEF i

\* A loop of n turns over values in V, and the values before and after each turn.
IsLoop(n, V, start, Step) == n \in Nat /\ start \in V /\ Step \in [1..n -> [V -> V]]
IsRun(f, n, V, start, Step) ==
    f \in [0..n -> V] /\ f[0] = start /\ \A k \in 1..n : f[k] = Step[k][f[k-1]]

LEMMA Iterated ==
    ASSUME NEW n, NEW V, NEW start, NEW Step, IsLoop(n, V, start, Step)
    PROVE  \E f : IsRun(f, n, V, start, Step)
<1> USE DEF IsLoop
<1> DEFINE Runs(m, f) == f[0] = start /\ \A k \in 1..m : f[k] = Step[k][f[k-1]]
           S == { m \in 0..n : \E f \in [0..m -> V] : Runs(m, f) }
<1>1. 0 \in S
  <2>1. [k \in 0..0 |-> start] \in [0..0 -> V] /\ Runs(0, [k \in 0..0 |-> start])
    OBVIOUS
  <2>2. 0 \in 0..n
    OBVIOUS
  <2> HIDE DEF Runs
  <2> QED BY <2>1, <2>2
<1>2. ASSUME NEW m \in 1..n, m - 1 \in S PROVE m \in S
  <2>1. PICK f \in [0..(m-1) -> V] : Runs(m - 1, f)
    BY <1>2
  <2> DEFINE next == Step[m][f[m-1]]
             g == [k \in 0..m |-> IF k = m THEN next ELSE f[k]]
  <2>2. /\ m \in Nat /\ m - 1 \in 0..(m-1) /\ 0 \in 0..(m-1) /\ m # 0
        /\ next \in V
    BY <2>1
  <2>3. g \in [0..m -> V] /\ g[m] = next /\ \A k \in 0..(m-1) : g[k] = f[k]
    <3> HIDE DEF next
    <3> QED BY <2>2
  <2> HIDE DEF g
  <2>5. g[m] = Step[m][g[m-1]]
    BY <2>2, <2>3
  <2>6. ASSUME NEW k \in 1..m PROVE g[k] = Step[k][g[k-1]]
    <3>1. CASE k = m
      BY <3>1, <2>5
    <3>2. CASE k # m
      <4>1. k \in 1..(m-1) /\ k \in 0..(m-1) /\ k - 1 \in 0..(m-1)
        BY <3>2
      <4> QED BY <4>1, <2>1, <2>3
    <3> QED BY <3>1, <3>2
  <2>7. g[0] = start
    BY <2>1, <2>2, <2>3
  <2>8. Runs(m, g)
    BY <2>6, <2>7
  <2>9. m \in 0..n
    BY <2>2
  <2> QED BY <2>3, <2>8, <2>9
<1>3. 0..n \subseteq S
  <2> HIDE DEF S
  <2> QED BY <1>1, <1>2, StepByStep
<1>4. n \in S
  BY <1>3
<1> QED BY <1>4 DEF IsRun

\* The loop of Filters: each turn appends an element, or does not.
IsAmong(upTo, S, s, keep) ==
    /\ upTo \in [0..Len(s) -> Seq(S)]
    /\ upTo[0] = <<>> /\ Among(s, keep) = upTo[Len(s)]
    /\ \A k \in 1..Len(s) : upTo[k] = IF s[k] \in keep THEN Append(upTo[k-1], s[k]) ELSE upTo[k-1]

LEMMA AmongSteps ==
    ASSUME NEW S, NEW s \in Seq(S), NEW keep
    PROVE  \E upTo : IsAmong(upTo, S, s, keep)
<1> DEFINE n == Len(s)
           Next(k, list) == IF s[k] \in keep THEN Append(list, s[k]) ELSE list
           Step == [k \in 1..n |-> [list \in Seq(S) |-> Next(k, list)]]
           Is(f) == f = [k \in 0..n |-> IF k = 0 THEN <<>>
                                        ELSE IF s[k] \in keep THEN Append(f[k-1], s[k]) ELSE f[k-1]]
           upTo == CHOOSE f : Is(f)
<1>0. n \in Nat /\ \A k \in 1..n : s[k] \in S
  BY LenProperties, ElementOfSeq
<1>1. \A k \in 1..n, list \in Seq(S) : Next(k, list) \in Seq(S)
  BY <1>0, AppendProperties
<1>2. Step \in [1..n -> [Seq(S) -> Seq(S)]] /\ \A k \in 1..n, list \in Seq(S) : Step[k][list] = Next(k, list)
  <2> HIDE DEF Next
  <2> QED BY <1>1
<1> HIDE DEF Step
<1>3. PICK f \in [0..n -> Seq(S)] : f[0] = <<>> /\ \A k \in 1..n : f[k] = Step[k][f[k-1]]
  <2>1. <<>> \in Seq(S)
    BY EmptySeq
  <2> HIDE DEF n
  <2>2. \E f \in [0..n -> Seq(S)] : f[0] = <<>> /\ \A k \in 1..n : f[k] = Step[k][f[k-1]]
    <3> DEFINE V == Seq(S)
               start == <<>>
    <3>1. IsLoop(n, V, start, Step)
      BY <1>0, <1>2, <2>1 DEF IsLoop
    <3>2. \E f : IsRun(f, n, V, start, Step)
      BY <3>1, Iterated
    <3> QED BY <3>2 DEF IsRun
  <2> QED BY <2>2
<1>4. Is(f)
  <2>1. \A k \in 1..n : f[k] = Next(k, f[k-1])
    <3> HIDE DEF Next, n
    <3>1. \A k \in 1..n : k - 1 \in 0..n /\ k \in Nat
      BY <1>0
    <3> QED BY <1>0, <1>2, <1>3, <3>1
  <2>2. \A k \in 0..n : k = 0 \/ k \in 1..n
    BY <1>0
  <2> QED BY <1>3, <2>1, <2>2
<1>5. Is(upTo)
  BY <1>4, Zenon
<1>6. Among(s, keep) = upTo[n]
  BY DEF Among
<1> HIDE DEF upTo
<1>7. upTo[0] = <<>> /\ \A k \in 1..n : upTo[k] = Next(k, upTo[k-1])
  <2> HIDE DEF n
  <2>1. 0 \in 0..n /\ \A k \in 1..n : k \in 0..n /\ k # 0
    BY <1>0
  <2> QED BY <1>5, <2>1
<1>8. upTo \in [0..n -> Seq(S)]
  <2> DEFINE T == { k \in 0..n : upTo[k] \in Seq(S) }
  <2> HIDE DEF n, Next
  <2>1. 0 \in T /\ \A k \in 1..n : k - 1 \in T => k \in T
    <3>1. 0 \in 0..n /\ \A k \in 1..n : k \in 0..n
      BY <1>0
    <3> QED BY <1>1, <1>7, <3>1, EmptySeq
  <2>2. 0..n \subseteq T
    <3> HIDE DEF T
    <3> QED BY <1>0, <2>1, StepByStep
  <2>3. upTo = [k \in 0..n |-> upTo[k]]
    BY <1>5
  <2> QED BY <2>2, <2>3
<1> QED BY <1>6, <1>7, <1>8 DEF IsAmong

\* What it makes of a list is a list of the same elements.
LEMMA AmongOK ==
    ASSUME NEW S, NEW s \in Seq(S), NEW keep
    PROVE  Among(s, keep) \in Seq(S)
<1>1. Len(s) \in Nat /\ Len(s) \in 0..Len(s)
  BY LenProperties
<1>2. PICK upTo : IsAmong(upTo, S, s, keep)
  BY AmongSteps
<1> QED BY <1>1, <1>2 DEF IsAmong

\* Lists can be joined one after the other.
AreLists(lists, n, P) == n \in Nat /\ \A k \in 1..n : lists[k] \in Seq(P)
AreJoined(f, lists, n, P) ==
    f \in [0..n -> Seq(P)] /\ f[0] = <<>> /\ \A k \in 1..n : f[k] = f[k-1] \o lists[k]

LEMMA JoinedUp ==
    ASSUME NEW P, NEW n, NEW lists, AreLists(lists, n, P)
    PROVE  \E f : AreJoined(f, lists, n, P)
<1>0. n \in Nat /\ \A k \in 1..n : lists[k] \in Seq(P)
  BY DEF AreLists
<1> DEFINE Joined(k, list) == list \o lists[k]
           Step == [k \in 1..n |-> [list \in Seq(P) |-> Joined(k, list)]]
           V == Seq(P)
           start == <<>>
<1>1. \A k \in 1..n, list \in V : Joined(k, list) \in V
  BY <1>0, ConcatProperties
<1>2. Step \in [1..n -> [V -> V]] /\ \A k \in 1..n, list \in V : Step[k][list] = Joined(k, list)
  <2> HIDE DEF Joined
  <2> QED BY <1>1
<1> HIDE DEF Step
<1>3. IsLoop(n, V, start, Step)
  BY <1>0, <1>2, EmptySeq DEF IsLoop
<1>4. \E f : IsRun(f, n, V, start, Step)
  BY <1>3, Iterated
<1>5. PICK f \in [0..n -> V] : f[0] = start /\ \A k \in 1..n : f[k] = Step[k][f[k-1]]
  BY <1>4 DEF IsRun
<1>6. \A k \in 1..n : f[k] = Joined(k, f[k-1])
  <2> HIDE DEF Joined, V
  <2>1. \A k \in 1..n : k - 1 \in 0..n
    BY <1>0
  <2> QED BY <1>2, <1>5, <2>1
<1> QED BY <1>5, <1>6 DEF AreJoined

-----------------------------------------------------------------------------
(* The writers.                                                             *)

LEMMA EmptySliceOK == ASSUME NEW Ref PROVE IsSlice(EmptySlice, Ref)
BY DEF EmptySlice, IsSlice

\* append keeps the references it finds and puts the new one behind them.
LEMMA AppendedOK ==
    ASSUME NEW Ref, NEW s, IsSlice(s, Ref), NEW ref \in Ref
    PROVE  /\ IsSlice(Appended(s, ref), Ref)
           /\ Appended(s, ref).len = s.len + 1
           /\ \A i \in 1..s.len : Appended(s, ref).cells[i] = s.cells[i]
           /\ Appended(s, ref).cells[s.len + 1] = ref
<1> DEFINE cap == IF Reallocates(s) THEN GrownCap(s) ELSE s.cap
           cells == [i \in 1..cap |-> IF i = s.len + 1 THEN ref
                                      ELSE IF i <= s.cap THEN s.cells[i] ELSE NoRef]
<1>1. /\ s.cap \in Nat /\ s.len \in 0..s.cap
      /\ s.cells \in [1..s.cap -> Ref \cup {NoRef}]
      /\ \A i \in 1..s.len : s.cells[i] \in Ref
  BY DEF IsSlice
<1>2. cap \in Nat /\ s.cap <= cap /\ s.len + 1 \in 1..cap
  BY <1>1 DEF Reallocates, GrownCap
<1>3. Appended(s, ref) = [cells |-> cells, cap |-> cap, len |-> s.len + 1]
  BY DEF Appended
<1> HIDE DEF cap
<1>4. cells \in [1..cap -> Ref \cup {NoRef}]
  BY <1>1, <1>2
<1>5. \A i \in 1..s.len : cells[i] = s.cells[i]
  BY <1>1, <1>2
<1>6. cells[s.len + 1] = ref
  BY <1>2
<1> HIDE DEF cells
<1>7. \A i \in 1..(s.len + 1) : cells[i] \in Ref
  BY <1>1, <1>5, <1>6
<1> QED BY <1>1, <1>2, <1>3, <1>4, <1>5, <1>6, <1>7 DEF IsSlice

LEMMA ReplacedOK ==
    ASSUME NEW Ref, NEW s, IsSlice(s, Ref), NEW ref \in Ref, NEW i \in 1..s.len
    PROVE  /\ IsSlice(Replaced(s, i, ref), Ref)
           /\ Replaced(s, i, ref).len = s.len
           /\ \A k \in 1..s.len : Replaced(s, i, ref).cells[k] = IF k = i THEN ref ELSE s.cells[k]
BY DEF IsSlice, Replaced

\* Dropping a reference moves the last one into its place.
LEMMA DroppedOK ==
    ASSUME NEW Ref, NEW s, IsSlice(s, Ref), NEW i \in 1..s.len
    PROVE  /\ IsSlice(Dropped(s, i), Ref)
           /\ Dropped(s, i).len = s.len - 1
           /\ \A k \in 1..(s.len - 1) :
                 Dropped(s, i).cells[k] = IF k = i THEN s.cells[s.len] ELSE s.cells[k]
BY DEF IsSlice, Dropped

-----------------------------------------------------------------------------
(* The readers.                                                             *)

LEMMA CopyOK ==
    ASSUME NEW Ref, NEW s, NEW len \in 0..s.cap, s.cap \in Nat,
           \A i \in 1..len : s.cells[i] \in Ref
    PROVE  IsSlice(CopyOf(s, len), Ref)
BY DEF IsSlice, CopyOf

\* A reader that shares the array is not disturbed by a write in place ...
LEMMA SeenInPlace ==
    ASSUME NEW Ref, NEW s, NEW t, NEW view, IsSlice(s, Ref), IsSlice(t, Ref),
           IsSlice(Seen(view, s), Ref), t.cap = s.cap,
           \A i \in 1..s.cap : s.cells[i] \in Ref => t.cells[i] \in Ref
    PROVE  IsSlice(Seen(view, t), Ref)
BY DEF IsSlice, Seen

LEMMA SeenAppended ==
    ASSUME NEW Ref, NEW s, NEW view, NEW ref \in Ref, IsSlice(s, Ref),
           IsSlice(Seen(view, s), Ref), ~Reallocates(s)
    PROVE  IsSlice(Seen(view, Appended(s, ref)), Ref)
<1>1. IsSlice(Appended(s, ref), Ref)
  BY AppendedOK
<1>2. /\ Appended(s, ref).cap = s.cap
      /\ \A i \in 1..s.cap : Appended(s, ref).cells[i] = IF i = s.len + 1 THEN ref ELSE s.cells[i]
  BY DEF Appended, IsSlice
<1> HIDE DEF Appended
<1>3. \A i \in 1..s.cap : s.cells[i] \in Ref => Appended(s, ref).cells[i] \in Ref
  BY <1>2
<1> QED BY <1>1, <1>2, <1>3, SeenInPlace

LEMMA SeenReplaced ==
    ASSUME NEW Ref, NEW s, NEW view, NEW ref \in Ref, IsSlice(s, Ref),
           IsSlice(Seen(view, s), Ref), NEW i \in 1..s.len
    PROVE  IsSlice(Seen(view, Replaced(s, i, ref)), Ref)
<1>1. IsSlice(Replaced(s, i, ref), Ref)
  BY ReplacedOK
<1>2. /\ Replaced(s, i, ref).cap = s.cap
      /\ \A k \in 1..s.cap : s.cells[k] \in Ref => Replaced(s, i, ref).cells[k] \in Ref
  BY DEF Replaced, IsSlice
<1> QED BY <1>1, <1>2, SeenInPlace

LEMMA SeenDropped ==
    ASSUME NEW Ref, NEW s, NEW view, IsSlice(s, Ref),
           IsSlice(Seen(view, s), Ref), NEW i \in 1..s.len
    PROVE  IsSlice(Seen(view, Dropped(s, i)), Ref)
<1>1. IsSlice(Dropped(s, i), Ref)
  BY DroppedOK
<1>2. /\ Dropped(s, i).cap = s.cap
      /\ \A k \in 1..s.cap : s.cells[k] \in Ref => Dropped(s, i).cells[k] \in Ref
  BY DEF Dropped, IsSlice
<1> QED BY <1>1, <1>2, SeenInPlace

\* ... and keeps the old array when the writers move to a new one.
LEMMA SeenDetached ==
    ASSUME NEW Ref, NEW s, NEW t, NEW view, view.live \in BOOLEAN, view.slice.len \in Nat,
           IsSlice(s, Ref), IsSlice(Seen(view, s), Ref)
    PROVE  /\ IsSlice(Seen(Detached(view, s), t), Ref)
           /\ Detached(view, s).live \in BOOLEAN
           /\ Detached(view, s).slice.len \in Nat
<1>1. CASE view.live
  <2>1. IsSlice(CopyOf(s, view.slice.len), Ref) /\ CopyOf(s, view.slice.len).len = view.slice.len
    BY <1>1, CopyOK DEF IsSlice, Seen, CopyOf
  <2> QED BY <1>1, <2>1 DEF Seen, Detached
<1>2. CASE ~view.live
  BY <1>2 DEF Seen, Detached
<1> QED BY <1>1, <1>2
=============================================================================
