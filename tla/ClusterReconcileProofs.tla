------------------------ MODULE ClusterReconcileProofs ------------------------
(***************************************************************************)
(* Theorems about ClusterReconcile and Plugins, for any resource, cluster,    *)
(* dashboards and faults: the types of the objects and of the plan, and that   *)
(* no plugin is ever installed in two versions.                              *)
(*                                                                         *)
(* GoSlicesProofs is extended for its lemmas about loops over lists; slices,   *)
(* and the constant NoRef, play no part.                                     *)
(***************************************************************************)
EXTENDS ClusterReconcile, GoSlicesProofs, FiniteSetTheorems

-----------------------------------------------------------------------------
(* Plugin lists.                                                            *)

OneVersionLists(S) == { list \in Seq(S) : OneVersionEach(list) }

LEMMA EmptyList == ASSUME NEW S PROVE <<>> \in OneVersionLists(S)
BY EmptySeq DEF OneVersionLists, OneVersionEach

\* One more plugin, of which there is no version yet.
LEMMA OneMore ==
    ASSUME NEW S, NEW list \in OneVersionLists(S), NEW p \in S,
           \A i \in DOMAIN list : list[i].name # p.name
    PROVE  Append(list, p) \in OneVersionLists(S)
<1>1. list \in Seq(S) /\ OneVersionEach(list)
  BY DEF OneVersionLists
<1> DEFINE more == Append(list, p)
           n == Len(list)
<1>2. /\ more \in Seq(S) /\ n \in Nat /\ Len(more) = n + 1 /\ more[n + 1] = p
      /\ \A i \in 1..n : more[i] = list[i]
      /\ DOMAIN list = 1..n /\ DOMAIN more = 1..(n + 1)
  BY <1>1, AppendProperties, LenProperties
<1> HIDE DEF more, n
<1>3. OneVersionEach(more)
  <2> SUFFICES ASSUME NEW i \in 1..(n + 1), NEW k \in 1..(n + 1), more[i].name = more[k].name, i # k
               PROVE  FALSE
    BY <1>2 DEF OneVersionEach
  <2>1. CASE i \in 1..n /\ k \in 1..n
    BY <1>1, <1>2, <2>1 DEF OneVersionEach
  <2>2. CASE i = n + 1 /\ k \in 1..n
    BY <1>2, <2>2
  <2>3. CASE k = n + 1 /\ i \in 1..n
    BY <1>2, <2>3
  <2>4. (i \in 1..n \/ i = n + 1) /\ (k \in 1..n \/ k = n + 1)
    BY <1>2
  <2>5. ~(i = n + 1 /\ k = n + 1)
    OBVIOUS
  <2> QED BY <2>1, <2>2, <2>3, <2>4, <2>5, Zenon
<1> QED BY <1>2, <1>3 DEF OneVersionLists, more

\* What is left of such a list is one.
LEMMA AmongOneVersion ==
    ASSUME NEW S, NEW list \in OneVersionLists(S), NEW keep
    PROVE  Among(list, keep) \in OneVersionLists(S)
<1>1. list \in Seq(S) /\ OneVersionEach(list)
  BY DEF OneVersionLists
<1> DEFINE n == Len(list)
<1>2. n \in Nat /\ DOMAIN list = 1..n /\ \A k \in 1..n : list[k] \in S
  BY <1>1, LenProperties, ElementOfSeq
<1>0. PICK upTo : IsAmong(upTo, S, list, keep)
  BY <1>1, AmongSteps
<1>3. /\ upTo \in [0..n -> Seq(S)] /\ upTo[0] = <<>> /\ Among(list, keep) = upTo[n]
      /\ \A k \in 1..n : upTo[k] = IF list[k] \in keep THEN Append(upTo[k-1], list[k]) ELSE upTo[k-1]
  BY <1>0 DEF IsAmong
<1> HIDE DEF n
<1> DEFINE FromFirst(k) == \A i \in DOMAIN upTo[k] : \E j \in 1..k : upTo[k][i] = list[j]
           T == { k \in 0..n : upTo[k] \in OneVersionLists(S) /\ FromFirst(k) }
<1>4. 0 \in T
  <2>1. 0 \in 0..n /\ DOMAIN upTo[0] = {}
    BY <1>2, <1>3
  <2> QED BY <1>3, <2>1, EmptyList
<1>5. ASSUME NEW k \in 1..n, k - 1 \in T PROVE k \in T
  <2> DEFINE before == upTo[k-1]
  <2>1. k \in 0..n /\ k - 1 \in 0..n /\ k \in Nat /\ list[k] \in S
    BY <1>2
  <2>2. before \in OneVersionLists(S) /\ \A i \in DOMAIN before : \E j \in 1..(k-1) : before[i] = list[j]
    BY <1>5
  <2>3. CASE list[k] \notin keep
    <3>1. upTo[k] = before
      BY <1>3, <2>3
    <3> HIDE DEF before
    <3> QED BY <2>1, <2>2, <3>1
  <2>4. CASE list[k] \in keep
    <3>1. upTo[k] = Append(before, list[k])
      BY <1>3, <2>4
    <3> HIDE DEF before
    <3>2. ASSUME NEW i \in DOMAIN before PROVE before[i].name # list[k].name
      <4>1. PICK j \in 1..(k-1) : before[i] = list[j]
        BY <2>2
      <4>2. j # k /\ j \in 1..n
        BY <1>2, <4>1
      <4> QED BY <1>1, <1>2, <4>1, <4>2 DEF OneVersionEach
    <3>3. upTo[k] \in OneVersionLists(S)
      BY <2>1, <2>2, <3>1, <3>2, OneMore
    <3>4. before \in Seq(S)
      BY <2>2 DEF OneVersionLists
    <3>5. /\ DOMAIN upTo[k] = 1..(Len(before) + 1) /\ Len(before) \in Nat /\ DOMAIN before = 1..Len(before)
          /\ upTo[k][Len(before) + 1] = list[k]
          /\ \A i \in 1..Len(before) : upTo[k][i] = before[i]
      BY <2>1, <3>1, <3>4, AppendProperties, LenProperties
    <3>6. FromFirst(k)
      <4> SUFFICES ASSUME NEW i \in DOMAIN upTo[k] PROVE \E j \in 1..k : upTo[k][i] = list[j]
        OBVIOUS
      <4>1. CASE i = Len(before) + 1
        <5>1. k \in 1..k
          BY <2>1
        <5> QED BY <3>5, <4>1, <5>1
      <4>2. CASE i \in 1..Len(before)
        <5>1. PICK j \in 1..(k-1) : before[i] = list[j]
          BY <2>2, <3>5, <4>2
        <5>2. j \in 1..k
          BY <2>1
        <5> QED BY <3>5, <4>2, <5>1, <5>2
      <4> QED BY <3>5, <4>1, <4>2
    <3> QED BY <2>1, <3>3, <3>6
  <2> QED BY <2>3, <2>4
<1>6. 0..n \subseteq T
  <2> HIDE DEF T
  <2> QED BY <1>2, <1>4, <1>5, StepByStep
<1>7. n \in 0..n
  BY <1>2
<1> QED BY <1>3, <1>6, <1>7

LEMMA LatestOK ==
    ASSUME NEW S, NEW requested \in Seq(S) PROVE PickLatestVersions(requested) \in Seq(S)
BY AmongOK DEF PickLatestVersions

\* What the loop of FilterPlugins asks of a plugin, whatever it has picked so far.
Eligible(installed, failed, requested, p) ==
    /\ ~HasExactVersionOf(failed, p)
    /\ \/ HasExactVersionOf(installed, p)
       \/ ~HasSomeVersionOf(installed, p)
       \/ VersionsOf(requested, p) = 1

\* One turn of that loop.
PickTurn(installed, failed, requested, p, b) ==
    [list |-> IF Changes(b.list, installed, failed, requested, p) \/ Keeps(b.list, installed, failed, p)
              THEN Append(b.list, p) ELSE b.list,
     updated |-> b.updated \/ Changes(b.list, installed, failed, requested, p)]

Turns(upTo, installed, failed, requested) ==
    /\ upTo[0] = [list |-> <<>>, updated |-> FALSE]
    /\ \A k \in 1..Len(requested) : upTo[k] = PickTurn(installed, failed, requested, requested[k], upTo[k-1])

LEMMA FilteredTurns ==
    ASSUME NEW S, NEW installed, NEW failed, NEW requested \in Seq(S)
    PROVE  \E upTo : /\ Turns(upTo, installed, failed, requested)
                     /\ Filtered(installed, failed, requested) = upTo[Len(requested)]
<1> DEFINE n == Len(requested)
           V == [list : Seq(S), updated : BOOLEAN]
           start == [list |-> <<>>, updated |-> FALSE]
           Turn(k, b) == PickTurn(installed, failed, requested, requested[k], b)
           Step == [k \in 1..n |-> [b \in V |-> Turn(k, b)]]
           Is(f) == f = [k \in 0..n |->
                IF k = 0 THEN [list |-> <<>>, updated |-> FALSE]
                ELSE LET before == f[k-1]
                         p == requested[k]
                         changes == Changes(before.list, installed, failed, requested, p)
                     IN  [list |-> IF changes \/ Keeps(before.list, installed, failed, p)
                                   THEN Append(before.list, p) ELSE before.list,
                          updated |-> before.updated \/ changes]]
           upTo == CHOOSE f : Is(f)
<1>0. n \in Nat /\ \A k \in 1..n : requested[k] \in S
  BY LenProperties, ElementOfSeq
<1>1. \A k \in 1..n, b \in V : Turn(k, b) \in V
  <2> SUFFICES ASSUME NEW k \in 1..n, NEW b \in V PROVE Turn(k, b) \in V
    OBVIOUS
  <2>1. b.list \in Seq(S) /\ b.updated \in BOOLEAN /\ requested[k] \in S
    BY <1>0
  <2>2. Append(b.list, requested[k]) \in Seq(S)
    BY <2>1, AppendProperties
  <2>3. (b.updated \/ Changes(b.list, installed, failed, requested, requested[k])) \in BOOLEAN
    OBVIOUS
  <2> QED BY <2>1, <2>2, <2>3 DEF PickTurn
<1>2. Step \in [1..n -> [V -> V]] /\ \A k \in 1..n, b \in V : Step[k][b] = Turn(k, b)
  <2> HIDE DEF Turn, V
  <2> QED BY <1>1
<1> HIDE DEF Step
<1>3. IsLoop(n, V, start, Step)
  BY <1>0, <1>2, EmptySeq DEF IsLoop
<1>4. PICK f : IsRun(f, n, V, start, Step)
  <2> HIDE DEF n, V, start
  <2> QED BY <1>3, Iterated
<1>5. f \in [0..n -> V] /\ f[0] = start /\ \A k \in 1..n : f[k] = Turn(k, f[k-1])
  <2> HIDE DEF Turn, V, n, start
  <2>1. \A k \in 1..n : k - 1 \in 0..n
    BY <1>0
  <2> QED BY <1>2, <1>4, <2>1 DEF IsRun
<1>6. Is(f)
  <2> HIDE DEF n, V
  <2>1. \A k \in 0..n : k = 0 \/ k \in 1..n
    BY <1>0
  <2> QED BY <1>5, <2>1 DEF PickTurn
<1>7. Is(upTo)
  BY <1>6, Zenon
<1>8. Filtered(installed, failed, requested) = upTo[n]
  BY DEF Filtered
<1> HIDE DEF upTo
<1>9. Turns(upTo, installed, failed, requested)
  <2> HIDE DEF n
  <2>1. 0 \in 0..n /\ \A k \in 1..n : k \in 0..n /\ k # 0
    BY <1>0
  <2>2. upTo[0] = start /\ \A k \in 1..n : upTo[k] = Turn(k, upTo[k-1])
    BY <1>7, <2>1 DEF PickTurn
  <2> QED BY <2>2 DEF Turns, n
<1> QED BY <1>8, <1>9

\* A plugin is taken when the loop asks for it and there is no version of it yet.
LEMMA Taken ==
    ASSUME NEW installed, NEW failed, NEW requested, NEW p, NEW b, b.updated \in BOOLEAN
    PROVE  LET next == PickTurn(installed, failed, requested, p, b)
               takes == ~HasSomeVersionOf(b.list, p) /\ Eligible(installed, failed, requested, p)
           IN  /\ next.list = IF takes THEN Append(b.list, p) ELSE b.list
               /\ next.updated \in BOOLEAN
               /\ next.updated <=> b.updated \/ (takes /\ ~HasExactVersionOf(installed, p))
<1>1. \/ Changes(b.list, installed, failed, requested, p)
      \/ Keeps(b.list, installed, failed, p)
      <=> ~HasSomeVersionOf(b.list, p) /\ Eligible(installed, failed, requested, p)
  <2>1. HasExactVersionOf(installed, p) => HasSomeVersionOf(installed, p)
    BY DEF HasExactVersionOf, HasSomeVersionOf
  <2> QED BY <2>1, Zenon DEF Changes, Keeps, Eligible
<1>2. Changes(b.list, installed, failed, requested, p)
      <=> /\ ~HasSomeVersionOf(b.list, p) /\ Eligible(installed, failed, requested, p)
          /\ ~HasExactVersionOf(installed, p)
  BY Zenon DEF Changes, Eligible
<1> QED BY <1>1, <1>2 DEF PickTurn

\* What the loop has picked of the first k plugins: those it asks for, one version
\* of each, and it knows whether one of them is new.
Picked(S, installed, failed, requested, k, b) ==
    /\ b.list \in OneVersionLists(S) /\ b.updated \in BOOLEAN
    /\ \A i \in DOMAIN b.list : /\ Eligible(installed, failed, requested, b.list[i])
                                /\ \E j \in 1..k : b.list[i] = requested[j]
    /\ \A j \in 1..k : Eligible(installed, failed, requested, requested[j])
                       => HasSomeVersionOf(b.list, requested[j])
    /\ b.updated <=> \E i \in DOMAIN b.list : ~HasExactVersionOf(installed, b.list[i])

LEMMA PickedNext ==
    ASSUME NEW S, NEW installed, NEW failed, NEW requested, NEW k \in Nat \ {0}, requested[k] \in S,
           NEW b, Picked(S, installed, failed, requested, k - 1, b)
    PROVE  Picked(S, installed, failed, requested, k, PickTurn(installed, failed, requested, requested[k], b))
<1> DEFINE p == requested[k]
           next == PickTurn(installed, failed, requested, p, b)
           Asked(q) == Eligible(installed, failed, requested, q)
           takes == ~HasSomeVersionOf(b.list, p) /\ Asked(p)
<1>1. /\ b.list \in OneVersionLists(S) /\ b.list \in Seq(S) /\ b.updated \in BOOLEAN
      /\ \A i \in DOMAIN b.list : Asked(b.list[i]) /\ \E j \in 1..(k-1) : b.list[i] = requested[j]
      /\ \A j \in 1..(k-1) : Asked(requested[j]) => HasSomeVersionOf(b.list, requested[j])
      /\ b.updated <=> \E i \in DOMAIN b.list : ~HasExactVersionOf(installed, b.list[i])
  BY DEF Picked, OneVersionLists
<1>2. /\ next.list = IF takes THEN Append(b.list, p) ELSE b.list
      /\ next.updated \in BOOLEAN
      /\ next.updated <=> b.updated \/ (takes /\ ~HasExactVersionOf(installed, p))
  BY <1>1, Taken
<1>3. 1..(k-1) \subseteq 1..k /\ k \in 1..k /\ \A j \in 1..k : j \in 1..(k-1) \/ j = k
  OBVIOUS
<1> HIDE DEF next, Asked
<1>4. CASE ~takes
  <2>1. next.list = b.list /\ (next.updated <=> b.updated)
    BY <1>2, <1>4
  <2>2. Asked(p) => HasSomeVersionOf(b.list, p)
    BY <1>4
  <2>3. \A j \in 1..k : Asked(requested[j]) => HasSomeVersionOf(b.list, requested[j])
    BY <1>1, <1>3, <2>2
  <2>4. \A i \in DOMAIN b.list : Asked(b.list[i]) /\ \E j \in 1..k : b.list[i] = requested[j]
    BY <1>1, <1>3
  <2>5. next.updated <=> \E i \in DOMAIN next.list : ~HasExactVersionOf(installed, next.list[i])
    BY <1>1, <2>1, Zenon
  <2> QED BY <1>1, <1>2, <2>1, <2>3, <2>4, <2>5 DEF Picked, Asked, next
<1>5. CASE takes
  <2> DEFINE list == b.list
             more == next.list
             n == Len(list)
  <2>1. more = Append(list, p)
    BY <1>2, <1>5
  <2>2. /\ n \in Nat /\ DOMAIN list = 1..n /\ DOMAIN more = 1..(n + 1)
        /\ more[n + 1] = p /\ \A i \in 1..n : more[i] = list[i]
    BY <1>1, <2>1, AppendProperties, LenProperties
  <2>3. \A i \in DOMAIN list : list[i].name # p.name
    BY <1>5 DEF HasSomeVersionOf
  <2>4. more \in OneVersionLists(S)
    BY <1>1, <2>1, <2>3, OneMore
  <2>5. Asked(p)
    BY <1>5
  <2> HIDE DEF list, more, n, p, takes
  <2>6. 1..n \subseteq 1..(n + 1) /\ n + 1 \in 1..(n + 1) /\ \A i \in 1..(n + 1) : i \in 1..n \/ i = n + 1
    BY <2>2
  <2>7. \A i \in DOMAIN more : Asked(more[i]) /\ \E j \in 1..k : more[i] = requested[j]
    <3>1. \A i \in 1..n : Asked(more[i]) /\ \E j \in 1..k : more[i] = requested[j]
      BY <1>1, <1>3, <2>2 DEF list
    <3>2. Asked(more[n + 1]) /\ \E j \in 1..k : more[n + 1] = requested[j]
      BY <1>3, <2>2, <2>5 DEF p
    <3> QED BY <2>2, <2>6, <3>1, <3>2, Zenon
  <2>8. \A j \in 1..k : Asked(requested[j]) => HasSomeVersionOf(more, requested[j])
    <3>1. HasSomeVersionOf(more, requested[k])
      BY <2>2, <2>6 DEF HasSomeVersionOf, p
    <3>2. \A q : HasSomeVersionOf(list, q) => HasSomeVersionOf(more, q)
      BY <2>2, <2>6 DEF HasSomeVersionOf
    <3> QED BY <1>1, <1>3, <3>1, <3>2 DEF list
  <2>9. next.updated <=> \E i \in DOMAIN more : ~HasExactVersionOf(installed, more[i])
    <3>1. (\E i \in DOMAIN more : ~HasExactVersionOf(installed, more[i]))
          <=> (\E i \in 1..n : ~HasExactVersionOf(installed, more[i])) \/ ~HasExactVersionOf(installed, more[n + 1])
      BY <2>2, <2>6, Zenon
    <3>2. (\E i \in 1..n : ~HasExactVersionOf(installed, more[i]))
          <=> \E i \in DOMAIN list : ~HasExactVersionOf(installed, list[i])
      BY <2>2
    <3>3. next.updated <=> b.updated \/ ~HasExactVersionOf(installed, p)
      BY <1>2, <1>5
    <3> QED BY <1>1, <2>2, <3>1, <3>2, <3>3 DEF list
  <2> QED BY <1>2, <2>4, <2>7, <2>8, <2>9 DEF Picked, Asked, next, more, p
<1> QED BY <1>4, <1>5

\* What FilterPlugins takes of a list.
LEMMA FilteredPicks ==
    ASSUME NEW S, NEW installed, NEW failed, NEW requested \in Seq(S)
    PROVE  Picked(S, installed, failed, requested, Len(requested), Filtered(installed, failed, requested))
<1> DEFINE n == Len(requested)
<1>1. n \in Nat /\ \A k \in 1..n : requested[k] \in S
  BY LenProperties, ElementOfSeq
<1>2. PICK upTo : Turns(upTo, installed, failed, requested) /\ Filtered(installed, failed, requested) = upTo[n]
  BY FilteredTurns
<1>3. /\ upTo[0] = [list |-> <<>>, updated |-> FALSE]
      /\ \A k \in 1..n : upTo[k] = PickTurn(installed, failed, requested, requested[k], upTo[k-1])
  BY <1>2 DEF Turns
<1> HIDE DEF n
<1> DEFINE T == { k \in 0..n : Picked(S, installed, failed, requested, k, upTo[k]) }
<1>4. 0 \in T
  <2>1. 0 \in 0..n /\ 1..0 = {}
    BY <1>1
  <2>2. upTo[0].list = <<>> /\ upTo[0].updated = FALSE /\ DOMAIN upTo[0].list = {}
    BY <1>3
  <2>3. <<>> \in OneVersionLists(S)
    BY EmptyList
  <2>4. Picked(S, installed, failed, requested, 0, upTo[0])
    BY <2>1, <2>2, <2>3 DEF Picked
  <2> QED BY <2>1, <2>4
<1>5. ASSUME NEW k \in 1..n, k - 1 \in T PROVE k \in T
  <2>1. k \in Nat \ {0} /\ k \in 0..n /\ requested[k] \in S
    BY <1>1
  <2>2. Picked(S, installed, failed, requested, k - 1, upTo[k-1])
    BY <1>5
  <2>3. Picked(S, installed, failed, requested, k, upTo[k])
    BY <1>3, <2>1, <2>2, PickedNext
  <2> QED BY <2>1, <2>3
<1>6. 0..n \subseteq T
  <2> HIDE DEF T
  <2> QED BY <1>1, <1>4, <1>5, StepByStep
<1>7. n \in T
  BY <1>1, <1>6
<1> QED BY <1>2, <1>7 DEF n

\* The loop of FilterPlugins keeps a list with one version of each plugin: both
\* ways into it ask for that.
LEMMA FilteredOK ==
    ASSUME NEW S, NEW installed, NEW failed, NEW requested \in Seq(S)
    PROVE  LET result == Filtered(installed, failed, requested)
           IN  result.list \in OneVersionLists(S) /\ result.updated \in BOOLEAN
BY FilteredPicks DEF Picked

\* Whatever the dashboards ask for, in whatever order, and whatever is installed
\* or has failed, FilterPlugins answers with at most one version of each plugin,
\* also when a version that cannot be parsed keeps PickLatestVersions from
\* choosing (pluginsHelper.go).
THEOREM FilterPicksOneVersion ==
    ASSUME NEW S, NEW installed, NEW failed, NEW requested \in Seq(S)
    PROVE  LET filter == FilterPlugins(installed, failed, requested)
           IN  filter.list \in Seq(S) /\ OneVersionEach(filter.list)
<1>1. Filtered(installed, failed, PickLatestVersions(requested)).list \in OneVersionLists(S)
  BY LatestOK, FilteredOK
<1> QED BY <1>1 DEF FilterPlugins, OneVersionLists

-----------------------------------------------------------------------------
(* The plugins settle.  In what order the requests come does not matter: the  *)
(* loop is told which plugins are asked for, and takes one of each name.       *)

Elements(list) == { list[i] : i \in DOMAIN list }

LEMMA AmongElements ==
    ASSUME NEW S, NEW s \in Seq(S), NEW keep
    PROVE  Elements(Among(s, keep)) = Elements(s) \cap keep
<1> DEFINE n == Len(s)
<1>1. n \in Nat /\ DOMAIN s = 1..n /\ \A k \in 1..n : s[k] \in S
  BY LenProperties, ElementOfSeq
<1>0. PICK upTo : IsAmong(upTo, S, s, keep)
  BY AmongSteps
<1>2. /\ upTo \in [0..n -> Seq(S)] /\ upTo[0] = <<>> /\ Among(s, keep) = upTo[n]
      /\ \A k \in 1..n : upTo[k] = IF s[k] \in keep THEN Append(upTo[k-1], s[k]) ELSE upTo[k-1]
  BY <1>0 DEF IsAmong
<1> HIDE DEF n
<1> DEFINE First(k) == { s[j] : j \in 1..k } \cap keep
           T == { k \in 0..n : Elements(upTo[k]) = First(k) }
<1>3. 0 \in T
  <2>1. 0 \in 0..n /\ 1..0 = {} /\ DOMAIN upTo[0] = {}
    BY <1>1, <1>2
  <2> QED BY <2>1 DEF Elements
<1>4. ASSUME NEW k \in 1..n, k - 1 \in T PROVE k \in T
  <2> DEFINE before == upTo[k-1]
             p == s[k]
  <2>1. k \in 0..n /\ k - 1 \in 0..n /\ p \in S
    BY <1>1
  <2>2. before \in Seq(S) /\ Elements(before) = First(k-1)
    <3>1. upTo[k-1] \in Seq(S)
      BY <1>2, <2>1
    <3>2. Elements(upTo[k-1]) = First(k-1)
      BY <1>4
    <3> QED BY <3>1, <3>2
  <2>3. 1..k = (1..(k-1)) \cup {k}
    BY <2>1
  <2>4. First(k) = First(k-1) \cup ({p} \cap keep)
    <3>1. { s[j] : j \in 1..k } = { s[j] : j \in 1..(k-1) } \cup {p}
      BY <2>3
    <3> QED BY <3>1
  <2>5. Elements(upTo[k]) = Elements(before) \cup ({p} \cap keep)
    <3>1. CASE p \notin keep
      BY <1>2, <3>1
    <3>2. CASE p \in keep
      <4>1. upTo[k] = Append(before, p)
        BY <1>2, <3>2
      <4> HIDE DEF before, p
      <4>2. /\ DOMAIN upTo[k] = 1..(Len(before) + 1) /\ Len(before) \in Nat /\ DOMAIN before = 1..Len(before)
            /\ upTo[k][Len(before) + 1] = p
            /\ \A i \in 1..Len(before) : upTo[k][i] = before[i]
        BY <2>1, <2>2, <4>1, AppendProperties, LenProperties
      <4>3. 1..(Len(before) + 1) = (1..Len(before)) \cup {Len(before) + 1}
        BY <4>2
      <4>4. { upTo[k][i] : i \in 1..(Len(before) + 1) } = { before[i] : i \in 1..Len(before) } \cup {p}
        BY <4>2, <4>3
      <4> QED BY <3>2, <4>2, <4>4 DEF Elements
    <3> QED BY <3>1, <3>2
  <2> QED BY <2>1, <2>2, <2>4, <2>5
<1>5. 0..n \subseteq T
  <2> HIDE DEF T
  <2> QED BY <1>1, <1>3, <1>4, StepByStep
<1>6. n \in T
  BY <1>1, <1>5
<1>7. First(n) = Elements(s) \cap keep
  BY <1>1 DEF Elements
<1> QED BY <1>2, <1>6, <1>7

\* What PickLatestVersions leaves depends on what is asked for, not on the order.
LEMMA LatestElements ==
    ASSUME NEW S, NEW r \in Seq(S), NEW s \in Seq(S), Elements(r) = Elements(s)
    PROVE  Elements(PickLatestVersions(r)) = Elements(PickLatestVersions(s))
<1>1. \A p : HasNewerVersionOf(r, p) <=> HasNewerVersionOf(s, p)
  <2>1. \A p : HasNewerVersionOf(r, p) <=> \E q \in Elements(r) : q.name = p.name /\ q.version > p.version
    BY Zenon DEF HasNewerVersionOf, Elements
  <2>2. \A p : HasNewerVersionOf(s, p) <=> \E q \in Elements(s) : q.name = p.name /\ q.version > p.version
    BY Zenon DEF HasNewerVersionOf, Elements
  <2> QED BY <2>1, <2>2, Zenon
<1> DEFINE Mixed(list) == \E p \in Elements(list) : p.version \in Unparsable
           Newest(list) == { p \in Elements(list) : ~HasNewerVersionOf(list, p) }
<1>2. /\ PickLatestVersions(r) = IF Mixed(r) THEN r ELSE Among(r, Newest(r))
      /\ PickLatestVersions(s) = IF Mixed(s) THEN s ELSE Among(s, Newest(s))
  BY DEF PickLatestVersions, Elements
<1>3. (Mixed(r) <=> Mixed(s)) /\ Newest(r) = Newest(s)
  BY <1>1
<1>4. /\ Elements(Among(r, Newest(r))) = Elements(r) \cap Newest(r)
      /\ Elements(Among(s, Newest(s))) = Elements(s) \cap Newest(s)
  <2> HIDE DEF Newest
  <2> QED BY AmongElements
<1> QED BY <1>2, <1>3, <1>4

LEMMA OneEntry ==
    ASSUME NEW S, NEW list \in Seq(S), NEW p, VersionsOf(list, p) = 1,
           NEW q \in Elements(list), q.name = p.name, NEW r \in Elements(list), r.name = p.name
    PROVE  q = r
<1> DEFINE Where == { i \in DOMAIN list : list[i].name = p.name }
<1>1. DOMAIN list = 1..Len(list) /\ Len(list) \in Nat
  BY LenProperties
<1>2. IsFiniteSet(Where)
  <2>1. IsFiniteSet(1..Len(list)) /\ Where \in SUBSET (1..Len(list))
    BY <1>1, FS_Interval
  <2> QED BY <2>1, FS_Subset
<1>3. Cardinality(Where) = 1
  BY DEF VersionsOf
<1>4. PICK x : Where = {x}
  <2> HIDE DEF Where
  <2> QED BY <1>2, <1>3, FS_Singleton
<1>5. (\E i \in Where : list[i] = q) /\ (\E i \in Where : list[i] = r)
  BY DEF Elements
<1> QED BY <1>4, <1>5

\* A list that the loop itself might have made, and what it comes to.
Chosen(list, failed, requested) ==
    \A i \in DOMAIN list : list[i] \in Elements(PickLatestVersions(requested)) /\ ~HasExactVersionOf(failed, list[i])

\* FilterPlugins answers with such a list, whatever was installed.
LEMMA FilterChosen ==
    ASSUME NEW S, NEW installed, NEW failed, NEW requested \in Seq(S)
    PROVE  Chosen(FilterPlugins(installed, failed, requested).list, failed, requested)
<1> DEFINE latest == PickLatestVersions(requested)
           list == Filtered(installed, failed, latest).list
<1>1. latest \in Seq(S) /\ DOMAIN latest = 1..Len(latest)
  BY LatestOK, LenProperties
<1> HIDE DEF latest
<1>2. \A i \in DOMAIN list : /\ Eligible(installed, failed, latest, list[i])
                             /\ \E j \in 1..Len(latest) : list[i] = latest[j]
  <2>1. Picked(S, installed, failed, latest, Len(latest), Filtered(installed, failed, latest))
    BY <1>1, FilteredPicks
  <2> QED BY <2>1, Zenon DEF Picked
<1>3. FilterPlugins(installed, failed, requested).list = list
  BY DEF FilterPlugins, latest
<1> QED BY <1>1, <1>2, <1>3 DEF Chosen, Eligible, Elements, latest

\* On such a list, the only change is a plugin of which no version is installed.
LEMMA ChangeIsNew ==
    ASSUME NEW S, NEW installed, NEW failed, NEW requested \in Seq(S),
           Chosen(installed, failed, requested), FilterPlugins(installed, failed, requested).updated
    PROVE  \E p \in Elements(PickLatestVersions(requested)) :
              ~HasExactVersionOf(failed, p) /\ ~HasSomeVersionOf(installed, p)
<1> DEFINE latest == PickLatestVersions(requested)
           result == Filtered(installed, failed, latest)
<1>1. latest \in Seq(S) /\ DOMAIN latest = 1..Len(latest)
  BY LatestOK, LenProperties
<1>2. \A i \in DOMAIN installed : installed[i] \in Elements(latest) /\ ~HasExactVersionOf(failed, installed[i])
  BY DEF Chosen
<1>3. FilterPlugins(installed, failed, requested).updated
      = (result.updated \/ \E i \in DOMAIN installed : ~HasSomeVersionOf(latest, installed[i]))
  BY DEF FilterPlugins
<1> HIDE DEF latest
<1>4. \A i \in DOMAIN installed : HasSomeVersionOf(latest, installed[i])
  BY <1>2 DEF HasSomeVersionOf, Elements
<1>5. Picked(S, installed, failed, latest, Len(latest), result)
  BY <1>1, FilteredPicks
<1>6. PICK i \in DOMAIN result.list : ~HasExactVersionOf(installed, result.list[i])
  BY <1>3, <1>4, <1>5 DEF Picked
<1> DEFINE p == result.list[i]
<1>7. p \in Elements(latest) /\ Eligible(installed, failed, latest, p)
  BY <1>1, <1>5 DEF Picked, Elements
<1> HIDE DEF p, result
<1>8. ~HasExactVersionOf(installed, p)
  BY <1>6 DEF p
<1>9. ~HasSomeVersionOf(installed, p)
  <2> SUFFICES ASSUME NEW k \in DOMAIN installed, installed[k].name = p.name PROVE FALSE
    BY DEF HasSomeVersionOf
  <2>1. VersionsOf(latest, p) = 1
    BY <1>7, <1>8 DEF Eligible, HasSomeVersionOf
  <2>2. installed[k] = p
    BY <1>1, <1>2, <1>7, <2>1, OneEntry
  <2> QED BY <1>8, <2>2 DEF HasExactVersionOf
<1> QED BY <1>7, <1>9 DEF Eligible, latest

\* And what it answers then has a version of each plugin of which none was installed.
LEMMA NothingNewLeft ==
    ASSUME NEW S, NEW installed, NEW failed, NEW requested \in Seq(S),
           NEW p \in Elements(PickLatestVersions(requested)),
           ~HasExactVersionOf(failed, p), ~HasSomeVersionOf(installed, p)
    PROVE  LET filter == FilterPlugins(installed, failed, requested)
           IN  filter.updated /\ HasSomeVersionOf(filter.list, p)
<1> DEFINE latest == PickLatestVersions(requested)
           result == Filtered(installed, failed, latest)
<1>1. latest \in Seq(S) /\ DOMAIN latest = 1..Len(latest)
  BY LatestOK, LenProperties
<1>2. FilterPlugins(installed, failed, requested).list = result.list
      /\ (result.updated => FilterPlugins(installed, failed, requested).updated)
  BY DEF FilterPlugins
<1>3. PICK j \in 1..Len(latest) : latest[j] = p
  BY <1>1 DEF Elements
<1> HIDE DEF latest
<1>4. Picked(S, installed, failed, latest, Len(latest), result)
  BY <1>1, FilteredPicks
<1>5. Eligible(installed, failed, latest, p)
  BY DEF Eligible
<1>6. HasSomeVersionOf(result.list, p)
  BY <1>3, <1>4, <1>5 DEF Picked
<1>7. result.updated
  <2>1. PICK i \in DOMAIN result.list : result.list[i].name = p.name
    BY <1>6 DEF HasSomeVersionOf
  <2>2. ~HasExactVersionOf(installed, result.list[i])
    BY <2>1 DEF HasExactVersionOf, HasSomeVersionOf
  <2> QED BY <1>4, <2>2 DEF Picked
<1> QED BY <1>2, <1>6, <1>7

\* Nor does it drop the plugins of such a list, but for another version of them.
LEMMA NamesKept ==
    ASSUME NEW S, NEW installed, NEW failed, NEW requested \in Seq(S),
           Chosen(installed, failed, requested), NEW p, HasSomeVersionOf(installed, p)
    PROVE  HasSomeVersionOf(FilterPlugins(installed, failed, requested).list, p)
<1> DEFINE latest == PickLatestVersions(requested)
           result == Filtered(installed, failed, latest)
<1>1. latest \in Seq(S) /\ DOMAIN latest = 1..Len(latest)
  BY LatestOK, LenProperties
<1>2. FilterPlugins(installed, failed, requested).list = result.list
  BY DEF FilterPlugins
<1>3. PICK k \in DOMAIN installed : installed[k].name = p.name
  BY DEF HasSomeVersionOf
<1>4. installed[k] \in Elements(latest) /\ ~HasExactVersionOf(failed, installed[k])
  BY DEF Chosen
<1> HIDE DEF latest
<1>5. PICK j \in 1..Len(latest) : latest[j] = installed[k]
  BY <1>1, <1>4 DEF Elements
<1>6. Eligible(installed, failed, latest, installed[k])
  BY <1>4 DEF Eligible, HasExactVersionOf
<1>7. Picked(S, installed, failed, latest, Len(latest), result)
  BY <1>1, FilteredPicks
<1>8. HasSomeVersionOf(result.list, installed[k])
  BY <1>5, <1>6, <1>7 DEF Picked
<1> QED BY <1>2, <1>3, <1>8 DEF HasSomeVersionOf

\* Which plugins a list has is all that these say about it.
LEMMA SameLists ==
    ASSUME NEW a, NEW b, Elements(a) = Elements(b)
    PROVE  /\ \A p : HasSomeVersionOf(a, p) <=> HasSomeVersionOf(b, p)
           /\ \A failed, requested : Chosen(a, failed, requested) <=> Chosen(b, failed, requested)
<1>1. \A p : /\ HasSomeVersionOf(a, p) <=> \E q \in Elements(a) : q.name = p.name
             /\ HasSomeVersionOf(b, p) <=> \E q \in Elements(b) : q.name = p.name
  BY Zenon DEF HasSomeVersionOf, Elements
<1>2. \A failed, requested :
         /\ Chosen(a, failed, requested)
            <=> \A q \in Elements(a) : q \in Elements(PickLatestVersions(requested)) /\ ~HasExactVersionOf(failed, q)
         /\ Chosen(b, failed, requested)
            <=> \A q \in Elements(b) : q \in Elements(PickLatestVersions(requested)) /\ ~HasExactVersionOf(failed, q)
  BY Zenon DEF Chosen, Elements
<1> QED BY <1>1, <1>2, Zenon

\* So such a list is changed at most once more, whatever the order of the requests.
LEMMA ChangedOnce ==
    ASSUME NEW S, NEW installed, NEW failed, NEW r \in Seq(S), NEW s \in Seq(S), Elements(r) = Elements(s),
           Chosen(installed, failed, r), NEW next,
           LET filter == FilterPlugins(installed, failed, r)
           IN  Elements(next) = Elements(IF filter.updated THEN filter.list ELSE installed)
    PROVE  ~FilterPlugins(next, failed, s).updated
<1> DEFINE filter == FilterPlugins(installed, failed, r)
           list == IF filter.updated THEN filter.list ELSE installed
           latest == Elements(PickLatestVersions(r))
<1>1. latest = Elements(PickLatestVersions(s))
  BY LatestElements
<1>2. Elements(next) = Elements(list)
  OBVIOUS
<1>3. Chosen(list, failed, r)
  BY FilterChosen
<1>4. Chosen(next, failed, r) /\ \A p : HasSomeVersionOf(next, p) <=> HasSomeVersionOf(list, p)
  <2> HIDE DEF list
  <2> QED BY <1>2, <1>3, SameLists
<1>5. Chosen(next, failed, s)
  BY <1>1, <1>4 DEF Chosen
<1> SUFFICES ASSUME FilterPlugins(next, failed, s).updated PROVE FALSE
  OBVIOUS
<1>6. PICK p \in latest : ~HasExactVersionOf(failed, p) /\ ~HasSomeVersionOf(next, p)
  <2> HIDE DEF latest
  <2> QED BY <1>1, <1>5, ChangeIsNew
<1>7. ~HasSomeVersionOf(list, p)
  BY <1>4, <1>6
<1>8. HasSomeVersionOf(installed, p)
  <2> SUFFICES ASSUME ~HasSomeVersionOf(installed, p) PROVE FALSE
    OBVIOUS
  <2>1. filter.updated /\ HasSomeVersionOf(filter.list, p)
    BY <1>6, NothingNewLeft
  <2> QED BY <1>7, <2>1
<1>9. filter.updated /\ list = filter.list
  BY <1>7, <1>8
<1>10. HasSomeVersionOf(filter.list, p)
  BY <1>8, NamesKept
<1> QED BY <1>7, <1>9, <1>10

-----------------------------------------------------------------------------
(* The invariant: every list of plugins, be it in a status, a deployment, a    *)
(* cache, the plan of a loop or the running Grafana, has one version of each;  *)
(* what the loop still has to write is the value of an object.                *)

PluginLists == OneVersionLists(PluginSet)
Templates == [config : Configs \cup {Absent}, plugins : PluginLists, ready : BOOLEAN]
Contents == Templates \cup {Absent}
KnownStatuses == [phase : {"none", "failing", "reconciling"}, previous : Services \cup {Absent},
                  installed : PluginLists, failed : PluginLists]
Resources == [config : Configs, service : ServiceSpecs, external : BOOLEAN, status : KnownStatuses]
Actions == { a \in [op : {"create", "update", "delete", "check"}, obj : Objects,
                    value : Contents \cup BOOLEAN] :
               a.op \in {"create", "update"} => a.value \in Templates }

JobOK(j) == /\ j = [pc |-> j.pc, status |-> j.status, actions |-> j.actions, stale |-> j.stale, url |-> j.url]
            /\ j.pc \in {"idle", "run", "failed"} /\ j.status \in KnownStatuses
            /\ j.actions \in Seq(Actions)

ClusterOK == /\ cr \in Resources /\ seenCr \in Resources
             /\ api \in [Objects -> Contents] /\ cache \in [Objects -> Contents]
             /\ behind \subseteq Lagging
             /\ \A o \in Objects \ behind : cache[o] = api[o]

PodOK == pod = [hash |-> pod.hash, plugins |-> pod.plugins, config |-> pod.config] /\ pod.plugins \in PluginLists

AroundOK == /\ platform \in Clusters /\ detected \in BOOLEAN
            /\ wanted \subseteq Requests /\ requests \subseteq Requests /\ panicked \in BOOLEAN
            /\ orphans \subseteq Services \cup {"ingress"} /\ disturbed \in 0..MaxDisturb

Typed == ClusterOK /\ JobOK(job) /\ PodOK /\ AroundOK

LEMMA TypedImpliesTypeOK == Typed => TypeOK /\ OneVersion
<1> SUFFICES ASSUME Typed PROVE TypeOK /\ OneVersion
  OBVIOUS
<1>1. PluginLists \subseteq Seq(PluginSet) /\ \A list \in PluginLists : OneVersionEach(list)
  BY DEF PluginLists, OneVersionLists
<1>2. KnownStatuses \subseteq Statuses
  BY <1>1 DEF KnownStatuses, Statuses
<1>3. Resources \subseteq Specs
  BY <1>2 DEF Resources, Specs
<1>4. Contents \subseteq Values
  BY <1>1 DEF Contents, Templates, Values
<1>5. api["deployment"] # Absent => OneVersionEach(api["deployment"].plugins)
  <2>1. api["deployment"] \in Contents
    BY DEF Typed, ClusterOK, Objects
  <2> QED BY <1>1, <2>1 DEF Contents, Templates
<1>6. OneVersionEach(cr.status.installed)
  BY <1>1 DEF Typed, ClusterOK, Resources, KnownStatuses
<1>7. OneVersion
  BY <1>1, <1>5, <1>6 DEF OneVersion, Typed, PodOK
<1>8. api \in [Objects -> Values] /\ cache \in [Objects -> Values]
  BY <1>4 DEF Typed, ClusterOK
<1> QED BY <1>2, <1>3, <1>7, <1>8 DEF TypeOK, Typed, ClusterOK, JobOK, AroundOK

LEMMA ObjectsNamed ==
    /\ Plain \subseteq Objects /\ Doors \subseteq Objects /\ Services \subseteq Objects
    /\ "config" \in Objects /\ "deployment" \in Objects /\ "ingress" \in Objects
    /\ "datasources" \in Objects
    /\ \A c : ServiceName(c) \in Services
    /\ \A open : Door(open) \in Doors
BY DEF Objects, Plain, Doors, Services, ServiceName, Door

LEMMA MadeOK ==
    /\ Made \in Templates /\ NewIngress \in Templates
    /\ \A c \in Resources : ConfigFile(c) \in Templates
    /\ \A hash \in Configs : \A list \in PluginLists : Template(hash, list) \in Templates
<1>1. <<>> \in PluginLists
  BY EmptyList DEF PluginLists
<1>2. Made \in Templates
  BY <1>1 DEF Made, Templates
<1>3. NewIngress \in Templates /\ (\A c \in Resources : ConfigFile(c) \in Templates)
  BY <1>1 DEF NewIngress, ConfigFile, Made, Templates, Resources
<1>4. \A hash \in Configs : \A list \in PluginLists : Template(hash, list) \in Templates
  BY <1>1 DEF Template, Made, Templates
<1> QED BY <1>2, <1>3, <1>4

-----------------------------------------------------------------------------
(* What a step is made of.                                                  *)

LEMMA Counted ==
    ASSUME disturbed \in 0..MaxDisturb
    PROVE  /\ \A kind : Disturbance(kind) => disturbed' \in 0..MaxDisturb
           /\ \A outcome : Call(outcome) => disturbed' \in 0..MaxDisturb
BY BoundAssumption DEF Disturbance, Call, Undisturbed

-----------------------------------------------------------------------------
(* Planning.                                                                *)

LEMMA MakeOK ==
    ASSUME NEW o \in Objects, NEW value \in Templates
    PROVE  /\ \A there : MakeOver(there, o, value) \in Seq(Actions)
           /\ Make(o, value) \in Seq(Actions)
<1>1. ASSUME NEW there PROVE MakeOver(there, o, value) \in Seq(Actions)
  <2> DEFINE a == [op |-> IF there = Absent THEN "create" ELSE "update", obj |-> o, value |-> value]
  <2>1. a \in Actions
    BY DEF Actions, Contents
  <2> HIDE DEF a
  <2>2. <<a>> \in Seq(Actions)
    BY <2>1
  <2> QED BY <2>2 DEF MakeOver, a
<1> QED BY <1>1 DEF Make

LEMMA RemoveOK == ASSUME NEW o \in Objects PROVE Remove(o) \in Seq(Actions)
<1> DEFINE a == [op |-> "delete", obj |-> o, value |-> Absent]
<1>1. a \in Actions
  BY DEF Actions, Contents
<1> HIDE DEF a
<1>2. <<a>> \in Seq(Actions)
  BY <1>1
<1> QED BY <1>2 DEF Remove, a

LEMMA CheckOK == ASSUME NEW ready \in BOOLEAN PROVE Check(ready) \in Seq(Actions)
<1> DEFINE a == [op |-> "check", obj |-> "deployment", value |-> ready]
<1>1. a \in Actions
  BY ObjectsNamed DEF Actions
<1> HIDE DEF a
<1>2. <<a>> \in Seq(Actions)
  BY <1>1
<1> QED BY <1>2 DEF Check, a

LEMMA ReadyOK == ASSUME NEW object \in Contents PROVE Ready(object) \in BOOLEAN
BY DEF Ready

LEMMA ReadOK ==
    ASSUME ClusterOK, NEW v, NEW open PROVE Read(v, Door(open)) \in Contents
BY ObjectsNamed DEF ClusterOK, Read, Contents

\* What the plugin site is asked for, and what comes of it.
LEMMA RequestedSeq ==
    ASSUME requests \subseteq Requests PROVE Requested \subseteq Seq(PluginSet)
<1> SUFFICES ASSUME NEW order \in Orders(requests) PROVE PluginsOf(order) \in Seq(PluginSet)
  BY DEF Requested
<1>1. Cardinality(requests) \in Nat
  BY BoundAssumption, FS_Subset, FS_CardinalityType
<1>2. \A i \in DOMAIN order : [name |-> order[i].name, version |-> order[i].version] \in PluginSet
  BY DEF Orders, PluginSet
<1>3. DOMAIN order = 1..Cardinality(requests)
  BY DEF Orders
<1> QED BY <1>1, <1>2, <1>3 DEF PluginsOf

LEMMA RequestedOK == AroundOK => Requested \subseteq Seq(PluginSet)
BY RequestedSeq DEF AroundOK

LEMMA NewPluginsOK ==
    ASSUME NEW status \in KnownStatuses, NEW requested \in Seq(PluginSet), NEW missing
    PROVE  LET plugins == NewPlugins(status, FilterPlugins(status.installed, status.failed, requested), missing)
           IN  plugins.installed \in PluginLists /\ plugins.failed \in PluginLists
<1> DEFINE filter == FilterPlugins(status.installed, status.failed, requested)
<1>1. filter.list \in PluginLists
  BY FilterPicksOneVersion DEF PluginLists, OneVersionLists
<1> HIDE DEF filter
<1>2. \A keep : Among(filter.list, keep) \in PluginLists
  BY <1>1, AmongOneVersion DEF PluginLists
<1>3. status.installed \in PluginLists /\ status.failed \in PluginLists
  BY DEF KnownStatuses
<1>4. LET plugins == NewPlugins(status, filter, missing)
      IN  plugins.installed \in PluginLists /\ plugins.failed \in PluginLists
  BY <1>2, <1>3 DEF NewPlugins
<1> QED BY <1>4 DEF filter

\* The plugins that are asked for are the same in whatever order the map of the
\* dashboards is gone through.
LEMMA OrdersElements ==
    ASSUME requests \subseteq Requests, NEW order \in Orders(requests)
    PROVE  Elements(PluginsOf(order)) = { [name |-> r.name, version |-> r.version] : r \in requests }
<1> DEFINE n == Cardinality(requests)
<1>1. IsFiniteSet(requests) /\ n \in Nat
  BY BoundAssumption, FS_Subset, FS_CardinalityType
<1>2. IsFiniteSet(1..n) /\ Cardinality(1..n) = n
  <2> HIDE DEF n
  <2> QED BY <1>1, FS_Interval
<1>3. order \in [1..n -> requests] /\ DOMAIN order = 1..n /\ order \in Injection(1..n, requests)
  BY DEF Orders, Injection, IsInjective
<1>4. order \in Surjection(1..n, requests)
  <2> HIDE DEF n
  <2> QED BY <1>1, <1>2, <1>3, FS_Injection DEF n
<1>5. \A r \in requests : \E i \in 1..n : order[i] = r
  BY <1>4 DEF Surjection
<1>6. Elements(PluginsOf(order)) = { [name |-> order[i].name, version |-> order[i].version] : i \in 1..n }
  BY <1>3 DEF Elements, PluginsOf
<1> HIDE DEF n
<1> QED BY <1>3, <1>5, <1>6

\* While the dashboards ask for the same plugins and all of them can be had, a
\* change of the plugins is followed by one more change at most, whatever was
\* installed before, whatever had failed, and in whatever order the dashboards are
\* gone through at each reconcile: Grafana is not restarted again and again
\* (pluginsHelper.go, reconcilePlugins).
THEOREM PluginsSettle ==
    ASSUME requests \subseteq Requests, NEW status,
           NEW q \in Requested, NEW r \in Requested, NEW s \in Requested
    PROVE  LET Filter(st, list) == FilterPlugins(st.installed, st.failed, list)
               first == NewPlugins(status, Filter(status, q), {})
               second == NewPlugins(first, Filter(first, r), {})
           IN  Filter(status, q).updated => ~Filter(second, s).updated
<1> DEFINE Filter(st, list) == FilterPlugins(st.installed, st.failed, list)
           first == NewPlugins(status, Filter(status, q), {})
           second == NewPlugins(first, Filter(first, r), {})
<1> SUFFICES ASSUME Filter(status, q).updated PROVE ~Filter(second, s).updated
  OBVIOUS
<1>1. q \in Seq(PluginSet) /\ r \in Seq(PluginSet) /\ s \in Seq(PluginSet)
  BY RequestedSeq
<1>2. Elements(q) = Elements(r) /\ Elements(r) = Elements(s)
  BY OrdersElements DEF Requested
<1>3. \A st, list, had :
         list \in Seq(PluginSet) /\ Filter(st, list).updated /\ had = NewPlugins(st, Filter(st, list), {})
         => Elements(had.installed) = Elements(Filter(st, list).list) /\ had.failed = <<>>
  <2> SUFFICES ASSUME NEW st, NEW list \in Seq(PluginSet), NEW had, Filter(st, list).updated,
                      had = NewPlugins(st, Filter(st, list), {})
               PROVE  Elements(had.installed) = Elements(Filter(st, list).list) /\ had.failed = <<>>
    OBVIOUS
  <2> DEFINE taken == Filter(st, list).list
  <2>1. taken \in Seq(PluginSet)
    BY FilterPicksOneVersion
  <2>2. had.installed = Among(taken, PluginSet) /\ had.failed = Among(taken, {})
    <3>1. { p \in PluginSet : PluginExists(p, {}) } = PluginSet /\ { p \in PluginSet : ~PluginExists(p, {}) } = {}
      BY DEF PluginExists
    <3> QED BY <3>1 DEF NewPlugins
  <2> HIDE DEF taken
  <2>3. Elements(taken) \subseteq PluginSet
    BY <2>1, LenProperties, ElementOfSeq DEF Elements
  <2>4. Elements(had.installed) = Elements(taken)
    <3>1. Elements(Among(taken, PluginSet)) = Elements(taken) \cap PluginSet
      BY <2>1, AmongElements
    <3> QED BY <2>2, <2>3, <3>1
  <2>5. had.failed \in Seq(PluginSet) /\ Elements(had.failed) = {}
    BY <2>1, <2>2, AmongElements, AmongOK
  <2>6. had.failed = <<>>
    <3>1. DOMAIN had.failed = {}
      BY <2>5 DEF Elements
    <3>2. Len(had.failed) \in Nat /\ DOMAIN had.failed = 1..Len(had.failed)
      BY <2>5, LenProperties
    <3>3. \A n \in Nat : 1..n = {} => n = 0
      <4> SUFFICES ASSUME NEW n \in Nat, n # 0 PROVE 1 \in 1..n
        OBVIOUS
      <4> QED OBVIOUS
    <3>4. Len(had.failed) = 0
      BY <3>1, <3>2, <3>3, Zenon
    <3> QED BY <2>5, <3>4, EmptySeq
  <2> QED BY <2>4, <2>6 DEF taken
<1>4. Elements(first.installed) = Elements(Filter(status, q).list) /\ first.failed = <<>>
  <2> HIDE DEF Filter
  <2> QED BY <1>1, <1>3
<1>5. Chosen(first.installed, first.failed, r)
  <2>1. Chosen(Filter(status, q).list, status.failed, q)
    BY <1>1, FilterChosen
  <2>2. Chosen(Filter(status, q).list, <<>>, q)
    BY <2>1 DEF Chosen, HasExactVersionOf
  <2>3. Chosen(first.installed, <<>>, q)
    <3> HIDE DEF first, Filter
    <3> QED BY <1>4, <2>2, SameLists
  <2>4. Elements(PickLatestVersions(q)) = Elements(PickLatestVersions(r))
    BY <1>1, <1>2, LatestElements
  <2> HIDE DEF first, Filter
  <2> QED BY <1>4, <2>3, <2>4 DEF Chosen
<1>6. /\ Elements(second.installed) = Elements(IF Filter(first, r).updated THEN Filter(first, r).list
                                               ELSE first.installed)
      /\ second.failed = <<>>
  <2>1. CASE Filter(first, r).updated
    <3>1. Elements(second.installed) = Elements(Filter(first, r).list) /\ second.failed = <<>>
      <4> HIDE DEF Filter, first
      <4> QED BY <1>1, <1>3, <2>1
    <3> QED BY <2>1, <3>1
  <2>2. CASE ~Filter(first, r).updated
    <3> HIDE DEF Filter, first
    <3>1. second.installed = first.installed /\ second.failed = first.failed
      BY <2>2 DEF NewPlugins
    <3> QED BY <1>4, <2>2, <3>1
  <2> QED BY <2>1, <2>2
<1>7. ~FilterPlugins(second.installed, first.failed, s).updated
  <2> HIDE DEF first, second
  <2> QED BY <1>1, <1>2, <1>5, <1>6, ChangedOnce
<1> QED BY <1>4, <1>6, <1>7

\* A failure is remembered until the next change only: reconcilePlugins keeps the
\* failures of the list it has just tried, and what failed before was not on it.  So
\* after any change, a plugin that is asked for, that failed before and that still
\* cannot be had makes the next reconcile change the plugins again; two of them
\* take turns for good, against the comment "Don't attempt to install plugins that
\* failed to install previously" (pluginsHelper.go:106).
THEOREM FailuresForgotten ==
    ASSUME requests \subseteq Requests, NEW status, NEW missing, NEW q \in Requested, NEW r \in Requested,
           NEW p \in Elements(PickLatestVersions(q)), HasExactVersionOf(status.failed, p), p.name \in missing
    PROVE  LET Filter(st, list) == FilterPlugins(st.installed, st.failed, list)
               next == NewPlugins(status, Filter(status, q), missing)
           IN  Filter(status, q).updated => Filter(next, r).updated
<1> DEFINE Filter(st, list) == FilterPlugins(st.installed, st.failed, list)
           taken == Filter(status, q).list
           next == NewPlugins(status, Filter(status, q), missing)
<1> SUFFICES ASSUME Filter(status, q).updated PROVE Filter(next, r).updated
  OBVIOUS
<1>1. q \in Seq(PluginSet) /\ r \in Seq(PluginSet) /\ Elements(q) = Elements(r)
  BY RequestedSeq, OrdersElements DEF Requested
<1>2. p \in Elements(PickLatestVersions(r))
  BY <1>1, LatestElements
<1> DEFINE there == { o \in PluginSet : PluginExists(o, missing) }
           away == { o \in PluginSet : ~PluginExists(o, missing) }
<1>3. next.installed = Among(taken, there) /\ next.failed = Among(taken, away)
  BY DEF NewPlugins
<1>4. taken \in Seq(PluginSet)
  BY <1>1, FilterPicksOneVersion
<1>5. Chosen(taken, status.failed, q)
  BY <1>1, FilterChosen
<1> HIDE DEF taken, there, away
<1>6. /\ Elements(next.installed) = Elements(taken) \cap there
      /\ Elements(next.failed) = Elements(taken) \cap away
  <2>1. \A keep : Elements(Among(taken, keep)) = Elements(taken) \cap keep
    BY <1>4, AmongElements
  <2> QED BY <1>3, <2>1
<1> HIDE DEF next
<1>7. ~HasExactVersionOf(next.failed, p)
  <2>1. p \notin Elements(taken)
    BY <1>5 DEF Chosen, Elements
  <2>2. p \notin Elements(next.failed)
    BY <1>6, <2>1
  <2> QED BY <2>2 DEF HasExactVersionOf, Elements
<1>8. ~HasSomeVersionOf(next.installed, p)
  <2>1. \A o \in Elements(next.installed) : o.name # p.name
    BY <1>6 DEF there, PluginExists
  <2> QED BY <2>1 DEF HasSomeVersionOf, Elements
<1> QED BY <1>1, <1>2, <1>7, <1>8, NothingNewLeft

\* One list after the other.
LEMMA Both ==
    ASSUME NEW a \in Seq(Actions), NEW b \in Seq(Actions) PROVE a \o b \in Seq(Actions)
BY ConcatProperties

LEMMA NoAction == <<>> \in Seq(Actions)
BY EmptySeq

\* The service to be deleted is the one the status remembers.
LEMMA ServiceActionsOK ==
    ASSUME ClusterOK, NEW c \in Resources
    PROVE  ServiceActions(c) \in Seq(Actions) /\ Previous(c) \in Services \cup {Absent}
<1>1. c.status.previous \in Services \cup {Absent} /\ ServiceName(c) \in Services
  BY ObjectsNamed DEF Resources, KnownStatuses
<1>2. CASE IsObsolete(c)
  <2>1. c.status.previous \in Services
    BY <1>1, <1>2 DEF IsObsolete, Differs
  <2>2. Remove(c.status.previous) \in Seq(Actions)
    BY <2>1, ObjectsNamed, RemoveOK
  <2>3. Previous(c) = Absent
    BY <1>2 DEF Previous, IsObsolete, Differs
  <2> QED BY <1>2, <2>2, <2>3 DEF ServiceActions
<1>3. CASE ~IsObsolete(c)
  <2>1. Make(ServiceName(c), Made) \in Seq(Actions)
    BY <1>1, ObjectsNamed, MadeOK, MakeOK
  <2>2. Previous(c) \in Services \cup {Absent}
    BY <1>1, <1>3 DEF Previous
  <2> QED BY <1>3, <2>1, <2>2 DEF ServiceActions
<1> QED BY <1>2, <1>3

LEMMA MakesOK ==
    ASSUME NEW c \in Resources
    PROVE  /\ \A o \in Objects : MakeUnlessSkipped(o) \in Seq(Actions)
           /\ ConfigActions(c) \in Seq(Actions) /\ DatasourceActions \in Seq(Actions)
           /\ \A plugins \in PluginLists : DeploymentActions(c, c.config, plugins) \in Seq(Actions)
<1>1. \A o \in Objects : MakeUnlessSkipped(o) \in Seq(Actions)
  BY MadeOK, MakeOK, NoAction DEF MakeUnlessSkipped
<1>2. ConfigActions(c) \in Seq(Actions)
  BY ObjectsNamed, MadeOK, MakeOK DEF ConfigActions
<1>3. DatasourceActions \in Seq(Actions)
  BY ObjectsNamed, MadeOK, MakeOK, NoAction DEF DatasourceActions
<1>4. ASSUME NEW plugins \in PluginLists PROVE DeploymentActions(c, c.config, plugins) \in Seq(Actions)
  <2>1. c.config \in Configs /\ <<>> \in PluginLists
    BY EmptyList DEF Resources, PluginLists
  <2> DEFINE there == IF cache["deployment"] = Absent THEN <<>> ELSE plugins
  <2>2. there \in PluginLists
    BY <2>1
  <2> HIDE DEF there
  <2>3. Template(c.config, there) \in Templates
    BY <2>1, <2>2, MadeOK
  <2>4. Make("deployment", Template(c.config, there)) \in Seq(Actions)
    BY <2>3, ObjectsNamed, MakeOK
  <2> QED BY <2>4 DEF DeploymentActions, there
<1> QED BY <1>1, <1>2, <1>3, <1>4

LEMMA AccessOK ==
    ASSUME ClusterOK, NEW c, NEW v
    PROVE  AccessActions(c, v) \in Seq(Actions) /\ ReadyActions(c, v) \in Seq(Actions)
<1> DEFINE door == Door(v.way)
           there == Read(v, door)
           new == IF v.way THEN Made ELSE NewIngress
<1>1. door \in Objects /\ new \in Templates
  BY ObjectsNamed, MadeOK
<1> HIDE DEF door, there, new
<1>2. MakeOver(there, door, new) \in Seq(Actions) /\ Remove(door) \in Seq(Actions)
  BY <1>1, MakeOK, RemoveOK
<1>3. AccessActions(c, v) \in Seq(Actions)
  <2>1. AccessActions(c, v) = CASE c.external -> MakeOver(there, door, new)
                                [] ~c.external /\ there # Absent -> Remove(door)
                                [] OTHER -> <<>>
    BY DEF AccessActions, door, there, new
  <2>2. CASE c.external
    BY <1>2, <2>1, <2>2
  <2>3. CASE ~c.external /\ there # Absent
    BY <1>2, <2>1, <2>3
  <2>4. CASE ~c.external /\ there = Absent
    BY <2>1, <2>4, NoAction
  <2> QED BY <2>2, <2>3, <2>4
<1>4. Ready(Read(v, Door(v.checks))) \in BOOLEAN /\ Ready(cache["deployment"]) \in BOOLEAN
  BY DEF Ready
<1>5. /\ Check(Ready(Read(v, Door(v.checks)))) \in Seq(Actions)
      /\ Check(Ready(cache["deployment"])) \in Seq(Actions)
  BY <1>4, CheckOK
<1> DEFINE first == IF c.external THEN Check(Ready(Read(v, Door(v.checks)))) ELSE <<>>
<1>6. first \in Seq(Actions)
  BY <1>5, NoAction
<1> HIDE DEF first
<1>7. ReadyActions(c, v) \in Seq(Actions)
  BY <1>5, <1>6, Both DEF ReadyActions, first
<1> QED BY <1>3, <1>7

\* A loop of the controller plans what objects can hold.
LEMMA PlanTyped == Typed /\ Plan => Typed'
<1> SUFFICES ASSUME Typed, Plan PROVE Typed'
  OBVIOUS
<1> DEFINE c == seenCr
           filter(requested) == FilterPlugins(c.status.installed, c.status.failed, requested)
           plugins(requested, missing) == NewPlugins(c.status, filter(requested), missing)
           planned(requested, missing) == [c.status EXCEPT !.previous = Previous(c),
                                           !.installed = plugins(requested, missing).installed,
                                           !.failed = plugins(requested, missing).failed]
           actions(requested, missing, v) ==
               MakeUnlessSkipped("secret") \o ServiceActions(c)
                   \o MakeUnlessSkipped("volume") \o MakeUnlessSkipped("account")
                   \o ConfigActions(c) \o DatasourceActions \o AccessActions(c, v)
                   \o DeploymentActions(c, c.config, plugins(requested, missing).installed) \o ReadyActions(c, v)
<1>1. \E requested \in Requested, missing \in {{}} \cup { {r.name} : r \in Requests }, v \in Views :
          /\ Call(CASE missing # {} -> "no plugin" [] Late(v) -> "late" [] OTHER -> "ok")
          /\ job' = [pc |-> "run", status |-> planned(requested, missing), stale |-> behind,
                     actions |-> actions(requested, missing, v), url |-> HasUrl(c, v)]
          /\ detected' = v.checks
          /\ UNCHANGED <<cluster, platform, pod, wanted, requests, panicked, orphans>>
  BY DEF Plan
<1>2. PICK requested \in Requested, missing \in {{}} \cup { {r.name} : r \in Requests }, v \in Views :
          /\ Call(CASE missing # {} -> "no plugin" [] Late(v) -> "late" [] OTHER -> "ok")
          /\ job' = [pc |-> "run", status |-> planned(requested, missing), stale |-> behind,
                     actions |-> actions(requested, missing, v), url |-> HasUrl(c, v)]
          /\ detected' = v.checks
          /\ UNCHANGED <<cluster, platform, pod, wanted, requests, panicked, orphans>>
  BY <1>1
<1> DEFINE ps == plugins(requested, missing)
<1>3. c \in Resources /\ c.status \in KnownStatuses /\ AroundOK /\ ClusterOK
  BY DEF Typed, ClusterOK, Resources
<1>4. ps.installed \in PluginLists /\ ps.failed \in PluginLists
  <2>1. requested \in Seq(PluginSet)
    BY <1>3, RequestedOK
  <2> QED BY <1>3, <2>1, NewPluginsOK
<1> HIDE DEF filter, plugins, c
<1>5. planned(requested, missing) \in KnownStatuses
  <2>1. Previous(c) \in Services \cup {Absent}
    BY <1>3, ServiceActionsOK
  <2> QED BY <1>3, <1>4, <2>1 DEF KnownStatuses
<1>6. actions(requested, missing, v) \in Seq(Actions)
  <2>1. /\ MakeUnlessSkipped("secret") \in Seq(Actions) /\ MakeUnlessSkipped("volume") \in Seq(Actions)
        /\ MakeUnlessSkipped("account") \in Seq(Actions)
    BY <1>3, MakesOK DEF Objects, Plain
  <2>2. ServiceActions(c) \in Seq(Actions)
    BY <1>3, ServiceActionsOK
  <2>3. ConfigActions(c) \in Seq(Actions) /\ DatasourceActions \in Seq(Actions)
    BY <1>3, MakesOK
  <2>4. DeploymentActions(c, c.config, ps.installed) \in Seq(Actions)
    BY <1>3, <1>4, MakesOK
  <2>5. AccessActions(c, v) \in Seq(Actions) /\ ReadyActions(c, v) \in Seq(Actions)
    BY <1>3, AccessOK
  <2> HIDE DEF ps
  <2>6. MakeUnlessSkipped("secret") \o ServiceActions(c) \in Seq(Actions)
    BY <2>1, <2>2, Both
  <2>7. MakeUnlessSkipped("secret") \o ServiceActions(c) \o MakeUnlessSkipped("volume") \in Seq(Actions)
    BY <2>1, <2>6, Both
  <2>8. MakeUnlessSkipped("secret") \o ServiceActions(c) \o MakeUnlessSkipped("volume")
           \o MakeUnlessSkipped("account") \in Seq(Actions)
    BY <2>1, <2>7, Both
  <2>9. MakeUnlessSkipped("secret") \o ServiceActions(c) \o MakeUnlessSkipped("volume")
           \o MakeUnlessSkipped("account") \o ConfigActions(c) \in Seq(Actions)
    BY <2>3, <2>8, Both
  <2>10. MakeUnlessSkipped("secret") \o ServiceActions(c) \o MakeUnlessSkipped("volume")
           \o MakeUnlessSkipped("account") \o ConfigActions(c) \o DatasourceActions \in Seq(Actions)
    BY <2>3, <2>9, Both
  <2>11. MakeUnlessSkipped("secret") \o ServiceActions(c) \o MakeUnlessSkipped("volume")
           \o MakeUnlessSkipped("account") \o ConfigActions(c) \o DatasourceActions
           \o AccessActions(c, v) \in Seq(Actions)
    BY <2>5, <2>10, Both
  <2>12. MakeUnlessSkipped("secret") \o ServiceActions(c) \o MakeUnlessSkipped("volume")
           \o MakeUnlessSkipped("account") \o ConfigActions(c) \o DatasourceActions
           \o AccessActions(c, v) \o DeploymentActions(c, c.config, ps.installed) \in Seq(Actions)
    BY <2>4, <2>11, Both
  <2>13. MakeUnlessSkipped("secret") \o ServiceActions(c) \o MakeUnlessSkipped("volume")
           \o MakeUnlessSkipped("account") \o ConfigActions(c) \o DatasourceActions
           \o AccessActions(c, v) \o DeploymentActions(c, c.config, ps.installed)
           \o ReadyActions(c, v) \in Seq(Actions)
    BY <2>5, <2>12, Both
  <2> QED BY <2>13 DEF ps
<1>7. JobOK(job')
  <2> HIDE DEF planned, actions
  <2> QED BY <1>2, <1>5, <1>6 DEF JobOK
<1>8. disturbed' \in 0..MaxDisturb
  <2> DEFINE outcome == CASE missing # {} -> "no plugin" [] Late(v) -> "late" [] OTHER -> "ok"
  <2>1. Call(outcome)
    BY <1>2
  <2> HIDE DEF outcome
  <2> QED BY <1>3, <2>1, Counted DEF AroundOK
<1>9. ClusterOK' /\ PodOK'
  BY <1>2 DEF Typed, ClusterOK, PodOK, cluster
<1>10. AroundOK'
  BY <1>2, <1>3, <1>8 DEF AroundOK, Views
<1>11. JobOK(job)'
  BY <1>7 DEF JobOK
<1> QED BY <1>9, <1>10, <1>11 DEF Typed


-----------------------------------------------------------------------------
(* Running the plan, and the status.                                        *)

\* An object of the cluster takes a new content; the resource is none of them.
LEMMA ChangedOK ==
    ASSUME ClusterOK, NEW o \in Objects, NEW value \in Contents, Changed(o, value)
    PROVE  ClusterOK'
<1>1. api' \in [Objects -> Contents] /\ cr' \in Resources /\ seenCr' \in Resources
  BY DEF ClusterOK, Changed
<1>2. CASE o \in Lagging
  <2>1. behind' = behind \cup {o} /\ cache' = cache
    BY <1>2 DEF Changed
  <2>2. \A x \in Objects \ behind' : cache'[x] = api'[x]
    BY <2>1 DEF ClusterOK, Changed
  <2> QED BY <1>1, <1>2, <2>1, <2>2 DEF ClusterOK
<1>3. CASE o \notin Lagging
  <2>1. behind' = behind /\ cache' = [cache EXCEPT ![o] = value]
    BY <1>3 DEF Changed
  <2>2. \A x \in Objects \ behind' : cache'[x] = api'[x]
    BY <2>1 DEF ClusterOK, Changed
  <2>3. cache' \in [Objects -> Contents]
    BY <2>1 DEF ClusterOK
  <2> QED BY <1>1, <2>1, <2>2, <2>3 DEF ClusterOK
<1> QED BY <1>2, <1>3

LEMMA ChangedCrOK ==
    ASSUME ClusterOK, NEW resource \in Resources, ChangedCr(resource)
    PROVE  ClusterOK'
<1>1. cr' \in Resources /\ seenCr' \in Resources /\ behind' \subseteq Lagging
  BY DEF ClusterOK, ChangedCr
<1>2. \A x \in Objects \ behind' : cache'[x] = api'[x]
  <2>1. behind \subseteq behind' /\ cache' = cache /\ api' = api
    BY DEF ChangedCr
  <2> QED BY <2>1 DEF ClusterOK
<1> QED BY <1>1, <1>2 DEF ClusterOK, ChangedCr

LEMMA SameCluster == ASSUME ClusterOK, UNCHANGED cluster PROVE ClusterOK'
BY DEF ClusterOK, cluster

\* What an action that does not fail makes of its object.
LEMMA ResultOK ==
    ASSUME ClusterOK, NEW a \in Actions, ~Fails(a), HasEffect(a)
    PROVE  a.obj \in Objects /\ Result(a) \in Contents
<1>1. a.obj \in Objects /\ a.op \in {"create", "update", "delete", "check"} /\ a.op # "check"
  BY DEF Actions, HasEffect
<1>2. CASE a.op = "delete"
  BY <1>1, <1>2 DEF Result, Contents
<1>3. CASE a.op = "create"
  BY <1>1, <1>3 DEF Result, Contents, Actions
<1>4. CASE a.op = "update"
  <2>1. a.value \in Templates /\ api[a.obj] # Absent /\ api[a.obj] \in Contents
    BY <1>1, <1>4 DEF Actions, Fails, ClusterOK
  <2>2. api[a.obj].ready \in BOOLEAN
    BY <2>1 DEF Contents, Templates
  <2>3. [a.value EXCEPT !.ready = api[a.obj].ready] \in Templates
    BY <2>1, <2>2 DEF Templates
  <2> QED BY <1>1, <1>4, <2>3 DEF Result, Contents
<1> QED BY <1>1, <1>2, <1>3, <1>4

LEMMA IdleOK == JobOK(IdleJob)
<1>1. <<>> \in PluginLists /\ <<>> \in Seq(Actions)
  BY EmptyList, NoAction DEF PluginLists
<1>2. NoStatus \in KnownStatuses
  BY <1>1 DEF NoStatus, KnownStatuses
<1> QED BY <1>1, <1>2 DEF JobOK, IdleJob

LEMMA RunTyped == Typed /\ RunAction => Typed'
<1> SUFFICES ASSUME Typed, RunAction PROVE Typed'
  OBVIOUS
<1> DEFINE a == Head(job.actions)
           failed(outcome) == outcome = "err" \/ Fails(a)
<1>1. \E outcome \in {"ok", "err"} :
          /\ job.actions # <<>> /\ Call(outcome)
          /\ IF ~failed(outcome) /\ HasEffect(a) THEN Changed(a.obj, Result(a)) ELSE UNCHANGED cluster
          /\ job' = [job EXCEPT !.pc = IF failed(outcome) THEN "failed" ELSE "run",
                                !.actions = IF failed(outcome) THEN <<>> ELSE Tail(@),
                                !.stale = IF failed(outcome) THEN @ \cap {"cr"} ELSE @ \ {a.obj}]
          /\ orphans' = orphans \cup IF failed(outcome) THEN { s \in Forgotten(job.actions) : api[s] # Absent }
                                  ELSE Mistaken(a)
          /\ UNCHANGED <<platform, detected, pod, wanted, requests, panicked>>
  BY DEF RunAction
<1>2. PICK outcome \in {"ok", "err"} :
          /\ job.actions # <<>> /\ Call(outcome)
          /\ IF ~failed(outcome) /\ HasEffect(a) THEN Changed(a.obj, Result(a)) ELSE UNCHANGED cluster
          /\ job' = [job EXCEPT !.pc = IF failed(outcome) THEN "failed" ELSE "run",
                                !.actions = IF failed(outcome) THEN <<>> ELSE Tail(@),
                                !.stale = IF failed(outcome) THEN @ \cap {"cr"} ELSE @ \ {a.obj}]
          /\ orphans' = orphans \cup IF failed(outcome) THEN { s \in Forgotten(job.actions) : api[s] # Absent }
                                  ELSE Mistaken(a)
          /\ UNCHANGED <<platform, detected, pod, wanted, requests, panicked>>
  BY <1>1
<1>3. job.actions \in Seq(Actions) /\ ClusterOK /\ JobOK(job) /\ AroundOK
  BY DEF Typed, JobOK
<1>4. a \in Actions /\ Tail(job.actions) \in Seq(Actions)
  BY <1>2, <1>3, HeadTailProperties
<1> HIDE DEF a
<1>5. ClusterOK'
  <2>1. CASE ~failed(outcome) /\ HasEffect(a)
    <3>1. a.obj \in Objects /\ Result(a) \in Contents /\ Changed(a.obj, Result(a))
      BY <1>2, <1>3, <1>4, <2>1, ResultOK
    <3> QED BY <1>3, <3>1, ChangedOK
  <2>2. CASE ~(~failed(outcome) /\ HasEffect(a))
    BY <1>2, <1>3, <2>2, SameCluster
  <2> QED BY <2>1, <2>2
<1>6. JobOK(job)'
  <2> DEFINE rest == IF failed(outcome) THEN <<>> ELSE Tail(job.actions)
             left == IF failed(outcome) THEN job.stale \cap {"cr"} ELSE job.stale \ {a.obj}
             pc == IF failed(outcome) THEN "failed" ELSE "run"
  <2>1. rest \in Seq(Actions) /\ pc \in {"run", "failed"}
    BY <1>4, NoAction
  <2>2. job' = [job EXCEPT !.pc = pc, !.actions = rest, !.stale = left]
    BY <1>2
  <2> HIDE DEF rest, left, pc
  <2> QED BY <1>3, <2>1, <2>2 DEF JobOK
<1>7. AroundOK'
  <2>1. disturbed' \in 0..MaxDisturb
    BY <1>2, <1>3, Counted DEF AroundOK
  <2>2. Mistaken(a) \subseteq {"ingress"} /\ Forgotten(job.actions) \subseteq Services
    BY DEF Mistaken, Forgotten
  <2>3. orphans' \subseteq Services \cup {"ingress"}
    BY <1>2, <1>3, <2>2 DEF AroundOK
  <2> HIDE DEF failed
  <2> QED BY <1>2, <1>3, <2>1, <2>3 DEF AroundOK
<1>8. PodOK'
  BY <1>2 DEF Typed, PodOK
<1> QED BY <1>5, <1>6, <1>7, <1>8 DEF Typed

\* The status is written as it was planned.
LEMMA WriteStatusOK ==
    ASSUME ClusterOK, NEW status \in KnownStatuses, WriteStatus(status)
    PROVE  ClusterOK'
<1>1. CASE "cr" \in job.stale
  BY <1>1, SameCluster DEF WriteStatus
<1>2. CASE "cr" \notin job.stale
  <2>1. [cr EXCEPT !.status = status] \in Resources
    BY DEF ClusterOK, Resources
  <2> QED BY <1>2, <2>1, ChangedCrOK DEF WriteStatus
<1> QED BY <1>1, <1>2

LEMMA SuccessTyped == Typed /\ ManageSuccess => Typed'
<1> SUFFICES ASSUME Typed, ManageSuccess PROVE Typed'
  OBVIOUS
<1> DEFINE status == [job.status EXCEPT !.phase = "reconciling"]
<1>1. status \in KnownStatuses
  BY DEF Typed, JobOK, KnownStatuses
<1>2. (IF status # seenCr.status THEN WriteStatus(status) ELSE UNCHANGED cluster)
  BY DEF ManageSuccess
<1> HIDE DEF status
<1>3. ClusterOK'
  BY <1>1, <1>2, WriteStatusOK, SameCluster DEF Typed
<1>4. JobOK(job)'
  <2>1. job' = [job EXCEPT !.pc = "failed"] \/ job' = IdleJob
    BY DEF ManageSuccess
  <2>2. CASE job' = IdleJob
    <3>1. JobOK(IdleJob)
      BY IdleOK
    <3> QED BY <2>2, <3>1 DEF JobOK
  <2>3. CASE job' = [job EXCEPT !.pc = "failed"]
    BY <2>3 DEF Typed, JobOK
  <2> QED BY <2>1, <2>2, <2>3
<1>5. PodOK' /\ AroundOK'
  BY DEF Typed, PodOK, AroundOK, ManageSuccess
<1> QED BY <1>3, <1>4, <1>5 DEF Typed

LEMMA ErrorTyped == Typed /\ ManageError => Typed'
<1> SUFFICES ASSUME Typed, ManageError PROVE Typed'
  OBVIOUS
<1> DEFINE status == [job.status EXCEPT !.phase = "failing"]
<1>1. status \in KnownStatuses
  BY DEF Typed, JobOK, KnownStatuses
<1>2. (IF status # seenCr.status THEN WriteStatus(status) ELSE UNCHANGED cluster)
  BY DEF ManageError
<1> HIDE DEF status
<1>3. ClusterOK'
  BY <1>1, <1>2, WriteStatusOK, SameCluster DEF Typed
<1>4. JobOK(job)'
  <2>1. JobOK(IdleJob) /\ job' = IdleJob
    BY IdleOK DEF ManageError
  <2> QED BY <2>1 DEF JobOK
<1>5. PodOK' /\ AroundOK'
  BY DEF Typed, PodOK, AroundOK, ManageError
<1> QED BY <1>3, <1>4, <1>5 DEF Typed


-----------------------------------------------------------------------------
(* What happens around the controller.                                      *)

\* Of the loop under way only what is out of date changes.
LEMMA StaleOK == ASSUME JobOK(job), NEW o, Stale(o) PROVE JobOK(job)'
<1>1. job' = job \/ \E left : job' = [job EXCEPT !.stale = left]
  BY DEF Stale
<1>2. CASE job' = job
  BY <1>2 DEF JobOK
<1>3. CASE \E left : job' = [job EXCEPT !.stale = left]
  <2>1. PICK left : job' = [job EXCEPT !.stale = left]
    BY <1>3
  <2> QED BY <2>1 DEF JobOK
<1> QED BY <1>1, <1>2, <1>3

LEMMA SpecTyped ==
    ASSUME Typed, NEW resource \in Resources, NEW kind, ChangeSpec(resource, kind)
    PROVE  Typed'
<1>1. ClusterOK' /\ JobOK(job)'
  BY ChangedCrOK, StaleOK DEF Typed, ChangeSpec
<1>2. disturbed' \in 0..MaxDisturb
  BY Counted DEF Typed, AroundOK, ChangeSpec
<1>3. orphans' \subseteq Services \cup {"ingress"}
  <2>1. Unremembered \subseteq Services
    BY ObjectsNamed DEF Unremembered
  <2> QED BY <2>1 DEF Typed, AroundOK, ChangeSpec
<1>4. AroundOK' /\ PodOK'
  BY <1>2, <1>3 DEF Typed, AroundOK, PodOK, ChangeSpec
<1> QED BY <1>1, <1>4 DEF Typed

LEMMA SpecsTyped == Typed /\ (ChangeConfig \/ Rename \/ ChangeAccess) => Typed'
<1> SUFFICES ASSUME Typed PROVE ChangeConfig \/ Rename \/ ChangeAccess => Typed'
  OBVIOUS
<1>1. cr \in Resources
  BY DEF Typed, ClusterOK
<1>2. ASSUME ChangeConfig PROVE Typed'
  <2>1. PICK c \in Configs : ChangeSpec([cr EXCEPT !.config = c], "config")
    BY <1>2 DEF ChangeConfig
  <2>2. [cr EXCEPT !.config = c] \in Resources
    BY <1>1 DEF Resources
  <2> QED BY <2>1, <2>2, SpecTyped
<1>3. ASSUME Rename PROVE Typed'
  <2>1. PICK s \in ServiceSpecs : ChangeSpec([cr EXCEPT !.service = s], "rename")
    BY <1>3 DEF Rename
  <2>2. [cr EXCEPT !.service = s] \in Resources
    BY <1>1 DEF Resources
  <2> QED BY <2>1, <2>2, SpecTyped
<1>4. ASSUME ChangeAccess PROVE Typed'
  <2>1. [cr EXCEPT !.external = ~@] \in Resources
    BY <1>1 DEF Resources
  <2> QED BY <1>4, <2>1, SpecTyped DEF ChangeAccess
<1> QED BY <1>2, <1>3, <1>4

LEMMA RequestsTyped ==
    ASSUME Typed, NEW r \in Requests, WantPlugins(r) \/ Register(r)
    PROVE  Typed'
<1>1. ClusterOK' /\ JobOK(job)' /\ PodOK'
  BY DEF Typed, ClusterOK, JobOK, PodOK, WantPlugins, Register, cluster
<1>2. disturbed' \in 0..MaxDisturb
  BY Counted DEF Typed, AroundOK, WantPlugins, Register
<1>3. AroundOK'
  BY <1>2 DEF Typed, AroundOK, WantPlugins, Register
<1> QED BY <1>1, <1>3 DEF Typed

LEMMA TouchTyped == ASSUME Typed, NEW o \in Objects, Touch(o) PROVE Typed'
<1>1. ClusterOK' /\ PodOK'
  BY DEF Typed, ClusterOK, PodOK, Touch, cluster
<1>2. JobOK(job)'
  BY StaleOK DEF Typed, Touch
<1>3. disturbed' \in 0..MaxDisturb
  BY Counted DEF Typed, AroundOK, Touch
<1>4. AroundOK'
  BY <1>3 DEF Typed, AroundOK, Touch
<1> QED BY <1>1, <1>2, <1>4 DEF Typed

\* A cache takes over what the API server has.
LEMMA CatchUpTyped == ASSUME Typed, NEW o \in Objects \cup {"cr"}, CatchUp(o) PROVE Typed'
<1>1. JobOK(job)' /\ PodOK' /\ AroundOK'
  BY DEF Typed, JobOK, PodOK, AroundOK, CatchUp
<1>2. CASE o = "cr"
  <2>1. seenCr' = cr /\ cache' = cache /\ behind' = behind \ {"cr"} /\ cr' = cr /\ api' = api
    BY <1>2 DEF CatchUp
  <2>2. \A x \in Objects \ behind' : x \in Objects \ behind
    BY <2>1, ObjectAssumption
  <2> QED BY <1>1, <2>1, <2>2 DEF Typed, ClusterOK
<1>3. CASE o # "cr"
  <2>1. /\ seenCr' = seenCr /\ cache' = [cache EXCEPT ![o] = api[o]]
        /\ behind' = behind \ {o} /\ cr' = cr /\ api' = api /\ o \in Objects
    BY <1>3 DEF CatchUp
  <2> QED BY <1>1, <2>1 DEF Typed, ClusterOK
<1> QED BY <1>2, <1>3

\* What Kubernetes reports about an object leaves its plugins alone.
LEMMA ReportedOK ==
    ASSUME ClusterOK, NEW o \in Objects, api[o] # Absent, NEW ready \in BOOLEAN
    PROVE  [api[o] EXCEPT !.ready = ready] \in Contents /\ api[o].plugins \in PluginLists
<1>1. api[o] \in Templates
  BY DEF ClusterOK, Contents
<1> QED BY <1>1 DEF Templates, Contents

LEMMA KubernetesTyped == Typed /\ Kubernetes => Typed'
<1> SUFFICES ASSUME Typed PROVE Kubernetes => Typed'
  OBVIOUS
<1>1. ASSUME Progress PROVE Typed'
  <2>1. "deployment" \in Objects /\ api["deployment"] # Absent
    BY <1>1, ObjectsNamed DEF Progress, RolledOut
  <2>2. [api["deployment"] EXCEPT !.ready = FALSE] \in Contents
    BY <2>1, ReportedOK DEF Typed
  <2>3. ClusterOK' /\ JobOK(job)'
    BY <1>1, <2>1, <2>2, ChangedOK, StaleOK DEF Typed, Progress
  <2>4. PodOK' /\ AroundOK'
    BY <1>1 DEF Typed, PodOK, AroundOK, Progress
  <2> QED BY <2>3, <2>4 DEF Typed
<1>2. ASSUME Rollout PROVE Typed'
  <2>1. "deployment" \in Objects /\ api["deployment"] # Absent
    BY <1>2, ObjectsNamed DEF Rollout
  <2>2. [api["deployment"] EXCEPT !.ready = TRUE] \in Contents /\ api["deployment"].plugins \in PluginLists
    BY <2>1, ReportedOK DEF Typed
  <2>3. ClusterOK' /\ JobOK(job)'
    BY <1>2, <2>1, <2>2, ChangedOK, StaleOK DEF Typed, Rollout
  <2>4. PodOK'
    BY <1>2, <2>2 DEF Typed, PodOK, Rollout
  <2>5. AroundOK'
    BY <1>2 DEF Typed, AroundOK, Rollout
  <2> QED BY <2>3, <2>4, <2>5 DEF Typed
<1>3. ASSUME AssignAddress PROVE Typed'
  <2>1. "ingress" \in Objects /\ api["ingress"] # Absent
    BY <1>3, ObjectsNamed DEF AssignAddress
  <2>2. [api["ingress"] EXCEPT !.ready = TRUE] \in Contents
    BY <2>1, ReportedOK DEF Typed
  <2>3. ClusterOK' /\ JobOK(job)'
    BY <1>3, <2>1, <2>2, ChangedOK, StaleOK DEF Typed, AssignAddress
  <2>4. PodOK' /\ AroundOK'
    BY <1>3 DEF Typed, PodOK, AroundOK, AssignAddress
  <2> QED BY <2>3, <2>4 DEF Typed
<1> QED BY <1>1, <1>2, <1>3 DEF Kubernetes

LEMMA RestartTyped == Typed /\ Restart => Typed'
<1> SUFFICES ASSUME Typed, Restart PROVE Typed'
  OBVIOUS
<1>1. ClusterOK' /\ PodOK'
  BY DEF Typed, ClusterOK, PodOK, Restart
<1>2. JobOK(job)'
  <2>1. JobOK(IdleJob) /\ job' = IdleJob
    BY IdleOK DEF Restart
  <2> QED BY <2>1 DEF JobOK
<1>3. disturbed' \in 0..MaxDisturb
  BY Counted DEF Typed, AroundOK, Restart, Undisturbed
<1>4. AroundOK'
  BY <1>3 DEF Typed, AroundOK, Restart
<1> QED BY <1>1, <1>2, <1>4 DEF Typed

-----------------------------------------------------------------------------
(* The theorems.                                                            *)

LEMMA InitTyped == Init => Typed
<1> SUFFICES ASSUME Init PROVE Typed
  OBVIOUS
<1>1. NoStatus \in KnownStatuses /\ <<>> \in PluginLists
  BY EmptyList DEF NoStatus, KnownStatuses, PluginLists
<1>2. cr \in Resources
  <2>1. PICK c \in Created : cr = [config |-> c.config, service |-> c.service,
                                    external |-> c.external, status |-> NoStatus]
    BY DEF Init
  <2> QED BY <1>1, <2>1, CreatedAssumption DEF Resources, ServiceSpecs
<1>3. ClusterOK
  BY <1>2 DEF Init, ClusterOK, Contents
<1>4. JobOK(job)
  BY IdleOK DEF Init
<1>5. PodOK
  BY <1>1 DEF Init, PodOK, NoPod
<1>6. AroundOK
  <2>1. disturbed = 0 /\ MaxDisturb \in Nat /\ detected = FALSE /\ panicked = FALSE
    BY BoundAssumption DEF Init
  <2>2. platform \in Clusters /\ wanted = {} /\ requests = {} /\ orphans = {}
    BY DEF Init
  <2>3. disturbed \in 0..MaxDisturb
    BY <2>1
  <2> QED BY <2>1, <2>2, <2>3 DEF AroundOK
<1> QED BY <1>3, <1>4, <1>5, <1>6 DEF Typed

LEMMA NextTyped == Typed /\ [Next]_vars => Typed'
<1> SUFFICES ASSUME Typed, [Next]_vars PROVE Typed'
  OBVIOUS
<1>1. CASE UNCHANGED vars
  BY <1>1 DEF vars, cluster, Typed, ClusterOK, JobOK, PodOK, AroundOK
<1>2. CASE Loop
  <2>1. CASE PanicPlanning
    BY <2>1 DEF PanicPlanning, cluster, Typed, ClusterOK, JobOK, PodOK, AroundOK
  <2> QED BY <1>2, <2>1, PlanTyped, RunTyped, SuccessTyped, ErrorTyped DEF Loop
<1>3. CASE Kubernetes
  BY <1>3, KubernetesTyped
<1>4. CASE ChangeConfig \/ Rename \/ ChangeAccess
  BY <1>4, SpecsTyped
<1>5. CASE \E r \in Requests : WantPlugins(r) \/ Register(r)
  BY <1>5, RequestsTyped
<1>6. CASE \E o \in Objects : Touch(o)
  BY <1>6, TouchTyped
<1>7. CASE \E o \in Lagging : CatchUp(o)
  BY <1>7, CatchUpTyped, ObjectAssumption
<1>8. CASE Restart
  BY <1>8, RestartTyped
<1> QED BY <1>1, <1>2, <1>3, <1>4, <1>5, <1>6, <1>7, <1>8 DEF Next

\* Whatever the resource, the dashboards, the faults and the lags of the caches,
\* the state keeps the types of the code, and a cache that is not behind agrees
\* with the API server.  It holds because a loop plans nothing but actions on
\* objects, deletes a service only under a name the status has, and updates an
\* object only with what it planned for it (grafana_reconciler.go and the
\* clusterActionRunner in controllers/common).
THEOREM TypesKept == Spec => []TypeOK
<1>1. Init => Typed
  BY InitTyped
<1>2. Typed /\ [Next]_vars => Typed'
  BY NextTyped
<1>3. Typed => TypeOK
  BY TypedImpliesTypeOK
<1> QED BY <1>1, <1>2, <1>3, PTL DEF Spec

\* Whatever the dashboards ask for and in whatever order ControllerConfig lists
\* it, also through conflicts, failed writes, stale caches and restarts between
\* the choice of the plugins and the start of the pod, neither the status nor the
\* deployment nor the running Grafana ever has a plugin in two versions or twice
\* (FilterPlugins and reconcilePlugins).
THEOREM OneVersionKept == Spec => []OneVersion
<1>1. Init => Typed
  BY InitTyped
<1>2. Typed /\ [Next]_vars => Typed'
  BY NextTyped
<1>3. Typed => OneVersion
  BY TypedImpliesTypeOK
<1> QED BY <1>1, <1>2, <1>3, PTL DEF Spec
=============================================================================
