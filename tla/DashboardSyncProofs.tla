------------------------- MODULE DashboardSyncProofs -------------------------
(***************************************************************************)
(* Theorems about DashboardSync, for any resources, namespaces, reconcilers,  *)
(* goroutines and faults.  The types, with the views of the known list, hold  *)
(* for any number of goroutines; what the references say about Grafana holds  *)
(* for one goroutine, whatever its surroundings do (two goroutines break it).  *)
(***************************************************************************)
EXTENDS DashboardSync, GoSlicesProofs, SequenceTheorems

-----------------------------------------------------------------------------
(* The known list as DashboardSync uses it: what a search finds, and what it  *)
(* is to erase all hashes through the pointers.                              *)

\* HasDashboard answers 0 exactly if no reference has the uid, and otherwise
\* the index of a reference with this uid.
LEMMA HasDashboardFinds ==
    ASSUME NEW Ref, NEW s, IsSlice(s, Ref), NEW uid
    PROVE  /\ HasDashboard(s, uid) \in 0..s.len
           /\ HasDashboard(s, uid) = 0 => \A i \in 1..s.len : s.cells[i].uid # uid
           /\ HasDashboard(s, uid) # 0 => s.cells[HasDashboard(s, uid)].uid = uid
<1>1. IndicesOf(s, uid) \in SUBSET Nat /\ s.len \in Nat
  BY DEF IndicesOf, IsSlice
<1>2. CASE IndicesOf(s, uid) = {}
  BY <1>1, <1>2 DEF HasDashboard, IndicesOf
<1>3. CASE IndicesOf(s, uid) # {}
  <2>1. Least(IndicesOf(s, uid)) \in IndicesOf(s, uid)
    BY <1>1, <1>3, LeastProperties
  <2>2. HasDashboard(s, uid) \in IndicesOf(s, uid)
    BY <1>3, <2>1 DEF HasDashboard
  <2> QED BY <1>1, <2>2 DEF IndicesOf
<1> QED BY <1>2, <1>3

LEMMA BlankedOK ==
    ASSUME NEW Ref, NEW s, IsSlice(s, Ref), NEW refs \in SUBSET Ref,
           \A r \in Ref : Blank(r) \in Ref
    PROVE  /\ IsSlice(Blanked(s, refs), Ref)
           /\ Blanked(s, refs).len = s.len
           /\ \A k \in 1..s.len : Blanked(s, refs).cells[k] =
                                  IF s.cells[k] \in refs THEN Blank(s.cells[k]) ELSE s.cells[k]
BY DEF IsSlice, Blanked

\* What GetDashboards returns is a well-formed list, copy or not.
LEMMA GetDashboardsOK ==
    ASSUME NEW Ref, NEW s, IsSlice(s, Ref), NEW all \in BOOLEAN
    PROVE  /\ IsSlice(Seen(GetDashboards(s, all), s), Ref)
           /\ GetDashboards(s, all).live \in BOOLEAN
           /\ GetDashboards(s, all).slice.len \in Nat
<1>1. IsSlice(CopyOf(s, s.len), Ref) /\ CopyOf(s, s.len).len = s.len
  BY CopyOK DEF IsSlice, CopyOf
<1> QED BY <1>1 DEF IsSlice, GetDashboards, Copied, Shared, Seen

LEMMA SeenBlanked ==
    ASSUME NEW Ref, NEW s, NEW v, v.live \in BOOLEAN, v.slice.len \in Nat,
           IsSlice(s, Ref), IsSlice(Seen(v, s), Ref), \A r \in Ref : Blank(r) \in Ref
    PROVE  /\ IsSlice(Seen(Blanking(v, s), Invalidated(s)), Ref)
           /\ Blanking(v, s).live \in BOOLEAN
           /\ Blanking(v, s).slice.len \in Nat
<1>1. RefsIn(s) \in SUBSET Ref
  BY DEF RefsIn, IsSlice
<1>2. CASE v.live
  <2>1. IsSlice(Invalidated(s), Ref)
    BY <1>1, BlankedOK DEF Invalidated
  <2>2. /\ Invalidated(s).cap = s.cap
        /\ \A k \in 1..s.cap : s.cells[k] \in Ref => Invalidated(s).cells[k] \in Ref
    BY <1>1 DEF Invalidated, Blanked, IsSlice
  <2>3. IsSlice(Seen(v, Invalidated(s)), Ref)
    BY <2>1, <2>2, SeenInPlace
  <2> QED BY <1>2, <2>3 DEF Blanking
<1>3. CASE ~v.live
  <2>1. IsSlice(v.slice, Ref)
    BY <1>3 DEF Seen
  <2>2. IsSlice(Blanked(v.slice, RefsIn(s)), Ref)
    BY <1>1, <2>1, BlankedOK
  <2>3. Blanked(v.slice, RefsIn(s)).len = v.slice.len
    BY DEF Blanked
  <2> QED BY <1>3, <2>2, <2>3 DEF Blanking, Seen
<1> QED BY <1>2, <1>3

-----------------------------------------------------------------------------
(* The parts of a pass: which changes of a job leave it well formed.         *)

\* Between two passes, and about to list, a goroutine has nothing in hand.
LEMMA IdleJobOK == JobOK(IdleJob) /\ JobOK([IdleJob EXCEPT !.pc = "list"])
BY DEF JobOK, IdleJob, NothingListed, Jobs, Phases, Submitting, Deleting

LEMMA ListedJobOK ==
    ASSUME NEW j, JobOK(j), NEW list \in [Names -> Specs \cup {NoCR}]
    PROVE  JobOK([j EXCEPT !.pc = "next", !.list = list,
                           !.todo = { n \in Names : list[n] # NoCR }])
BY DEF JobOK, Jobs, Phases, Submitting, Deleting

LEMMA ContinuedJobOK ==
    ASSUME NEW j, JobOK(j)
    PROVE  JobOK([j EXCEPT !.pc = "next", !.cur = NoName, !.ref = NoRef, !.fid = 0, !.slot = 0])
BY DEF JobOK, Jobs, Phases, Submitting, Deleting

LEMMA SkippedJobOK ==
    ASSUME NEW j, JobOK(j), NEW n \in j.todo
    PROVE  JobOK([j EXCEPT !.todo = @ \ {n}])
BY DEF JobOK, Jobs

\* A resource taken from the list, with or without the id of its folder.
LEMMA TakenJobOK ==
    ASSUME NEW j, JobOK(j), NEW n \in j.todo, NEW fid \in Nat
    PROVE  /\ JobOK([[j EXCEPT !.todo = @ \ {n}] EXCEPT !.pc = "check", !.cur = n, !.fid = fid])
           /\ JobOK([[j EXCEPT !.todo = @ \ {n}] EXCEPT !.pc = "mkdir", !.cur = n])
BY DEF JobOK, Jobs, Phases, Submitting, Deleting

LEMMA SubmittingJobOK ==
    ASSUME NEW j, JobOK(j), j.pc \in Submitting, NEW pc \in Submitting
    PROVE  /\ JobOK([j EXCEPT !.pc = pc])
           /\ \A k \in Nat : JobOK([j EXCEPT !.pc = pc, !.fid = k])
           /\ \A k \in Nat : JobOK([j EXCEPT !.pc = pc, !.slot = k])
BY DEF JobOK, Jobs, Phases, Submitting, Deleting

LEMMA DeletingJobOK ==
    ASSUME NEW j, JobOK(j)
    PROVE  /\ \A r \in Refs : JobOK([j EXCEPT !.pc = "unplug", !.ref = r])
           /\ j.pc \in Deleting =>
                \A k \in Nat : /\ JobOK([j EXCEPT !.pc = "drop", !.slot = k])
                               /\ JobOK([j EXCEPT !.pc = "rmdir", !.fid = k, !.slot = 0])
<1>1. ASSUME NEW r \in Refs PROVE JobOK([j EXCEPT !.pc = "unplug", !.ref = r])
  BY DEF JobOK, Jobs, Phases, Submitting, Deleting
<1>2. ASSUME NEW k \in Nat, j.pc \in Deleting PROVE JobOK([j EXCEPT !.pc = "drop", !.slot = k])
  BY <1>2 DEF JobOK, Jobs, Phases, Submitting, Deleting
<1>3. ASSUME NEW k \in Nat, j.pc \in Deleting
      PROVE  JobOK([j EXCEPT !.pc = "rmdir", !.fid = k, !.slot = 0])
  BY <1>3 DEF JobOK, Jobs, Phases, Submitting, Deleting
<1> QED BY <1>1, <1>2, <1>3

\* The resource in hand is on the list, and what is computed from it typed.
LEMMA WantedOK ==
    ASSUME NEW w, JobOK(job[w]), job[w].pc \in Submitting
    PROVE  /\ job[w].cur \in Names /\ Wanted(w) \in Specs /\ TargetUid(w) \in UIDs
           /\ job[w].fid \in Nat
           /\ FolderName(job[w].cur, Wanted(w)) \in Namespaces \cup Folders
           /\ NewRef(w) \in Refs
<1>1. job[w].cur \in Names /\ Wanted(w) \in Specs /\ job[w].fid \in Nat
  BY DEF JobOK, Jobs, Wanted
<1>2. Wanted(w).json \in Jsons /\ Wanted(w).folder \in Folders \cup {NoTitle}
  BY <1>1 DEF Specs
<1>3. TargetUid(w) \in UIDs
  BY <1>1, <1>2 DEF TargetUid, UIDs
<1>4. NsOf[job[w].cur] \in Namespaces
  BY <1>1 DEF Namespaces
<1>5. FolderName(job[w].cur, Wanted(w)) \in Namespaces \cup Folders
  BY <1>2, <1>4 DEF FolderName
<1>6. Hash(job[w].cur, Wanted(w)) \in Hashes
  BY <1>2, <1>4 DEF Hash, Hashes
<1>7. NewRef(w) \in Refs
  BY <1>1, <1>2, <1>3, <1>4, <1>5, <1>6 DEF NewRef, Refs
<1> QED BY <1>1, <1>3, <1>5, <1>7

LEMMA BlankRefOK == \A r \in Refs : Blank(r) \in Refs
BY DEF Refs, Blank

LEMMA NoViewOK == ASSUME NEW s PROVE ViewOK(NoView, s)
<1>1. IsSlice(EmptySlice, Refs) /\ EmptySlice.len = 0
  BY EmptySliceOK DEF EmptySlice
<1> QED BY <1>1 DEF ViewOK, NoView, Seen

-----------------------------------------------------------------------------
(* What a step does to the passes: if one job changes into a well-formed one *)
(* and the known list and the views stay, the passes stay well formed.       *)

Others(w) == \A v \in Workers \ {w} : job'[v] = job[v]

LEMMA BecomeOK ==
    ASSUME PassOK, NEW w \in Workers, NEW j, Become(w, j), JobOK(j), known' = known
    PROVE  PassOK'
BY DEF PassOK, Become

LEMMA IdleOK ==
    ASSUME PassOK, NEW w \in Workers, Idle(w),
           \A v \in Workers : ViewOK(view[v], known')
    PROVE  PassOK'
BY IdleJobOK, NoViewOK DEF PassOK, Idle, ToDeleteOK, NothingToDelete

LEMMA ContinueOK ==
    ASSUME PassOK, NEW w \in Workers, Continue(w),
           \A v \in Workers : ViewOK(view[v], known')
    PROVE  PassOK'
BY ContinuedJobOK DEF PassOK, Continue, Become

LEMMA CallOK ==
    ASSUME disturbed \in 0..MaxDisturb, NEW outcome, Call(outcome)
    PROVE  disturbed' \in 0..MaxDisturb
BY BoundAssumption DEF Call, Undisturbed

-----------------------------------------------------------------------------
(* TypeOK is preserved, action by action.                                    *)

LEMMA StartPassOK ==
    ASSUME TypeOK, NEW w \in Workers, NEW all \in BOOLEAN, StartPass(w, all), known' = known
    PROVE  PassOK'
<1>1. ViewOK(GetDashboards(known, all), known)
  BY GetDashboardsOK DEF TypeOK, ViewOK
<1> QED BY <1>1, IdleJobOK DEF TypeOK, PassOK, StartPass

LEMMA TickOK == ASSUME TypeOK, NEW w \in Workers, Tick(w) PROVE TypeOK'
<1>1. PassOK'
  BY StartPassOK, ScanAssumption DEF Tick, config
<1> QED BY <1>1 DEF TypeOK, Tick, config, grafana

LEMMA ReconcileOK == ASSUME TypeOK, NEW w \in Workers, Reconcile(w) PROVE TypeOK'
<1>1. /\ UNCHANGED <<crs, dash, folders, known, plugins, synced, ready, panicked, unsure, disturbed>>
      /\ queue' \in [Workers -> SUBSET Names]
      /\ StartPass(w, FALSE) \/ UNCHANGED pass
  <2>1. PICK n \in queue[w] : Reconcile(w)!(n)
    BY DEF Reconcile
  <2>2. /\ UNCHANGED <<crs, dash, folders, known, plugins, synced, ready, panicked, unsure, disturbed>>
        /\ queue' = [queue EXCEPT ![w] = @ \ {n}]
        /\ StartPass(w, FALSE) \/ UNCHANGED pass
    BY <2>1 DEF grafana, config
  <2>3. queue' \in [Workers -> SUBSET Names]
    BY <2>2 DEF TypeOK
  <2> QED BY <2>2, <2>3
<1>2. PassOK'
  <2>1. CASE StartPass(w, FALSE)
    BY <1>1, <2>1, StartPassOK
  <2>2. CASE UNCHANGED pass
    BY <1>1, <2>2 DEF pass, TypeOK, PassOK
  <2> QED BY <1>1, <2>1, <2>2
<1> QED BY <1>1, <1>2 DEF TypeOK

LEMMA ListOK == ASSUME TypeOK, NEW w \in Workers, List(w) PROVE TypeOK'
<1> DEFINE listed == [n \in Names |-> IF NsOf[n] \in Scope[w[1]] THEN crs[n] ELSE NoCR]
           seen == Seen(view[w], known)
           gone == { i \in 1..seen.len : ~InNamespace(listed, seen.cells[i]) }
           deletions == [i \in gone |-> seen.cells[i]]
<1>1. JobOK(job[w]) /\ IsSlice(seen, Refs)
  BY DEF TypeOK, PassOK, ViewOK
<1>2. listed \in [Names -> Specs \cup {NoCR}]
  BY DEF TypeOK
<1>3. ToDeleteOK(deletions)
  <2> HIDE DEF seen, listed
  <2>1. seen.len \in Nat /\ \A i \in 1..seen.len : seen.cells[i] \in Refs
    BY <1>1 DEF IsSlice
  <2>2. gone \subseteq Nat /\ \A i \in gone : seen.cells[i] \in Refs
    BY <2>1
  <2> QED BY <2>2 DEF ToDeleteOK
<1>4. /\ job' = [job EXCEPT ![w] = [@ EXCEPT !.pc = "next", !.list = listed,
                                            !.todo = { n \in Names : listed[n] # NoCR }]]
      /\ toDelete' = [toDelete EXCEPT ![w] = deletions]
      /\ UNCHANGED <<crs, grafana, config, ready, queue, view, panicked, unsure, disturbed>>
  BY DEF List
<1> HIDE DEF deletions, listed
<1>5. PassOK'
  BY <1>1, <1>2, <1>3, <1>4, ListedJobOK DEF TypeOK, PassOK, config
<1> QED BY <1>4, <1>5 DEF TypeOK, config, grafana

LEMMA EndPassOK == ASSUME TypeOK, NEW w \in Workers, EndPass(w) PROVE TypeOK'
<1>1. UNCHANGED <<crs, grafana, config, ready, queue, panicked, unsure, disturbed>> /\ Idle(w)
  BY DEF EndPass
<1>2. PassOK'
  BY <1>1, IdleOK DEF TypeOK, PassOK, config
<1> QED BY <1>1, <1>2 DEF TypeOK, config, grafana

LEMMA FolderIdOK ==
    ASSUME TypeOK, NEW title, TitleExists(title) PROVE FolderId(title) \in Nat
<1>1. FolderId(title) \in DOMAIN folders
  BY DEF FolderId, TitleExists
<1> QED BY <1>1, LenProperties DEF TypeOK

LEMMA GetAllFoldersOK == ASSUME TypeOK, NEW w \in Workers, GetAllFolders(w) PROVE TypeOK'
<1>1. PICK n \in job[w].todo, outcome \in Outcomes : GetAllFolders(w)!(n, outcome)
  BY DEF GetAllFolders
<1> DEFINE title == FolderName(n, job[w].list[n])
           j == [job[w] EXCEPT !.todo = @ \ {n}]
<1>2. /\ Call(outcome) /\ UNCHANGED <<crs, grafana, config, ready, queue, panicked, unsure>>
      /\ \/ Become(w, j)
         \/ TitleExists(title) /\ Become(w, [j EXCEPT !.pc = "check", !.cur = n, !.fid = FolderId(title)])
         \/ Become(w, [j EXCEPT !.pc = "mkdir", !.cur = n])
  BY <1>1
<1> HIDE DEF title
<1>3. JobOK(job[w]) /\ PassOK /\ known' = known
  BY <1>2 DEF TypeOK, PassOK, config
<1>4. PassOK'
  <2>1. CASE Become(w, j)
    BY <1>3, <2>1, SkippedJobOK, BecomeOK
  <2>2. CASE TitleExists(title) /\ Become(w, [j EXCEPT !.pc = "check", !.cur = n, !.fid = FolderId(title)])
    BY <1>3, <2>2, FolderIdOK, TakenJobOK, BecomeOK
  <2>3. CASE Become(w, [j EXCEPT !.pc = "mkdir", !.cur = n])
    BY <1>3, <2>3, TakenJobOK, BecomeOK
  <2> QED BY <1>2, <2>1, <2>2, <2>3
<1> QED BY <1>2, <1>4, CallOK DEF TypeOK, config, grafana

LEMMA CreateFolderOK == ASSUME TypeOK, NEW w \in Workers, CreateFolder(w) PROVE TypeOK'
<1>1. PICK outcome \in Outcomes : CreateFolder(w)!(outcome)
  BY DEF CreateFolder
<1> DEFINE title == FolderName(job[w].cur, Wanted(w))
<1>2. /\ Call(outcome) /\ UNCHANGED <<crs, dash, config, ready, queue, panicked, unsure>>
      /\ job[w].pc = "mkdir"
      /\ folders' \in {Append(folders, title), folders}
      /\ \/ Become(w, [job[w] EXCEPT !.pc = "check", !.fid = Len(folders) + 1])
         \/ Become(w, [job[w] EXCEPT !.pc = "check", !.fid = 0])
         \/ Continue(w)
  BY <1>1 DEF At
<1>3. JobOK(job[w]) /\ PassOK /\ known' = known
  BY <1>2 DEF TypeOK, PassOK, config
<1>4. job[w].pc \in Submitting /\ "check" \in Submitting
  BY <1>2 DEF Submitting
<1>5. folders' \in Seq(Namespaces \cup Folders \cup {NoTitle})
  <2>1. title \in Namespaces \cup Folders \cup {NoTitle}
    BY <1>3, <1>4, WantedOK
  <2> QED BY <1>2, <2>1, AppendProperties DEF TypeOK
<1>6. PassOK'
  <2>1. Len(folders) + 1 \in Nat /\ 0 \in Nat
    BY LenProperties DEF TypeOK
  <2>2. \A k \in Nat : JobOK([job[w] EXCEPT !.pc = "check", !.fid = k])
    BY <1>3, <1>4, SubmittingJobOK
  <2>3. CASE Continue(w)
    BY <1>3, <2>3, ContinueOK DEF PassOK
  <2>4. CASE Become(w, [job[w] EXCEPT !.pc = "check", !.fid = Len(folders) + 1])
    BY <1>3, <2>1, <2>2, <2>4, BecomeOK
  <2>5. CASE Become(w, [job[w] EXCEPT !.pc = "check", !.fid = 0])
    BY <1>3, <2>1, <2>2, <2>5, BecomeOK
  <2> QED BY <1>2, <2>3, <2>4, <2>5
<1> QED BY <1>2, <1>5, <1>6, CallOK DEF TypeOK, config

LEMMA ProcessDashboardOK == ASSUME TypeOK, NEW w \in Workers, ProcessDashboard(w) PROVE TypeOK'
<1>1. PICK outcome \in Outcomes : ProcessDashboard(w)!(outcome)
  BY DEF ProcessDashboard
<1>2. /\ Call(outcome) \/ Undisturbed
      /\ UNCHANGED <<crs, grafana, config, ready, queue, panicked, unsure>>
      /\ job[w].pc = "check"
      /\ \/ Become(w, [job[w] EXCEPT !.pc = "post"])
         \/ Become(w, [job[w] EXCEPT !.pc = "plug"])
         \/ Continue(w)
  BY <1>1 DEF At
<1>3. JobOK(job[w]) /\ PassOK /\ known' = known
  BY <1>2 DEF TypeOK, PassOK, config
<1>4. job[w].pc \in Submitting /\ "post" \in Submitting /\ "plug" \in Submitting
  BY <1>2 DEF Submitting
<1>5. PassOK'
  <2>1. CASE Continue(w)
    BY <1>3, <2>1, ContinueOK DEF PassOK
  <2>2. CASE Become(w, [job[w] EXCEPT !.pc = "post"])
    BY <1>3, <1>4, <2>2, SubmittingJobOK, BecomeOK
  <2>3. CASE Become(w, [job[w] EXCEPT !.pc = "plug"])
    BY <1>3, <1>4, <2>3, SubmittingJobOK, BecomeOK
  <2> QED BY <1>2, <2>1, <2>2, <2>3
<1> QED BY <1>2, <1>5, CallOK DEF TypeOK, config, grafana, Undisturbed

LEMMA PostDashboardOK == ASSUME TypeOK, NEW w \in Workers, PostDashboard(w) PROVE TypeOK'
<1>1. PICK outcome \in Outcomes : PostDashboard(w)!(outcome)
  BY DEF PostDashboard
<1> DEFINE stored == [json |-> Wanted(w).json, folder |-> job[w].fid]
<1>2. /\ Call(outcome) /\ UNCHANGED <<crs, folders, config, ready, queue, panicked>>
      /\ job[w].pc = "post"
      /\ dash' \in {[dash EXCEPT ![TargetUid(w)] = stored], dash}
      /\ unsure' \in {unsure \ {TargetUid(w)}, unsure \cup {TargetUid(w)}, unsure}
      /\ Become(w, [job[w] EXCEPT !.pc = "add"]) \/ Continue(w)
  BY <1>1 DEF At
<1>3. JobOK(job[w]) /\ PassOK /\ known' = known
  BY <1>2 DEF TypeOK, PassOK, config
<1>4. job[w].pc \in Submitting /\ "add" \in Submitting
  BY <1>2 DEF Submitting
<1>5. TargetUid(w) \in UIDs /\ stored \in [json : Jsons, folder : Nat]
  BY <1>3, <1>4, WantedOK DEF Specs
<1>6. PassOK'
  <2>1. CASE Continue(w)
    BY <1>3, <2>1, ContinueOK DEF PassOK
  <2>2. CASE Become(w, [job[w] EXCEPT !.pc = "add"])
    BY <1>3, <1>4, <2>2, SubmittingJobOK, BecomeOK
  <2> QED BY <1>2, <2>1, <2>2
<1> HIDE DEF stored
<1>7. dash' \in [UIDs -> [json : Jsons, folder : Nat] \cup {Absent}]
  BY <1>2, <1>5 DEF TypeOK
<1> QED BY <1>2, <1>5, <1>6, <1>7, CallOK DEF TypeOK, config

LEMMA SlotTyped == ASSUME TypeOK, NEW uid PROVE HasDashboard(known, uid) \in Nat
<1>1. IsSlice(known, Refs)
  BY DEF TypeOK
<1>2. HasDashboard(known, uid) \in 0..known.len
  BY <1>1, HasDashboardFinds
<1> QED BY <1>1, <1>2 DEF IsSlice

LEMMA FindSlotOK == ASSUME TypeOK, NEW w \in Workers, FindSlot(w) PROVE TypeOK'
<1>1. /\ job[w].pc = "add"
      /\ UNCHANGED <<crs, grafana, config, ready, queue, panicked, unsure, disturbed>>
      /\ Become(w, [job[w] EXCEPT !.pc = "addLocked", !.slot = HasDashboard(known, TargetUid(w))])
  BY DEF FindSlot, At
<1>2. HasDashboard(known, TargetUid(w)) \in Nat
  BY SlotTyped
<1>3. job[w].pc \in Submitting /\ "addLocked" \in Submitting
  BY <1>1 DEF Submitting
<1>4. JobOK([job[w] EXCEPT !.pc = "addLocked", !.slot = HasDashboard(known, TargetUid(w))])
  BY <1>2, <1>3, SubmittingJobOK DEF TypeOK, PassOK
<1>5. PassOK'
  BY <1>1, <1>4, BecomeOK DEF TypeOK, config
<1> QED BY <1>1, <1>5 DEF TypeOK, config, grafana

LEMMA PanicOK == ASSUME TypeOK, Panic PROVE TypeOK'
BY DEF TypeOK, Panic, PassOK, grafana, config, pass

LEMMA AddDashboardOK == ASSUME TypeOK, NEW w \in Workers, AddDashboard(w) PROVE TypeOK'
<1>1. /\ IsSlice(known, Refs) /\ PassOK /\ JobOK(job[w])
      /\ \A v \in Workers : ViewOK(view[v], known)
  BY DEF TypeOK, PassOK
<1>2. /\ job[w].pc = "addLocked"
      /\ job' = [job EXCEPT ![w] = [@ EXCEPT !.pc = "plug", !.slot = 0]]
      /\ UNCHANGED <<crs, grafana, plugins, synced, ready, queue, toDelete, panicked, unsure, disturbed>>
  BY DEF AddDashboard, At
<1>3. job[w].pc \in Submitting /\ "plug" \in Submitting
  BY <1>2 DEF Submitting
<1>4. NewRef(w) \in Refs
  BY <1>1, <1>3, WantedOK
<1>5. JobOK([job[w] EXCEPT !.pc = "plug", !.slot = 0])
  BY <1>1, <1>3, SubmittingJobOK
<1>6. IsSlice(known', Refs) /\ DOMAIN view' = Workers /\ \A v \in Workers : ViewOK(view'[v], known')
  <2>1. CASE known' = Appended(known, NewRef(w)) /\ Reallocates(known) /\ DetachViews
    <3>1. IsSlice(known', Refs)
      BY <1>1, <1>4, <2>1, AppendedOK
    <3>2. \A v \in Workers : ViewOK(Detached(view[v], known), known')
      BY <1>1, SeenDetached DEF ViewOK
    <3> QED BY <2>1, <3>1, <3>2 DEF DetachViews
  <2>2. CASE known' = Appended(known, NewRef(w)) /\ ~Reallocates(known) /\ UNCHANGED view
    <3>1. IsSlice(known', Refs)
      BY <1>1, <1>4, <2>2, AppendedOK
    <3>2. \A v \in Workers : ViewOK(view[v], known')
      BY <1>1, <1>4, <2>2, SeenAppended DEF ViewOK
    <3> QED BY <1>1, <2>2, <3>1, <3>2 DEF PassOK
  <2>3. CASE job[w].slot \in 1..known.len /\ known' = Replaced(known, job[w].slot, NewRef(w)) /\ UNCHANGED view
    <3>1. IsSlice(known', Refs)
      BY <1>1, <1>4, <2>3, ReplacedOK
    <3>2. \A v \in Workers : ViewOK(view[v], known')
      BY <1>1, <1>4, <2>3, SeenReplaced DEF ViewOK
    <3> QED BY <1>1, <2>3, <3>1, <3>2 DEF PassOK
  <2> QED BY <2>1, <2>2, <2>3 DEF AddDashboard
<1>7. PassOK'
  BY <1>1, <1>2, <1>5, <1>6 DEF PassOK
<1> QED BY <1>2, <1>6, <1>7 DEF TypeOK, grafana

LEMMA SetPluginsOK == ASSUME TypeOK, NEW w \in Workers, SetPlugins(w) PROVE TypeOK'
<1>1. /\ job[w].pc \in Submitting /\ Continue(w)
      /\ plugins' = [plugins EXCEPT ![job[w].cur] = Wanted(w).plugins]
      /\ UNCHANGED <<crs, grafana, known, synced, ready, queue, panicked, unsure, disturbed>>
  BY DEF SetPlugins, At, Submitting
<1>2. Wanted(w).plugins \in PluginLists
  BY <1>1, WantedOK DEF TypeOK, PassOK, Specs
<1>3. PassOK'
  BY <1>1, ContinueOK DEF TypeOK, PassOK
<1> QED BY <1>1, <1>2, <1>3 DEF TypeOK, grafana

LEMMA DeleteDashboardOK == ASSUME TypeOK, NEW w \in Workers, DeleteDashboard(w) PROVE TypeOK'
<1>1. PICK outcome \in Outcomes \ {"503"}, i \in DOMAIN toDelete[w] : DeleteDashboard(w)!(outcome, i)
  BY DEF DeleteDashboard
<1> DEFINE ref == toDelete[w][i]
           rest == [k \in DOMAIN toDelete[w] \ {i} |-> toDelete[w][k]]
<1>2. /\ Call(outcome)
      /\ dash' \in {dash, [dash EXCEPT ![ref.uid] = Absent]}
      /\ unsure' \in {unsure \cup {ref.uid}, unsure \ {ref.uid}}
      /\ job' = [job EXCEPT ![w] = [@ EXCEPT !.pc = "unplug", !.ref = ref]]
      /\ toDelete' = [toDelete EXCEPT ![w] = rest]
      /\ UNCHANGED <<crs, folders, config, ready, queue, view, panicked>>
  BY <1>1
<1>3. PassOK /\ JobOK(job[w]) /\ ToDeleteOK(toDelete[w])
  BY DEF TypeOK, PassOK
<1>4. ref \in Refs /\ ref.uid \in UIDs /\ ToDeleteOK(rest)
  BY <1>3 DEF ToDeleteOK, Refs
<1>5. JobOK([job[w] EXCEPT !.pc = "unplug", !.ref = ref])
  BY <1>3, <1>4, DeletingJobOK
<1> HIDE DEF ref, rest
<1>6. PassOK'
  BY <1>2, <1>3, <1>4, <1>5 DEF PassOK, config
<1>7. dash' \in [UIDs -> [json : Jsons, folder : Nat] \cup {Absent}]
  BY <1>2, <1>4 DEF TypeOK
<1> QED BY <1>2, <1>4, <1>6, <1>7, CallOK DEF TypeOK, config

LEMMA RemovePluginsOK == ASSUME TypeOK, NEW w \in Workers, RemovePlugins(w) PROVE TypeOK'
<1>1. CASE Panic
  BY <1>1, PanicOK
<1>2. CASE ~Panic
  <2>1. /\ plugins' = Unplugged(job[w].ref)
        /\ Become(w, [job[w] EXCEPT !.pc = "drop", !.slot = HasDashboard(known, job[w].ref.uid)])
        /\ UNCHANGED <<crs, grafana, known, synced, ready, queue, panicked, unsure, disturbed>>
        /\ job[w].pc \in Deleting
    BY <1>2 DEF RemovePlugins, At, Deleting
  <2>2. JobOK([job[w] EXCEPT !.pc = "drop", !.slot = HasDashboard(known, job[w].ref.uid)])
    BY <2>1, SlotTyped, DeletingJobOK DEF TypeOK, PassOK
  <2>3. PassOK'
    BY <2>1, <2>2, BecomeOK DEF TypeOK
  <2>4. plugins' \in [Names -> PluginLists \cup {NoPlugins}]
    BY <2>1 DEF TypeOK, Unplugged
  <2> QED BY <2>1, <2>3, <2>4 DEF TypeOK, grafana
<1> QED BY <1>1, <1>2

LEMMA RemoveDashboardOK == ASSUME TypeOK, NEW w \in Workers, RemoveDashboard(w) PROVE TypeOK'
<1> DEFINE left == IF job[w].slot = 0 THEN known ELSE Dropped(known, job[w].slot)
           fid == job[w].ref.fid
<1>1. /\ job[w].pc = "drop" /\ job[w].slot <= known.len
      /\ known' = left /\ synced' = TRUE
      /\ \/ Continue(w)
         \/ Become(w, [job[w] EXCEPT !.pc = "rmdir", !.fid = fid, !.slot = 0])
         \/ Idle(w)
      /\ UNCHANGED <<crs, grafana, plugins, ready, queue, panicked, unsure, disturbed>>
  BY DEF RemoveDashboard, At
<1>2. /\ IsSlice(known, Refs) /\ PassOK /\ JobOK(job[w])
      /\ \A v \in Workers : ViewOK(view[v], known)
  BY DEF TypeOK, PassOK
<1>3. IsSlice(known', Refs) /\ \A v \in Workers : ViewOK(view[v], known')
  <2>1. CASE job[w].slot = 0
    BY <1>1, <1>2, <2>1
  <2>2. CASE job[w].slot # 0
    <3>1. job[w].slot \in 1..known.len /\ known' = Dropped(known, job[w].slot)
      BY <1>1, <1>2, <2>2 DEF JobOK, Jobs, IsSlice
    <3> QED BY <1>2, <3>1, DroppedOK, SeenDropped DEF ViewOK
  <2> QED BY <2>1, <2>2
<1>4. JobOK([job[w] EXCEPT !.pc = "rmdir", !.fid = fid, !.slot = 0])
  <2>1. job[w].pc \in Deleting /\ fid \in Nat
    BY <1>1, <1>2 DEF JobOK, Deleting, Refs
  <2> HIDE DEF fid
  <2> QED BY <1>2, <2>1, DeletingJobOK
<1>5. PassOK'
  <2>1. CASE Continue(w)
    BY <1>2, <1>3, <2>1, ContinueOK
  <2>2. CASE Idle(w)
    BY <1>2, <1>3, <2>2, IdleOK
  <2>3. CASE Become(w, [job[w] EXCEPT !.pc = "rmdir", !.fid = fid, !.slot = 0])
    BY <1>2, <1>3, <1>4, <2>3 DEF PassOK, Become
  <2> QED BY <1>1, <2>1, <2>2, <2>3
<1> QED BY <1>1, <1>3, <1>5 DEF TypeOK, grafana

LEMMA DeleteFolderOK == ASSUME TypeOK, NEW w \in Workers, DeleteFolder(w) PROVE TypeOK'
<1>1. PICK outcome \in Outcomes \ {"503"} : DeleteFolder(w)!(outcome)
  BY DEF DeleteFolder
<1> DEFINE fid == job[w].fid
           emptied == [u \in UIDs |-> IF dash[u] # Absent /\ dash[u].folder = fid THEN Absent ELSE dash[u]]
<1>2. /\ Call(outcome) /\ Continue(w)
      /\ UNCHANGED <<crs, config, ready, queue, panicked, unsure>>
      /\ \/ FolderExists(fid) /\ folders' = [folders EXCEPT ![fid] = NoTitle]
         \/ UNCHANGED folders
      /\ dash' \in {dash, emptied}
  BY <1>1
<1>3. PassOK'
  BY <1>2, ContinueOK DEF TypeOK, PassOK, config
<1>4. dash' \in [UIDs -> [json : Jsons, folder : Nat] \cup {Absent}]
  <2>1. emptied \in [UIDs -> [json : Jsons, folder : Nat] \cup {Absent}]
    BY DEF TypeOK
  <2> HIDE DEF emptied
  <2> QED BY <1>2, <2>1 DEF TypeOK
<1> HIDE DEF emptied, fid
<1>5. folders' \in Seq(Namespaces \cup Folders \cup {NoTitle})
  <2>1. CASE FolderExists(fid) /\ folders' = [folders EXCEPT ![fid] = NoTitle]
    <3>1. fid \in 1..Len(folders) /\ folders \in Seq(Namespaces \cup Folders \cup {NoTitle})
      BY <2>1, LenProperties DEF FolderExists, TypeOK
    <3> QED BY <2>1, <3>1, ExceptSeq
  <2> QED BY <1>2, <2>1 DEF TypeOK
<1> QED BY <1>2, <1>3, <1>4, <1>5, CallOK DEF TypeOK, config

LEMMA PassKept ==
    ASSUME PassOK, UNCHANGED pass, known' = known PROVE PassOK'
BY DEF PassOK, pass

LEMMA EnvironmentOK ==
    ASSUME TypeOK,
           \/ \E n \in Names : ChangeResource(n)
           \/ \E u \in UIDs : ConsoleDelete(u)
           \/ \E u \in ConsoleUids : ConsoleCreate(u)
           \/ \E r \in Reconcilers, b \in BOOLEAN : StateChange(r, b)
    PROVE  TypeOK'
<1>1. UNCHANGED <<folders, config, pass, panicked>>
  BY DEF ChangeResource, ConsoleDelete, ConsoleCreate, StateChange, grafana
<1>2. PassOK'
  BY <1>1, PassKept DEF TypeOK, config
<1>3. ASSUME NEW kind, Disturbance(kind) PROVE disturbed' \in 0..MaxDisturb
  BY <1>3, BoundAssumption DEF TypeOK, Disturbance
<1>4. CASE \E n \in Names : ChangeResource(n)
  <2>1. PICK n \in Names : ChangeResource(n)
    BY <1>4
  <2>2. /\ crs' \in [Names -> Specs \cup {NoCR}]
        /\ queue' \in [Workers -> SUBSET Names]
        /\ UNCHANGED <<dash, ready, unsure>>
    BY <2>1 DEF TypeOK, ChangeResource, Notify, grafana
  <2>3. disturbed' \in 0..MaxDisturb
    BY <2>1, <1>3 DEF ChangeResource
  <2> QED BY <1>1, <1>2, <2>2, <2>3 DEF TypeOK, config
<1>5. CASE \E u \in UIDs : ConsoleDelete(u)
  <2>1. PICK u \in UIDs : ConsoleDelete(u)
    BY <1>5
  <2>2. disturbed' \in 0..MaxDisturb
    BY <2>1, <1>3 DEF ConsoleDelete
  <2> QED BY <1>1, <1>2, <2>1, <2>2 DEF TypeOK, ConsoleDelete, config
<1>6. CASE \E u \in ConsoleUids : ConsoleCreate(u)
  <2>1. PICK u \in ConsoleUids : ConsoleCreate(u)
    BY <1>6
  <2>2. disturbed' \in 0..MaxDisturb
    BY <2>1, <1>3 DEF ConsoleCreate
  <2>3. PICK f \in DOMAIN folders, j \in Jsons : dash' = [dash EXCEPT ![u] = [json |-> j, folder |-> f]]
    BY <2>1 DEF ConsoleCreate
  <2>4. u \in UIDs /\ f \in Nat
    BY LenProperties DEF TypeOK, UIDs
  <2> QED BY <1>1, <1>2, <2>1, <2>2, <2>3, <2>4 DEF TypeOK, ConsoleCreate, config
<1>7. CASE \E r \in Reconcilers, b \in BOOLEAN : StateChange(r, b)
  <2>1. PICK r \in Reconcilers, b \in BOOLEAN : StateChange(r, b)
    BY <1>7
  <2>2. disturbed' \in 0..MaxDisturb
    BY <2>1, <1>3 DEF StateChange, Undisturbed, TypeOK
  <2> QED BY <1>1, <1>2, <2>1, <2>2 DEF TypeOK, StateChange, config, grafana
<1> QED BY <1>4, <1>5, <1>6, <1>7

LEMMA InvalidateOK == ASSUME TypeOK, Invalidate PROVE TypeOK'
<1>1. IsSlice(known', Refs)
  <2>1. IsSlice(known, Refs) /\ RefsIn(known) \in SUBSET Refs
    BY DEF TypeOK, RefsIn, IsSlice
  <2> QED BY <2>1, BlankedOK, BlankRefOK DEF Invalidate, Invalidated
<1>2. \A v \in Workers : ViewOK(Blanking(view[v], known), known')
  <2>1. IsSlice(known, Refs) /\ \A v \in Workers : ViewOK(view[v], known)
    BY DEF TypeOK, PassOK
  <2>2. \A v \in Workers : ViewOK(Blanking(view[v], known), Invalidated(known))
    BY <2>1, SeenBlanked, BlankRefOK DEF ViewOK
  <2> QED BY <2>2 DEF Invalidate
<1>3. PassOK'
  BY <1>2 DEF TypeOK, PassOK, Invalidate
<1> QED BY <1>1, <1>3, BoundAssumption DEF TypeOK, Invalidate, Disturbance, grafana

LEMMA CleanupOK == ASSUME TypeOK, Cleanup PROVE TypeOK'
<1>1. IsSlice(known', Refs)
  BY EmptySliceOK DEF Cleanup
<1>2. \A v \in Workers : ViewOK(Detached(view[v], known), known')
  BY SeenDetached DEF TypeOK, PassOK, ViewOK
<1>3. PassOK'
  BY <1>2 DEF TypeOK, PassOK, Cleanup, DetachViews
<1> QED BY <1>1, <1>3, BoundAssumption DEF TypeOK, Cleanup, Disturbance, Present, grafana

LEMMA FreshPassOK ==
    ASSUME NEW s, NEW v, NEW d, NEW j, v = NoView, d = NothingToDelete, j = IdleJob
    PROVE  JobOK(j) /\ ViewOK(v, s) /\ ToDeleteOK(d)
<1>1. ViewOK(v, s)
  BY NoViewOK
<1> QED BY <1>1, IdleJobOK DEF ToDeleteOK, NothingToDelete

LEMMA RestartOK == ASSUME TypeOK, Restart PROVE TypeOK'
<1>1. PassOK'
  BY FreshPassOK DEF Restart, PassOK
<1>2. disturbed' \in 0..MaxDisturb
  BY BoundAssumption DEF TypeOK, Restart, Disturbance, Undisturbed
<1> QED BY <1>1, <1>2, EmptySliceOK DEF TypeOK, Restart, Present, grafana

LEMMA InitOK == ASSUME Init PROVE TypeOK
<1>1. PassOK
  BY FreshPassOK DEF Init, PassOK
<1>2. IsSlice(known, Refs) /\ folders \in Seq(Namespaces \cup Folders \cup {NoTitle})
  BY EmptySliceOK, EmptySeq DEF Init
<1>3. disturbed \in 0..MaxDisturb /\ unsure \subseteq UIDs
  BY BoundAssumption DEF Init
<1>4. /\ crs \in [Names -> Specs \cup {NoCR}]
      /\ dash \in [UIDs -> [json : Jsons, folder : Nat] \cup {Absent}]
      /\ plugins \in [Names -> PluginLists \cup {NoPlugins}]
      /\ ready \in [Reconcilers -> BOOLEAN] /\ synced \in BOOLEAN /\ panicked \in BOOLEAN
  BY PopulationAssumption DEF Init
<1>5. queue \in [Workers -> SUBSET Names]
  BY DEF Init
<1> QED BY <1>1, <1>2, <1>3, <1>4, <1>5 DEF TypeOK

LEMMA WorkOK == ASSUME TypeOK, NEW w \in Workers, Work(w) PROVE TypeOK'
BY ListOK, EndPassOK, GetAllFoldersOK, CreateFolderOK, ProcessDashboardOK, PostDashboardOK,
   FindSlotOK, AddDashboardOK, SetPluginsOK, DeleteDashboardOK, RemovePluginsOK,
   RemoveDashboardOK, DeleteFolderOK, PanicOK DEF Work, ProcessFatal, AddOutOfRange, RemoveOutOfRange

LEMMA StutterOK == ASSUME TypeOK, UNCHANGED vars PROVE TypeOK'
<1>1. PassOK'
  BY PassKept DEF TypeOK, vars, pass
<1> QED BY <1>1 DEF TypeOK, vars

\* The reconciler's state always has its types, for any number of goroutines
\* and reconcilers that share the known list: in particular, no reader of the
\* list ever meets an empty cell, whatever is appended, replaced, dropped,
\* invalidated or cleaned up while it reads.
THEOREM TypeCorrect == Spec => []TypeOK
<1>1. Init => TypeOK
  BY InitOK
<1>2. TypeOK /\ [Next]_vars => TypeOK'
  <2> SUFFICES ASSUME TypeOK, [Next]_vars PROVE TypeOK'
    OBVIOUS
  <2>1. CASE UNCHANGED vars
    BY <2>1, StutterOK
  <2>2. CASE Next
    BY <2>2, TickOK, ReconcileOK, WorkOK, EnvironmentOK, InvalidateOK, CleanupOK, RestartOK DEF Next
  <2> QED BY <2>1, <2>2
<1> QED BY <1>1, <1>2, PTL DEF Spec

-----------------------------------------------------------------------------
(* Safety with one goroutine.                                               *)

\* The phases in which a pass owes nothing to the known list.
Neutral == {"idle", "list", "next", "mkdir", "check", "post", "plug"}

\* At the start there is nothing known, so that nothing known is wrong.
LEMMA InitSafe == ASSUME Init PROVE Safe
<1>1. /\ known.len = 0 /\ dash = [u \in UIDs |-> Absent]
      /\ \A w \in Workers : job[w].pc = "idle"
  BY DEF Init, EmptySlice, IdleJob
<1>2. UniqueUids /\ RefsTellTruth /\ Tracked
  BY <1>1 DEF UniqueUids, RefsTellTruth, Tracked, Present
<1>3. EmptyFolderOnly /\ SlotRight /\ SubmittedTruth /\ DeletedTruth
  BY <1>1 DEF EmptyFolderOnly, SlotRight, SubmittedTruth, DeletedTruth, At
<1> QED BY <1>2, <1>3 DEF Safe

\* Steps between neutral phases leave the bookkeeping alone.
LEMMA NeutralSafe ==
    ASSUME OneWorker, Safe, NEW w \in Workers, UNCHANGED <<dash, known, unsure>>,
           job[w].pc \in Neutral \cup {"rmdir"}, job'[w].pc \in Neutral
    PROVE  Safe'
<1>1. \A v \in Workers : v = w
  BY DEF OneWorker
<1>2. \A u : ~InFlight(u) /\ ~InFlight(u)'
  BY <1>1 DEF InFlight, Neutral
<1>3. UniqueUids' /\ RefsTellTruth' /\ Tracked'
  BY <1>2 DEF Safe, UniqueUids, RefsTellTruth, Tracked, RefsIn, Present
<1>4. EmptyFolderOnly' /\ SlotRight' /\ SubmittedTruth' /\ DeletedTruth'
  BY <1>1 DEF EmptyFolderOnly, SlotRight, SubmittedTruth, DeletedTruth, At, Neutral
<1> QED BY <1>3, <1>4 DEF Safe

LEMMA NeutralSteps ==
    ASSUME TypeOK, NEW w \in Workers,
           \/ Tick(w) \/ Reconcile(w) \/ List(w) \/ EndPass(w) \/ GetAllFolders(w)
           \/ CreateFolder(w) \/ ProcessDashboard(w) \/ SetPlugins(w)
    PROVE  UNCHANGED <<dash, known, unsure>> /\ job[w].pc \in Neutral /\ job'[w].pc \in Neutral
<1>1. DOMAIN job = Workers
  BY DEF TypeOK, PassOK
<1>2. UNCHANGED <<dash, known, unsure>>
  BY DEF Tick, Reconcile, List, EndPass, GetAllFolders, CreateFolder, ProcessDashboard,
         SetPlugins, grafana, config
<1>3. JobOK(job[w]) /\ job[w] \in Jobs
  BY DEF TypeOK, PassOK, JobOK
<1>4. job[w].pc \in Neutral /\ job'[w].pc \in Neutral
  <2>1. CASE Tick(w) \/ Reconcile(w)
    <3>1. job[w].pc = "idle" /\ (job'[w] = job[w] \/ job'[w] = [IdleJob EXCEPT !.pc = "list"])
      BY <1>1, <2>1 DEF Tick, Reconcile, At, StartPass, pass
    <3> QED BY <1>3, <3>1 DEF Neutral, IdleJob, Jobs
  <2>2. CASE EndPass(w)
    BY <1>1, <2>2 DEF EndPass, At, Idle, IdleJob, Neutral
  <2>3. CASE List(w)
    <3>1. PICK list, todo : job'[w] = [job[w] EXCEPT !.pc = "next", !.list = list, !.todo = todo]
      BY <1>1, <2>3, Zenon DEF List
    <3> QED BY <1>3, <2>3, <3>1 DEF List, At, Neutral, Jobs
  <2>7. CASE GetAllFolders(w)
    <3>1. PICK n, outcome : GetAllFolders(w)!(n, outcome)
      BY <2>7 DEF GetAllFolders
    <3> DEFINE j == [job[w] EXCEPT !.todo = @ \ {n}]
    <3>2. /\ job[w].pc = "next"
          /\ \/ job'[w] = j
             \/ \E fid : job'[w] = [j EXCEPT !.pc = "check", !.cur = n, !.fid = fid]
             \/ job'[w] = [j EXCEPT !.pc = "mkdir", !.cur = n]
      BY <1>1, <3>1 DEF Become, At
    <3> QED BY <1>3, <3>2 DEF Neutral, Jobs
  <2>4. CASE CreateFolder(w)
    <3>1. /\ job[w].pc = "mkdir"
          /\ \/ job'[w] = [job[w] EXCEPT !.pc = "check", !.fid = Len(folders) + 1]
             \/ job'[w] = [job[w] EXCEPT !.pc = "check", !.fid = 0]
             \/ job'[w] = [job[w] EXCEPT !.pc = "next", !.cur = NoName, !.ref = NoRef, !.fid = 0, !.slot = 0]
      BY <1>1, <2>4 DEF CreateFolder, At, Become, Continue
    <3> QED BY <1>3, <3>1 DEF Neutral, Jobs
  <2>5. CASE ProcessDashboard(w)
    <3>1. PICK outcome : ProcessDashboard(w)!(outcome)
      BY <2>5 DEF ProcessDashboard
    <3>2. /\ job[w].pc = "check"
          /\ \/ job'[w] = [job[w] EXCEPT !.pc = "post"]
             \/ job'[w] = [job[w] EXCEPT !.pc = "plug"]
             \/ job'[w] = [job[w] EXCEPT !.pc = "next", !.cur = NoName, !.ref = NoRef, !.fid = 0, !.slot = 0]
      BY <1>1, <3>1 DEF Become, Continue, At
    <3> QED BY <1>3, <3>2 DEF Neutral, Jobs
  <2>6. CASE SetPlugins(w)
    BY <1>1, <1>3, <2>6 DEF SetPlugins, At, Become, Continue, Neutral, Jobs
  <2> QED BY <2>1, <2>2, <2>3, <2>4, <2>5, <2>6, <2>7
<1> QED BY <1>2, <1>4

\* A submission puts the content under the uid, or Grafana's answer is unclear.
LEMMA PostDashboardEffect ==
    ASSUME TypeOK, NEW w \in Workers, PostDashboard(w)
    PROVE  /\ known' = known /\ job[w].pc = "post"
           /\ job'[w].pc \in {"add", "next"}
           /\ job'[w].pc = "add" => /\ TargetUid(w)' = TargetUid(w) /\ Wanted(w)' = Wanted(w)
                                    /\ job'[w].fid = job[w].fid
           /\ \/ /\ dash' = [dash EXCEPT ![TargetUid(w)] = [json |-> Wanted(w).json, folder |-> job[w].fid]]
                 /\ unsure' = unsure \ {TargetUid(w)} /\ job'[w].pc = "add"
              \/ /\ \/ dash' = dash
                    \/ dash' = [dash EXCEPT ![TargetUid(w)] = [json |-> Wanted(w).json, folder |-> job[w].fid]]
                 /\ unsure' = unsure \cup {TargetUid(w)}
              \/ dash' = dash /\ unsure' = unsure /\ job'[w].pc = "next"
<1>0. PICK outcome \in Outcomes : PostDashboard(w)!(outcome)
  BY DEF PostDashboard
<1> DEFINE uid == TargetUid(w)
           stored == [json |-> Wanted(w).json, folder |-> job[w].fid]
<1>00. outcome \in {"ok", "err", "lost", "503"}
  BY FaultAssumption DEF Outcomes
<1>1. known' = known /\ job[w].pc = "post"
  BY <1>0 DEF At, config
<1>2. job[w] \in Jobs /\ DOMAIN job = Workers
  BY DEF TypeOK, PassOK, JobOK
<1>3. \/ job'[w] = [job[w] EXCEPT !.pc = "add"]
      \/ job'[w] = [job[w] EXCEPT !.pc = "next", !.cur = NoName, !.ref = NoRef, !.fid = 0, !.slot = 0]
  BY <1>0, <1>2 DEF Become, Continue
<1>4. \/ /\ job'[w].pc = "add" /\ job'[w].fid = job[w].fid
         /\ job'[w].list = job[w].list /\ job'[w].cur = job[w].cur
      \/ job'[w].pc = "next"
  BY <1>2, <1>3 DEF Jobs
<1>5. job'[w].pc = "add" <=> Accepted(outcome, outcome \in {"ok", "lost"} /\ ~(job[w].fid # 0 /\ ~FolderExists(job[w].fid)))
  <2>1. [job[w] EXCEPT !.pc = "add"].pc = "add"
    BY <1>2 DEF Jobs
  <2>2. [job[w] EXCEPT !.pc = "next", !.cur = NoName, !.ref = NoRef, !.fid = 0, !.slot = 0].pc = "next"
    BY <1>2 DEF Jobs
  <2> QED BY <1>0, <1>2, <2>1, <2>2 DEF Become, Continue
<1>6. job'[w].pc = "add" => TargetUid(w)' = uid /\ Wanted(w)' = Wanted(w)
  BY <1>4 DEF TargetUid, Wanted
<1>7. \/ dash' = [dash EXCEPT ![uid] = stored] /\ unsure' = unsure \ {uid} /\ job'[w].pc = "add"
      \/ dash' \in {dash, [dash EXCEPT ![uid] = stored]} /\ unsure' = unsure \cup {uid}
      \/ dash' = dash /\ unsure' = unsure /\ job'[w].pc = "next"
  <2> HIDE DEF uid, stored
  <2>1. CASE outcome = "ok"
    BY <1>0, <1>4, <1>5, <2>1 DEF Accepted, uid, stored
  <2>2. CASE outcome = "err"
    BY <1>0, <1>4, <1>5, <2>2 DEF Accepted, uid, stored
  <2>3. CASE outcome \in {"lost", "503"}
    BY <1>0, <2>3 DEF uid, stored
  <2> QED BY <1>00, <2>1, <2>2, <2>3
<1> QED BY <1>1, <1>4, <1>6, <1>7 DEF uid, stored

LEMMA PostDashboardSafe ==
    ASSUME TypeOK, OneWorker, Safe, NEW w \in Workers, PostDashboard(w)
    PROVE  Safe'
<1> DEFINE uid == TargetUid(w)
           stored == [json |-> Wanted(w).json, folder |-> job[w].fid]
<1>3. \A v \in Workers : v = w
  BY DEF OneWorker
<1>4. /\ known' = known /\ job[w].pc = "post"
      /\ job'[w].pc \in {"add", "next"}
      /\ job'[w].pc = "add" => TargetUid(w)' = uid /\ Wanted(w)' = Wanted(w) /\ job'[w].fid = job[w].fid
      /\ \/ dash' = [dash EXCEPT ![uid] = stored] /\ unsure' = unsure \ {uid} /\ job'[w].pc = "add"
         \/ dash' \in {dash, [dash EXCEPT ![uid] = stored]} /\ unsure' = unsure \cup {uid}
         \/ dash' = dash /\ unsure' = unsure /\ job'[w].pc = "next"
  BY PostDashboardEffect
<1>5. uid \in UIDs /\ DOMAIN dash = UIDs
  BY <1>4, WantedOK DEF TypeOK, PassOK, Submitting
<1> HIDE DEF uid, stored
<1>6. \A u : ~InFlight(u) /\ (InFlight(u)' <=> job'[w].pc = "add" /\ u = uid)
  BY <1>3, <1>4 DEF InFlight
<1>7. \A u \in UIDs : \/ dash'[u] = dash[u] /\ (u \in unsure => u \in unsure')
                      \/ InFlight(u)' \/ u \in unsure'
  BY <1>4, <1>5, <1>6
<1>8. UniqueUids'
  BY <1>4 DEF Safe, UniqueUids
<1>9. RefsTellTruth'
  <2>1. \A i \in 1..known.len : known.cells[i].uid \in UIDs
    BY DEF TypeOK, IsSlice, Refs
  <2> QED BY <1>4, <1>6, <1>7, <2>1 DEF Safe, RefsTellTruth
<1>10. Tracked'
  BY <1>4, <1>6, <1>7 DEF Safe, Tracked, RefsIn, Present
<1>11. SubmittedTruth'
  BY <1>3, <1>4, <1>5 DEF SubmittedTruth, stored
<1>12. EmptyFolderOnly' /\ SlotRight' /\ DeletedTruth'
  BY <1>3, <1>4 DEF EmptyFolderOnly, SlotRight, DeletedTruth, At
<1> QED BY <1>8, <1>9, <1>10, <1>11, <1>12 DEF Safe

LEMMA FindSlotSafe ==
    ASSUME TypeOK, OneWorker, Safe, NEW w \in Workers, FindSlot(w)
    PROVE  Safe'
<1> DEFINE uid == TargetUid(w)
           slot == HasDashboard(known, uid)
<1>1. \A v \in Workers : v = w
  BY DEF OneWorker
<1>2. job[w] \in Jobs /\ DOMAIN job = Workers /\ IsSlice(known, Refs)
  BY DEF TypeOK, PassOK, JobOK
<1>3. /\ job[w].pc = "add" /\ UNCHANGED <<dash, known, unsure>>
      /\ job'[w] = [job[w] EXCEPT !.pc = "addLocked", !.slot = slot]
  BY <1>2 DEF FindSlot, At, Become, grafana, config
<1>4. /\ job'[w].pc = "addLocked" /\ job'[w].slot = slot
      /\ TargetUid(w)' = uid /\ Wanted(w)' = Wanted(w) /\ job'[w].fid = job[w].fid
  BY <1>2, <1>3 DEF Jobs, TargetUid, Wanted
<1>5. /\ slot = 0 => \A i \in 1..known.len : known.cells[i].uid # uid
      /\ slot # 0 => known.cells[slot].uid = uid
  BY <1>2, HasDashboardFinds
<1> HIDE DEF uid, slot
<1>6. SlotRight'
  <2>1. \A v \in Workers : v = w /\ job'[v].pc # "drop"
    BY <1>1, <1>4
  <2>2. slot \in 1..known.len => slot # 0
    BY <1>2 DEF IsSlice
  <2> QED BY <1>3, <1>4, <1>5, <2>1, <2>2 DEF SlotRight, uid
<1>7. \A u : InFlight(u)' <=> InFlight(u)
  BY <1>1, <1>3, <1>4 DEF InFlight, uid
<1>8. UniqueUids' /\ RefsTellTruth' /\ Tracked'
  BY <1>3, <1>7 DEF Safe, UniqueUids, RefsTellTruth, Tracked, RefsIn, Present
<1>9. EmptyFolderOnly' /\ DeletedTruth'
  BY <1>1, <1>4 DEF EmptyFolderOnly, DeletedTruth, At
<1>10. SubmittedTruth'
  <2>1. uid \in unsure \/ dash[uid] = Absent \/ dash[uid] = [json |-> Wanted(w).json, folder |-> job[w].fid]
    BY <1>3 DEF Safe, SubmittedTruth, uid
  <2>2. uid \in unsure' \/ dash'[uid] = Absent
        \/ dash'[uid] = [json |-> Wanted(w)'.json, folder |-> job'[w].fid]
    BY <1>3, <1>4, <2>1
  <2> QED BY <1>1, <1>4, <2>2 DEF SubmittedTruth
<1> QED BY <1>6, <1>8, <1>9, <1>10 DEF Safe

\* The new reference takes the place of the one with its uid, or comes at the
\* end, and it says what Grafana holds.
LEMMA AddDashboardEffect ==
    ASSUME TypeOK, OneWorker, Safe, NEW w \in Workers, AddDashboard(w)
    PROVE  LET uid == TargetUid(w)
               ref == NewRef(w)
           IN  /\ job[w].pc = "addLocked" /\ job'[w].pc = "plug" /\ UNCHANGED <<dash, unsure>>
               /\ ref.uid = uid /\ ref.fid = job[w].fid /\ ref.hash.json = Wanted(w).json
               /\ \/ uid \in unsure \/ dash[uid] = Absent
                  \/ dash[uid] = [json |-> Wanted(w).json, folder |-> job[w].fid]
               /\ \E at \in 1..known'.len :
                    /\ known'.len \in {known.len, known.len + 1} /\ known.len <= known'.len
                    /\ known'.cells[at] = ref
                    /\ \A i \in 1..known'.len : i # at => /\ i \in 1..known.len
                                                          /\ known'.cells[i] = known.cells[i]
                                                          /\ known.cells[i].uid # uid
                    /\ \A i \in 1..known.len : i # at \/ known.cells[i].uid = uid
<1> DEFINE uid == TargetUid(w)
           slot == job[w].slot
           ref == NewRef(w)
<1>1. \A v \in Workers : v = w
  BY DEF OneWorker
<1>2. job[w] \in Jobs /\ DOMAIN job = Workers /\ IsSlice(known, Refs) /\ JobOK(job[w])
  BY DEF TypeOK, PassOK, JobOK
<1>3. job[w].pc = "addLocked" /\ UNCHANGED <<dash, unsure>>
  BY DEF AddDashboard, At, grafana
<1>4. job'[w].pc = "plug"
  BY <1>2 DEF AddDashboard, Jobs
<1>5. ref \in Refs /\ ref.uid = uid /\ ref.fid = job[w].fid /\ ref.hash.json = Wanted(w).json
  BY <1>2, <1>3, WantedOK DEF Submitting, NewRef, Hash
<1>6. \/ slot = 0 /\ known' = Appended(known, ref)
      \/ slot \in 1..known.len /\ known' = Replaced(known, slot, ref)
  BY DEF AddDashboard
<1>7. /\ slot = 0 => \A i \in 1..known.len : known.cells[i].uid # uid
      /\ slot \in 1..known.len => known.cells[slot].uid = uid
  BY <1>3 DEF Safe, SlotRight
<1>8. uid \in unsure \/ dash[uid] = Absent \/ dash[uid] = [json |-> Wanted(w).json, folder |-> job[w].fid]
  BY <1>3 DEF Safe, SubmittedTruth
<1>9. known.len \in Nat /\ \A i \in 1..known.len : known.cells[i] \in Refs
  BY <1>2 DEF IsSlice
<1> HIDE DEF uid, slot, ref
<1>10. \E at \in 1..known'.len :
         /\ known'.len \in {known.len, known.len + 1} /\ known.len <= known'.len
         /\ known'.cells[at] = ref
         /\ \A i \in 1..known'.len : i # at => /\ i \in 1..known.len
                                               /\ known'.cells[i] = known.cells[i]
                                               /\ known.cells[i].uid # uid
         /\ \A i \in 1..known.len : i # at \/ known.cells[i].uid = uid
  <2>1. CASE slot = 0 /\ known' = Appended(known, ref)
    <3>1. /\ known'.len = known.len + 1
          /\ \A i \in 1..known.len : known'.cells[i] = known.cells[i]
          /\ known'.cells[known.len + 1] = ref
      BY <1>2, <1>5, <2>1, AppendedOK
    <3>2. known.len + 1 \in 1..known'.len
      BY <1>9, <3>1
    <3> QED BY <1>7, <1>9, <2>1, <3>1, <3>2
  <2>2. CASE slot \in 1..known.len /\ known' = Replaced(known, slot, ref)
    <3>1. /\ known'.len = known.len
          /\ \A i \in 1..known.len : known'.cells[i] = IF i = slot THEN ref ELSE known.cells[i]
      BY <1>2, <1>5, <2>2, ReplacedOK
    <3>2. \A i \in 1..known.len : i # slot => known.cells[i].uid # uid
      BY <1>7, <2>2 DEF Safe, UniqueUids
    <3> QED BY <1>7, <1>9, <2>2, <3>1, <3>2
  <2> QED BY <1>6, <2>1, <2>2
<1> QED BY <1>3, <1>4, <1>5, <1>8, <1>10 DEF uid, ref

\* Recording what was submitted: the new reference tells the truth, and no
\* other has its uid.
LEMMA AddDashboardSafe ==
    ASSUME TypeOK, OneWorker, Safe, NEW w \in Workers, AddDashboard(w)
    PROVE  Safe'
<1> DEFINE uid == TargetUid(w)
           ref == NewRef(w)
<1>1. \A v \in Workers : v = w
  BY DEF OneWorker
<1>3. job[w].pc = "addLocked" /\ UNCHANGED <<dash, unsure>>
  BY AddDashboardEffect
<1>4. job'[w].pc = "plug"
  BY AddDashboardEffect
<1>5. ref.uid = uid /\ ref.fid = job[w].fid /\ ref.hash.json = Wanted(w).json
  BY AddDashboardEffect
<1>8. uid \in unsure \/ dash[uid] = Absent \/ dash[uid] = [json |-> Wanted(w).json, folder |-> job[w].fid]
  BY AddDashboardEffect
<1>9. known.len \in Nat
  BY DEF TypeOK, IsSlice
<1>10. PICK at \in 1..known'.len :
         /\ known'.len \in {known.len, known.len + 1} /\ known.len <= known'.len
         /\ known'.cells[at] = ref
         /\ \A i \in 1..known'.len : i # at => /\ i \in 1..known.len
                                               /\ known'.cells[i] = known.cells[i]
                                               /\ known.cells[i].uid # uid
         /\ \A i \in 1..known.len : i # at \/ known.cells[i].uid = uid
  BY AddDashboardEffect
<1> HIDE DEF uid, ref
<1>11. \A u : ~InFlight(u)' /\ (InFlight(u) <=> u = uid)
  BY <1>1, <1>3, <1>4 DEF InFlight, uid
<1>12. UniqueUids'
  BY <1>5, <1>10 DEF Safe, UniqueUids
<1>13. RefsTellTruth'
  BY <1>3, <1>5, <1>8, <1>10, <1>11 DEF Safe, RefsTellTruth
<1>14. Tracked'
  <2>1. \A u \in Present \ unsure : \E i \in 1..known'.len : known'.cells[i].uid = u
    <3> TAKE u \in Present \ unsure
    <3>1. CASE u = uid
      BY <1>5, <1>10, <3>1
    <3>2. CASE u # uid
      <4>1. PICK i \in 1..known.len : known.cells[i].uid = u
        BY <1>11, <3>2 DEF Safe, Tracked, RefsIn
      <4>2. i \in 1..known'.len /\ i # at
        BY <1>9, <1>10, <3>2, <4>1
      <4> QED BY <1>10, <4>1, <4>2
    <3> QED BY <3>1, <3>2
  <2> QED BY <1>3, <2>1 DEF Tracked, RefsIn, Present
<1>15. EmptyFolderOnly' /\ SlotRight' /\ SubmittedTruth' /\ DeletedTruth'
  BY <1>1, <1>4 DEF EmptyFolderOnly, SlotRight, SubmittedTruth, DeletedTruth, At
<1> QED BY <1>12, <1>13, <1>14, <1>15 DEF Safe

\* A deletion is confirmed, or the uid becomes one Grafana was unclear about.
LEMMA DeleteDashboardSafe ==
    ASSUME TypeOK, OneWorker, Safe, NEW w \in Workers, DeleteDashboard(w)
    PROVE  Safe'
<1>1. PICK outcome \in Outcomes \ {"503"}, i \in DOMAIN toDelete[w] : DeleteDashboard(w)!(outcome, i)
  BY DEF DeleteDashboard
<1> DEFINE uid == toDelete[w][i].uid
<1>2. \A v \in Workers : v = w
  BY DEF OneWorker
<1>3. job[w] \in Jobs /\ DOMAIN job = Workers /\ DOMAIN dash = UIDs
  BY DEF TypeOK, PassOK, JobOK
<1>4. /\ job[w].pc = "next" /\ known' = known
      /\ job'[w] = [job[w] EXCEPT !.pc = "unplug", !.ref = toDelete[w][i]]
      /\ \/ outcome = "err" /\ dash' = dash
         \/ outcome # "err" /\ dash' = [dash EXCEPT ![uid] = Absent]
      /\ unsure' = IF outcome = "err" /\ dash[uid] # Absent THEN unsure \cup {uid} ELSE unsure \ {uid}
  BY <1>1, <1>3 DEF At, config
<1>5. job'[w].pc = "unplug" /\ job'[w].ref.uid = uid
  BY <1>3, <1>4 DEF Jobs
<1>6. uid \in UIDs
  BY DEF TypeOK, PassOK, ToDeleteOK, Refs
<1> HIDE DEF uid
<1>7. /\ uid \in unsure' \/ dash'[uid] = Absent
      /\ \A u \in UIDs \ {uid} : dash'[u] = dash[u] /\ (u \in unsure' <=> u \in unsure)
  BY <1>3, <1>4, <1>6
<1>8. \A u : ~InFlight(u) /\ ~InFlight(u)'
  BY <1>2, <1>4, <1>5 DEF InFlight
<1>9. UniqueUids'
  BY <1>4 DEF Safe, UniqueUids
<1>10. RefsTellTruth'
  <2>1. \A k \in 1..known.len : known.cells[k].uid \in UIDs
    BY DEF TypeOK, IsSlice, Refs
  <2> QED BY <1>4, <1>7, <1>8, <2>1 DEF Safe, RefsTellTruth
<1>11. Tracked'
  BY <1>4, <1>7, <1>8 DEF Safe, Tracked, RefsIn, Present
<1>12. EmptyFolderOnly' /\ SlotRight' /\ SubmittedTruth' /\ DeletedTruth'
  BY <1>2, <1>5, <1>7 DEF EmptyFolderOnly, SlotRight, SubmittedTruth, DeletedTruth, At
<1> QED BY <1>9, <1>10, <1>11, <1>12 DEF Safe

LEMMA RemovePluginsSafe ==
    ASSUME TypeOK, OneWorker, Safe, NEW w \in Workers, RemovePlugins(w), ~Panic
    PROVE  Safe'
<1> DEFINE uid == job[w].ref.uid
           slot == HasDashboard(known, uid)
<1>1. \A v \in Workers : v = w
  BY DEF OneWorker
<1>2. job[w] \in Jobs /\ DOMAIN job = Workers /\ IsSlice(known, Refs)
  BY DEF TypeOK, PassOK, JobOK
<1>3. /\ job[w].pc = "unplug" /\ UNCHANGED <<dash, known, unsure>>
      /\ job'[w] = [job[w] EXCEPT !.pc = "drop", !.slot = slot]
  BY <1>2 DEF RemovePlugins, At, Become, grafana
<1>4. job'[w].pc = "drop" /\ job'[w].slot = slot /\ job'[w].ref = job[w].ref
  BY <1>2, <1>3 DEF Jobs
<1>5. /\ slot = 0 => \A i \in 1..known.len : known.cells[i].uid # uid
      /\ slot \in 1..known.len => known.cells[slot].uid = uid
  <2>1. /\ slot = 0 => \A i \in 1..known.len : known.cells[i].uid # uid
        /\ slot # 0 => known.cells[slot].uid = uid
    BY <1>2, HasDashboardFinds
  <2> HIDE DEF uid, slot
  <2>2. slot \in 1..known.len => slot # 0
    BY <1>2 DEF IsSlice
  <2> QED BY <2>1, <2>2
<1> HIDE DEF uid, slot
<1>6. SlotRight'
  BY <1>1, <1>3, <1>4, <1>5 DEF SlotRight, uid
<1>7. \A u : ~InFlight(u) /\ ~InFlight(u)'
  BY <1>1, <1>3, <1>4 DEF InFlight
<1>8. UniqueUids' /\ RefsTellTruth' /\ Tracked'
  BY <1>3, <1>7 DEF Safe, UniqueUids, RefsTellTruth, Tracked, RefsIn, Present
<1>9. EmptyFolderOnly' /\ SubmittedTruth' /\ DeletedTruth'
  <2>1. DeletedTruth /\ UNCHANGED <<dash, known, unsure>>
    BY <1>3 DEF Safe
  <2>2. EmptyFolderOnly' /\ SubmittedTruth'
    BY <1>1, <1>4 DEF EmptyFolderOnly, SubmittedTruth, At
  <2>3. DeletedTruth'
    BY <1>1, <1>3, <1>4, <2>1 DEF DeletedTruth
  <2> QED BY <2>2, <2>3
<1> QED BY <1>6, <1>8, <1>9 DEF Safe

\* The reference is crossed out, and the others keep their places but for the
\* last one, which fills the gap.
LEMMA RemoveDashboardEffect ==
    ASSUME TypeOK, OneWorker, Safe, NEW w \in Workers, RemoveDashboard(w)
    PROVE  LET ref == job[w].ref
           IN  /\ job[w].pc = "drop" /\ UNCHANGED <<dash, unsure>>
               /\ \/ job'[w].pc \in {"next", "idle"}
                  \/ job'[w].pc = "rmdir" /\ job'[w].fid = ref.fid /\ SafeToDelete(known', ref.fid)
               /\ ref.uid \in unsure \/ dash[ref.uid] = Absent
               /\ known.len \in Nat
               /\ \E from \in [1..known'.len -> 1..known.len] :
                    /\ \A i \in 1..known'.len : known'.cells[i] = known.cells[from[i]]
                    /\ \A i, k \in 1..known'.len : from[i] = from[k] => i = k
                    /\ \A m \in 1..known.len : known.cells[m].uid # ref.uid => \E i \in 1..known'.len : from[i] = m
                    /\ \A i \in 1..known'.len : known.cells[from[i]].uid # ref.uid
<1> DEFINE ref == job[w].ref
           slot == job[w].slot
<1>1. \A v \in Workers : v = w
  BY DEF OneWorker
<1>2. job[w] \in Jobs /\ DOMAIN job = Workers /\ IsSlice(known, Refs)
  BY DEF TypeOK, PassOK, JobOK
<1>3. /\ job[w].pc = "drop" /\ UNCHANGED <<dash, unsure>>
      /\ slot \in 0..known.len
      /\ known' = IF slot = 0 THEN known ELSE Dropped(known, slot)
      /\ \/ job'[w] = [job[w] EXCEPT !.pc = "next", !.cur = NoName, !.ref = NoRef, !.fid = 0, !.slot = 0]
         \/ /\ job'[w] = [job[w] EXCEPT !.pc = "rmdir", !.fid = ref.fid, !.slot = 0]
            /\ SafeToDelete(known', ref.fid)
         \/ job'[w] = IdleJob
  <2>1. /\ job[w].pc = "drop" /\ UNCHANGED <<dash, unsure>> /\ slot <= known.len
        /\ known' = IF slot = 0 THEN known ELSE Dropped(known, slot)
    BY DEF RemoveDashboard, At, grafana
  <2>2. slot \in 0..known.len
    BY <1>2, <2>1 DEF Jobs, IsSlice
  <2>3. \/ job'[w] = [job[w] EXCEPT !.pc = "next", !.cur = NoName, !.ref = NoRef, !.fid = 0, !.slot = 0]
        \/ /\ job'[w] = [job[w] EXCEPT !.pc = "rmdir", !.fid = ref.fid, !.slot = 0]
           /\ SafeToDelete(known', ref.fid)
        \/ job'[w] = IdleJob
    BY <1>2 DEF RemoveDashboard, Continue, Become, Idle
  <2> QED BY <2>1, <2>2, <2>3
<1>4. \/ job'[w].pc \in {"next", "idle"}
      \/ job'[w].pc = "rmdir" /\ job'[w].fid = ref.fid /\ SafeToDelete(known', ref.fid)
  <2>1. CASE job'[w] = [job[w] EXCEPT !.pc = "next", !.cur = NoName, !.ref = NoRef, !.fid = 0, !.slot = 0]
    BY <1>2, <2>1 DEF Jobs
  <2>2. CASE /\ job'[w] = [job[w] EXCEPT !.pc = "rmdir", !.fid = ref.fid, !.slot = 0]
             /\ SafeToDelete(known', ref.fid)
    <3> HIDE DEF ref
    <3> QED BY <1>2, <2>2 DEF Jobs
  <2>3. CASE job'[w] = IdleJob
    BY <2>3 DEF IdleJob
  <2> QED BY <1>3, <2>1, <2>2, <2>3
<1>5. /\ slot = 0 => \A i \in 1..known.len : known.cells[i].uid # ref.uid
      /\ slot \in 1..known.len => known.cells[slot].uid = ref.uid
      /\ ref.uid \in unsure \/ dash[ref.uid] = Absent
  BY <1>3 DEF Safe, SlotRight, DeletedTruth
<1>6. known.len \in Nat
  BY <1>2 DEF IsSlice
<1> HIDE DEF ref, slot
<1>7. \E from \in [1..known'.len -> 1..known.len] :
         /\ \A i \in 1..known'.len : known'.cells[i] = known.cells[from[i]]
         /\ \A i, k \in 1..known'.len : from[i] = from[k] => i = k
         /\ \A m \in 1..known.len : known.cells[m].uid # ref.uid => \E i \in 1..known'.len : from[i] = m
         /\ \A i \in 1..known'.len : known.cells[from[i]].uid # ref.uid
  <2>1. CASE slot = 0
    <3> DEFINE from == [i \in 1..known.len |-> i]
    <3>1. known' = known
      BY <1>3, <2>1
    <3>2. from \in [1..known'.len -> 1..known.len] /\ \A i \in 1..known'.len : from[i] = i
      BY <3>1
    <3> HIDE DEF from
    <3>3. \A i \in 1..known'.len : known'.cells[i] = known.cells[from[i]] /\ known.cells[from[i]].uid # ref.uid
      BY <1>5, <2>1, <3>1, <3>2
    <3>4. \A i, k \in 1..known'.len : from[i] = from[k] => i = k
      BY <3>2
    <3>5. \A m \in 1..known.len : known.cells[m].uid # ref.uid => \E i \in 1..known'.len : from[i] = m
      BY <3>1, <3>2
    <3> QED BY <3>2, <3>3, <3>4, <3>5
  <2>2. CASE slot # 0
    <3>1. /\ slot \in 1..known.len /\ known'.len = known.len - 1
          /\ \A k \in 1..(known.len - 1) :
                known'.cells[k] = IF k = slot THEN known.cells[known.len] ELSE known.cells[k]
      BY <1>2, <1>3, <1>6, <2>2, DroppedOK
    <3> DEFINE from == [i \in 1..(known.len - 1) |-> IF i = slot THEN known.len ELSE i]
    <3>2. from \in [1..known'.len -> 1..known.len]
      BY <1>6, <3>1
    <3>3. \A i \in 1..known'.len : known'.cells[i] = known.cells[from[i]]
      BY <3>1
    <3>4. \A i, k \in 1..known'.len : from[i] = from[k] => i = k
      BY <1>6, <3>1
    <3>5. \A m \in 1..known.len : m # slot => \E i \in 1..known'.len : from[i] = m
      <4> TAKE m \in 1..known.len
      <4> HAVE m # slot
      <4>1. CASE m = known.len
        BY <1>6, <3>1, <4>1
      <4>2. CASE m # known.len
        BY <1>6, <3>1, <4>2
      <4> QED BY <4>1, <4>2
    <3>6. \A i \in 1..known'.len : from[i] # slot
      BY <1>6, <3>1
    <3> HIDE DEF from
    <3>7. \A i \in 1..known'.len : known.cells[from[i]].uid # ref.uid
      BY <1>5, <3>1, <3>2, <3>6 DEF Safe, UniqueUids
    <3>8. \A m \in 1..known.len : known.cells[m].uid # ref.uid => \E i \in 1..known'.len : from[i] = m
      BY <1>5, <3>1, <3>5
    <3> QED BY <3>2, <3>3, <3>4, <3>7, <3>8
  <2> QED BY <2>1, <2>2
<1> QED BY <1>3, <1>4, <1>5, <1>6, <1>7 DEF ref

\* Forgetting a reference: its dashboard is gone or unclear, the others stay,
\* and if no other points to the folder, the folder is empty.
LEMMA RemoveDashboardSafe ==
    ASSUME TypeOK, OneWorker, Safe, NEW w \in Workers, RemoveDashboard(w)
    PROVE  Safe'
<1> DEFINE ref == job[w].ref
<1>1. \A v \in Workers : v = w
  BY DEF OneWorker
<1>3. job[w].pc = "drop" /\ UNCHANGED <<dash, unsure>>
  BY RemoveDashboardEffect
<1>4. \/ job'[w].pc \in {"next", "idle"}
      \/ job'[w].pc = "rmdir" /\ job'[w].fid = ref.fid /\ SafeToDelete(known', ref.fid)
  BY RemoveDashboardEffect
<1>5. ref.uid \in unsure \/ dash[ref.uid] = Absent
  BY RemoveDashboardEffect
<1>6. known.len \in Nat
  BY RemoveDashboardEffect
<1>7. \E from \in [1..known'.len -> 1..known.len] :
         /\ \A i \in 1..known'.len : known'.cells[i] = known.cells[from[i]]
         /\ \A i, k \in 1..known'.len : from[i] = from[k] => i = k
         /\ \A m \in 1..known.len : known.cells[m].uid # ref.uid => \E i \in 1..known'.len : from[i] = m
  BY RemoveDashboardEffect
<1> HIDE DEF ref
<1>8. \A u : ~InFlight(u) /\ ~InFlight(u)'
  BY <1>1, <1>3, <1>4 DEF InFlight
<1>9. UniqueUids' /\ RefsTellTruth'
  BY <1>3, <1>7, <1>8 DEF Safe, UniqueUids, RefsTellTruth
<1>10. Tracked'
  <2>1. \A u \in Present \ unsure : \E i \in 1..known'.len : known'.cells[i].uid = u
    <3> TAKE u \in Present \ unsure
    <3>1. u # ref.uid
      BY <1>5 DEF Present
    <3>2. PICK m \in 1..known.len : known.cells[m].uid = u
      BY <1>8 DEF Safe, Tracked, RefsIn
    <3> QED BY <1>7, <3>1, <3>2
  <2> QED BY <1>3, <2>1 DEF Tracked, RefsIn, Present
<1>11. EmptyFolderOnly'
  <2>1. ASSUME job'[w].pc = "rmdir", NEW u \in Present, u \notin unsure
        PROVE  dash[u].folder # job'[w].fid
    <3>1. PICK i \in 1..known'.len : known'.cells[i].uid = u
      BY <1>3, <1>8, <1>10, <2>1 DEF Tracked, RefsIn, Present
    <3>2. dash[u].folder = known'.cells[i].fid
      BY <1>3, <1>8, <1>9, <2>1, <3>1 DEF RefsTellTruth, Present
    <3>3. known'.cells[i].fid # ref.fid
      BY <1>4, <2>1 DEF SafeToDelete
    <3> QED BY <1>4, <2>1, <3>2, <3>3
  <2>2. Present' = Present
    BY <1>3 DEF Present
  <2> QED BY <1>1, <1>3, <2>1, <2>2 DEF EmptyFolderOnly, At
<1>12. SlotRight' /\ SubmittedTruth' /\ DeletedTruth'
  BY <1>1, <1>4 DEF SlotRight, SubmittedTruth, DeletedTruth
<1> QED BY <1>9, <1>10, <1>11, <1>12 DEF Safe

\* Deleting a folder takes dashboards away and moves none.
LEMMA DeleteFolderSafe ==
    ASSUME TypeOK, OneWorker, Safe, NEW w \in Workers, DeleteFolder(w)
    PROVE  Safe'
<1>1. \A v \in Workers : v = w
  BY DEF OneWorker
<1>2. job[w] \in Jobs /\ DOMAIN job = Workers /\ DOMAIN dash = UIDs
  BY DEF TypeOK, PassOK, JobOK
<1>3. /\ job[w].pc = "rmdir" /\ UNCHANGED <<known, unsure>>
      /\ \A u \in UIDs : dash'[u] \in {dash[u], Absent}
      /\ job'[w] = [job[w] EXCEPT !.pc = "next", !.cur = NoName, !.ref = NoRef, !.fid = 0, !.slot = 0]
  BY <1>2 DEF DeleteFolder, At, Continue, Become, config
<1>4. job'[w].pc = "next"
  BY <1>2, <1>3 DEF Jobs
<1>5. \A u : ~InFlight(u) /\ ~InFlight(u)'
  BY <1>1, <1>3, <1>4 DEF InFlight
<1>6. UniqueUids' /\ Tracked'
  BY <1>3, <1>5 DEF Safe, UniqueUids, Tracked, RefsIn, Present
<1>7. RefsTellTruth'
  <2>1. \A i \in 1..known.len : known.cells[i].uid \in UIDs
    BY DEF TypeOK, IsSlice, Refs
  <2> QED BY <1>3, <1>5, <2>1 DEF Safe, RefsTellTruth
<1>8. EmptyFolderOnly' /\ SlotRight' /\ SubmittedTruth' /\ DeletedTruth'
  BY <1>1, <1>4 DEF EmptyFolderOnly, SlotRight, SubmittedTruth, DeletedTruth, At
<1> QED BY <1>6, <1>7, <1>8 DEF Safe

\* Neither a crash nor what others do to resources, states and the console
\* makes the known list lie: what the operator cannot see becomes unsure.
LEMMA BystanderSafe ==
    ASSUME Safe, UNCHANGED <<known, job>>, unsure \subseteq unsure', DOMAIN dash = UIDs,
           panicked => panicked',
           \A u \in UIDs : dash'[u] \in {dash[u], Absent} \/ u \in unsure',
           \A i \in 1..known.len : known.cells[i].uid \in UIDs,
           \A w \in Workers : /\ job[w].pc \in {"add", "addLocked"} => TargetUid(w) \in UIDs
                              /\ job[w].pc \in {"unplug", "drop"} => job[w].ref.uid \in UIDs
    PROVE  Safe'
<1>1. \A u : InFlight(u)' <=> InFlight(u)
  BY DEF InFlight, TargetUid, Wanted
<1>2. UniqueUids' /\ RefsTellTruth' /\ Tracked'
  BY <1>1 DEF Safe, UniqueUids, RefsTellTruth, Tracked, RefsIn, Present
<1>3. EmptyFolderOnly'
  BY DEF Safe, EmptyFolderOnly, At, Present
<1>4. SlotRight'
  BY DEF Safe, SlotRight, TargetUid, Wanted
<1>5. SubmittedTruth'
  BY DEF Safe, SubmittedTruth, TargetUid, Wanted
<1>6. DeletedTruth'
  BY DEF Safe, DeletedTruth
<1> QED BY <1>2, <1>3, <1>4, <1>5, <1>6 DEF Safe

LEMMA UidsTyped ==
    ASSUME TypeOK
    PROVE  /\ DOMAIN dash = UIDs
           /\ \A i \in 1..known.len : known.cells[i].uid \in UIDs
           /\ \A w \in Workers : /\ job[w].pc \in {"add", "addLocked"} => TargetUid(w) \in UIDs
                                 /\ job[w].pc \in {"unplug", "drop"} => job[w].ref.uid \in UIDs
<1>1. DOMAIN dash = UIDs /\ \A i \in 1..known.len : known.cells[i].uid \in UIDs
  BY DEF TypeOK, IsSlice, Refs
<1>2. ASSUME NEW w \in Workers, job[w].pc \in {"add", "addLocked"} PROVE TargetUid(w) \in UIDs
  BY <1>2, WantedOK DEF TypeOK, PassOK, Submitting
<1>3. ASSUME NEW w \in Workers, job[w].pc \in {"unplug", "drop"} PROVE job[w].ref.uid \in UIDs
  BY <1>3 DEF TypeOK, PassOK, JobOK, Deleting, Refs
<1> QED BY <1>1, <1>2, <1>3

LEMMA EnvironmentSafe ==
    ASSUME TypeOK, Safe,
           \/ Panic
           \/ \E n \in Names : ChangeResource(n)
           \/ \E u \in UIDs : ConsoleDelete(u)
           \/ \E u \in ConsoleUids : ConsoleCreate(u)
           \/ \E r \in Reconcilers, b \in BOOLEAN : StateChange(r, b)
           \/ UNCHANGED vars
    PROVE  Safe'
<1>1. UNCHANGED <<known, job>> /\ unsure \subseteq unsure' /\ (panicked => panicked')
  <2>1. UNCHANGED <<known, job>>
    BY DEF Panic, ChangeResource, ConsoleDelete, ConsoleCreate, StateChange, vars, config, pass
  <2>2. unsure \subseteq unsure'
    BY DEF Panic, ChangeResource, ConsoleDelete, ConsoleCreate, StateChange, vars
  <2>3. panicked' = TRUE \/ panicked' = panicked
    BY DEF Panic, ChangeResource, ConsoleDelete, ConsoleCreate, StateChange, vars
  <2>4. panicked => panicked'
    BY <2>3, Zenon
  <2> QED BY <2>1, <2>2, <2>4
<1>2. \A u \in UIDs : dash'[u] \in {dash[u], Absent} \/ u \in unsure'
  <2>1. CASE \E x \in UIDs : ConsoleDelete(x)
    BY <2>1, UidsTyped DEF ConsoleDelete
  <2>2. CASE \E x \in ConsoleUids : ConsoleCreate(x)
    BY <2>2, UidsTyped DEF ConsoleCreate
  <2>3. CASE ~((\E x \in UIDs : ConsoleDelete(x)) \/ \E x \in ConsoleUids : ConsoleCreate(x))
    <3>1. dash' = dash
      BY <2>3 DEF Panic, ChangeResource, StateChange, vars, grafana
    <3> QED BY <3>1
  <2> QED BY <2>1, <2>2, <2>3
<1> QED BY <1>1, <1>2, UidsTyped, BystanderSafe

\* Invalidation empties hashes and leaves uids and folders.
LEMMA InvalidateSafe == ASSUME TypeOK, Safe, Invalidate PROVE Safe'
<1>1. IsSlice(known, Refs) /\ RefsIn(known) \in SUBSET Refs
  BY DEF TypeOK, RefsIn, IsSlice
<1>2. \A r \in Refs : Blank(r).uid = r.uid /\ Blank(r).fid = r.fid /\ Blank(r).hash = NoHash
  BY DEF Refs, Blank
<1>3. /\ known'.len = known.len
      /\ \A k \in 1..known.len : /\ known'.cells[k].uid = known.cells[k].uid
                                /\ known'.cells[k].fid = known.cells[k].fid
                                /\ known'.cells[k].hash \in {known.cells[k].hash, NoHash}
  <2>1. /\ known'.len = known.len
        /\ \A k \in 1..known.len : known'.cells[k] \in {known.cells[k], Blank(known.cells[k])}
    BY <1>1, BlankedOK, BlankRefOK DEF Invalidate, Invalidated
  <2>2. \A k \in 1..known.len : known.cells[k] \in Refs
    BY <1>1 DEF IsSlice
  <2> QED BY <1>2, <2>1, <2>2
<1>4. UNCHANGED <<dash, job, panicked, unsure>>
  BY DEF Invalidate, grafana
<1>5. \A u : InFlight(u)' <=> InFlight(u)
  BY <1>4 DEF InFlight, TargetUid, Wanted
<1>6. UniqueUids'
  BY <1>3 DEF Safe, UniqueUids
<1>7. RefsTellTruth'
  <2>1. \A k \in 1..known.len :
           \/ dash[known'.cells[k].uid] = Absent \/ known'.cells[k].uid \in unsure
           \/ InFlight(known'.cells[k].uid)
           \/ /\ dash[known'.cells[k].uid].folder = known'.cells[k].fid
              /\ known'.cells[k].hash # NoHash =>
                    dash[known'.cells[k].uid].json = known'.cells[k].hash.json
    <3> TAKE k \in 1..known.len
    <3> DEFINE old == known.cells[k]
               new == known'.cells[k]
    <3>1. \/ dash[old.uid] = Absent \/ old.uid \in unsure \/ InFlight(old.uid)
          \/ dash[old.uid].folder = old.fid /\ (old.hash # NoHash => dash[old.uid].json = old.hash.json)
      BY DEF Safe, RefsTellTruth
    <3>2. new.uid = old.uid /\ new.fid = old.fid /\ (new.hash # NoHash => new.hash = old.hash)
      BY <1>3
    <3> HIDE DEF old, new
    <3>3. \/ dash[new.uid] = Absent \/ new.uid \in unsure \/ InFlight(new.uid)
          \/ dash[new.uid].folder = new.fid /\ (new.hash # NoHash => dash[new.uid].json = new.hash.json)
      BY <3>1, <3>2
    <3> QED BY <3>3 DEF new
  <2> QED BY <1>3, <1>4, <1>5, <2>1 DEF RefsTellTruth
<1>8. Tracked'
  <2>1. \A u \in Present : u \in unsure \/ InFlight(u) \/ \E k \in 1..known.len : known.cells[k].uid = u
    BY DEF Safe, Tracked, RefsIn
  <2>2. \A u \in Present : u \in unsure \/ InFlight(u)' \/ \E k \in 1..known'.len : known'.cells[k].uid = u
    BY <1>3, <1>5, <2>1
  <2> QED BY <1>4, <2>2 DEF Tracked, RefsIn, Present
<1>9. SlotRight'
  <2> DEFINE uid(w) == IF job[w].pc = "drop" THEN job[w].ref.uid ELSE TargetUid(w)
  <2>1. \A w \in Workers : job[w].pc \in {"addLocked", "drop"} =>
          /\ job[w].slot = 0 => \A k \in 1..known.len : known.cells[k].uid # uid(w)
          /\ job[w].slot \in 1..known.len => known.cells[job[w].slot].uid = uid(w)
    BY DEF Safe, SlotRight
  <2>2. \A w : uid(w)' = uid(w)
    BY <1>4 DEF TargetUid, Wanted
  <2> HIDE DEF uid
  <2>3. \A w \in Workers : job[w].pc \in {"addLocked", "drop"} =>
          /\ job[w].slot = 0 => \A k \in 1..known'.len : known'.cells[k].uid # uid(w)
          /\ job[w].slot \in 1..known'.len => known'.cells[job[w].slot].uid = uid(w)
    BY <1>3, <2>1
  <2>4. \A w \in Workers : job'[w].pc \in {"addLocked", "drop"} =>
          /\ job'[w].slot = 0 => \A k \in 1..known'.len : known'.cells[k].uid # uid(w)'
          /\ job'[w].slot \in 1..known'.len => known'.cells[job'[w].slot].uid = uid(w)'
    BY <1>4, <2>2, <2>3
  <2> QED BY <2>4 DEF SlotRight, uid
<1>10. EmptyFolderOnly' /\ DeletedTruth'
  BY <1>4 DEF Safe, EmptyFolderOnly, DeletedTruth, At, Present
<1>11. SubmittedTruth'
  BY <1>4 DEF Safe, SubmittedTruth, TargetUid, Wanted
<1> QED BY <1>6, <1>7, <1>8, <1>9, <1>10, <1>11 DEF Safe

\* After Cleanup and Restart nothing is known, and all there is in Grafana is
\* unsure.
LEMMA ForgetSafe ==
    ASSUME TypeOK, Safe, Cleanup \/ Restart PROVE Safe'
<1>1. known'.len = 0 /\ dash' = dash /\ unsure' = unsure \cup Present
  BY DEF Cleanup, Restart, EmptySlice, grafana
<1>2. UniqueUids' /\ RefsTellTruth' /\ Tracked'
  BY <1>1 DEF UniqueUids, RefsTellTruth, Tracked, Present
<1>3. SlotRight'
  BY <1>1 DEF SlotRight
<1>4. CASE Cleanup
  <2>1. job' = job
    BY <1>4 DEF Cleanup
  <2>2. EmptyFolderOnly' /\ SubmittedTruth' /\ DeletedTruth'
    BY <1>1, <2>1 DEF Safe, EmptyFolderOnly, SubmittedTruth, DeletedTruth, Present, TargetUid, Wanted
  <2> QED BY <1>2, <1>3, <2>2 DEF Safe
<1>5. CASE Restart
  <2>1. \A w \in Workers : job'[w].pc = "idle"
    BY <1>5 DEF Restart, IdleJob
  <2>2. EmptyFolderOnly' /\ SubmittedTruth' /\ DeletedTruth'
    BY <2>1 DEF EmptyFolderOnly, SubmittedTruth, DeletedTruth, At
  <2> QED BY <1>2, <1>3, <2>2 DEF Safe
<1> QED BY <1>4, <1>5

LEMMA WorkSafe ==
    ASSUME TypeOK, OneWorker, Safe, NEW w \in Workers, Tick(w) \/ Reconcile(w) \/ Work(w)
    PROVE  Safe'
<1>1. CASE Panic
  BY <1>1, EnvironmentSafe
<1>2. CASE ~Panic
  BY <1>2, NeutralSteps, NeutralSafe, PostDashboardSafe, FindSlotSafe, AddDashboardSafe, DeleteDashboardSafe,
     RemovePluginsSafe, RemoveDashboardSafe, DeleteFolderSafe DEF Work, ProcessFatal, AddOutOfRange, RemoveOutOfRange
<1> QED BY <1>1, <1>2

\* With one goroutine, the invariant that the safety properties follow from.
LEMMA SafeWithOneWorker == ASSUME OneWorker PROVE Spec => []Safe
<1>1. Init => Safe
  BY InitSafe
<1>2. TypeOK /\ Safe /\ [Next]_vars => Safe'
  <2> SUFFICES ASSUME TypeOK, Safe, [Next]_vars PROVE Safe'
    OBVIOUS
  <2>1. CASE UNCHANGED vars
    BY <2>1, EnvironmentSafe
  <2>2. CASE Next
    BY <2>2, WorkSafe, EnvironmentSafe, InvalidateSafe, ForgetSafe DEF Next
  <2> QED BY <2>1, <2>2
<1> QED BY <1>1, <1>2, TypeCorrect, PTL DEF Spec

\* A reconciler that works on one pass at a time never records a uid twice,
\* though HasDashboard is asked before the lock is taken.
THEOREM UniqueUidsHolds == ASSUME OneWorker PROVE Spec => []UniqueUids
<1>1. Safe => UniqueUids
  BY DEF Safe
<1> QED BY <1>1, SafeWithOneWorker, PTL

\* ... what it knows about a dashboard is what Grafana holds, unless Grafana
\* left a call unconfirmed ...
THEOREM RefsTellTruthHolds == ASSUME OneWorker PROVE Spec => []RefsTellTruth
<1>1. Safe => RefsTellTruth
  BY DEF Safe
<1> QED BY <1>1, SafeWithOneWorker, PTL

\* ... it knows every dashboard it put there ...
THEOREM TrackedHolds == ASSUME OneWorker PROVE Spec => []Tracked
<1>1. Safe => Tracked
  BY DEF Safe
<1> QED BY <1>1, SafeWithOneWorker, PTL

\* ... and DeleteFolder takes none of them along.
THEOREM EmptyFolderOnlyHolds == ASSUME OneWorker PROVE Spec => []EmptyFolderOnly
<1>1. Safe => EmptyFolderOnly
  BY DEF Safe
<1> QED BY <1>1, SafeWithOneWorker, PTL

-----------------------------------------------------------------------------
(* No plugins left behind with one goroutine.                                *)

\* No two resources have dashboards with the same uid.
UidsApart == \A m, n \in Names : \A i, j \in Jsons : Uid[m][i] = Uid[n][j] => m = n

Named(r) == \E j \in Jsons : r.uid = Uid[r.name][j]
Listed(n) == \E i \in 1..known.len : known.cells[i].name = n

\* A pass that is not through with the resources still looks at its view.
Reading(j) == j.pc \in Submitting \cup {"list"} \/ (j.pc = "next" /\ j.todo # {})

\* What a pass sees has not left the list meanwhile ...
ViewListed(v) ==
    IF v.live THEN v.slice.len <= known.len
    ELSE \A i \in 1..v.slice.len : Named(v.slice.cells[i]) /\ Listed(v.slice.cells[i].name)

\* ... so that a dashboard found unchanged has its reference when its plugins are
\* entered, and the plugins go before the reference does.
PassTracked(j, v, d) ==
    /\ Reading(j) => ViewListed(v)
    /\ j.pc = "plug" => Listed(j.cur)
    /\ j.pc = "drop" => plugins[j.ref.name] = NoPlugins
    /\ \A i \in DOMAIN d : Named(d[i])
    /\ j.pc \in {"unplug", "drop"} => Named(j.ref)
    /\ j.pc \in Deleting => j.todo = {}

KnownNamed == \A i \in 1..known.len : Named(known.cells[i])
PluginsListed == \A n \in Names : plugins[n] # NoPlugins => Listed(n)
PluginsKept ==
    /\ KnownNamed /\ PluginsListed
    /\ \A w \in Workers : PassTracked(job[w], view[w], toDelete[w])

\* The list and the plugin map stay as they are, and the pass has what it needs.
LEMMA QuietKept ==
    ASSUME OneWorker, PluginsKept, NEW w \in Workers, UNCHANGED <<known, plugins>>,
           PassTracked(job'[w], view'[w], toDelete'[w])
    PROVE  PluginsKept'
<1>1. \A v \in Workers : v = w
  BY DEF OneWorker
<1>2. KnownNamed' /\ PluginsListed'
  BY DEF PluginsKept, KnownNamed, PluginsListed, Named, Listed
<1>3. PassTracked(job[w], view[w], toDelete[w])'
  BY DEF PassTracked, Reading, ViewListed, Named, Listed
<1> QED BY <1>1, <1>2, <1>3 DEF PluginsKept

\* A pass that goes on to the next dashboard, or begins, or ends.
LEMMA ContinueKept ==
    ASSUME TypeOK, OneWorker, PluginsKept, NEW w \in Workers, UNCHANGED <<known, plugins>>,
           Continue(w), job[w].pc \in Submitting \cup Deleting
    PROVE  PluginsKept'
<1>1. job[w] \in Jobs /\ DOMAIN job = Workers
  BY DEF TypeOK, PassOK, JobOK
<1>2. /\ job'[w] = [job[w] EXCEPT !.pc = "next", !.cur = NoName, !.ref = NoRef, !.fid = 0, !.slot = 0]
      /\ view' = view /\ toDelete' = toDelete
  BY <1>1 DEF Continue, Become
<1>3. job'[w].pc = "next" /\ job'[w].todo = job[w].todo
  BY <1>1, <1>2 DEF Jobs
<1>4. PassTracked(job[w], view[w], toDelete[w])
  BY DEF PluginsKept
<1>5. PassTracked(job'[w], view'[w], toDelete'[w])
  BY <1>2, <1>3, <1>4 DEF PassTracked, Reading, Submitting, Deleting
<1> QED BY <1>5, QuietKept

LEMMA BecomeKept ==
    ASSUME TypeOK, OneWorker, PluginsKept, NEW w \in Workers, UNCHANGED <<known, plugins, view, toDelete>>,
           Reading(job[w]), job'[w].pc \in {"check", "mkdir", "post", "add", "addLocked"}
    PROVE  PluginsKept'
<1>1. PassTracked(job[w], view[w], toDelete[w])
  BY DEF PluginsKept
<1>2. PassTracked(job'[w], view'[w], toDelete'[w])
  BY <1>1 DEF PassTracked, Deleting
<1> QED BY <1>2, QuietKept

LEMMA StartKept ==
    ASSUME TypeOK, OneWorker, PluginsKept, NEW w \in Workers, Tick(w) \/ Reconcile(w)
    PROVE  PluginsKept'
<1>1. DOMAIN job = Workers /\ DOMAIN view = Workers /\ DOMAIN toDelete = Workers /\ IsSlice(known, Refs)
  BY DEF TypeOK, PassOK
<1>2. UNCHANGED <<known, plugins>>
  BY DEF Tick, Reconcile, config
<1>3. PassTracked(job[w], view[w], toDelete[w])
  BY DEF PluginsKept
<1>4. CASE UNCHANGED pass
  BY <1>2, <1>3, <1>4, QuietKept DEF pass
<1>5. ASSUME NEW all \in BOOLEAN, StartPass(w, all) PROVE PluginsKept'
  <2>1. /\ job'[w] = [IdleJob EXCEPT !.pc = "list"] /\ view'[w] = GetDashboards(known, all)
        /\ toDelete' = toDelete
    BY <1>1, <1>5 DEF StartPass
  <2>2. ViewListed(GetDashboards(known, all))
    BY <1>1 DEF ViewListed, GetDashboards, Copied, Shared, CopyOf, IsSlice, PluginsKept, KnownNamed, Listed
  <2>3. job'[w].pc = "list"
    BY <2>1 DEF IdleJob
  <2>4. PassTracked(job'[w], view'[w], toDelete'[w])
    BY <1>3, <2>1, <2>2, <2>3 DEF PassTracked, Deleting
  <2> QED BY <1>2, <2>4, QuietKept
<1> QED BY <1>4, <1>5, ScanAssumption DEF Tick, Reconcile

LEMMA ListKept ==
    ASSUME TypeOK, OneWorker, PluginsKept, NEW w \in Workers, List(w)
    PROVE  PluginsKept'
<1>1. /\ job[w] \in Jobs /\ DOMAIN job = Workers /\ DOMAIN toDelete = Workers
      /\ IsSlice(known, Refs) /\ ViewOK(view[w], known)
  BY DEF TypeOK, PassOK, JobOK
<1>2. UNCHANGED <<known, plugins, view>> /\ job[w].pc = "list"
  BY DEF List, At, config
<1>3. PICK list, todo : job'[w] = [job[w] EXCEPT !.pc = "next", !.list = list, !.todo = todo]
  BY <1>1, Zenon DEF List
<1>4. job'[w].pc = "next"
  BY <1>1, <1>3 DEF Jobs
<1>5. PICK gone \in SUBSET (1..Seen(view[w], known).len) :
        toDelete'[w] = [i \in gone |-> Seen(view[w], known).cells[i]]
  <2> DEFINE seen == Seen(view[w], known)
             gone == { i \in 1..seen.len :
                         ~InNamespace([n \in Names |-> IF NsOf[n] \in Scope[w[1]] THEN crs[n] ELSE NoCR], seen.cells[i]) }
  <2>1. toDelete' = [toDelete EXCEPT ![w] = [i \in gone |-> seen.cells[i]]]
    BY DEF List
  <2>2. gone \in SUBSET (1..seen.len)
    OBVIOUS
  <2> QED BY <1>1, <2>1, <2>2
<1>6. ViewListed(view[w])
  BY <1>2 DEF PluginsKept, PassTracked, Reading
<1>7. \A i \in 1..Seen(view[w], known).len : Named(Seen(view[w], known).cells[i])
  BY <1>1, <1>6 DEF PluginsKept, KnownNamed, ViewListed, Seen, IsSlice, ViewOK
<1>8. PassTracked(job'[w], view'[w], toDelete'[w])
  BY <1>2, <1>4, <1>5, <1>6, <1>7 DEF PassTracked, Deleting
<1> QED BY <1>2, <1>8, QuietKept

LEMMA EndPassKept ==
    ASSUME TypeOK, OneWorker, PluginsKept, NEW w \in Workers, EndPass(w)
    PROVE  PluginsKept'
<1>1. DOMAIN job = Workers /\ DOMAIN view = Workers /\ DOMAIN toDelete = Workers
  BY DEF TypeOK, PassOK
<1>2. job'[w].pc = "idle" /\ toDelete'[w] = NothingToDelete /\ UNCHANGED <<known, plugins>>
  BY <1>1 DEF EndPass, Idle, IdleJob, config
<1>3. PassTracked(job'[w], view'[w], toDelete'[w])
  BY <1>2 DEF PassTracked, Reading, Submitting, Deleting, NothingToDelete
<1> QED BY <1>2, <1>3, QuietKept

LEMMA FoldersKept ==
    ASSUME TypeOK, OneWorker, PluginsKept, NEW w \in Workers, GetAllFolders(w)
    PROVE  PluginsKept'
<1>1. job[w] \in Jobs /\ DOMAIN job = Workers
  BY DEF TypeOK, PassOK, JobOK
<1>2. PICK n \in job[w].todo, outcome \in Outcomes \ {"lost"} : GetAllFolders(w)!(n, outcome)
  BY Zenon DEF GetAllFolders
<1>3. UNCHANGED <<known, plugins, view, toDelete>> /\ job[w].pc = "next" /\ Reading(job[w])
  BY <1>2 DEF Become, At, config, Reading
<1> DEFINE j == [job[w] EXCEPT !.todo = @ \ {n}]
<1>4. \/ job'[w] = j
      \/ \E fid : job'[w] = [j EXCEPT !.pc = "check", !.cur = n, !.fid = fid]
      \/ job'[w] = [j EXCEPT !.pc = "mkdir", !.cur = n]
  BY <1>1, <1>2 DEF Become
<1>5. job'[w].pc = "next" \/ job'[w].pc \in {"check", "mkdir"}
  BY <1>1, <1>3, <1>4 DEF Jobs
<1>6. CASE job'[w].pc = "next"
  <2>1. PassTracked(job'[w], view'[w], toDelete'[w])
    BY <1>3, <1>6 DEF PluginsKept, PassTracked, Deleting
  <2> QED BY <1>3, <2>1, QuietKept
<1> QED BY <1>3, <1>5, <1>6, BecomeKept

LEMMA CreateFolderKept ==
    ASSUME TypeOK, OneWorker, PluginsKept, NEW w \in Workers, CreateFolder(w)
    PROVE  PluginsKept'
<1>1. job[w] \in Jobs /\ DOMAIN job = Workers
  BY DEF TypeOK, PassOK, JobOK
<1>2. UNCHANGED <<known, plugins>> /\ job[w].pc = "mkdir"
  BY Zenon DEF CreateFolder, At, config
<1>3. Continue(w) \/ \E fid : Become(w, [job[w] EXCEPT !.pc = "check", !.fid = fid])
  BY Zenon DEF CreateFolder
<1>4. CASE Continue(w)
  BY <1>2, <1>4, ContinueKept DEF Submitting
<1>5. ASSUME NEW fid, Become(w, [job[w] EXCEPT !.pc = "check", !.fid = fid]) PROVE PluginsKept'
  <2>1. UNCHANGED <<view, toDelete>> /\ job'[w].pc = "check"
    BY <1>1, <1>5 DEF Become, Jobs
  <2> QED BY <1>2, <2>1, BecomeKept DEF Reading, Submitting
<1> QED BY <1>3, <1>4, <1>5

LEMMA PostKept ==
    ASSUME TypeOK, OneWorker, PluginsKept, NEW w \in Workers, PostDashboard(w)
    PROVE  PluginsKept'
<1>1. job[w] \in Jobs /\ DOMAIN job = Workers
  BY DEF TypeOK, PassOK, JobOK
<1>2. UNCHANGED <<known, plugins>> /\ job[w].pc = "post"
  BY Zenon DEF PostDashboard, At, config
<1>3. Continue(w) \/ Become(w, [job[w] EXCEPT !.pc = "add"])
  BY Zenon DEF PostDashboard
<1>4. CASE Continue(w)
  BY <1>2, <1>4, ContinueKept DEF Submitting
<1>5. CASE Become(w, [job[w] EXCEPT !.pc = "add"])
  <2>1. UNCHANGED <<view, toDelete>> /\ job'[w].pc = "add"
    BY <1>1, <1>5 DEF Become, Jobs
  <2> QED BY <1>2, <2>1, BecomeKept DEF Reading, Submitting
<1> QED BY <1>3, <1>4, <1>5

LEMMA FindSlotKept ==
    ASSUME TypeOK, OneWorker, PluginsKept, NEW w \in Workers, FindSlot(w)
    PROVE  PluginsKept'
<1>1. job[w] \in Jobs /\ DOMAIN job = Workers
  BY DEF TypeOK, PassOK, JobOK
<1>2. UNCHANGED <<known, plugins, view, toDelete>> /\ job[w].pc = "add" /\ job'[w].pc = "addLocked"
  BY <1>1 DEF FindSlot, At, Become, Jobs, config
<1> QED BY <1>2, BecomeKept DEF Reading, Submitting

\* A dashboard found unchanged is on the list: it was in the view.
LEMMA ProcessKept ==
    ASSUME TypeOK, OneWorker, PluginsKept, NEW w \in Workers, ProcessDashboard(w)
    PROVE  PluginsKept'
<1>1. /\ job[w] \in Jobs /\ DOMAIN job = Workers /\ IsSlice(known, Refs) /\ ViewOK(view[w], known)
  BY DEF TypeOK, PassOK, JobOK
<1>2. UNCHANGED <<known, plugins>> /\ job[w].pc = "check"
  BY DEF ProcessDashboard, At, config
<1> DEFINE ref == Find(Seen(view[w], known), job[w].cur)
<1>3. \/ Continue(w) \/ Become(w, [job[w] EXCEPT !.pc = "post"])
      \/ Become(w, [job[w] EXCEPT !.pc = "plug"]) /\ ref # NoRef
  BY Zenon DEF ProcessDashboard
<1>4. Reading(job[w]) /\ ViewListed(view[w])
  BY <1>2 DEF PluginsKept, PassTracked, Reading, Submitting
<1>5. CASE Continue(w)
  BY <1>2, <1>5, ContinueKept DEF Submitting
<1>6. CASE Become(w, [job[w] EXCEPT !.pc = "post"])
  <2>1. UNCHANGED <<view, toDelete>> /\ job'[w].pc = "post"
    BY <1>1, <1>6 DEF Become, Jobs
  <2> QED BY <1>2, <1>4, <2>1, BecomeKept
<1>7. CASE Become(w, [job[w] EXCEPT !.pc = "plug"]) /\ ref # NoRef
  <2>1. UNCHANGED <<view, toDelete>> /\ job'[w].pc = "plug" /\ job'[w].cur = job[w].cur
    BY <1>1, <1>7 DEF Become, Jobs
  <2>2. PICK i \in 1..Seen(view[w], known).len : Seen(view[w], known).cells[i].name = job[w].cur
    BY <1>7 DEF Find
  <2>3. Listed(job[w].cur)
    BY <1>1, <1>4, <2>2 DEF ViewListed, Seen, Listed, IsSlice, ViewOK
  <2>4. PassTracked(job'[w], view'[w], toDelete'[w])
    BY <1>4, <2>1, <2>3 DEF PluginsKept, PassTracked, Deleting
  <2> QED BY <1>2, <2>4, QuietKept
<1> QED BY <1>3, <1>5, <1>6, <1>7

\* The reference that is entered has the name of the dashboard, and so has the
\* one it replaces.
LEMMA AddKept ==
    ASSUME TypeOK, OneWorker, UidsApart, Safe, PluginsKept, NEW w \in Workers, AddDashboard(w)
    PROVE  PluginsKept'
<1> DEFINE uid == TargetUid(w)
           slot == job[w].slot
           ref == NewRef(w)
<1>1. \A v \in Workers : v = w
  BY DEF OneWorker
<1>2. /\ job[w] \in Jobs /\ DOMAIN job = Workers /\ DOMAIN view = Workers /\ IsSlice(known, Refs)
      /\ JobOK(job[w])
  BY DEF TypeOK, PassOK, JobOK
<1>3. job[w].pc = "addLocked" /\ UNCHANGED <<plugins, toDelete>>
  BY DEF AddDashboard, At
<1>4. job'[w].pc = "plug" /\ job'[w].cur = job[w].cur
  BY <1>2 DEF AddDashboard, Jobs
<1>5. ref \in Refs /\ ref.name = job[w].cur /\ ref.uid = uid /\ uid = Uid[job[w].cur][Wanted(w).json]
      /\ Wanted(w).json \in Jsons /\ job[w].cur \in Names
  <2>1. Wanted(w) \in Specs
    BY <1>2, <1>3, WantedOK DEF Submitting
  <2> QED BY <1>2, <1>3, <2>1, WantedOK DEF Submitting, NewRef, TargetUid, Specs
<1>6. \/ /\ slot = 0 /\ known' = Appended(known, ref)
         /\ view' = IF Reallocates(known) THEN [v \in Workers |-> Detached(view[v], known)] ELSE view
      \/ slot \in 1..known.len /\ known' = Replaced(known, slot, ref) /\ view' = view
  BY DEF AddDashboard, DetachViews
<1>7. slot \in 1..known.len => known.cells[slot].uid = uid
  BY <1>3 DEF Safe, SlotRight
<1>8. known.len \in Nat /\ \A i \in 1..known.len : known.cells[i] \in Refs /\ Named(known.cells[i])
  BY <1>2 DEF IsSlice, PluginsKept, KnownNamed
<1>9. ViewListed(view[w]) /\ PassTracked(job[w], view[w], toDelete[w])
  BY <1>3 DEF PluginsKept, PassTracked, Reading, Submitting
<1>10. Named(ref)
  BY <1>5 DEF Named
<1> HIDE DEF uid, slot, ref
<1>11. /\ known.len <= known'.len /\ known'.len \in Nat
       /\ \A i \in 1..known.len : known'.cells[i].name = known.cells[i].name
       /\ \A i \in 1..known'.len : Named(known'.cells[i])
       /\ \E i \in 1..known'.len : known'.cells[i].name = job[w].cur
  <2>1. CASE slot = 0 /\ known' = Appended(known, ref)
    <3>1. /\ known'.len = known.len + 1
          /\ \A i \in 1..known.len : known'.cells[i] = known.cells[i]
          /\ known'.cells[known.len + 1] = ref
      BY <1>2, <1>5, <2>1, AppendedOK
    <3>2. \A i \in 1..known'.len : i \in 1..known.len \/ i = known.len + 1
      BY <1>8, <3>1
    <3>3. known.len + 1 \in 1..known'.len /\ known.len <= known'.len /\ known'.len \in Nat
      BY <1>8, <3>1
    <3> QED BY <1>5, <1>8, <1>10, <3>1, <3>2, <3>3
  <2>2. CASE slot \in 1..known.len /\ known' = Replaced(known, slot, ref)
    <3>1. /\ known'.len = known.len
          /\ \A i \in 1..known.len : known'.cells[i] = IF i = slot THEN ref ELSE known.cells[i]
      BY <1>2, <1>5, <2>2, ReplacedOK
    <3>2. known.cells[slot].name = job[w].cur
      <4>1. known.cells[slot].name \in Names /\ known.cells[slot].uid = uid
        BY <1>7, <1>8, <2>2 DEF Refs
      <4>2. PICK i \in Jsons : known.cells[slot].uid = Uid[known.cells[slot].name][i]
        BY <1>8, <2>2 DEF Named
      <4>3. \A m \in Names : \A k \in Jsons : Uid[m][k] = uid => m = job[w].cur
        BY <1>5 DEF UidsApart
      <4> QED BY <4>1, <4>2, <4>3
    <3> QED BY <1>5, <1>8, <1>10, <2>2, <3>1, <3>2
  <2> QED BY <1>6, <2>1, <2>2
<1>12. \A n : Listed(n) => Listed(n)'
  BY <1>8, <1>11 DEF Listed
<1>13. KnownNamed' /\ PluginsListed' /\ Listed(job[w].cur)'
  <2>1. KnownNamed'
    BY <1>11 DEF KnownNamed, Named
  <2>2. PluginsListed'
    BY <1>3, <1>12 DEF PluginsKept, PluginsListed
  <2>3. Listed(job[w].cur)'
    BY <1>4, <1>11 DEF Listed
  <2> QED BY <2>1, <2>2, <2>3
<1>14. ViewListed(view[w])'
  <2>1. CASE view' = view
    <3>1. view'[w] = view[w] /\ ViewListed(view[w]) /\ ViewOK(view[w], known)
      BY <1>9, <2>1 DEF TypeOK, PassOK
    <3> HIDE DEF uid
    <3>2. CASE view[w].live
      BY <1>8, <1>11, <3>1, <3>2 DEF ViewListed, Named, ViewOK
    <3>3. CASE ~view[w].live
      BY <1>12, <3>1, <3>3 DEF ViewListed, Named
    <3> QED BY <3>2, <3>3
  <2>2. CASE view' = [v \in Workers |-> Detached(view[v], known)] /\ view[w].live
    <3>1. /\ ~view'[w].live /\ view'[w].slice.len = view[w].slice.len
          /\ \A i \in 1..view[w].slice.len : view'[w].slice.cells[i] = known.cells[i]
      BY <2>2 DEF Detached, CopyOf
    <3>2. view[w].slice.len <= known.len /\ view[w].slice.len \in Nat
      BY <1>9, <2>2 DEF ViewListed, TypeOK, PassOK, ViewOK
    <3>3. \A i \in 1..view[w].slice.len : i \in 1..known.len
      BY <1>8, <3>2
    <3>4. \A i \in 1..known.len : Listed(known.cells[i].name)
      BY DEF Listed
    <3> QED BY <1>8, <1>12, <3>1, <3>3, <3>4 DEF ViewListed, Named
  <2>3. CASE view' = [v \in Workers |-> Detached(view[v], known)] /\ ~view[w].live
    <3>1. view'[w] = view[w]
      BY <2>3 DEF Detached
    <3> QED BY <1>9, <1>12, <2>3, <3>1 DEF ViewListed, Named
  <2> QED BY <1>6, <2>1, <2>2, <2>3
<1>15. PassTracked(job[w], view[w], toDelete[w])'
  <2>1. \A i \in DOMAIN toDelete'[w] : Named(toDelete'[w][i])
    BY <1>3, <1>9 DEF PassTracked
  <2> QED BY <1>4, <1>13, <1>14, <2>1 DEF PassTracked, Deleting, Named
<1> QED BY <1>1, <1>13, <1>15 DEF PluginsKept

LEMMA SetPluginsKept ==
    ASSUME TypeOK, OneWorker, PluginsKept, NEW w \in Workers, SetPlugins(w)
    PROVE  PluginsKept'
<1>1. job[w] \in Jobs /\ DOMAIN job = Workers /\ DOMAIN plugins = Names
  BY DEF TypeOK, PassOK, JobOK
<1>2. \A v \in Workers : v = w
  BY DEF OneWorker
<1>3. /\ job[w].pc = "plug" /\ known' = known /\ UNCHANGED <<view, toDelete>>
      /\ \A n \in Names : plugins'[n] = plugins[n] \/ n = job[w].cur
      /\ job'[w] = [job[w] EXCEPT !.pc = "next", !.cur = NoName, !.ref = NoRef, !.fid = 0, !.slot = 0]
  BY <1>1 DEF SetPlugins, At, Continue, Become
<1>4. job'[w].pc = "next" /\ job'[w].todo = job[w].todo
  BY <1>1, <1>3 DEF Jobs
<1>5. PassTracked(job[w], view[w], toDelete[w]) /\ Reading(job[w])
  BY <1>3 DEF PluginsKept, Reading, Submitting
<1>6. KnownNamed' /\ PluginsListed'
  BY <1>3, <1>5 DEF PluginsKept, PassTracked, KnownNamed, PluginsListed, Named, Listed
<1>7. PassTracked(job[w], view[w], toDelete[w])'
  <2>1. ViewListed(view[w])' <=> ViewListed(view[w])
    BY <1>3 DEF ViewListed, Named, Listed
  <2>2. \A i \in DOMAIN toDelete[w] : Named(toDelete[w][i])' <=> Named(toDelete[w][i])
    BY <1>3 DEF Named
  <2> QED BY <1>3, <1>4, <1>5, <2>1, <2>2 DEF PassTracked, Deleting, Reading
<1> QED BY <1>2, <1>6, <1>7 DEF PluginsKept

LEMMA DeleteKept ==
    ASSUME TypeOK, OneWorker, PluginsKept, NEW w \in Workers, DeleteDashboard(w)
    PROVE  PluginsKept'
<1>1. job[w] \in Jobs /\ DOMAIN job = Workers /\ DOMAIN toDelete = Workers
  BY DEF TypeOK, PassOK, JobOK
<1>2. PICK outcome \in Outcomes \ {"503"}, i \in DOMAIN toDelete[w] : DeleteDashboard(w)!(outcome, i)
  BY DEF DeleteDashboard
<1>3. /\ job[w].todo = {} /\ UNCHANGED <<known, plugins, view>>
      /\ job'[w] = [job[w] EXCEPT !.pc = "unplug", !.ref = toDelete[w][i]]
      /\ toDelete'[w] = [k \in DOMAIN toDelete[w] \ {i} |-> toDelete[w][k]]
  BY <1>1, <1>2 DEF At, config
<1>4. job'[w].pc = "unplug" /\ job'[w].todo = {} /\ job'[w].ref = toDelete[w][i]
  BY <1>1, <1>3 DEF Jobs
<1>5. PassTracked(job[w], view[w], toDelete[w])
  BY DEF PluginsKept
<1>6. PassTracked(job'[w], view'[w], toDelete'[w])
  BY <1>3, <1>4, <1>5 DEF PassTracked, Reading, Submitting
<1> QED BY <1>3, <1>6, QuietKept

LEMMA UnplugKept ==
    ASSUME TypeOK, OneWorker, PluginsKept, NEW w \in Workers, RemovePlugins(w), ~Panic
    PROVE  PluginsKept'
<1>1. job[w] \in Jobs /\ DOMAIN job = Workers /\ DOMAIN plugins = Names /\ JobOK(job[w])
  BY DEF TypeOK, PassOK, JobOK
<1>2. \A v \in Workers : v = w
  BY DEF OneWorker
<1>3. /\ job[w].pc = "unplug" /\ known' = known /\ UNCHANGED <<view, toDelete>>
      /\ plugins' = [plugins EXCEPT ![job[w].ref.name] = NoPlugins]
      /\ job'[w] = [job[w] EXCEPT !.pc = "drop", !.slot = HasDashboard(known, job[w].ref.uid)]
  BY <1>1 DEF RemovePlugins, Unplugged, At, Become
<1>4. job'[w].pc = "drop" /\ job'[w].todo = job[w].todo /\ job'[w].ref = job[w].ref
  BY <1>1, <1>3 DEF Jobs
<1>5. job[w].ref \in Refs /\ job[w].ref.name \in Names
  BY <1>1, <1>3 DEF JobOK, Deleting, Refs
<1>6. plugins'[job[w].ref.name] = NoPlugins /\ \A n \in Names : plugins'[n] \in {plugins[n], NoPlugins}
  BY <1>1, <1>3, <1>5
<1>7. PassTracked(job[w], view[w], toDelete[w]) /\ KnownNamed /\ PluginsListed
  BY DEF PluginsKept
<1>8. KnownNamed' /\ PluginsListed'
  BY <1>3, <1>6, <1>7 DEF KnownNamed, PluginsListed, Named, Listed
<1>9. PassTracked(job[w], view[w], toDelete[w])'
  BY <1>3, <1>4, <1>6, <1>7 DEF PassTracked, Deleting, Reading, Submitting, Named
<1> QED BY <1>2, <1>8, <1>9 DEF PluginsKept

\* The reference that goes is the one whose plugins have gone: every other name
\* keeps its own.
LEMMA DropKept ==
    ASSUME TypeOK, OneWorker, UidsApart, Safe, PluginsKept, NEW w \in Workers, RemoveDashboard(w)
    PROVE  PluginsKept'
<1> DEFINE ref == job[w].ref
<1>1. /\ job[w] \in Jobs /\ DOMAIN job = Workers /\ DOMAIN toDelete = Workers
      /\ JobOK(job[w]) /\ IsSlice(known, Refs)
  BY DEF TypeOK, PassOK, JobOK
<1>2. \A v \in Workers : v = w
  BY DEF OneWorker
<1>3. job[w].pc = "drop" /\ plugins' = plugins
  BY DEF RemoveDashboard, At
<1>4. PassTracked(job[w], view[w], toDelete[w]) /\ KnownNamed /\ PluginsListed
  BY DEF PluginsKept
<1>5. ref \in Refs /\ ref.name \in Names /\ Named(ref) /\ plugins[ref.name] = NoPlugins /\ job[w].todo = {}
  BY <1>1, <1>3, <1>4 DEF JobOK, Deleting, Refs, PassTracked
<1>6. /\ job'[w].pc \in {"next", "idle", "rmdir"} /\ job'[w].todo = {}
      /\ toDelete'[w] \in {toDelete[w], NothingToDelete}
  <2>1. \/ Continue(w) \/ Idle(w)
        \/ Become(w, [job[w] EXCEPT !.pc = "rmdir", !.fid = ref.fid, !.slot = 0])
    BY Zenon DEF RemoveDashboard
  <2>2. CASE Continue(w)
    BY <1>1, <1>5, <2>2 DEF Continue, Become, Jobs
  <2>3. CASE Idle(w)
    BY <1>1, <2>3 DEF Idle, IdleJob
  <2>4. CASE Become(w, [job[w] EXCEPT !.pc = "rmdir", !.fid = ref.fid, !.slot = 0])
    BY <1>1, <1>5, <2>4 DEF Become, Jobs
  <2> QED BY <2>1, <2>2, <2>3, <2>4
<1>7. PICK from \in [1..known'.len -> 1..known.len] :
        /\ \A i \in 1..known'.len : known'.cells[i] = known.cells[from[i]]
        /\ \A m \in 1..known.len : known.cells[m].uid # ref.uid => \E i \in 1..known'.len : from[i] = m
  BY RemoveDashboardEffect
<1> HIDE DEF ref
<1>8. KnownNamed'
  BY <1>4, <1>7 DEF KnownNamed, Named
<1>9. PluginsListed'
  <2> SUFFICES ASSUME NEW n \in Names, plugins[n] # NoPlugins PROVE Listed(n)'
    BY <1>3 DEF PluginsListed
  <2>1. PICK m \in 1..known.len : known.cells[m].name = n
    BY <1>4 DEF PluginsListed, Listed
  <2>2. known.cells[m].uid # ref.uid
    <3>1. PICK i \in Jsons : known.cells[m].uid = Uid[n][i]
      BY <1>4, <2>1 DEF KnownNamed, Named
    <3>2. PICK k \in Jsons : ref.uid = Uid[ref.name][k]
      BY <1>5 DEF Named
    <3> QED BY <1>5, <3>1, <3>2 DEF UidsApart
  <2> QED BY <1>7, <2>1, <2>2 DEF Listed
<1>10. PassTracked(job[w], view[w], toDelete[w])'
  BY <1>4, <1>6 DEF PassTracked, Reading, Submitting, Deleting, Named, NothingToDelete
<1> QED BY <1>2, <1>8, <1>9, <1>10 DEF PluginsKept

LEMMA RmdirKept ==
    ASSUME TypeOK, OneWorker, PluginsKept, NEW w \in Workers, DeleteFolder(w)
    PROVE  PluginsKept'
<1>1. UNCHANGED <<known, plugins>> /\ job[w].pc = "rmdir" /\ Continue(w)
  BY Zenon DEF DeleteFolder, At, config
<1> QED BY <1>1, ContinueKept DEF Deleting

\* InvalidateDashboards writes hashes and nothing else.
LEMMA InvalidateKept ==
    ASSUME TypeOK, PluginsKept, Invalidate
    PROVE  PluginsKept'
<1>1. IsSlice(known, Refs) /\ RefsIn(known) \in SUBSET Refs
  BY DEF TypeOK, PassOK, IsSlice, RefsIn
<1>2. /\ known' = Blanked(known, RefsIn(known))
      /\ \A w \in Workers : view'[w] = Blanking(view[w], known)
      /\ UNCHANGED <<plugins, toDelete, job>>
  BY DEF Invalidate, Invalidated
<1>4. \A r \in Refs : Blank(r) \in Refs /\ Blank(r).name = r.name /\ Blank(r).uid = r.uid
  BY BlankRefOK DEF Blank, Refs
<1>5. ASSUME NEW s, IsSlice(s, Refs)
      PROVE  LET t == Blanked(s, RefsIn(known))
             IN  /\ t.len = s.len
                 /\ \A i \in 1..s.len : t.cells[i].name = s.cells[i].name /\ t.cells[i].uid = s.cells[i].uid
  <2> DEFINE t == Blanked(s, RefsIn(known))
  <2>1. t.len = s.len /\ \A i \in 1..s.len : t.cells[i] \in {s.cells[i], Blank(s.cells[i])}
    BY <1>1, <1>4, <1>5, BlankedOK
  <2>2. \A i \in 1..s.len : s.cells[i] \in Refs
    BY <1>5 DEF IsSlice
  <2> HIDE DEF t
  <2>3. \A i \in 1..s.len : t.cells[i].name = s.cells[i].name /\ t.cells[i].uid = s.cells[i].uid
    BY <1>4, <2>1, <2>2
  <2> QED BY <2>1, <2>3 DEF t
<1>6. /\ known'.len = known.len
      /\ \A i \in 1..known.len : known'.cells[i].name = known.cells[i].name /\ known'.cells[i].uid = known.cells[i].uid
  BY <1>1, <1>2, <1>5
<1>7. \A n : Listed(n) => Listed(n)'
  BY <1>6 DEF Listed
<1>8. KnownNamed' /\ PluginsListed'
  BY <1>2, <1>6, <1>7 DEF PluginsKept, KnownNamed, PluginsListed, Named
<1>9. ASSUME NEW w \in Workers PROVE PassTracked(job[w], view[w], toDelete[w])'
  <2>1. ViewListed(view[w]) => ViewListed(view[w])'
    <3>1. CASE view[w].live
      BY <1>2, <1>6, <3>1 DEF Blanking, ViewListed
    <3>2. CASE ~view[w].live
      <4>1. IsSlice(view[w].slice, Refs)
        BY <3>2 DEF ViewOK, Seen, TypeOK, PassOK
      <4>2. /\ view'[w].live = FALSE /\ view'[w].slice.len = view[w].slice.len
            /\ \A i \in 1..view[w].slice.len : /\ view'[w].slice.cells[i].name = view[w].slice.cells[i].name
                                               /\ view'[w].slice.cells[i].uid = view[w].slice.cells[i].uid
        <5>1. view'[w] = [live |-> FALSE, slice |-> Blanked(view[w].slice, RefsIn(known))]
          BY <1>2, <3>2 DEF Blanking
        <5>2. view'[w].live = FALSE /\ view'[w].slice = Blanked(view[w].slice, RefsIn(known))
          BY <5>1
        <5> QED BY <1>5, <4>1, <5>2
      <4> QED BY <1>7, <3>2, <4>2 DEF ViewListed, Named
    <3> QED BY <3>1, <3>2
  <2>2. PassTracked(job[w], view[w], toDelete[w])
    BY DEF PluginsKept
  <2>3. job[w].pc = "plug" => Listed(job[w].cur)'
    BY <1>2, <1>7, <2>2 DEF PassTracked
  <2> QED BY <1>2, <2>1, <2>2, <2>3 DEF PassTracked, Named, Reading
<1> QED BY <1>8, <1>9 DEF PluginsKept

\* Nothing is on its way when the operator comes up, with an empty map.
LEMMA FreshKept ==
    ASSUME known.len = 0, \A n \in Names : plugins[n] = NoPlugins,
           \A w \in Workers : job[w] = IdleJob /\ toDelete[w] = NothingToDelete
    PROVE  PluginsKept
<1>1. KnownNamed /\ PluginsListed
  BY DEF KnownNamed, PluginsListed
<1>2. \A w \in Workers : PassTracked(job[w], view[w], toDelete[w])
  BY DEF PassTracked, Reading, Submitting, Deleting, IdleJob, NothingToDelete
<1> QED BY <1>1, <1>2 DEF PluginsKept

LEMMA RestartKept == ASSUME Restart PROVE PluginsKept'
<1>1. /\ known'.len = 0 /\ \A n \in Names : plugins'[n] = NoPlugins
      /\ \A w \in Workers : job'[w] = IdleJob /\ toDelete'[w] = NothingToDelete
  BY DEF Restart, EmptySlice
<1>2. KnownNamed' /\ PluginsListed'
  BY <1>1 DEF KnownNamed, PluginsListed
<1>3. \A w \in Workers : PassTracked(job[w], view[w], toDelete[w])'
  BY <1>1 DEF PassTracked, Reading, Submitting, Deleting, IdleJob, NothingToDelete
<1> QED BY <1>2, <1>3 DEF PluginsKept

LEMMA BystanderKept ==
    ASSUME PluginsKept, UNCHANGED <<known, plugins, job, view, toDelete>>
    PROVE  PluginsKept'
<1>1. KnownNamed' /\ PluginsListed'
  BY DEF PluginsKept, KnownNamed, PluginsListed, Named, Listed
<1>2. ASSUME NEW w \in Workers PROVE PassTracked(job[w], view[w], toDelete[w])'
  <2>1. PassTracked(job[w], view[w], toDelete[w])
    BY DEF PluginsKept
  <2>2. ViewListed(view[w])' <=> ViewListed(view[w])
    BY DEF ViewListed, Named, Listed
  <2>3. Listed(job[w].cur)' <=> Listed(job[w].cur)
    BY DEF Listed
  <2> QED BY <2>1, <2>2, <2>3 DEF PassTracked, Reading, Named
<1> QED BY <1>1, <1>2 DEF PluginsKept

\* Every step keeps the account of the plugins.
LEMMA NextKept ==
    ASSUME TypeOK, OneWorker, UidsApart, "cleanup" \notin Disturbances, Safe, PluginsKept, [Next]_vars
    PROVE  PluginsKept'
<1>1. ASSUME NEW w \in Workers, Tick(w) \/ Reconcile(w) \/ Work(w) PROVE PluginsKept'
  <2>1. CASE Panic
    BY <2>1, BystanderKept DEF Panic, config, pass
  <2>2. CASE ~Panic
    BY <1>1, <2>2, StartKept, ListKept, EndPassKept, FoldersKept, CreateFolderKept, ProcessKept, PostKept,
       FindSlotKept, AddKept, SetPluginsKept, DeleteKept, UnplugKept, DropKept, RmdirKept
       DEF Work, ProcessFatal, AddOutOfRange, RemoveOutOfRange
  <2> QED BY <2>1, <2>2
<1>2. CASE Invalidate
  BY <1>2, InvalidateKept
<1>3. ~Cleanup
  BY DEF Cleanup, Disturbance
<1>4. CASE UNCHANGED <<known, plugins, job, view, toDelete>>
  BY <1>4, BystanderKept
<1>5. CASE Restart
  BY <1>5, RestartKept
<1> QED BY <1>1, <1>2, <1>3, <1>4, <1>5, Zenon DEF Next, vars, ChangeResource, ConsoleDelete, ConsoleCreate, StateChange, config, pass

\* One goroutine leaves no plugins behind: what a dashboard asked for stays in
\* the map only while the list has a reference by which the second loop finds it,
\* as long as no two resources share a uid and no Cleanup empties the list behind
\* the pass.
THEOREM PluginsTrackedHolds ==
    ASSUME OneWorker, UidsApart, "cleanup" \notin Disturbances
    PROVE  Spec => []PluginsTracked
<1>1. Init => PluginsKept
  BY FreshKept DEF Init, EmptySlice
<1>2. TypeOK /\ Safe /\ PluginsKept /\ [Next]_vars => PluginsKept'
  BY NextKept
<1>3. PluginsKept => PluginsTracked
  BY DEF PluginsKept, PluginsListed, Listed, PluginsTracked, RefsIn
<1> QED BY <1>1, <1>2, <1>3, TypeCorrect, SafeWithOneWorker, PTL DEF Spec

-----------------------------------------------------------------------------
(* Every deletion has its cause, whatever the goroutines do to each other.   *)

\* A reference with the uid of the resource it names.
OwnRefs == { r \in Refs : Named(r) }

SeesOwn(v, s) ==
    /\ v.live \in BOOLEAN /\ v.slice.len \in Nat
    /\ IsSlice(Seen(v, s), OwnRefs)

\* What is left to delete names resources that are not on the list.
ToDrop(j, d) == \A i \in DOMAIN d : d[i] \in OwnRefs /\ j.list[d[i].name] = NoCR

\* However the known list is rewritten under a reader: each cell it looks at has
\* a reference whose name and uid belong together.
OwnOnly ==
    /\ IsSlice(known, OwnRefs)
    /\ \A w \in Workers : SeesOwn(view[w], known) /\ ToDrop(job[w], toDelete[w])

LEMMA OwnBlank == \A r \in OwnRefs : Blank(r) \in OwnRefs
<1> SUFFICES ASSUME NEW r \in OwnRefs PROVE Blank(r) \in OwnRefs
  OBVIOUS
<1>1. r \in Refs /\ Named(r)
  BY DEF OwnRefs
<1>2. Blank(r) \in Refs /\ Blank(r).uid = r.uid /\ Blank(r).name = r.name
  BY <1>1, BlankRefOK DEF Blank, Refs
<1> QED BY <1>1, <1>2 DEF OwnRefs, Named

LEMMA OwnNewRef ==
    ASSUME NEW w, JobOK(job[w]), job[w].pc \in Submitting
    PROVE  NewRef(w) \in OwnRefs
<1>1. NewRef(w) \in Refs /\ job[w].cur \in Names /\ Wanted(w) \in Specs
  BY WantedOK
<1>2. NewRef(w).name = job[w].cur /\ NewRef(w).uid = Uid[job[w].cur][Wanted(w).json]
  BY DEF NewRef, TargetUid
<1>3. Wanted(w).json \in Jsons
  BY <1>1 DEF Specs
<1> QED BY <1>1, <1>2, <1>3 DEF OwnRefs, Named

\* A job that goes on with the same list has the same to delete.
SameLists == \A v \in Workers : job'[v].list = job[v].list

LEMMA DropsKept ==
    ASSUME OwnOnly, SameLists, toDelete' = toDelete
    PROVE  \A v \in Workers : ToDrop(job'[v], toDelete'[v])
BY DEF OwnOnly, SameLists, ToDrop

LEMMA QuietOwn ==
    ASSUME OwnOnly, UNCHANGED <<known, view>>,
           \A v \in Workers : ToDrop(job'[v], toDelete'[v])
    PROVE  OwnOnly'
BY DEF OwnOnly

LEMMA BecomeLists ==
    ASSUME TypeOK, NEW w \in Workers, NEW j, job' = [job EXCEPT ![w] = j], j.list = job[w].list
    PROVE  SameLists
BY DEF TypeOK, PassOK, SameLists

LEMMA ContinueLists ==
    ASSUME TypeOK, NEW w \in Workers, Continue(w)
    PROVE  SameLists /\ UNCHANGED <<view, toDelete>>
<1>1. job[w] \in Jobs
  BY DEF TypeOK, PassOK, JobOK
<1> DEFINE j == [job[w] EXCEPT !.pc = "next", !.cur = NoName, !.ref = NoRef, !.fid = 0, !.slot = 0]
<1>2. j.list = job[w].list
  BY <1>1 DEF Jobs
<1>3. job' = [job EXCEPT ![w] = j] /\ UNCHANGED <<view, toDelete>>
  BY DEF Continue, Become
<1> HIDE DEF j
<1> QED BY <1>2, <1>3, BecomeLists

\* The steps that neither touch the known list nor look at it afresh.
LEMMA QuietWorkOwn ==
    ASSUME TypeOK, OwnOnly, NEW w \in Workers,
           \/ GetAllFolders(w) \/ CreateFolder(w) \/ ProcessDashboard(w) \/ PostDashboard(w)
           \/ FindSlot(w) \/ SetPlugins(w) \/ RemovePlugins(w) \/ DeleteFolder(w)
    PROVE  OwnOnly'
<1> DEFINE Goes(j) == j.list = job[w].list /\ job' = [job EXCEPT ![w] = j]
<1>1. job[w] \in Jobs
  BY DEF TypeOK, PassOK, JobOK
<1>2. /\ UNCHANGED known
      /\ \/ Continue(w)
         \/ UNCHANGED pass
         \/ UNCHANGED <<view, toDelete>> /\ \E j : Goes(j)
  <2>1. CASE GetAllFolders(w)
    <3>1. PICK n \in job[w].todo, outcome \in Outcomes : GetAllFolders(w)!(n, outcome)
      BY <2>1 DEF GetAllFolders
    <3> DEFINE j == [job[w] EXCEPT !.todo = @ \ {n}]
               fid == FolderId(FolderName(n, job[w].list[n]))
    <3>2. /\ UNCHANGED known
          /\ \/ Become(w, j)
             \/ Become(w, [j EXCEPT !.pc = "check", !.cur = n, !.fid = fid])
             \/ Become(w, [j EXCEPT !.pc = "mkdir", !.cur = n])
      BY <3>1 DEF config
    <3> HIDE DEF fid
    <3>3. /\ j.list = job[w].list
          /\ [j EXCEPT !.pc = "check", !.cur = n, !.fid = fid].list = job[w].list
          /\ [j EXCEPT !.pc = "mkdir", !.cur = n].list = job[w].list
      BY <1>1 DEF Jobs
    <3> HIDE DEF j
    <3> QED BY <3>2, <3>3 DEF Become
  <2>2. CASE CreateFolder(w)
    <3>1. /\ UNCHANGED known
          /\ \/ \E k : Become(w, [job[w] EXCEPT !.pc = "check", !.fid = k])
             \/ Continue(w)
      BY <2>2 DEF CreateFolder, config
    <3>2. \A k : [job[w] EXCEPT !.pc = "check", !.fid = k].list = job[w].list
      BY <1>1 DEF Jobs
    <3> QED BY <3>1, <3>2 DEF Become
  <2>3. CASE ProcessDashboard(w)
    <3>1. /\ UNCHANGED known
          /\ \/ Become(w, [job[w] EXCEPT !.pc = "post"])
             \/ Become(w, [job[w] EXCEPT !.pc = "plug"])
             \/ Continue(w)
      BY <2>3 DEF ProcessDashboard, config
    <3>2. \A pc : [job[w] EXCEPT !.pc = pc].list = job[w].list
      BY <1>1 DEF Jobs
    <3> QED BY <3>1, <3>2 DEF Become
  <2>4. CASE PostDashboard(w)
    <3>1. /\ UNCHANGED known
          /\ Become(w, [job[w] EXCEPT !.pc = "add"]) \/ Continue(w)
      BY <2>4 DEF PostDashboard, config
    <3>2. [job[w] EXCEPT !.pc = "add"].list = job[w].list
      BY <1>1 DEF Jobs
    <3> QED BY <3>1, <3>2 DEF Become
  <2>5. CASE FindSlot(w)
    <3>1. /\ UNCHANGED known
          /\ \E k : Become(w, [job[w] EXCEPT !.pc = "addLocked", !.slot = k])
      BY <2>5 DEF FindSlot, config
    <3>2. \A k : [job[w] EXCEPT !.pc = "addLocked", !.slot = k].list = job[w].list
      BY <1>1 DEF Jobs
    <3> QED BY <3>1, <3>2 DEF Become
  <2>6. CASE RemovePlugins(w)
    <3>1. \/ Panic
          \/ /\ UNCHANGED known
             /\ \E k : Become(w, [job[w] EXCEPT !.pc = "drop", !.slot = k])
      BY <2>6 DEF RemovePlugins
    <3>2. \A k : [job[w] EXCEPT !.pc = "drop", !.slot = k].list = job[w].list
      BY <1>1 DEF Jobs
    <3> QED BY <3>1, <3>2 DEF Become, Panic, config
  <2>7. CASE SetPlugins(w) \/ DeleteFolder(w)
    BY <2>7 DEF SetPlugins, DeleteFolder, config
  <2> QED BY <2>1, <2>2, <2>3, <2>4, <2>5, <2>6, <2>7
<1>3. SameLists /\ UNCHANGED <<view, toDelete>>
  <2>1. CASE Continue(w)
    BY <2>1, ContinueLists
  <2>2. CASE UNCHANGED pass
    BY <2>2 DEF pass, SameLists
  <2>3. CASE UNCHANGED <<view, toDelete>> /\ \E j : Goes(j)
    BY <2>3, BecomeLists
  <2> QED BY <1>2, <2>1, <2>2, <2>3
<1> QED BY <1>2, <1>3, DropsKept, QuietOwn

\* A pass begins with what the known list is now, and nothing to delete on its list.
LEMMA StartPassOwn ==
    ASSUME TypeOK, OwnOnly, NEW w \in Workers, NEW all \in BOOLEAN, StartPass(w, all),
           known' = known
    PROVE  OwnOnly'
<1>1. SeesOwn(GetDashboards(known, all), known)
  BY GetDashboardsOK DEF OwnOnly, SeesOwn
<1>2. \A v \in Workers : SeesOwn(view'[v], known)
  BY <1>1 DEF StartPass, TypeOK, PassOK, OwnOnly
<1>3. /\ DOMAIN job = Workers /\ toDelete' = toDelete
      /\ job' = [job EXCEPT ![w] = [IdleJob EXCEPT !.pc = "list"]]
  BY DEF StartPass, TypeOK, PassOK
<1>4. ToDrop(job'[w], toDelete'[w])
  <2>1. job'[w].list = NothingListed
    BY <1>3 DEF IdleJob
  <2>2. ASSUME NEW i \in DOMAIN toDelete[w] PROVE toDelete[w][i] \in OwnRefs
    BY DEF OwnOnly, ToDrop
  <2>3. \A r \in OwnRefs : NothingListed[r.name] = NoCR
    BY DEF NothingListed, OwnRefs, Refs
  <2> QED BY <1>3, <2>1, <2>2, <2>3 DEF ToDrop
<1>5. \A v \in Workers : ToDrop(job'[v], toDelete'[v])
  BY <1>3, <1>4 DEF OwnOnly
<1> QED BY <1>2, <1>5 DEF OwnOnly

\* What a pass decides to delete is not on the list it decides with.
LEMMA ListOwn == ASSUME TypeOK, OwnOnly, NEW w \in Workers, List(w) PROVE OwnOnly'
<1> DEFINE listed == [n \in Names |-> IF NsOf[n] \in Scope[w[1]] THEN crs[n] ELSE NoCR]
           seen == Seen(view[w], known)
           gone == { i \in 1..seen.len : ~InNamespace(listed, seen.cells[i]) }
           j == [job[w] EXCEPT !.pc = "next", !.list = listed,
                               !.todo = { n \in Names : listed[n] # NoCR }]
           d == [i \in gone |-> seen.cells[i]]
<1>1. /\ job' = [job EXCEPT ![w] = j] /\ toDelete' = [toDelete EXCEPT ![w] = d]
      /\ UNCHANGED <<known, view>>
  BY DEF List, config
<1>2. j.list = listed
  BY DEF TypeOK, PassOK, JobOK, Jobs
<1>3. ToDrop(j, d)
  <2>1. IsSlice(seen, OwnRefs)
    BY DEF OwnOnly, SeesOwn
  <2> HIDE DEF seen, listed, j
  <2>2. \A i \in gone : d[i] \in OwnRefs
    BY <2>1 DEF IsSlice
  <2>3. \A i \in gone : listed[d[i].name] = NoCR
    BY DEF InNamespace
  <2> QED BY <1>2, <2>2, <2>3 DEF ToDrop
<1> HIDE DEF j, d
<1>4. \A v \in Workers : ToDrop(job'[v], toDelete'[v])
  BY <1>1, <1>3 DEF TypeOK, PassOK, OwnOnly
<1> QED BY <1>1, <1>4, QuietOwn

LEMMA FreshOwn ==
    ASSUME NEW s, NEW v, NEW d, NEW j, v = NoView, d = NothingToDelete
    PROVE  SeesOwn(v, s) /\ ToDrop(j, d)
<1>1. IsSlice(EmptySlice, OwnRefs) /\ EmptySlice.len = 0
  BY EmptySliceOK DEF EmptySlice
<1> QED BY <1>1 DEF SeesOwn, NoView, Seen, ToDrop, NothingToDelete

\* A pass that ends leaves the others what they see.
LEMMA IdleOwn ==
    ASSUME TypeOK, OwnOnly, NEW w \in Workers, Idle(w), IsSlice(known', OwnRefs),
           \A v \in Workers : SeesOwn(view[v], known')
    PROVE  OwnOnly'
<1>1. /\ DOMAIN job = Workers /\ DOMAIN view = Workers /\ DOMAIN toDelete = Workers
  BY DEF TypeOK, PassOK
<1>2. SeesOwn(view'[w], known') /\ ToDrop(job'[w], toDelete'[w])
  BY <1>1, FreshOwn DEF Idle
<1>3. \A v \in Workers : SeesOwn(view'[v], known') /\ ToDrop(job'[v], toDelete'[v])
  BY <1>1, <1>2 DEF Idle, OwnOnly
<1> QED BY <1>3 DEF OwnOnly

LEMMA EndPassOwn == ASSUME TypeOK, OwnOnly, NEW w \in Workers, EndPass(w) PROVE OwnOnly'
<1>1. Idle(w) /\ known' = known
  BY DEF EndPass, config
<1> QED BY <1>1, IdleOwn DEF OwnOnly

\* What is recorded belongs together, and no reader comes to see anything else.
LEMMA AddDashboardOwn ==
    ASSUME TypeOK, OwnOnly, NEW w \in Workers, AddDashboard(w) PROVE OwnOnly'
<1>1. /\ IsSlice(known, OwnRefs) /\ \A v \in Workers : SeesOwn(view[v], known)
      /\ DOMAIN view = Workers
  BY DEF OwnOnly, TypeOK, PassOK
<1>2. NewRef(w) \in OwnRefs
  BY OwnNewRef DEF TypeOK, PassOK, AddDashboard, At, Submitting
<1>3. IsSlice(known', OwnRefs) /\ \A v \in Workers : SeesOwn(view'[v], known')
  <2>1. CASE known' = Appended(known, NewRef(w)) /\ Reallocates(known) /\ DetachViews
    <3>1. IsSlice(known', OwnRefs)
      BY <1>1, <1>2, <2>1, AppendedOK
    <3>2. \A v \in Workers : SeesOwn(Detached(view[v], known), known')
      BY <1>1, SeenDetached DEF SeesOwn
    <3> QED BY <2>1, <3>1, <3>2 DEF DetachViews
  <2>2. CASE known' = Appended(known, NewRef(w)) /\ ~Reallocates(known) /\ UNCHANGED view
    <3>1. IsSlice(known', OwnRefs)
      BY <1>1, <1>2, <2>2, AppendedOK
    <3>2. \A v \in Workers : SeesOwn(view[v], known')
      BY <1>1, <1>2, <2>2, SeenAppended DEF SeesOwn
    <3> QED BY <2>2, <3>1, <3>2
  <2>3. CASE /\ job[w].slot \in 1..known.len /\ UNCHANGED view
             /\ known' = Replaced(known, job[w].slot, NewRef(w))
    <3>1. IsSlice(known', OwnRefs)
      BY <1>1, <1>2, <2>3, ReplacedOK
    <3>2. \A v \in Workers : SeesOwn(view[v], known')
      BY <1>1, <1>2, <2>3, SeenReplaced DEF SeesOwn
    <3> QED BY <2>3, <3>1, <3>2
  <2> QED BY <2>1, <2>2, <2>3 DEF AddDashboard
<1>4. SameLists /\ toDelete' = toDelete
  <2> DEFINE j == [job[w] EXCEPT !.pc = "plug", !.slot = 0]
  <2>1. job' = [job EXCEPT ![w] = j] /\ toDelete' = toDelete
    BY DEF AddDashboard
  <2>2. j.list = job[w].list
    BY DEF TypeOK, PassOK, JobOK, Jobs
  <2> HIDE DEF j
  <2> QED BY <2>1, <2>2, BecomeLists
<1>5. \A v \in Workers : ToDrop(job'[v], toDelete'[v])
  BY <1>4, DropsKept
<1> QED BY <1>3, <1>5 DEF OwnOnly

LEMMA DeleteDashboardOwn ==
    ASSUME TypeOK, OwnOnly, NEW w \in Workers, DeleteDashboard(w) PROVE OwnOnly'
<1>1. PICK outcome \in Outcomes \ {"503"}, i \in DOMAIN toDelete[w] : DeleteDashboard(w)!(outcome, i)
  BY DEF DeleteDashboard
<1> DEFINE j == [job[w] EXCEPT !.pc = "unplug", !.ref = toDelete[w][i]]
           rest == [k \in DOMAIN toDelete[w] \ {i} |-> toDelete[w][k]]
<1>2. /\ job' = [job EXCEPT ![w] = j] /\ toDelete' = [toDelete EXCEPT ![w] = rest]
      /\ UNCHANGED <<known, view>>
  BY <1>1 DEF config
<1>3. j.list = job[w].list
  BY DEF TypeOK, PassOK, JobOK, Jobs
<1> HIDE DEF j
<1>4. ToDrop(j, rest)
  BY <1>3 DEF OwnOnly, ToDrop
<1> HIDE DEF rest
<1>5. \A v \in Workers : ToDrop(job'[v], toDelete'[v])
  BY <1>2, <1>4 DEF TypeOK, PassOK, OwnOnly
<1> QED BY <1>2, <1>5, QuietOwn

LEMMA RemoveDashboardOwn ==
    ASSUME TypeOK, OwnOnly, NEW w \in Workers, RemoveDashboard(w) PROVE OwnOnly'
<1>1. /\ job[w].pc = "drop" /\ job[w].slot <= known.len
      /\ known' = IF job[w].slot = 0 THEN known ELSE Dropped(known, job[w].slot)
      /\ \/ Continue(w)
         \/ \E k : Become(w, [job[w] EXCEPT !.pc = "rmdir", !.fid = k, !.slot = 0])
         \/ Idle(w)
  BY DEF RemoveDashboard, At
<1>2. IsSlice(known, OwnRefs) /\ \A v \in Workers : SeesOwn(view[v], known)
  BY DEF OwnOnly
<1>3. IsSlice(known', OwnRefs) /\ \A v \in Workers : SeesOwn(view[v], known')
  <2>1. CASE job[w].slot = 0
    BY <1>1, <1>2, <2>1
  <2>2. CASE job[w].slot # 0
    <3>1. job[w].slot \in 1..known.len /\ known' = Dropped(known, job[w].slot)
      <4>1. job[w].slot \in Nat
        BY DEF TypeOK, PassOK, JobOK, Jobs
      <4>2. known.len \in Nat
        BY <1>2 DEF IsSlice
      <4>3. job[w].slot <= known.len
        BY <1>1
      <4>4. job[w].slot \in 1..known.len
        BY <2>2, <4>1, <4>2, <4>3
      <4>5. known' = Dropped(known, job[w].slot)
        BY <1>1, <2>2
      <4> QED BY <4>4, <4>5
    <3> QED BY <1>2, <3>1, DroppedOK, SeenDropped DEF SeesOwn
  <2> QED BY <2>1, <2>2
<1>4. CASE Idle(w)
  BY <1>3, <1>4, IdleOwn
<1>5. CASE ~Idle(w)
  <2>1. SameLists /\ UNCHANGED <<view, toDelete>>
    <3>1. CASE Continue(w)
      BY <3>1, ContinueLists
    <3>2. CASE ~Continue(w)
      <4>1. PICK k : Become(w, [job[w] EXCEPT !.pc = "rmdir", !.fid = k, !.slot = 0])
        BY <1>1, <1>5, <3>2
      <4> DEFINE j == [job[w] EXCEPT !.pc = "rmdir", !.fid = k, !.slot = 0]
      <4>2. j.list = job[w].list
        BY DEF TypeOK, PassOK, JobOK, Jobs
      <4>3. job' = [job EXCEPT ![w] = j] /\ UNCHANGED <<view, toDelete>>
        BY <4>1 DEF Become
      <4> HIDE DEF j
      <4> QED BY <4>2, <4>3, BecomeLists
    <3> QED BY <3>1, <3>2
  <2>2. \A v \in Workers : ToDrop(job'[v], toDelete'[v])
    BY <2>1, DropsKept
  <2> QED BY <1>3, <2>1, <2>2 DEF OwnOnly
<1> QED BY <1>4, <1>5

LEMMA InvalidateOwn == ASSUME TypeOK, OwnOnly, Invalidate PROVE OwnOnly'
<1>1. IsSlice(known, OwnRefs) /\ RefsIn(known) \in SUBSET OwnRefs
  BY DEF OwnOnly, RefsIn, IsSlice
<1>2. IsSlice(known', OwnRefs)
  BY <1>1, BlankedOK, OwnBlank DEF Invalidate, Invalidated
<1>3. \A v \in Workers : SeesOwn(Blanking(view[v], known), Invalidated(known))
  BY <1>1, SeenBlanked, OwnBlank DEF OwnOnly, SeesOwn
<1>4. \A v \in Workers : SeesOwn(view'[v], known')
  BY <1>3 DEF Invalidate
<1>5. \A v \in Workers : ToDrop(job'[v], toDelete'[v])
  BY DEF Invalidate, OwnOnly
<1> QED BY <1>2, <1>4, <1>5 DEF OwnOnly

LEMMA CleanupOwn == ASSUME OwnOnly, Cleanup PROVE OwnOnly'
<1>1. IsSlice(known', OwnRefs)
  BY EmptySliceOK DEF Cleanup
<1>2. \A v \in Workers : SeesOwn(Detached(view[v], known), known')
  BY SeenDetached DEF OwnOnly, SeesOwn
<1>3. \A v \in Workers : SeesOwn(view'[v], known')
  BY <1>2 DEF Cleanup, DetachViews
<1>4. \A v \in Workers : ToDrop(job'[v], toDelete'[v])
  BY DEF Cleanup, OwnOnly
<1> QED BY <1>1, <1>3, <1>4 DEF OwnOnly

LEMMA InitOwn == ASSUME Init PROVE OwnOnly
<1>1. IsSlice(known, OwnRefs)
  BY EmptySliceOK DEF Init
<1> QED BY <1>1, FreshOwn DEF Init, OwnOnly

LEMMA RestartOwn == ASSUME Restart PROVE OwnOnly'
<1>1. IsSlice(known', OwnRefs)
  BY EmptySliceOK DEF Restart
<1>2. \A v \in Workers : view'[v] = NoView /\ toDelete'[v] = NothingToDelete
  BY DEF Restart
<1>3. \A v \in Workers : SeesOwn(view'[v], known') /\ ToDrop(job'[v], toDelete'[v])
  BY <1>2, FreshOwn
<1> QED BY <1>1, <1>3 DEF OwnOnly

LEMMA NextOwn == ASSUME TypeOK, OwnOnly, [Next]_vars PROVE OwnOnly'
<1>1. ASSUME UNCHANGED <<known, view, toDelete, job>> PROVE OwnOnly'
  BY <1>1 DEF OwnOnly
<1>2. ASSUME NEW w \in Workers, Tick(w) PROVE OwnOnly'
  BY <1>2, StartPassOwn, ScanAssumption DEF Tick, config
<1>3. ASSUME NEW w \in Workers, Reconcile(w) PROVE OwnOnly'
  <2>1. UNCHANGED known /\ (StartPass(w, FALSE) \/ UNCHANGED pass)
    BY <1>3 DEF Reconcile, config
  <2>2. CASE StartPass(w, FALSE)
    BY <2>1, <2>2, StartPassOwn
  <2>3. CASE UNCHANGED pass
    BY <1>1, <2>1, <2>3 DEF pass
  <2> QED BY <2>1, <2>2, <2>3
<1>4. ASSUME NEW w \in Workers, Work(w) PROVE OwnOnly'
  <2>1. CASE \/ GetAllFolders(w) \/ CreateFolder(w) \/ ProcessDashboard(w) \/ PostDashboard(w)
             \/ FindSlot(w) \/ SetPlugins(w) \/ RemovePlugins(w) \/ DeleteFolder(w)
    BY <2>1, QuietWorkOwn
  <2>2. CASE ProcessFatal(w) \/ AddOutOfRange(w) \/ RemoveOutOfRange(w)
    BY <1>1, <2>2 DEF ProcessFatal, AddOutOfRange, RemoveOutOfRange, Panic, config, pass
  <2>3. CASE List(w) \/ EndPass(w)
    BY <2>3, ListOwn, EndPassOwn
  <2>4. CASE AddDashboard(w) \/ DeleteDashboard(w) \/ RemoveDashboard(w)
    BY <2>4, AddDashboardOwn, DeleteDashboardOwn, RemoveDashboardOwn
  <2> QED BY <1>4, <2>1, <2>2, <2>3, <2>4, Zenon DEF Work
<1>5. CASE \/ \E n \in Names : ChangeResource(n)
           \/ \E u \in UIDs : ConsoleDelete(u)
           \/ \E u \in ConsoleUids : ConsoleCreate(u)
           \/ \E r \in Reconcilers, b \in BOOLEAN : StateChange(r, b)
           \/ UNCHANGED vars
  BY <1>1, <1>5 DEF ChangeResource, ConsoleDelete, ConsoleCreate, StateChange, vars, config, pass
<1>6. CASE Invalidate \/ Cleanup \/ Restart
  BY <1>6, InvalidateOwn, CleanupOwn, RestartOwn
<1> QED BY <1>2, <1>3, <1>4, <1>5, <1>6, Zenon DEF Next

\* The only steps after which a dashboard is no longer in Grafana.
LEMMA DeletedOnlyBy ==
    ASSUME TypeOK, [Next]_vars, NEW u \in UIDs, dash[u] # Absent, dash'[u] = Absent
    PROVE  \/ \E w \in Workers : DeleteDashboard(w) \/ DeleteFolder(w)
           \/ UNCHANGED pass
<1>1. ASSUME UNCHANGED dash PROVE FALSE
  BY <1>1
<1>2. ASSUME NEW w \in Workers, Tick(w) \/ Reconcile(w) PROVE FALSE
  BY <1>1, <1>2 DEF Tick, Reconcile, grafana
<1>3. ASSUME NEW w \in Workers, PostDashboard(w) PROVE FALSE
  <2>1. PICK outcome \in Outcomes : PostDashboard(w)!(outcome)
    BY <1>3 DEF PostDashboard
  <2> DEFINE d == [json |-> Wanted(w).json, folder |-> job[w].fid]
  <2>2. job[w].pc = "post" /\ dash' \in {dash, [dash EXCEPT ![TargetUid(w)] = d]}
    BY <2>1 DEF At
  <2>3. JobOK(job[w]) /\ job[w].pc \in Submitting
    BY <2>2 DEF TypeOK, PassOK, Submitting
  <2>4. d # Absent
    <3>1. Wanted(w) \in Specs /\ job[w].fid \in Nat
      BY <2>3, WantedOK
    <3> QED BY <3>1, NullAssumption DEF Specs
  <2> HIDE DEF d
  <2>5. dash'[u] \in {dash[u], d}
    BY <2>2 DEF TypeOK
  <2> QED BY <2>4, <2>5
<1>4. ASSUME NEW w \in Workers, Work(w) PROVE DeleteDashboard(w) \/ DeleteFolder(w)
  <2>1. CASE \/ List(w) \/ EndPass(w) \/ GetAllFolders(w) \/ CreateFolder(w) \/ ProcessDashboard(w)
             \/ FindSlot(w)
    BY <1>1, <2>1 DEF List, EndPass, GetAllFolders, CreateFolder, ProcessDashboard, FindSlot, grafana
  <2>2. CASE \/ ProcessFatal(w) \/ AddDashboard(w) \/ AddOutOfRange(w) \/ SetPlugins(w)
             \/ RemovePlugins(w) \/ RemoveDashboard(w) \/ RemoveOutOfRange(w)
    BY <1>1, <2>2 DEF ProcessFatal, AddDashboard, AddOutOfRange, SetPlugins, RemovePlugins, RemoveDashboard,
       RemoveOutOfRange, Panic, grafana
  <2> QED BY <1>3, <1>4, <2>1, <2>2, Zenon DEF Work
<1>5. CASE Restart \/ Cleanup \/ Invalidate
  BY <1>1, <1>5 DEF Restart, Cleanup, Invalidate, grafana
<1>6. CASE \/ \E n \in Names : ChangeResource(n)
           \/ \E v \in UIDs : ConsoleDelete(v)
           \/ \E v \in ConsoleUids : ConsoleCreate(v)
           \/ \E r \in Reconcilers, b \in BOOLEAN : StateChange(r, b)
           \/ UNCHANGED vars
  BY <1>6 DEF ChangeResource, ConsoleDelete, ConsoleCreate, StateChange, vars, pass
<1> QED BY <1>2, <1>4, <1>5, <1>6, Zenon DEF Next

\* The reference in the pass's hands names a resource that was not on the list, so
\* that none that was on the list can have its uid.
LEMMA DeletionWithdraws ==
    ASSUME TypeOK, OwnOnly, UidsApart, NEW w \in Workers, DeleteDashboard(w),
           NEW u \in UIDs, dash[u] # Absent, dash'[u] = Absent
    PROVE  Withdraws(w, u)
<1>1. PICK outcome \in Outcomes \ {"503"}, i \in DOMAIN toDelete[w] : DeleteDashboard(w)!(outcome, i)
  BY DEF DeleteDashboard
<1> DEFINE ref == toDelete[w][i]
<1>2. /\ job[w].pc = "next" /\ dash' \in {dash, [dash EXCEPT ![ref.uid] = Absent]}
      /\ job' = [job EXCEPT ![w] = [@ EXCEPT !.pc = "unplug", !.ref = ref]]
  BY <1>1 DEF At
<1>3. ref \in OwnRefs /\ job[w].list[ref.name] = NoCR
  BY DEF OwnOnly, ToDrop
<1> HIDE DEF ref
<1>4. job'[w].pc = "unplug"
  BY <1>2 DEF TypeOK, PassOK, JobOK, Jobs
<1>5. ref.uid = u
  BY <1>2 DEF TypeOK
<1>6. PICK j \in Jsons : u = Uid[ref.name][j]
  BY <1>3, <1>5 DEF OwnRefs, Named
<1>7. ref.name \in Names
  BY <1>3 DEF OwnRefs, Refs
<1>8. ASSUME NEW n \in Names, NEW k \in Jsons, job[w].list[n] # NoCR PROVE Uid[n][k] # u
  BY <1>3, <1>6, <1>7, <1>8 DEF UidsApart
<1> QED BY <1>2, <1>4, <1>8 DEF Withdraws

LEMMA FolderTakesOwn ==
    ASSUME TypeOK, NEW w \in Workers, DeleteFolder(w),
           NEW u \in UIDs, dash[u] # Absent, dash'[u] = Absent
    PROVE  job[w].pc = "rmdir" /\ dash[u].folder = job[w].fid
BY DEF DeleteFolder, At, TypeOK

\* For any number of goroutines and reconcilers on the shared list, with all their
\* races: a dashboard leaves Grafana only because a pass did not find its resource,
\* with its folder, or by hand, as long as no two resources share a uid.
THEOREM DeletionsHaveCause == ASSUME UidsApart PROVE Spec => DeletedForCause
<1>1. Init => OwnOnly
  BY InitOwn
<1>2. TypeOK /\ OwnOnly /\ [Next]_vars => OwnOnly'
  BY NextOwn
<1> DEFINE Caused(u) == \/ \E w \in Workers : Withdraws(w, u)
                        \/ \E w \in Workers : job[w].pc = "rmdir" /\ dash[u].folder = job[w].fid
                        \/ UNCHANGED pass
           AllCaused == \A u \in UIDs : dash[u] # Absent /\ dash'[u] = Absent => Caused(u)
<1>3. TypeOK /\ OwnOnly /\ [Next]_vars => [AllCaused]_vars
  <2> SUFFICES ASSUME TypeOK, OwnOnly, [Next]_vars, NEW u \in UIDs,
                      dash[u] # Absent, dash'[u] = Absent
               PROVE  Caused(u)
    OBVIOUS
  <2>1. CASE \E w \in Workers : DeleteDashboard(w) \/ DeleteFolder(w)
    <3>1. PICK w \in Workers : DeleteDashboard(w) \/ DeleteFolder(w)
      BY <2>1
    <3> QED BY <3>1, DeletionWithdraws, FolderTakesOwn
  <2>2. CASE UNCHANGED pass
    BY <2>2
  <2> QED BY <2>1, <2>2, DeletedOnlyBy
<1> HIDE DEF AllCaused
<1>4. Spec => [][AllCaused]_vars
  BY <1>1, <1>2, <1>3, TypeCorrect, PTL DEF Spec
<1> USE DEF AllCaused
<1> QED BY <1>4 DEF DeletedForCause

\* With one goroutine nothing the operator can vouch for goes with a folder: a
\* dashboard leaves Grafana because its resource was not found, or by hand.
WithdrawnOnly ==
    [][\A u \in UIDs \ unsure : dash[u] # Absent /\ dash'[u] = Absent =>
         (\E w \in Workers : Withdraws(w, u)) \/ UNCHANGED pass]_vars

\* The slice, its views and the references' truth together: what a pass withdraws
\* has no resource on its list, and what DeleteFolder removes is empty.
THEOREM OneWorkerWithdraws == ASSUME OneWorker, UidsApart PROVE Spec => WithdrawnOnly
<1> DEFINE AllWithdrawn == \A u \in UIDs \ unsure : dash[u] # Absent /\ dash'[u] = Absent =>
                             (\E w \in Workers : Withdraws(w, u)) \/ UNCHANGED pass
<1>1. Init => OwnOnly
  BY InitOwn
<1>2. TypeOK /\ OwnOnly /\ [Next]_vars => OwnOnly'
  BY NextOwn
<1>3. TypeOK /\ OwnOnly /\ Safe /\ [Next]_vars => [AllWithdrawn]_vars
  <2> SUFFICES ASSUME TypeOK, OwnOnly, Safe, [Next]_vars, NEW u \in UIDs \ unsure,
                      dash[u] # Absent, dash'[u] = Absent
               PROVE  (\E w \in Workers : Withdraws(w, u)) \/ UNCHANGED pass
    OBVIOUS
  <2>1. ASSUME NEW w \in Workers, DeleteDashboard(w) PROVE Withdraws(w, u)
    BY <2>1, DeletionWithdraws
  <2>2. ASSUME NEW w \in Workers, DeleteFolder(w) PROVE FALSE
    <3>1. At(w, "rmdir") /\ u \in Present \ unsure
      BY <2>2 DEF DeleteFolder, Present
    <3>2. dash[u].folder = job[w].fid
      BY <2>2, FolderTakesOwn
    <3> QED BY <3>1, <3>2 DEF Safe, EmptyFolderOnly
  <2> QED BY <2>1, <2>2, DeletedOnlyBy
<1> HIDE DEF AllWithdrawn
<1>4. Spec => [][AllWithdrawn]_vars
  BY <1>1, <1>2, <1>3, TypeCorrect, SafeWithOneWorker, PTL DEF Spec
<1> USE DEF AllWithdrawn
<1> QED BY <1>4 DEF WithdrawnOnly

-----------------------------------------------------------------------------
(* The refinement: with one goroutine the slice, its indices, and the gap      *)
(* between Grafana and the list are no more than a ledger with an entry for   *)
(* each uid.                                                                 *)

\* The list as entries, now and after a step.
LEMMA EntriesListed ==
    /\ Entries = { EntryOf(known.cells[i]) : i \in 1..known.len }
    /\ Entries' = { EntryOf(known'.cells[i]) : i \in 1..known'.len }
<1>1. \A s : { EntryOf(r) : r \in RefsIn(s) } = { EntryOf(s.cells[i]) : i \in 1..s.len }
  BY DEF RefsIn
<1> QED BY <1>1 DEF Entries

\* An entry is made of its reference.
LEMMA EntryUid == \A r : EntryOf(r).uid = r.uid /\ EntryOf(r).folder = r.fid
BY DEF EntryOf

\* One goroutine has one uid on its way into the list, or none.
LEMMA PendingListed ==
    ASSUME OneWorker, NEW w \in Workers
    PROVE  /\ Pending = { u \in UIDs : job[w].pc \in {"add", "addLocked"} /\ TargetUid(w) = u }
           /\ Pending' = { u \in UIDs : job'[w].pc \in {"add", "addLocked"} /\ TargetUid(w)' = u }
BY DEF OneWorker, Pending, InFlight

\* Steps that do not show.
LEMMA Invisible ==
    ASSUME UNCHANGED <<dash, known, unsure>>, Pending' = Pending
    PROVE  UNCHANGED Ledger!vars
BY DEF Ledger!vars, Entries

\* A step that leaves dashboards, references and doubts alone is none of the ledger.
LEMMA NeutralRefines ==
    ASSUME OneWorker, NEW w \in Workers, UNCHANGED <<dash, known, unsure>>,
           job[w].pc \notin {"add", "addLocked"}, job'[w].pc \notin {"add", "addLocked"}
    PROVE  UNCHANGED Ledger!vars
<1>1. Pending' = Pending
  BY PendingListed
<1> QED BY <1>1, Invisible

\* What Grafana accepted, or may have, is pending.
LEMMA PostDashboardRefines ==
    ASSUME TypeOK, OneWorker, NEW w \in Workers, PostDashboard(w)
    PROVE  [Ledger!Next]_(Ledger!vars)
<1> DEFINE uid == TargetUid(w)
<1>1. uid \in UIDs /\ DOMAIN dash = UIDs
  BY PostDashboardEffect, WantedOK DEF TypeOK, PassOK, Submitting
<1>2. Entries' = Entries
  BY PostDashboardEffect DEF Entries
<1>3. Pending = {} /\ Pending' = IF job'[w].pc = "add" THEN {uid} ELSE {}
  BY <1>1, PostDashboardEffect, PendingListed
<1>4. Absent # [json |-> Wanted(w).json, folder |-> job[w].fid]
  <2>1. job[w].fid \in Nat /\ Wanted(w) \in Specs
    BY PostDashboardEffect, WantedOK DEF TypeOK, PassOK, Submitting
  <2> QED BY <2>1, NullAssumption DEF Specs
<1> DEFINE stored == [json |-> Wanted(w).json, folder |-> job[w].fid]
<1>5. \/ /\ dash' = [dash EXCEPT ![uid] = stored]
         /\ unsure' = unsure \ {uid} /\ job'[w].pc = "add"
      \/ /\ dash' = dash \/ dash' = [dash EXCEPT ![uid] = stored]
         /\ unsure' = unsure \cup {uid}
      \/ dash' = dash /\ unsure' = unsure /\ job'[w].pc = "next"
  BY PostDashboardEffect
<1> HIDE DEF uid, stored
<1>6. dash' = [dash EXCEPT ![uid] = stored] => dash' = [dash EXCEPT ![uid] = dash'[uid]] /\ dash'[uid] = stored
  BY <1>1
<1>7. dash' = dash => dash' = [dash EXCEPT ![uid] = dash'[uid]]
  BY DEF TypeOK
<1>8. CASE dash' = [dash EXCEPT ![uid] = stored] /\ unsure' = unsure \ {uid} /\ job'[w].pc = "add"
  <2>1. Ledger!Submit(uid)
    BY <1>2, <1>3, <1>4, <1>6, <1>8 DEF Ledger!Submit, Ledger!Only, stored
  <2> QED BY <1>1, <2>1 DEF Ledger!Next
<1>9. CASE (dash' = dash \/ dash' = [dash EXCEPT ![uid] = stored]) /\ unsure' = unsure \cup {uid}
  <2>1. Ledger!Unanswered(uid)
    BY <1>2, <1>3, <1>6, <1>7, <1>9 DEF Ledger!Unanswered, Ledger!Only
  <2> QED BY <1>1, <2>1 DEF Ledger!Next
<1>10. CASE dash' = dash /\ unsure' = unsure /\ job'[w].pc = "next"
  BY <1>2, <1>3, <1>10 DEF Ledger!vars
<1> QED BY <1>5, <1>8, <1>9, <1>10

\* The lookup without the lock does not show.
LEMMA FindSlotRefines ==
    ASSUME TypeOK, OneWorker, NEW w \in Workers, FindSlot(w)
    PROVE  UNCHANGED Ledger!vars
<1>1. job[w] \in Jobs /\ DOMAIN job = Workers
  BY DEF TypeOK, PassOK, JobOK
<1>2. /\ job[w].pc = "add" /\ UNCHANGED <<dash, known, unsure>>
      /\ job'[w].pc = "addLocked" /\ job'[w].list = job[w].list /\ job'[w].cur = job[w].cur
  BY <1>1 DEF FindSlot, At, Become, grafana, config, Jobs
<1>3. TargetUid(w)' = TargetUid(w)
  BY <1>2 DEF TargetUid, Wanted
<1>4. Pending' = Pending
  BY <1>2, <1>3, PendingListed
<1> QED BY <1>2, <1>4, Invisible

\* AddDashboard replaces the entry of its uid, and no other.
LEMMA AddDashboardRefines ==
    ASSUME TypeOK, OneWorker, Safe, NEW w \in Workers, AddDashboard(w)
    PROVE  \E u \in UIDs : Ledger!Record(u)
<1> DEFINE uid == TargetUid(w)
           ref == NewRef(w)
<1>1. /\ job[w].pc = "addLocked" /\ job'[w].pc = "plug" /\ UNCHANGED <<dash, unsure>>
      /\ ref.uid = uid /\ ref.fid = job[w].fid /\ ref.hash.json = Wanted(w).json
      /\ \/ uid \in unsure \/ dash[uid] = Absent
         \/ dash[uid] = [json |-> Wanted(w).json, folder |-> job[w].fid]
  BY AddDashboardEffect
<1>2. uid \in UIDs /\ known.len \in Nat
  BY <1>1, UidsTyped DEF TypeOK, IsSlice
<1>3. PICK at \in 1..known'.len :
         /\ known'.len \in {known.len, known.len + 1} /\ known.len <= known'.len
         /\ known'.cells[at] = ref
         /\ \A i \in 1..known'.len : i # at => /\ i \in 1..known.len
                                               /\ known'.cells[i] = known.cells[i]
                                               /\ known.cells[i].uid # uid
         /\ \A i \in 1..known.len : i # at \/ known.cells[i].uid = uid
  BY AddDashboardEffect
<1>4. Pending = {uid} /\ Pending' = {}
  BY <1>1, <1>2, PendingListed
<1>5. uid \in unsure \/ dash[uid] = Absent \/ Ledger!Says(EntryOf(ref), dash[uid])
  BY <1>1 DEF Ledger!Says, EntryOf
<1> HIDE DEF uid, ref
<1>6. Entries' = Ledger!Others(uid) \cup {EntryOf(ref)}
  <2>1. \A i \in 1..known.len : known.cells[i].uid # uid =>
            i \in 1..known'.len /\ i # at /\ known'.cells[i] = known.cells[i]
    BY <1>2, <1>3
  <2>2. \A e : e \in Entries' => e \in Ledger!Others(uid) \cup {EntryOf(ref)}
    <3> TAKE e
    <3> HAVE e \in Entries'
    <3>1. PICK i \in 1..known'.len : e = EntryOf(known'.cells[i])
      BY EntriesListed
    <3> QED BY <1>3, <3>1, EntriesListed, EntryUid DEF Ledger!Others
  <2>3. \A e : e \in Ledger!Others(uid) => e \in Entries'
    <3> TAKE e
    <3> HAVE e \in Ledger!Others(uid)
    <3>1. PICK i \in 1..known.len : e = EntryOf(known.cells[i]) /\ known.cells[i].uid # uid
      BY EntriesListed, EntryUid DEF Ledger!Others
    <3> QED BY <2>1, <3>1, EntriesListed
  <2>4. EntryOf(ref) \in Entries'
    BY <1>3, EntriesListed
  <2> QED BY <2>2, <2>3, <2>4
<1>7. EntryOf(ref).uid = uid
  BY <1>1, EntryUid
<1>8. Ledger!Record(uid)
  BY <1>1, <1>4, <1>5, <1>6, <1>7 DEF Ledger!Record
<1> QED BY <1>2, <1>8

\* A deletion is confirmed or leaves the uid in doubt.
LEMMA DeleteDashboardRefines ==
    ASSUME TypeOK, OneWorker, NEW w \in Workers, DeleteDashboard(w)
    PROVE  \E u \in UIDs : Ledger!Withdraw(u)
<1>1. PICK outcome \in Outcomes \ {"503"}, i \in DOMAIN toDelete[w] : DeleteDashboard(w)!(outcome, i)
  BY DEF DeleteDashboard
<1> DEFINE uid == toDelete[w][i].uid
<1>2. uid \in UIDs /\ job[w] \in Jobs /\ DOMAIN job = Workers
  BY DEF TypeOK, PassOK, ToDeleteOK, Refs, JobOK
<1>3. /\ job[w].pc = "next" /\ known' = known
      /\ job'[w] = [job[w] EXCEPT !.pc = "unplug", !.ref = toDelete[w][i]]
      /\ dash' = IF outcome = "err" THEN dash ELSE [dash EXCEPT ![uid] = Absent]
      /\ unsure' = IF outcome = "err" /\ dash[uid] # Absent THEN unsure \cup {uid} ELSE unsure \ {uid}
  BY <1>1, <1>2 DEF At, config
<1>4. Pending' = Pending /\ Entries' = Entries
  <2>1. job'[w].pc = "unplug"
    BY <1>2, <1>3 DEF Jobs
  <2>2. Pending' = Pending
    BY <1>3, <2>1, PendingListed
  <2> QED BY <1>3, <2>2 DEF Entries
<1> HIDE DEF uid
<1>5. dash[uid] = Absent => dash = [dash EXCEPT ![uid] = Absent]
  BY DEF TypeOK
<1>6. Ledger!Withdraw(uid)
  BY <1>3, <1>4, <1>5 DEF Ledger!Withdraw
<1> QED BY <1>2, <1>6

\* RemoveDashboard crosses out the entry of its uid, and no other.
LEMMA RemoveDashboardRefines ==
    ASSUME TypeOK, OneWorker, Safe, NEW w \in Workers, RemoveDashboard(w)
    PROVE  \E u \in UIDs : Ledger!Forget(u)
<1> DEFINE uid == job[w].ref.uid
<1>1. /\ job[w].pc = "drop" /\ UNCHANGED <<dash, unsure>>
      /\ job'[w].pc \in {"next", "idle", "rmdir"}
      /\ uid \in unsure \/ dash[uid] = Absent
  BY RemoveDashboardEffect
<1>2. uid \in UIDs
  BY <1>1, UidsTyped
<1>3. PICK from \in [1..known'.len -> 1..known.len] :
         /\ \A i \in 1..known'.len : known'.cells[i] = known.cells[from[i]]
         /\ \A i, k \in 1..known'.len : from[i] = from[k] => i = k
         /\ \A m \in 1..known.len : known.cells[m].uid # uid => \E i \in 1..known'.len : from[i] = m
         /\ \A i \in 1..known'.len : known.cells[from[i]].uid # uid
  BY RemoveDashboardEffect
<1>4. Pending' = Pending
  BY <1>1, PendingListed
<1> HIDE DEF uid
<1>5. Entries' = Ledger!Others(uid)
  <2>1. \A e : e \in Entries' => e \in Ledger!Others(uid)
    <3> TAKE e
    <3> HAVE e \in Entries'
    <3>1. PICK i \in 1..known'.len : e = EntryOf(known'.cells[i])
      BY EntriesListed
    <3>2. from[i] \in 1..known.len /\ e = EntryOf(known.cells[from[i]])
      BY <1>3, <3>1
    <3> QED BY <1>3, <3>2, EntriesListed, EntryUid DEF Ledger!Others
  <2>2. \A e : e \in Ledger!Others(uid) => e \in Entries'
    <3> TAKE e
    <3> HAVE e \in Ledger!Others(uid)
    <3>1. PICK m \in 1..known.len : e = EntryOf(known.cells[m]) /\ known.cells[m].uid # uid
      BY EntriesListed, EntryUid DEF Ledger!Others
    <3>2. PICK i \in 1..known'.len : from[i] = m
      BY <1>3, <3>1
    <3> QED BY <1>3, <3>1, <3>2, EntriesListed
  <2> QED BY <2>1, <2>2
<1>6. Ledger!Forget(uid)
  BY <1>1, <1>4, <1>5 DEF Ledger!Forget
<1> QED BY <1>2, <1>6

\* Nothing the operator knows of goes with a folder.
LEMMA DeleteFolderRefines ==
    ASSUME TypeOK, OneWorker, Safe, NEW w \in Workers, DeleteFolder(w)
    PROVE  Ledger!Collateral
<1>1. job[w] \in Jobs /\ DOMAIN job = Workers /\ DOMAIN dash = UIDs
  BY DEF TypeOK, PassOK, JobOK
<1>2. /\ At(w, "rmdir") /\ UNCHANGED <<known, unsure>>
      /\ \/ dash' = dash
         \/ dash' = [u \in UIDs |-> IF dash[u] # Absent /\ dash[u].folder = job[w].fid
                                    THEN Absent ELSE dash[u]]
      /\ job'[w] = [job[w] EXCEPT !.pc = "next", !.cur = NoName, !.ref = NoRef, !.fid = 0, !.slot = 0]
  BY <1>1 DEF DeleteFolder, Continue, Become, config
<1>3. Pending' = Pending /\ Entries' = Entries
  <2>1. job[w].pc = "rmdir" /\ job'[w].pc = "next"
    BY <1>1, <1>2 DEF At, Jobs
  <2>2. Pending' = Pending
    BY <2>1, PendingListed
  <2> QED BY <1>2, <2>2 DEF Entries
<1>4. \A u \in UIDs : dash[u] = Absent \/ u \in unsure \/ dash[u].folder # job[w].fid
  BY <1>2 DEF Safe, EmptyFolderOnly, Present
<1>5. \A u \in UIDs : dash'[u] = dash[u] \/ (dash'[u] = Absent /\ u \in unsure)
  BY <1>2, <1>4
<1>6. dash' = [u \in UIDs |-> dash'[u]]
  BY <1>1, <1>2 DEF TypeOK
<1> QED BY <1>2, <1>3, <1>5, <1>6 DEF Ledger!Collateral

\* The steps of a pass.
LEMMA WorkRefines ==
    ASSUME TypeOK, OneWorker, Safe, NEW w \in Workers, Tick(w) \/ Reconcile(w) \/ Work(w)
    PROVE  [Ledger!Next]_(Ledger!vars)
<1>1. CASE Panic
  <2>1. UNCHANGED <<dash, known, unsure>> /\ job' = job
    BY <1>1 DEF Panic, grafana, config, pass
  <2>2. Pending' = Pending
    BY <2>1 DEF Pending, InFlight, TargetUid, Wanted
  <2> QED BY <2>1, <2>2, Invisible
<1>2. CASE \/ Tick(w) \/ Reconcile(w) \/ List(w) \/ EndPass(w) \/ GetAllFolders(w)
           \/ CreateFolder(w) \/ ProcessDashboard(w) \/ SetPlugins(w)
  BY <1>2, NeutralSteps, NeutralRefines DEF Neutral
<1>3. CASE PostDashboard(w)
  BY <1>3, PostDashboardRefines
<1>4. CASE FindSlot(w)
  BY <1>4, FindSlotRefines
<1>5. CASE AddDashboard(w)
  BY <1>5, AddDashboardRefines DEF Ledger!Next
<1>6. CASE DeleteDashboard(w)
  BY <1>6, DeleteDashboardRefines DEF Ledger!Next
<1>7. CASE RemovePlugins(w) /\ ~Panic
  <2>1. job[w] \in Jobs /\ DOMAIN job = Workers
    BY DEF TypeOK, PassOK, JobOK
  <2>2. /\ job[w].pc = "unplug" /\ UNCHANGED <<dash, known, unsure>>
        /\ job'[w] = [job[w] EXCEPT !.pc = "drop", !.slot = HasDashboard(known, job[w].ref.uid)]
    BY <1>7, <2>1 DEF RemovePlugins, At, Become, grafana
  <2>3. job'[w].pc = "drop"
    BY <2>1, <2>2 DEF Jobs
  <2> QED BY <2>2, <2>3, NeutralRefines
<1>8. CASE RemoveDashboard(w)
  BY <1>8, RemoveDashboardRefines DEF Ledger!Next
<1>9. CASE DeleteFolder(w)
  BY <1>9, DeleteFolderRefines DEF Ledger!Next
<1> QED BY <1>1, <1>2, <1>3, <1>4, <1>5, <1>6, <1>7, <1>8, <1>9 DEF Work, ProcessFatal, AddOutOfRange, RemoveOutOfRange

\* What happens around the pass.
LEMMA SurroundingsRefine ==
    ASSUME TypeOK,
           \/ \E n \in Names : ChangeResource(n)
           \/ \E u \in UIDs : ConsoleDelete(u)
           \/ \E u \in ConsoleUids : ConsoleCreate(u)
           \/ \E r \in Reconcilers, b \in BOOLEAN : StateChange(r, b)
           \/ UNCHANGED vars
    PROVE  [Ledger!Next]_(Ledger!vars)
<1>1. UNCHANGED <<known, job>>
  BY DEF ChangeResource, ConsoleDelete, ConsoleCreate, StateChange, vars, config, pass
<1>2. Pending' = Pending /\ Entries' = Entries
  BY <1>1 DEF Pending, InFlight, TargetUid, Wanted, Entries
<1>3. CASE \E u \in UIDs : ConsoleDelete(u)
  <2>1. PICK u \in UIDs : ConsoleDelete(u)
    BY <1>3
  <2>2. Ledger!Outside(u)
    BY <1>2, <2>1, UidsTyped DEF ConsoleDelete, Ledger!Outside, Ledger!Only
  <2> QED BY <2>2 DEF Ledger!Next
<1>4. CASE \E u \in ConsoleUids : ConsoleCreate(u)
  <2>1. PICK u \in ConsoleUids : ConsoleCreate(u)
    BY <1>4
  <2>2. u \in UIDs
    BY DEF UIDs
  <2>3. PICK f \in DOMAIN folders, j \in Jsons : dash' = [dash EXCEPT ![u] = [json |-> j, folder |-> f]]
    BY <2>1 DEF ConsoleCreate
  <2>4. [json |-> j, folder |-> f] # Absent
    BY NullAssumption DEF TypeOK
  <2>5. unsure' = unsure \cup {u}
    BY <2>1 DEF ConsoleCreate
  <2>6. Ledger!Outside(u)
    BY <1>2, <2>2, <2>3, <2>4, <2>5, UidsTyped DEF Ledger!Outside, Ledger!Only
  <2> QED BY <2>2, <2>6 DEF Ledger!Next
<1>5. CASE \/ \E n \in Names : ChangeResource(n)
           \/ \E r \in Reconcilers, b \in BOOLEAN : StateChange(r, b)
           \/ UNCHANGED vars
  <2>1. UNCHANGED <<dash, unsure>>
    BY <1>5 DEF ChangeResource, StateChange, vars, grafana
  <2> QED BY <1>1, <1>2, <2>1, Invisible
<1> QED BY <1>3, <1>4, <1>5

\* InvalidateDashboards erases the contents in every entry, and nothing else.
LEMMA InvalidateRefines == ASSUME TypeOK, Invalidate PROVE Ledger!Invalidate
<1> DEFINE Erased(e) == [uid |-> e.uid, json |-> NoHash, folder |-> e.folder]
<1>1. IsSlice(known, Refs) /\ RefsIn(known) \in SUBSET Refs
  BY DEF TypeOK, RefsIn, IsSlice
<1>2. UNCHANGED <<dash, job, unsure>> /\ known' = Blanked(known, RefsIn(known))
  BY DEF Invalidate, Invalidated, grafana
<1>3. /\ known'.len = known.len
      /\ \A k \in 1..known.len : known'.cells[k] = Blank(known.cells[k])
  BY <1>1, <1>2, BlankedOK, BlankRefOK DEF RefsIn
<1>4. \A k \in 1..known.len : EntryOf(Blank(known.cells[k])) = Erased(EntryOf(known.cells[k]))
  <2>1. \A r \in Refs : EntryOf(Blank(r)) = Erased(EntryOf(r))
    BY DEF Refs, Blank, EntryOf
  <2> QED BY <1>1, <2>1 DEF IsSlice
<1> HIDE DEF Erased
<1>5. Entries' = { Erased(e) : e \in Entries }
  BY <1>3, <1>4, EntriesListed
<1>6. Pending' = Pending
  BY <1>2 DEF Pending, InFlight, TargetUid, Wanted
<1> QED BY <1>2, <1>5, <1>6 DEF Ledger!Invalidate, Erased

\* Cleanup and Restart leave an empty ledger.
LEMMA ForgetRefines == ASSUME Cleanup \/ Restart PROVE Ledger!Reset
<1>1. known'.len = 0 /\ dash' = dash /\ unsure' = unsure \cup Present
  BY DEF Cleanup, Restart, EmptySlice, grafana
<1>2. Entries' = {}
  BY <1>1, EntriesListed
<1>3. Pending' \in {Pending, {}}
  <2>1. CASE Cleanup
    BY <2>1 DEF Cleanup, Pending, InFlight, TargetUid, Wanted
  <2>2. CASE Restart
    <3>1. \A w \in Workers : job'[w].pc = "idle"
      BY <2>2 DEF Restart, IdleJob
    <3> QED BY <3>1 DEF Pending, InFlight
  <2> QED BY <2>1, <2>2
<1> QED BY <1>1, <1>2, <1>3 DEF Ledger!Reset, Present

\* With one goroutine, the known list is such a ledger: an entry is made only of
\* what Grafana took, none is lost or doubled by the swap and the shared array,
\* and nothing else changes an entry, whatever fails and whatever happens around
\* the passes.
THEOREM LedgerImplemented == ASSUME OneWorker PROVE Spec => KeepsLedger
<1>1. Init => Ledger!Init
  <2> SUFFICES ASSUME Init PROVE Ledger!Init
    OBVIOUS
  <2>1. /\ known.len = 0 /\ dash = [u \in UIDs |-> Absent] /\ unsure = {}
        /\ \A w \in Workers : job[w].pc = "idle"
    BY DEF Init, EmptySlice, IdleJob
  <2>2. Entries = {} /\ Pending = {}
    BY <2>1, EntriesListed DEF Pending, InFlight
  <2> QED BY <2>1, <2>2 DEF Ledger!Init
<1>2. TypeOK /\ Safe /\ [Next]_vars => [Ledger!Next]_(Ledger!vars)
  <2> SUFFICES ASSUME TypeOK, Safe, [Next]_vars PROVE [Ledger!Next]_(Ledger!vars)
    OBVIOUS
  <2>1. CASE \E w \in Workers : Tick(w) \/ Reconcile(w) \/ Work(w)
    BY <2>1, WorkRefines
  <2>2. CASE Invalidate
    BY <2>2, InvalidateRefines DEF Ledger!Next
  <2>3. CASE Cleanup \/ Restart
    BY <2>3, ForgetRefines DEF Ledger!Next
  <2> QED BY <2>1, <2>2, <2>3, SurroundingsRefine DEF Next
<1> QED BY <1>1, <1>2, TypeCorrect, SafeWithOneWorker, PTL DEF Spec, KeepsLedger, Ledger!Spec

-----------------------------------------------------------------------------
(* What the ledger promises, whatever implements it: it has one entry for each *)
(* uid, no entry lies, and none is missing.                                  *)

\* The ledger is about uids of the operator.
LedgerTyped == DOMAIN dash = UIDs /\ \A e \in Entries : e.uid \in UIDs

LedgerSound == LedgerTyped /\ Ledger!Ledger

\* The steps that change the entry of one uid.
LEMMA LedgerEntryStep ==
    ASSUME LedgerSound, NEW u \in UIDs, Ledger!Record(u) \/ Ledger!Forget(u)
    PROVE  LedgerSound'
<1>1. CASE Ledger!Record(u)
  <2>1. PICK e \in Entries' : /\ e.uid = u /\ Entries' = Ledger!Others(u) \cup {e}
                              /\ u \in unsure \/ dash[u] = Absent \/ Ledger!Says(e, dash[u])
    BY <1>1 DEF Ledger!Record
  <2>2. Pending' = Pending \ {u} /\ UNCHANGED <<dash, unsure>>
    BY <1>1 DEF Ledger!Record
  <2>3. LedgerTyped' /\ Ledger!OneEntry'
    BY <2>1, <2>2 DEF LedgerSound, LedgerTyped, Ledger!Ledger, Ledger!OneEntry, Ledger!Others
  <2>4. Ledger!Truthful'
    BY <2>1, <2>2 DEF LedgerSound, Ledger!Ledger, Ledger!Truthful, Ledger!Others, Ledger!Says
  <2>5. Ledger!Complete'
    BY <2>1, <2>2 DEF LedgerSound, Ledger!Ledger, Ledger!Complete, Ledger!Others
  <2> QED BY <2>3, <2>4, <2>5 DEF LedgerSound, Ledger!Ledger
<1>2. CASE Ledger!Forget(u)
  BY <1>2 DEF Ledger!Forget, LedgerSound, LedgerTyped, Ledger!Ledger, Ledger!OneEntry,
     Ledger!Truthful, Ledger!Complete, Ledger!Others, Ledger!Says
<1> QED BY <1>1, <1>2

\* The steps that change what Grafana holds under one uid.
LEMMA LedgerGrafanaStep ==
    ASSUME LedgerSound, NEW u \in UIDs,
           Ledger!Submit(u) \/ Ledger!Unanswered(u) \/ Ledger!Withdraw(u) \/ Ledger!Outside(u)
    PROVE  LedgerSound'
<1>1. /\ Entries' = Entries /\ DOMAIN dash' = UIDs
      /\ \A v \in UIDs \ {u} : dash'[v] = dash[v]
  BY DEF Ledger!Submit, Ledger!Unanswered, Ledger!Withdraw, Ledger!Outside, Ledger!Only,
     LedgerSound, LedgerTyped
<1>2. /\ \A v : v # u => /\ v \in unsure' <=> v \in unsure
                         /\ v \in Pending' <=> v \in Pending
      /\ u \in unsure' \cup Pending' \/ dash'[u] = Absent
  BY DEF Ledger!Submit, Ledger!Unanswered, Ledger!Withdraw, Ledger!Outside, Ledger!Only,
     LedgerSound, LedgerTyped
<1>3. LedgerTyped' /\ Ledger!OneEntry'
  BY <1>1 DEF LedgerSound, LedgerTyped, Ledger!Ledger, Ledger!OneEntry
<1>4. Ledger!Truthful'
  BY <1>1, <1>2 DEF LedgerSound, LedgerTyped, Ledger!Ledger, Ledger!Truthful, Ledger!Says
<1>5. Ledger!Complete'
  BY <1>1, <1>2 DEF LedgerSound, LedgerTyped, Ledger!Ledger, Ledger!Complete
<1> QED BY <1>3, <1>4, <1>5 DEF LedgerSound, Ledger!Ledger

\* The steps that concern all entries.
LEMMA LedgerWholeStep ==
    ASSUME LedgerSound, Ledger!Invalidate \/ Ledger!Reset \/ Ledger!Collateral
    PROVE  LedgerSound'
<1>1. CASE Ledger!Invalidate
  <2> DEFINE Unhashed(e) == [uid |-> e.uid, json |-> NoHash, folder |-> e.folder]
  <2>1. Entries' = { Unhashed(e) : e \in Entries } /\ UNCHANGED <<dash, unsure, Pending>>
    BY <1>1 DEF Ledger!Invalidate
  <2>2. \A e : Unhashed(e).uid = e.uid /\ Unhashed(e).folder = e.folder /\ Unhashed(e).json = NoHash
    OBVIOUS
  <2> HIDE DEF Unhashed
  <2>3. LedgerTyped' /\ Ledger!OneEntry'
    BY <2>1, <2>2 DEF LedgerSound, LedgerTyped, Ledger!Ledger, Ledger!OneEntry
  <2>4. Ledger!Truthful'
    BY <2>1, <2>2 DEF LedgerSound, Ledger!Ledger, Ledger!Truthful, Ledger!Says
  <2>5. Ledger!Complete'
    BY <2>1, <2>2 DEF LedgerSound, Ledger!Ledger, Ledger!Complete
  <2> QED BY <2>3, <2>4, <2>5 DEF LedgerSound, Ledger!Ledger
<1>2. CASE Ledger!Reset
  BY <1>2 DEF Ledger!Reset, LedgerSound, LedgerTyped, Ledger!Ledger, Ledger!OneEntry,
     Ledger!Truthful, Ledger!Complete
<1>3. CASE Ledger!Collateral
  <2>1. /\ UNCHANGED <<Entries, unsure, Pending>> /\ DOMAIN dash' = UIDs
        /\ \A u \in UIDs : dash'[u] = dash[u] \/ dash'[u] = Absent
    BY <1>3 DEF Ledger!Collateral
  <2>2. LedgerTyped' /\ Ledger!OneEntry'
    BY <2>1 DEF LedgerSound, LedgerTyped, Ledger!Ledger, Ledger!OneEntry
  <2>3. Ledger!Truthful' /\ Ledger!Complete'
    BY <2>1 DEF LedgerSound, LedgerTyped, Ledger!Ledger, Ledger!Truthful, Ledger!Complete,
       Ledger!Says
  <2> QED BY <2>2, <2>3 DEF LedgerSound, Ledger!Ledger
<1> QED BY <1>1, <1>2, <1>3

\* What a pass may rely on when it looks a dashboard up, skips it because of its
\* hash, or deletes what has no resource any more, and what every implementation
\* of the ledger therefore keeps.
THEOREM LedgerKept == Ledger!Spec => []Ledger!Ledger
<1>1. Ledger!Init => LedgerSound
  BY DEF Ledger!Init, LedgerSound, LedgerTyped, Ledger!Ledger, Ledger!OneEntry, Ledger!Truthful,
     Ledger!Complete
<1>2. LedgerSound /\ [Ledger!Next]_(Ledger!vars) => LedgerSound'
  <2> SUFFICES ASSUME LedgerSound, [Ledger!Next]_(Ledger!vars) PROVE LedgerSound'
    OBVIOUS
  <2>1. CASE Ledger!Next
    BY <2>1, LedgerEntryStep, LedgerGrafanaStep, LedgerWholeStep DEF Ledger!Next
  <2>2. CASE UNCHANGED Ledger!vars
    BY <2>2 DEF Ledger!vars, LedgerSound, LedgerTyped, Ledger!Ledger, Ledger!OneEntry,
       Ledger!Truthful, Ledger!Complete, Ledger!Says
  <2> QED BY <2>1, <2>2
<1>3. LedgerSound => Ledger!Ledger
  BY DEF LedgerSound
<1> QED BY <1>1, <1>2, <1>3, PTL DEF Ledger!Spec

\* With one goroutine the known list therefore has one entry for each uid, none
\* of them lies about Grafana, and none is missing for a dashboard Grafana holds.
THEOREM ListIsLedger == ASSUME OneWorker PROVE Spec => []Ledger!Ledger
BY LedgerImplemented, LedgerKept, PTL DEF KeepsLedger
=============================================================================
