----------------------- MODULE DashboardPipelineProofs -----------------------
(***************************************************************************)
(* Proofs about DashboardPipeline: its types, and that the remembered hash    *)
(* decides what Grafana shows.                                              *)
(***************************************************************************)
EXTENDS DashboardPipeline, TLAPS

Bodies == Contents \cup {NoDoc, NoKey}
Results == {"none", "error", "unchanged", "ready"}
Jobs == [pc : Phases, copy : Spec, body : Bodies, stale : BOOLEAN, forced : BOOLEAN, result : Results]
References == [uid : UIDs, hash : Hashes \cup {NoHash}]

\* The contents at hand are what the spec, which has no config map, says.
Stands(s, body) == s.cm \/ Board(s, body) = Covered(s)

\* Contents that are about to be submitted, or will be after the look at
\* Grafana, are a document that the operator survives, and they are what the
\* copy says; contents that are about to be saved are those of the copy.
InHand(j) ==
    /\ j.pc = "save" => j.body \in Contents /\ j.body = j.copy.json
    /\ j.pc = "post" \/ (j.pc = "look" /\ j.result = "ready") =>
         /\ Document(j.copy, j.body) \in Contents \ Invalid /\ ~Fatal(j.copy, j.body)
         /\ Stands(j.copy, j.body)

JobOK(j) == j \in Jobs /\ InHand(j)

\* Between two passes there is nothing in hand, and nothing after a panic.
LEMMA IdleJobOK == ASSUME NEW s \in Spec PROVE JobOK(IdleJob(s))
  BY DEF JobOK, InHand, Jobs, IdleJob, Phases, Bodies, Results
LEMMA PanickedJobOK == ASSUME NEW s \in Spec PROVE JobOK([IdleJob(s) EXCEPT !.pc = "panicked"])
  BY DEF JobOK, InHand, Jobs, IdleJob, Phases, Bodies, Results

\* A job that is not about to submit or to save has nothing in hand.
LEMMA OnTheWayOK ==
    ASSUME NEW j \in Jobs, NEW pc \in {"fetch", "local"}
    PROVE  JobOK([j EXCEPT !.pc = pc])
  BY DEF JobOK, InHand, Jobs, Phases

\* What a source in the cluster, or the copy itself, has to offer.
LEMMA LocalOK ==
    ASSUME NEW s \in Spec, configMap \in MapEntries
    PROVE  Local(s) \in Bodies /\ (Local(s) = NoDoc \/ Stands(s, Local(s)))
<1>1. /\ s.json \in Contents \cup {NoDoc} /\ s.jsonnet \in DOMAIN Compiled
      /\ Compiled[s.jsonnet] \in Contents \cup {NoDoc} /\ s.cm \in BOOLEAN
  BY DocAssumption DEF Spec
<1>2. Local(s) \in Bodies
  BY <1>1, SourceAssumption DEF Local, Bodies
<1>3. CASE s.cm
  BY <1>2, <1>3 DEF Stands
<1>4. CASE ~s.cm
  <2>1. Local(s) = Covered(s).doc /\ Covered(s).inputs = s.inputs
    BY <1>4 DEF Local, Covered
  <2>2. Local(s) # NoKey
    BY <1>1, <1>4, DocAssumption DEF Local
  <2> QED BY <1>2, <2>1, <2>2 DEF Stands, Board, Document, Covered
<1> QED BY <1>1, <1>3, <1>4

\* The contents a copy has of its own agree with its hash.
LEMMA OwnJsonOK ==
    ASSUME NEW s \in Spec, s.json \in Contents
    PROVE  Stands(s, s.json)
  BY DocAssumption DEF Stands, Board, Covered, Document

\* ProcessDashboard calls contents ready only when they are a document, and it
\* came to the end of them.
LEMMA ResultOK ==
    ASSUME NEW s \in Spec, NEW body \in Bodies, NEW forced \in BOOLEAN
    PROVE  /\ Result(s, body, forced) \in Results \cup {"fatal"}
           /\ Result(s, body, forced) = "ready" =>
                /\ body # NoDoc
                /\ Document(s, body) \in Contents \ Invalid /\ ~Fatal(s, body)
<1>1. Document(s, body) \in Contents \cup {NoDoc}
  <2>1. CASE body = NoKey
    BY <2>1 DEF Document, Spec
  <2>2. CASE body # NoKey
    BY <2>2 DEF Document, Bodies
  <2> QED BY <2>1, <2>2
<1> QED BY <1>1 DEF Result, Results

LEMMA ProcessedOK ==
    ASSUME job \in Jobs, spec \in Spec, NEW s \in Spec, NEW body \in Bodies,
           body = NoDoc \/ Stands(s, body), Processed(s, body)
    PROVE  JobOK(job')
<1> DEFINE result == Result(s, body, job.forced)
           j == [job EXCEPT !.copy = s, !.body = body]
<1>1. job.forced \in BOOLEAN
  BY DEF Jobs
<1>2. /\ result \in Results \cup {"fatal"}
      /\ result = "ready" => /\ body # NoDoc
                             /\ Document(s, body) \in Contents \ Invalid /\ ~Fatal(s, body)
  BY <1>1, ResultOK
<1>3. \/ job' = [IdleJob(spec) EXCEPT !.pc = "panicked"] \/ job' = IdleJob(spec)
      \/ result # "fatal" /\ job' = [j EXCEPT !.pc = "look", !.result = result]
      \/ result = "ready" /\ job' = [j EXCEPT !.pc = "post"]
  BY <1>1 DEF Processed
<1> HIDE DEF result, j
<1>4. CASE result # "fatal" /\ job' = [j EXCEPT !.pc = "look", !.result = result]
  BY <1>2, <1>4 DEF j, JobOK, InHand, Jobs, Phases
<1>5. CASE result = "ready" /\ job' = [j EXCEPT !.pc = "post"]
  BY <1>2, <1>5 DEF j, JobOK, InHand, Jobs, Phases
<1>6. CASE job' = IdleJob(spec) \/ job' = [IdleJob(spec) EXCEPT !.pc = "panicked"]
  BY <1>6, IdleJobOK, PanickedJobOK
<1> QED BY <1>3, <1>4, <1>5, <1>6

-----------------------------------------------------------------------------
(* Types, together with what is in hand.                                    *)

Typed ==
    /\ spec \in Spec
    /\ web \in WebAnswers
    /\ configMap \in MapEntries
    /\ known \in Seq(References)
    /\ shown \in [UIDs -> Boards \cup {Absent}]
    /\ JobOK(job)
    /\ disturbed \in 0..MaxDisturb

\* The invariant implies the property.
LEMMA TypedIsTypeOK == ASSUME Typed PROVE TypeOK
  BY DEF Typed, TypeOK, JobOK, InHand, Jobs, Bodies, Results, References, At

LEMMA CallOK ==
    ASSUME Typed, NEW outcome, Call(outcome) PROVE disturbed' \in 0..MaxDisturb
  BY BoundAssumption DEF Typed, Call, Undisturbed

LEMMA DisturbOK ==
    ASSUME Typed, NEW kind, Disturb(kind) PROVE disturbed' \in 0..MaxDisturb
  BY BoundAssumption DEF Typed, Disturb

LEMMA UidOK == ASSUME NEW s \in Spec PROVE UID(s) \in UIDs
  BY DocAssumption DEF UID, UIDs

LEMMA HashOK == ASSUME NEW s \in Spec PROVE Hash(s) \in Hashes
  BY DEF Hashes

\* What is kept in the copy, and saved to the resource next.
LEMMA KeptOK ==
    ASSUME job \in Jobs, NEW doc \in Contents
    PROVE  JobOK([job EXCEPT !.pc = "save", !.copy = Kept(job.copy, doc), !.body = doc])
  BY DEF JobOK, InHand, Jobs, Phases, Bodies, Kept, Spec

LEMMA FetchOK == ASSUME Typed, Fetch PROVE Typed'
<1>1. job \in Jobs /\ job.copy \in Spec /\ spec \in Spec
  BY DEF Typed, JobOK, Jobs
<1>2. Fetched(job.copy) => web \in Contents
  BY SourceAssumption DEF Fetched, Typed
<1>3. JobOK(job')
  <2>1. CASE job' = [job EXCEPT !.pc = "local"]
    BY <1>1, <2>1, OnTheWayOK
  <2>2. CASE Fetched(job.copy) /\ web = job.copy.json /\ Processed(job.copy, web)
    <3>1. web \in Bodies /\ Stands(job.copy, web)
      BY <1>1, <1>2, <2>2, OwnJsonOK DEF Bodies
    <3> QED BY <1>1, <2>2, <3>1, ProcessedOK
  <2>3. CASE /\ Fetched(job.copy)
             /\ job' = [job EXCEPT !.pc = "save", !.copy = Kept(job.copy, web), !.body = web]
    BY <1>1, <1>2, <2>3, KeptOK
  <2> QED BY <2>1, <2>2, <2>3 DEF Fetch
<1> QED BY <1>3 DEF Fetch, Typed, sources

LEMMA SaveOK == ASSUME Typed, Save PROVE Typed'
<1>1. PICK outcome \in Outcomes :
        LET saved == outcome = "ok" /\ ~job.stale
        IN  /\ At("save")
            /\ Call(outcome)
            /\ spec' = IF saved THEN job.copy ELSE spec
            /\ IF saved THEN Processed(job.copy, job.body)
               ELSE job' = [job EXCEPT !.pc = "local"]
            /\ UNCHANGED <<web, configMap, known, shown>>
  BY DEF Save
<1>2. job \in Jobs /\ job.copy \in Spec /\ spec \in Spec
  BY DEF Typed, JobOK, Jobs
<1>3. job.body \in Contents /\ job.body = job.copy.json
  BY <1>1 DEF Typed, JobOK, InHand, At
<1>4. JobOK(job')
  <2>1. CASE job' = [job EXCEPT !.pc = "local"]
    BY <1>2, <2>1, OnTheWayOK
  <2>2. CASE Processed(job.copy, job.body)
    <3>1. job.body \in Bodies /\ Stands(job.copy, job.body)
      BY <1>2, <1>3, OwnJsonOK DEF Bodies
    <3> QED BY <1>2, <2>2, <3>1, ProcessedOK
  <2> QED BY <1>1, <2>1, <2>2
<1>5. spec' \in Spec
  BY <1>1, <1>2
<1>6. disturbed' \in 0..MaxDisturb
  BY <1>1, CallOK
<1> QED BY <1>1, <1>4, <1>5, <1>6 DEF Typed

LEMMA LoadLocalOK == ASSUME Typed, LoadLocal PROVE Typed'
<1>1. job \in Jobs /\ job.copy \in Spec /\ spec \in Spec
  BY DEF Typed, JobOK, Jobs
<1>2. Local(job.copy) \in Bodies /\ (Local(job.copy) = NoDoc \/ Stands(job.copy, Local(job.copy)))
  BY <1>1, LocalOK DEF Typed
<1>3. JobOK(job')
  BY <1>1, <1>2, ProcessedOK DEF LoadLocal
<1> QED BY <1>3 DEF LoadLocal, Typed, sources

LEMMA BothGivenOK == ASSUME Typed, BothGiven PROVE Typed'
<1>1. job \in Jobs /\ job.copy \in Spec /\ spec \in Spec /\ NoDoc \in Bodies
  BY DEF Typed, JobOK, Jobs, Bodies
<1>2. JobOK(job')
  BY <1>1, ProcessedOK DEF BothGiven
<1> QED BY <1>2 DEF BothGiven, Typed, sources

LEMMA StartPassOK == ASSUME Typed, StartPass PROVE Typed'
<1>1. Entry(spec) \in {"fetch", "local"} /\ IdleJob(spec) \in Jobs
  BY IdleJobOK DEF Entry, Typed, JobOK
<1>2. JobOK(job')
  BY <1>1, OnTheWayOK DEF StartPass
<1> QED BY <1>2 DEF StartPass, Typed, sources

LEMMA LookOK == ASSUME Typed, Look PROVE Typed'
<1>1. PICK outcome \in Outcomes :
        /\ At("look")
        /\ IF known = <<>> THEN outcome = "ok" /\ Undisturbed ELSE Call(outcome)
        /\ job' = CASE Missing(outcome) -> [job EXCEPT !.pc = Entry(job.copy), !.forced = TRUE,
                                                       !.body = NoDoc]
                    [] ~Missing(outcome) /\ job.result = "ready" -> [job EXCEPT !.pc = "post"]
                    [] OTHER -> IdleJob(spec)
        /\ UNCHANGED <<sources, known, shown>>
  BY DEF Look
<1>2. job \in Jobs /\ spec \in Spec /\ InHand(job)
  BY DEF Typed, JobOK
<1>3. JobOK(job')
  <2>1. CASE job' = [job EXCEPT !.pc = Entry(job.copy), !.forced = TRUE, !.body = NoDoc]
    BY <1>2, <2>1 DEF JobOK, InHand, Jobs, Phases, Bodies, Entry
  <2>2. CASE job.result = "ready" /\ job' = [job EXCEPT !.pc = "post"]
    BY <1>1, <1>2, <2>2 DEF JobOK, InHand, Jobs, Phases, At
  <2>3. CASE job' = IdleJob(spec)
    BY <1>2, <2>3, IdleJobOK
  <2> QED BY <1>1, <2>1, <2>2, <2>3
<1>4. disturbed' \in 0..MaxDisturb
  BY <1>1, CallOK DEF Typed, Undisturbed
<1> QED BY <1>1, <1>3, <1>4 DEF Typed, sources

LEMMA AddedOK ==
    ASSUME known \in Seq(References), NEW ref \in References
    PROVE  Added(ref) \in Seq(References)
  BY DEF Added

LEMMA PostOK == ASSUME Typed, Post PROVE Typed'
<1>1. PICK outcome \in Outcomes :
        LET s == job.copy
        IN  /\ At("post")
            /\ Call(outcome)
            /\ IF outcome = "ok"
               THEN /\ shown' = [shown EXCEPT ![UID(s)] = Board(s, job.body)]
                    /\ known' = Added([uid |-> UID(s), hash |-> Hash(s)])
               ELSE UNCHANGED <<shown, known>>
            /\ job' = IdleJob(spec)
            /\ UNCHANGED sources
  BY DEF Post
<1> DEFINE ref == [uid |-> UID(job.copy), hash |-> Hash(job.copy)]
<1>2. job \in Jobs /\ job.copy \in Spec /\ spec \in Spec
  BY DEF Typed, JobOK, Jobs
<1>3. Document(job.copy, job.body) \in Contents /\ job.copy.inputs \in InputLists
  BY <1>1, <1>2 DEF Typed, JobOK, InHand, At, Spec
<1>4. ref \in References
  BY <1>2, UidOK, HashOK DEF References
<1>5. known' \in Seq(References)
  BY <1>1, <1>4, AddedOK DEF Typed
<1>6. shown' \in [UIDs -> Boards \cup {Absent}]
  BY <1>1, <1>3, DocAssumption DEF Typed, Boards, Board
<1>7. JobOK(job') /\ disturbed' \in 0..MaxDisturb
  BY <1>1, <1>2, IdleJobOK, CallOK
<1> QED BY <1>1, <1>5, <1>6, <1>7 DEF Typed, sources

LEMMA RecoverOK == ASSUME Typed, Recover PROVE Typed'
  BY IdleJobOK DEF Recover, Typed, sources

LEMMA EnvironmentOK == ASSUME Typed, Environment PROVE Typed'
<1>1. job \in Jobs /\ InHand(job)
  BY DEF Typed, JobOK
<1>2. CASE Edit
  <2>1. spec' \in Spec
    BY <1>2, SpecAssumption DEF Edit
  <2>2. JobOK([job EXCEPT !.stale = TRUE])
    BY <1>1 DEF JobOK, InHand, Jobs
  <2>3. JobOK(job')
    BY <1>2, <2>1, <2>2, IdleJobOK DEF Edit
  <2> QED BY <1>2, <2>1, <2>3, DisturbOK DEF Edit, Typed
<1>3. CASE WebChange
  BY <1>3, DisturbOK DEF WebChange, Typed
<1>4. CASE MapChange
  BY <1>4, DisturbOK DEF MapChange, Typed
<1>5. CASE ConsoleDelete
  BY <1>5, DisturbOK DEF ConsoleDelete, Typed, sources
<1>6. CASE Invalidate
  <2>1. /\ known' = [i \in DOMAIN known |-> [known[i] EXCEPT !.hash = NoHash]]
        /\ known \in Seq(References)
    BY <1>6 DEF Invalidate, Typed
  <2>2. \A i \in DOMAIN known : [known[i] EXCEPT !.hash = NoHash] \in References
    <3>1. \A ref \in References : [ref EXCEPT !.hash = NoHash] \in References
      BY DEF References
    <3> QED BY <2>1, <3>1
  <2>3. known' \in Seq(References)
    BY <2>1, <2>2
  <2> QED BY <1>6, <2>3, DisturbOK DEF Invalidate, Typed, sources
<1>7. CASE Restart
  BY <1>7, DisturbOK, IdleJobOK DEF Restart, Typed, sources
<1> QED BY <1>2, <1>3, <1>4, <1>5, <1>6, <1>7 DEF Environment

LEMMA InitOK == ASSUME Init PROVE Typed
<1>1. spec \in Spec
  BY SpecAssumption DEF Init
<1> QED BY <1>1, IdleJobOK, BoundAssumption DEF Init, Typed

LEMMA TypedStays == ASSUME Typed, [Next]_vars PROVE Typed'
<1>1. CASE Pass
  BY <1>1, StartPassOK, BothGivenOK, FetchOK, SaveOK, LoadLocalOK, LookOK, PostOK, RecoverOK DEF Pass
<1>2. CASE Environment
  BY <1>2, EnvironmentOK
<1>3. CASE UNCHANGED vars
  BY <1>3 DEF vars, sources, Typed
<1> QED BY <1>1, <1>2, <1>3 DEF Next

\* The pipeline's state has its types.  In particular, whatever failed or was
\* edited on the way, what is about to be submitted is a document that parses
\* (ProcessDashboard, reconcileDashboards).
THEOREM TypeCorrect == Pipeline => []TypeOK
<1>1. Init => Typed
  BY InitOK
<1>2. Typed /\ [Next]_vars => Typed'
  BY TypedStays
<1>3. Typed => TypeOK
  BY TypedIsTypeOK
<1> QED BY <1>1, <1>2, <1>3, PTL DEF Pipeline

-----------------------------------------------------------------------------
(* The hash decides.                                                        *)

\* A reference is right when Grafana shows what a spec with its hash says.
Right(ref, boards) ==
    \/ ref.hash \in Untold \cup {NoHash} \/ boards[ref.uid] = Absent
    \/ <<ref.hash, ref.uid, boards[ref.uid]>> \in Told

LEMMA ReferenceUid ==
    ASSUME known \in Seq(References), NEW i \in DOMAIN known PROVE known[i].uid \in UIDs
<1>1. known[i] \in References
  OBVIOUS
<1>2. \A ref \in References : ref.uid \in UIDs
  BY DEF References
<1> QED BY <1>1, <1>2

LEMMA HashDecidesByReference ==
    HashDecides <=> \A i \in DOMAIN known : Right(known[i], shown)
  BY DEF HashDecides, Right

\* A submission makes the references to its uid right, and leaves the others
\* alone.
LEMMA PostDecides == ASSUME Typed, HashDecides, Post PROVE HashDecides'
<1> DEFINE s == job.copy
           ref == [uid |-> UID(s), hash |-> Hash(s)]
           board == Board(s, job.body)
<1>1. CASE UNCHANGED <<shown, known>>
  BY <1>1 DEF HashDecides
<1>2. CASE known' = Added(ref) /\ shown' = [shown EXCEPT ![UID(s)] = board]
  <2>1. job \in Jobs /\ s \in Spec /\ InHand(job) /\ At("post")
    BY DEF Typed, JobOK, Jobs, Post
  <2>2. UID(s) \in UIDs /\ shown \in [UIDs -> Boards \cup {Absent}] /\ known \in Seq(References)
    BY <2>1, UidOK DEF Typed
  <2>3. Hash(s) \in Untold \/ <<Hash(s), UID(s), board>> \in Told
    <3>1. CASE s.cm
      BY <2>1, <3>1 DEF Untold
    <3>2. CASE ~s.cm
      <4>1. board = Covered(s)
        BY <2>1, <3>2 DEF InHand, Stands, At
      <4> QED BY <2>1, <3>2, <4>1 DEF Told
    <3> QED BY <3>1, <3>2
  <2> HIDE DEF s, board
  <2>4. shown'[UID(s)] = board
    BY <1>2, <2>2
  <2>5. Right(ref, shown')
    BY <2>3, <2>4 DEF Right
  <2>6. ASSUME NEW i \in DOMAIN known, known[i].uid # UID(s)
        PROVE  Right(known[i], shown')
    <3>1. known[i].uid \in UIDs
      BY <2>2, ReferenceUid
    <3>2. shown'[known[i].uid] = shown[known[i].uid]
      BY <1>2, <2>2, <2>6, <3>1
    <3>3. Right(known[i], shown)
      BY <2>6, HashDecidesByReference
    <3> QED BY <3>2, <3>3 DEF Right
  <2>7. \A i \in DOMAIN known' : Right(known'[i], shown')
    <3> HIDE DEF ref
    <3>1. ref.uid = UID(s)
      BY DEF ref
    <3>2. CASE \E i \in DOMAIN known : known[i].uid = ref.uid
      <4>1. known' = [i \in DOMAIN known |-> IF known[i].uid = ref.uid THEN ref ELSE known[i]]
        BY <1>2, <3>2 DEF Added
      <4> QED BY <2>5, <2>6, <3>1, <4>1
    <3>3. CASE ~\E i \in DOMAIN known : known[i].uid = ref.uid
      <4>1. known' = Append(known, ref)
        BY <1>2, <3>3 DEF Added
      <4>2. /\ DOMAIN known' = DOMAIN known \cup {Len(known) + 1}
            /\ \A i \in DOMAIN known : known'[i] = known[i]
            /\ known'[Len(known) + 1] = ref
        BY <2>2, <4>1
      <4> QED BY <2>5, <2>6, <3>1, <3>3, <4>2
    <3> QED BY <3>2, <3>3
  <2> QED BY <2>7 DEF HashDecides, Right
<1> QED BY <1>1, <1>2 DEF Post

\* Nothing else writes a hash that is not empty, or into Grafana.
LEMMA OthersDecide ==
    ASSUME Typed, HashDecides, [Next]_vars, ~Post PROVE HashDecides'
<1>1. CASE UNCHANGED <<known, shown>>
  BY <1>1 DEF HashDecides
<1>2. CASE ConsoleDelete
  <2>1. known' = known /\ \A u \in UIDs : shown'[u] \in {shown[u], Absent}
    BY <1>2 DEF ConsoleDelete, Typed
  <2>2. \A i \in DOMAIN known : known[i].uid \in UIDs
    BY ReferenceUid DEF Typed
  <2> QED BY <2>1, <2>2 DEF HashDecides
<1>3. CASE Invalidate
  <2>1. shown' = shown /\ known' = [i \in DOMAIN known |-> [known[i] EXCEPT !.hash = NoHash]]
    BY <1>3 DEF Invalidate
  <2>2. \A i \in DOMAIN known : known[i] \in References
    BY DEF Typed
  <2>3. \A i \in DOMAIN known' : known'[i].hash = NoHash
    BY <2>1, <2>2 DEF References
  <2> QED BY <2>3 DEF HashDecides
<1>4. CASE Restart \/ Recover
  BY <1>4 DEF Restart, Recover, HashDecides
<1> QED
  BY <1>1, <1>2, <1>3, <1>4
  DEF Next, Pass, Environment, vars, StartPass, BothGiven, Fetch, Save, LoadLocal, Look, Edit,
      WebChange, MapChange

\* A dashboard is skipped as long as its hash is the known one (ProcessDashboard).
\* For any sources, faults and edits, and any number of them, what Grafana shows
\* under the uid of a reference is what a spec with its uid and its hash says,
\* unless this hash is one of a resource with a config map.
THEOREM HashDecidesHolds == Pipeline => []HashDecides
<1>1. Init => Typed /\ HashDecides
  BY InitOK DEF Init, HashDecides
<1>2. Typed /\ HashDecides /\ [Next]_vars => (Typed /\ HashDecides)'
  BY TypedStays, PostDecides, OthersDecide
<1> QED BY <1>1, <1>2, PTL DEF Pipeline
=============================================================================
