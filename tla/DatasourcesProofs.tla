--------------------------- MODULE DatasourcesProofs ---------------------------
(***************************************************************************)
(* Proofs about the data source reconciler: its state keeps its types, and a   *)
(* drained queue means that everything declared is in Grafana or excused, for   *)
(* any number of resources, data sources, faults and disturbances.            *)
(***************************************************************************)
EXTENDS Datasources, TLAPS

Jobs == [pc : {"idle", "create"}, known : SUBSET [name : DsNames, url : Urls],
         list : [CRs -> Specs \cup {Empty, NoCR}], todo : SUBSET CRs,
         toDelete : SUBSET [name : DsNames, url : Urls]]

\* TypeOK, with the shape of the pass that is under way.
Types ==
    /\ crs \in [CRs -> Specs \cup {Empty, NoCR}]
    /\ status \in [CRs -> {"none", "409", "unreachable"}]
    /\ stored \in [DsNames -> Urls \cup {Absent}]
    /\ state \in BOOLEAN /\ panicked \in BOOLEAN /\ queue \subseteq CRs
    /\ job \in Jobs
    /\ \A n \in job.todo : job.list[n] # NoCR
    /\ job.toDelete \subseteq job.known
    /\ unsure \subseteq Urls /\ disturbed \in 0..MaxDisturb

-----------------------------------------------------------------------------
(* Types.                                                                   *)

\* What is declared has a name and a url in Grafana.
LEMMA SpecTypes ==
    /\ \A s \in Specs : s.name \in DsNames /\ s.url \in Urls
    /\ \A u \in Urls : u # Absent
BY UrlAssumption DEF DsNames, Urls

\* A list of Grafana's data sources has names and urls.
LEMMA ListingType ==
    ASSUME stored \in [DsNames -> Urls \cup {Absent}]
    PROVE  Listing \in SUBSET [name : DsNames, url : Urls]
BY DEF Listing

\* A disturbance stays within its bound.
LEMMA DisturbanceType ==
    ASSUME disturbed \in 0..MaxDisturb, NEW kind, Disturbance(kind) \/ Undisturbed
    PROVE  disturbed' \in 0..MaxDisturb
BY BoundAssumption DEF Disturbance, Undisturbed

\* So do the faults of a call.
LEMMA CallType ==
    ASSUME disturbed \in 0..MaxDisturb, NEW outcome, Call(outcome)
    PROVE  disturbed' \in 0..MaxDisturb
BY DisturbanceType DEF Call

\* A pass that begins has its types, whatever Grafana answered.
LEMMA PassType ==
    ASSUME crs \in [CRs -> Specs \cup {Empty, NoCR}],
           NEW known \in SUBSET [name : DsNames, url : Urls], NEW n \in CRs
    PROVE  LET pass == Pass(known, Neighbours(n))
           IN  /\ pass \in Jobs
               /\ pass.toDelete \subseteq pass.known
               /\ \A m \in pass.todo : pass.list[m] # NoCR
<1>1. Neighbours(n) \in [CRs -> Specs \cup {Empty, NoCR}]
    BY DEF Neighbours
<1>2. Undeclared(known, Neighbours(n)) \subseteq known
    BY DEF Undeclared
<1> QED BY <1>1, <1>2 DEF Pass, Jobs

\* The pass there is between two requests has them too.
LEMMA IdleType == IdleJob \in Jobs /\ IdleJob.todo = {} /\ IdleJob.toDelete \subseteq IdleJob.known
BY DEF IdleJob, Jobs

\* At the start everything has its type.
LEMMA InitTypes == Init => Types
<1> SUFFICES ASSUME Init PROVE Types
    OBVIOUS
<1>1. crs \in [CRs -> Specs \cup {Empty, NoCR}] /\ queue \subseteq CRs
    BY DEF Init, Existing
<1>2. status \in [CRs -> {"none", "409", "unreachable"}]
    BY DEF Init
<1>3. stored \in [DsNames -> Urls \cup {Absent}]
    BY DEF Init
<1>4. state \in BOOLEAN /\ panicked \in BOOLEAN
    BY DEF Init
<1>5. job \in Jobs /\ job.todo = {} /\ job.toDelete \subseteq job.known
    BY IdleType DEF Init
<1>6. unsure \subseteq Urls /\ disturbed \in 0..MaxDisturb
    BY BoundAssumption DEF Init
<1> QED BY <1>1, <1>2, <1>3, <1>4, <1>5, <1>6 DEF Types

\* Every step keeps the types.
LEMMA NextTypes == Types /\ [Next]_vars => Types'
<1> SUFFICES ASSUME Types, [Next]_vars PROVE Types'
    OBVIOUS
<1> USE SpecTypes DEF Types
<1>1. ASSUME NEW n \in CRs, Reconcile(n) PROVE Types'
  <2>1. PICK known \in {Listing, {}} : job' = Pass(known, Neighbours(n))
    BY <1>1 DEF Reconcile
  <2>2. disturbed' \in 0..MaxDisturb
    BY <1>1, CallType DEF Reconcile
  <2>3. queue' \subseteq CRs /\ UNCHANGED <<crs, status, stored, state, panicked, unsure>>
    BY <1>1 DEF Reconcile
  <2>4. known \in SUBSET [name : DsNames, url : Urls]
    BY ListingType
  <2>5. /\ job' \in Jobs
        /\ job'.toDelete \subseteq job'.known
        /\ \A m \in job'.todo : job'.list[m] # NoCR
    BY <2>1, <2>4, PassType
  <2> QED BY <2>2, <2>3, <2>5
<1>2. ASSUME NEW n \in CRs, ChangeResource(n) PROVE Types'
  <2>1. disturbed' \in 0..MaxDisturb
    BY <1>2, DisturbanceType DEF ChangeResource
  <2> QED BY <1>2, <2>1 DEF ChangeResource
<1>3. ASSUME NEW n \in CRs, IndexEmpty(n) PROVE Types'
    BY <1>3 DEF IndexEmpty
<1>4. ASSUME NEW n \in CRs, SkipKnown(n) PROVE Types'
    BY <1>4 DEF SkipKnown, Jobs
<1>5. ASSUME NEW n \in CRs, Create(n) PROVE Types'
  <2>1. disturbed' \in 0..MaxDisturb
    BY <1>5, CallType DEF Create
  <2>2. stored' \in [DsNames -> Urls \cup {Absent}] /\ unsure' \subseteq Urls
    BY <1>5 DEF Create, Jobs
  <2>3. status' \in [CRs -> {"none", "409", "unreachable"}] /\ queue' \subseteq CRs
    BY <1>5 DEF Create, ManageError, Failure
  <2>4. job' = [job EXCEPT !.todo = @ \ {n}]
    BY <1>5 DEF Create
  <2>5. UNCHANGED <<crs, state, panicked>>
    BY <1>5 DEF Create
  <2> QED BY <2>1, <2>2, <2>3, <2>4, <2>5 DEF Jobs
<1>6. ASSUME NEW d \in job.toDelete, Delete(d) PROVE Types'
  <2>1. disturbed' \in 0..MaxDisturb
    BY <1>6, CallType DEF Delete
  <2> QED BY <1>6, <2>1 DEF Delete, Jobs
<1>7. CASE EndPass
    BY <1>7, IdleType DEF EndPass
<1>8. ASSUME NEW d \in DsNames, ConsoleDelete(d) PROVE Types'
    BY <1>8, DisturbanceType DEF ConsoleDelete
<1>9. ASSUME NEW s \in Specs, ConsoleCreate(s) PROVE Types'
    BY <1>9, DisturbanceType DEF ConsoleCreate
<1>10. ASSUME NEW b \in BOOLEAN, StateChange(b) PROVE Types'
    BY <1>10, DisturbanceType DEF StateChange
<1>11. CASE Resync
    BY <1>11 DEF Resync, Existing
<1>12. CASE Restart
  <2>1. disturbed' \in 0..MaxDisturb
    BY <1>12, DisturbanceType DEF Restart
  <2> QED BY <1>12, <2>1, ListingType, IdleType DEF Restart, Existing, UrlsOf
<1>13. CASE UNCHANGED vars
    BY <1>13 DEF vars
<1> QED
    BY <1>1, <1>2, <1>3, <1>4, <1>5, <1>6, <1>7, <1>8, <1>9, <1>10, <1>11, <1>12, <1>13 DEF Next, Work

\* The state of the reconciler keeps its types.
THEOREM TypesKept == Spec => []TypeOK
<1>1. Types => TypeOK
    BY DEF Types, TypeOK, Jobs
<1> QED BY <1>1, InitTypes, NextTypes, PTL DEF Spec

-----------------------------------------------------------------------------
(* Settled.  Of everything a resource declares, a step of the pass or an event   *)
(* in the queue still has to take care, or Grafana has it, or it is excused.    *)

\* A resource the pass has seen is as the pass has seen it, or has an event waiting.
UpToDate == job.pc = "create" =>
    \A n \in Existing : job.list[n] # NoCR => job.list[n] = crs[n] \/ n \in queue

\* A url that Grafana had and a resource of the pass declares is still there.
StillThere == job.pc = "create" =>
    \A d \in job.known : d.url \in Declared(job.list) =>
        (\E e \in DsNames : stored[e] = d.url) \/ d.url \in unsure

\* What the pass will delete none of its resources declares.
OnlyStrays == job.pc = "create" => \A d \in job.toDelete : d.url \notin Declared(job.list)

CaredFor(n) == \/ Shown(n) \/ crs[n].url \in unsure
               \/ n \in queue
               \/ job.pc = "create" /\ n \in job.todo /\ job.list[n] = crs[n]

AllCaredFor == \A n \in Existing : crs[n] # Empty /\ status[n] = "none" => CaredFor(n)

Inductive == Types /\ UpToDate /\ StillThere /\ OnlyStrays /\ AllCaredFor

\* What is stored can only be lost to a resource, and it gains what is created.
LEMMA Gains ==
    ASSUME Types, NEW d \in DsNames, stored[d] = Absent, NEW u \in Urls,
           stored' = [stored EXCEPT ![d] = u]
    PROVE  /\ \E e \in DsNames : stored'[e] = u
           /\ \A v \in Urls : (\E e \in DsNames : stored[e] = v) => \E e \in DsNames : stored'[e] = v
<1>1. \A v \in Urls : v # Absent
    BY SpecTypes
<1> QED BY <1>1 DEF Types

\* At the start every resource is in the queue.
LEMMA InitInductive == Init => Inductive
<1> SUFFICES ASSUME Init PROVE Inductive
    OBVIOUS
<1>1. job.pc = "idle"
    BY DEF Init, IdleJob
<1>2. AllCaredFor
    BY DEF AllCaredFor, CaredFor, Init
<1> QED BY <1>1, <1>2, InitTypes DEF Inductive, UpToDate, StillThere, OnlyStrays

\* A pass that begins sees every resource of the namespace as it is.
LEMMA ReconcileInductive ==
    ASSUME Inductive, NEW n \in CRs, Reconcile(n), Types'
    PROVE  Inductive'
<1>1. PICK known \in {Listing, {}} : job' = Pass(known, Neighbours(n))
    BY DEF Reconcile
<1>2. queue' = queue \ {n} /\ UNCHANGED <<crs, status, stored, unsure>> /\ job.pc = "idle"
    BY DEF Reconcile, At
<1>3. /\ job'.list = Neighbours(n) /\ job'.known = known
      /\ job'.todo = { m \in CRs : Neighbours(n)[m] # NoCR } /\ job'.toDelete = Undeclared(known, Neighbours(n))
      /\ job'.pc = "create"
    BY <1>1 DEF Pass
<1>4. \A m \in CRs : Neighbours(n)[m] # NoCR => Neighbours(n)[m] = crs[m]
    BY DEF Neighbours
<1>5. Neighbours(n)[n] = crs[n]
    BY DEF Neighbours
<1>6. UpToDate'
    BY <1>2, <1>3, <1>4 DEF UpToDate, Existing
<1>7. StillThere'
  <2>1. \A d \in known : \E e \in DsNames : stored[e] = d.url
    BY DEF Listing
  <2> QED BY <1>2, <1>3, <2>1 DEF StillThere
<1>8. OnlyStrays'
    BY <1>3 DEF OnlyStrays, Undeclared
<1>9. AllCaredFor'
  <2> SUFFICES ASSUME NEW m \in Existing', crs'[m] # Empty, status'[m] = "none"
               PROVE  CaredFor(m)'
    BY DEF AllCaredFor
  <2>1. CaredFor(m) /\ m \in CRs /\ crs[m] # NoCR
    BY <1>2 DEF Inductive, AllCaredFor, Existing
  <2>2. CASE m = n
    BY <1>2, <1>3, <1>5, <2>1, <2>2 DEF CaredFor
  <2>3. CASE m # n
    BY <1>2, <2>1, <2>3 DEF CaredFor, Shown
  <2> QED BY <2>2, <2>3
<1> QED BY <1>6, <1>7, <1>8, <1>9 DEF Inductive

\* A url that is skipped is in Grafana.
LEMMA SkipInductive ==
    ASSUME Inductive, NEW n \in CRs, SkipKnown(n), Types'
    PROVE  Inductive'
<1>1. /\ job' = [job EXCEPT !.todo = @ \ {n}] /\ UNCHANGED <<crs, status, stored, queue, unsure>>
      /\ job.pc = "create" /\ n \in job.todo /\ job.list[n] # Empty /\ IsKnown(n)
    BY DEF SkipKnown, At
<1>2. job \in Jobs /\ job.list[n] # NoCR
    BY <1>1 DEF Inductive, Types
<1>3. /\ job'.list = job.list /\ job'.known = job.known /\ job'.toDelete = job.toDelete
      /\ job'.todo = job.todo \ {n} /\ job'.pc = job.pc
    BY <1>1, <1>2 DEF Jobs
<1>4. UpToDate' /\ StillThere' /\ OnlyStrays'
    BY <1>1, <1>3 DEF Inductive, UpToDate, StillThere, OnlyStrays, Existing
<1>5. AllCaredFor'
  <2> SUFFICES ASSUME NEW m \in Existing', crs'[m] # Empty, status'[m] = "none"
               PROVE  CaredFor(m)'
    BY DEF AllCaredFor
  <2>1. CaredFor(m) /\ m \in CRs /\ crs[m] # NoCR
    BY <1>1 DEF Inductive, AllCaredFor, Existing
  <2>2. CASE m = n /\ job.list[n] = crs[n]
    <3>1. PICK d \in job.known : d.url = crs[n].url
      BY <1>1, <2>2 DEF IsKnown, UrlsOf
    <3>2. job.list[n] \in Specs
      BY <1>1, <1>2 DEF Jobs
    <3>3. d.url \in Declared(job.list)
      BY <2>2, <3>1, <3>2 DEF Declared
    <3>4. (\E e \in DsNames : stored[e] = d.url) \/ d.url \in unsure
      BY <1>1, <3>3 DEF Inductive, StillThere
    <3> QED BY <1>1, <2>2, <3>1, <3>4 DEF CaredFor, Shown
  <2>3. CASE ~(m = n /\ job.list[n] = crs[n])
    BY <1>1, <1>3, <2>1, <2>3 DEF CaredFor, Shown
  <2> QED BY <2>2, <2>3
<1> QED BY <1>4, <1>5 DEF Inductive

\* What a submission leaves behind: the data source, an unclear answer or a status.
LEMMA CreateInductive ==
    ASSUME Inductive, NEW n \in CRs, Create(n), Types'
    PROVE  Inductive'
<1> USE SpecTypes
<1>1. PICK outcome \in Outcomes :
        LET d == job.list[n]
            free == stored[d.name] = Absent
            effect == outcome \in {"ok", "lost"} /\ free
        IN  /\ stored' = IF effect THEN [stored EXCEPT ![d.name] = d.url] ELSE stored
            /\ unsure' = IF outcome = "503" THEN unsure \cup {d.url}
                         ELSE IF effect THEN unsure \ {d.url} ELSE unsure
            /\ IF Accepted(outcome, free) THEN UNCHANGED <<status, queue>>
               ELSE ManageError(n, Failure(outcome, free))
    BY DEF Create
<1>2. /\ job' = [job EXCEPT !.todo = @ \ {n}] /\ UNCHANGED crs
      /\ job.pc = "create" /\ n \in job.todo /\ job.list[n] # Empty
    BY DEF Create, At
<1>3. job \in Jobs /\ job.list[n] \in Specs
    BY <1>2 DEF Inductive, Types, Jobs
<1>4. /\ job'.list = job.list /\ job'.known = job.known /\ job'.toDelete = job.toDelete
      /\ job'.todo = job.todo \ {n} /\ job'.pc = job.pc
    BY <1>2, <1>3 DEF Jobs
<1> DEFINE d == job.list[n]
           effect == outcome \in {"ok", "lost"} /\ stored[d.name] = Absent
           There(u, s) == \E e \in DsNames : s[e] = u
<1>5. d.name \in DsNames /\ d.url \in Urls
    BY <1>3
<1>6. \A u \in Urls : There(u, stored) => There(u, stored')
    BY <1>1, <1>5, Gains DEF Inductive
<1>7. effect => There(d.url, stored')
    BY <1>1, <1>5, Gains DEF Inductive
<1>8. \A u \in unsure : u \in unsure' \/ There(u, stored')
    BY <1>1, <1>7
<1>9. /\ queue \subseteq queue'
      /\ \A m \in CRs : status'[m] = "none" => status[m] = "none"
      /\ outcome # "503" /\ ~effect /\ crs[n] = d => status'[n] # "none"
  <2>1. \A message \in {"409", "unreachable"} : ManageError(n, message) =>
            /\ queue \subseteq queue' /\ \A m \in CRs : status'[m] = "none" => status[m] = "none"
            /\ crs[n] = d => status'[n] # "none"
    BY DEF ManageError, Inductive, Types
  <2>2. ~Accepted(outcome, stored[d.name] = Absent) =>
            Failure(outcome, stored[d.name] = Absent) \in {"409", "unreachable"}
    BY <1>1 DEF Accepted, Failure, Outcomes
  <2>3. Accepted(outcome, stored[d.name] = Absent) => outcome = "503" \/ effect
    BY <1>1 DEF Accepted, Failure, Outcomes
  <2> QED BY <1>1, <2>1, <2>2, <2>3
<1>10. UpToDate' /\ OnlyStrays'
    BY <1>2, <1>4, <1>9 DEF Inductive, UpToDate, OnlyStrays, Existing
<1>11. StillThere'
  <2> SUFFICES ASSUME NEW k \in job.known, k.url \in Declared(job.list)
               PROVE  There(k.url, stored') \/ k.url \in unsure'
    BY <1>4 DEF StillThere
  <2>1. There(k.url, stored) \/ k.url \in unsure
    BY <1>2 DEF Inductive, StillThere
  <2>2. k.url \in Urls
    BY <1>3 DEF Jobs
  <2> QED BY <2>1, <2>2, <1>6, <1>8
<1>12. AllCaredFor'
  <2> SUFFICES ASSUME NEW m \in Existing', crs'[m] # Empty, status'[m] = "none"
               PROVE  CaredFor(m)'
    BY DEF AllCaredFor
  <2>1. m \in CRs /\ crs[m] \in Specs /\ crs[m].url \in Urls /\ CaredFor(m)
    BY <1>2, <1>9 DEF Inductive, AllCaredFor, Existing, Types
  <2>2. CASE There(crs[m].url, stored) \/ crs[m].url \in unsure
    BY <1>2, <1>6, <1>8, <2>1, <2>2 DEF CaredFor, Shown
  <2>3. CASE m \in queue
    BY <1>9, <2>3 DEF CaredFor
  <2>4. CASE m \in job.todo /\ job.list[m] = crs[m] /\ m # n
    BY <1>2, <1>4, <2>4 DEF CaredFor
  <2>5. CASE m = n /\ d = crs[n]
    <3>1. outcome = "503" \/ effect
      BY <1>9, <2>5
    <3>2. There(d.url, stored') \/ d.url \in unsure'
      BY <1>1, <1>7, <3>1
    <3> QED BY <1>2, <2>1, <2>5, <3>2 DEF CaredFor, Shown
  <2> QED BY <2>1, <2>2, <2>3, <2>4, <2>5 DEF CaredFor, Shown
<1> QED BY <1>10, <1>11, <1>12 DEF Inductive

\* A deletion takes away what no resource of the pass declares; one outside it, or
\* one that has changed since, is excused or has its event waiting.
LEMMA DeleteInductive ==
    ASSUME Inductive, NEW k \in job.toDelete, Delete(k), Types'
    PROVE  Inductive'
<1>1. PICK outcome \in Outcomes :
        LET effect == outcome \in {"ok", "lost"} /\ stored[k.name] = k.url
        IN  /\ stored' = IF effect THEN [stored EXCEPT ![k.name] = Absent] ELSE stored
            /\ unsure' = IF Elsewhere(k.url) \/ ~effect THEN unsure \cup {k.url} ELSE unsure
    BY DEF Delete
<1>2. /\ job' = [job EXCEPT !.toDelete = @ \ {k}] /\ UNCHANGED <<crs, status, queue>>
      /\ job.pc = "create" /\ job.todo = {}
    BY DEF Delete, At
<1>3. job \in Jobs /\ k \in job.known
    BY DEF Inductive, Types
<1>4. /\ job'.list = job.list /\ job'.known = job.known /\ job'.toDelete = job.toDelete \ {k}
      /\ job'.todo = {} /\ job'.pc = job.pc
    BY <1>2, <1>3 DEF Jobs
<1> DEFINE There(u, s) == \E e \in DsNames : s[e] = u
<1>5. unsure \subseteq unsure' /\ k.url \in Urls
    BY <1>1, <1>3 DEF Jobs
<1>6. \A u \in Urls : There(u, stored) /\ u # k.url => There(u, stored')
  <2> SUFFICES ASSUME NEW u \in Urls, NEW e \in DsNames, stored[e] = u, u # k.url
               PROVE  stored'[e] = u
    OBVIOUS
  <2> QED BY <1>1 DEF Inductive, Types
<1>7. k.url \notin Declared(job.list)
    BY <1>2 DEF Inductive, OnlyStrays
<1>8. UpToDate' /\ OnlyStrays'
    BY <1>2, <1>4 DEF Inductive, UpToDate, OnlyStrays, Existing
<1>9. StillThere'
  <2> SUFFICES ASSUME NEW d \in job.known, d.url \in Declared(job.list)
               PROVE  There(d.url, stored') \/ d.url \in unsure'
    BY <1>4 DEF StillThere
  <2>1. There(d.url, stored) \/ d.url \in unsure
    BY <1>2 DEF Inductive, StillThere
  <2>2. d.url \in Urls
    BY <1>3 DEF Jobs
  <2> QED BY <2>1, <2>2, <1>5, <1>6, <1>7
<1>10. AllCaredFor'
  <2> SUFFICES ASSUME NEW m \in Existing', crs'[m] # Empty, status'[m] = "none"
               PROVE  CaredFor(m)'
    BY DEF AllCaredFor
  <2>1. m \in Existing /\ crs[m] \in Specs /\ crs[m].url \in Urls /\ CaredFor(m)
    BY <1>2, SpecTypes DEF Inductive, AllCaredFor, Existing, Types
  <2>2. CASE m \in queue \/ crs[m].url \in unsure
    BY <1>2, <1>5, <2>2 DEF CaredFor
  <2>3. CASE There(crs[m].url, stored) /\ crs[m].url # k.url
    BY <1>2, <1>6, <2>1, <2>3 DEF CaredFor, Shown
  <2>4. CASE crs[m].url = k.url
    <3>1. CASE job.list[m] = NoCR
      <4>1. Elsewhere(k.url)
        BY <2>1, <2>4, <3>1 DEF Elsewhere
      <4> QED BY <1>1, <1>2, <2>4, <4>1 DEF CaredFor
    <3>2. CASE job.list[m] = crs[m]
      <4>1. crs[m].url \in Declared(job.list)
        BY <2>1, <3>2 DEF Declared, Existing
      <4> QED BY <1>7, <2>4, <4>1
    <3>3. job.list[m] = NoCR \/ job.list[m] = crs[m] \/ m \in queue
      BY <1>2, <2>1 DEF Inductive, UpToDate
    <3> QED BY <2>2, <3>1, <3>2, <3>3
  <2> QED BY <1>2, <2>1, <2>2, <2>3, <2>4 DEF CaredFor, Shown
<1> QED BY <1>8, <1>9, <1>10 DEF Inductive

\* A resource that changes has an event waiting.
LEMMA ChangeInductive ==
    ASSUME Inductive, NEW n \in CRs, ChangeResource(n), Types'
    PROVE  Inductive'
<1>1. /\ \A m \in CRs : m # n => crs'[m] = crs[m] /\ status'[m] = status[m]
      /\ queue' = queue \cup {n} /\ UNCHANGED <<stored, job, unsure>>
    BY DEF ChangeResource, Inductive, Types
<1>2. UpToDate' /\ StillThere' /\ OnlyStrays'
    BY <1>1 DEF Inductive, UpToDate, StillThere, OnlyStrays, Existing
<1>3. AllCaredFor'
    BY <1>1 DEF Inductive, AllCaredFor, CaredFor, Shown, Existing
<1> QED BY <1>2, <1>3 DEF Inductive

\* What is removed in the console is excused.
LEMMA ConsoleDeleteInductive ==
    ASSUME Inductive, NEW k \in DsNames, ConsoleDelete(k), Types'
    PROVE  Inductive'
<1> DEFINE There(u, s) == \E e \in DsNames : s[e] = u
<1>1. /\ stored' = [stored EXCEPT ![k] = Absent] /\ unsure' = unsure \cup {stored[k]}
      /\ UNCHANGED <<crs, status, queue, job>>
    BY DEF ConsoleDelete
<1>2. \A u : There(u, stored) => There(u, stored') \/ u \in unsure'
    BY <1>1 DEF Inductive, Types
<1>3. UpToDate' /\ OnlyStrays'
    BY <1>1 DEF Inductive, UpToDate, OnlyStrays, Existing
<1>4. StillThere'
    BY <1>1, <1>2 DEF Inductive, StillThere
<1>5. AllCaredFor'
  <2> SUFFICES ASSUME NEW m \in Existing', crs'[m] # Empty, status'[m] = "none"
               PROVE  CaredFor(m)'
    BY DEF AllCaredFor
  <2>1. CaredFor(m)
    BY <1>1 DEF Inductive, AllCaredFor, Existing
  <2> QED BY <1>1, <1>2, <2>1 DEF CaredFor, Shown
<1> QED BY <1>3, <1>4, <1>5 DEF Inductive

\* What is made there takes nothing away.
LEMMA ConsoleCreateInductive ==
    ASSUME Inductive, NEW s \in Specs, ConsoleCreate(s), Types'
    PROVE  Inductive'
<1> DEFINE There(u, f) == \E e \in DsNames : f[e] = u
<1>1. /\ stored' = [stored EXCEPT ![s.name] = s.url] /\ stored[s.name] = Absent
      /\ unsure \subseteq unsure' /\ UNCHANGED <<crs, status, queue, job>>
    BY DEF ConsoleCreate
<1>2. \A u \in Urls : There(u, stored) => There(u, stored')
    BY <1>1, SpecTypes, Gains DEF Inductive
<1>3. UpToDate' /\ OnlyStrays'
    BY <1>1 DEF Inductive, UpToDate, OnlyStrays, Existing
<1>4. StillThere'
  <2>1. \A d \in job.known : d.url \in Urls
    BY DEF Inductive, Types, Jobs
  <2> QED BY <1>1, <1>2, <2>1 DEF Inductive, StillThere
<1>5. AllCaredFor'
  <2> SUFFICES ASSUME NEW m \in Existing', crs'[m] # Empty, status'[m] = "none"
               PROVE  CaredFor(m)'
    BY DEF AllCaredFor
  <2>1. CaredFor(m) /\ crs[m].url \in Urls
    BY <1>1, SpecTypes DEF Inductive, AllCaredFor, Existing, Types
  <2> QED BY <1>1, <1>2, <2>1 DEF CaredFor, Shown
<1> QED BY <1>3, <1>4, <1>5 DEF Inductive

\* After a restart every resource has an event waiting.
LEMMA RestartInductive ==
    ASSUME Inductive, Restart, Types'
    PROVE  Inductive'
<1>1. queue' = Existing /\ job' = IdleJob /\ UNCHANGED <<crs, status, stored>>
    BY DEF Restart
<1>2. job'.pc # "create"
    BY <1>1 DEF IdleJob
<1>3. AllCaredFor'
    BY <1>1 DEF AllCaredFor, CaredFor, Existing
<1> QED BY <1>2, <1>3 DEF Inductive, UpToDate, StillThere, OnlyStrays

\* Steps that change nothing of this, but for more events in the queue.
LEMMA QuietInductive ==
    ASSUME Inductive, Types', queue \subseteq queue', UNCHANGED <<crs, status, stored, job, unsure>>
    PROVE  Inductive'
<1>1. UpToDate' /\ StillThere' /\ OnlyStrays'
    BY DEF Inductive, UpToDate, StillThere, OnlyStrays, Existing
<1>2. AllCaredFor'
    BY DEF Inductive, AllCaredFor, CaredFor, Shown, Existing
<1> QED BY <1>1, <1>2 DEF Inductive

\* A pass that ends leaves nothing to do.
LEMMA EndInductive ==
    ASSUME Inductive, EndPass, Types'
    PROVE  Inductive'
<1>1. job.todo = {} /\ job' = IdleJob /\ UNCHANGED <<crs, status, stored, queue, unsure>>
    BY DEF EndPass
<1>2. job'.pc # "create"
    BY <1>1 DEF IdleJob
<1>3. AllCaredFor'
    BY <1>1 DEF Inductive, AllCaredFor, CaredFor, Shown, Existing
<1> QED BY <1>2, <1>3 DEF Inductive, UpToDate, StillThere, OnlyStrays

\* Every step keeps the invariant.
LEMMA NextInductive == Inductive /\ [Next]_vars => Inductive'
<1> SUFFICES ASSUME Inductive, [Next]_vars PROVE Inductive'
    OBVIOUS
<1>0. Types'
    BY NextTypes DEF Inductive
<1>1. ASSUME NEW n \in CRs, Reconcile(n) PROVE Inductive'
    BY <1>0, <1>1, ReconcileInductive
<1>2. ASSUME NEW n \in CRs, ChangeResource(n) PROVE Inductive'
    BY <1>0, <1>2, ChangeInductive
<1>3. ASSUME NEW n \in CRs, IndexEmpty(n) PROVE Inductive'
    BY <1>0, <1>3, QuietInductive DEF IndexEmpty
<1>4. ASSUME NEW n \in CRs, SkipKnown(n) PROVE Inductive'
    BY <1>0, <1>4, SkipInductive
<1>5. ASSUME NEW n \in CRs, Create(n) PROVE Inductive'
    BY <1>0, <1>5, CreateInductive
<1>6. ASSUME NEW d \in job.toDelete, Delete(d) PROVE Inductive'
    BY <1>0, <1>6, DeleteInductive
<1>7. CASE EndPass
    BY <1>0, <1>7, EndInductive
<1>8. ASSUME NEW d \in DsNames, ConsoleDelete(d) PROVE Inductive'
    BY <1>0, <1>8, ConsoleDeleteInductive
<1>9. ASSUME NEW s \in Specs, ConsoleCreate(s) PROVE Inductive'
    BY <1>0, <1>9, ConsoleCreateInductive
<1>10. ASSUME NEW b \in BOOLEAN, StateChange(b) PROVE Inductive'
    BY <1>0, <1>10, QuietInductive DEF StateChange
<1>11. CASE Resync
    BY <1>0, <1>11, QuietInductive DEF Resync
<1>12. CASE Restart
    BY <1>0, <1>12, RestartInductive
<1>13. CASE UNCHANGED vars
    BY <1>0, <1>13, QuietInductive DEF vars
<1> QED
    BY <1>1, <1>2, <1>3, <1>4, <1>5, <1>6, <1>7, <1>8, <1>9, <1>10, <1>11, <1>12, <1>13 DEF Next, Work

\* A drained queue means that what is declared is in Grafana or excused.
THEOREM SettledKept == Spec => []Settled
<1>1. Inductive => Settled
    BY DEF Inductive, AllCaredFor, CaredFor, Settled
<1> QED BY <1>1, InitInductive, NextInductive, PTL DEF Spec

-----------------------------------------------------------------------------
(* What a step does to the data sources.                                     *)

\* A data source that is there is never overwritten: a resource whose url changes
\* under a name in use waits until the pass of another request has removed the old
\* one.  And a pass removes what Grafana listed as it began and no resource of its
\* list declares, after the last creation, and nothing that came since.
RemovedFirst ==
    [][\A d \in DsNames : stored[d] # Absent /\ stored'[d] # stored[d] =>
         /\ stored'[d] = Absent
         /\ \/ /\ job.pc = "create" /\ job.todo = {}
               /\ [name |-> d, url |-> stored[d]] \in job.known
               /\ stored[d] \notin Declared(job.list)
            \/ UNCHANGED job]_vars

\* However requests, faults, events and people in the console interleave, the
\* operator takes away only what it found undeclared.
THEOREM RemovalsFirst == Spec => RemovedFirst
<1> DEFINE Excused(d) == /\ stored'[d] = Absent
                         /\ \/ /\ job.pc = "create" /\ job.todo = {}
                               /\ [name |-> d, url |-> stored[d]] \in job.known
                               /\ stored[d] \notin Declared(job.list)
                            \/ UNCHANGED job
           AllExcused == \A d \in DsNames : stored[d] # Absent /\ stored'[d] # stored[d] => Excused(d)
<1>1. Inductive /\ [Next]_vars => [AllExcused]_vars
  <2> SUFFICES ASSUME Inductive, [Next]_vars, NEW d \in DsNames,
                      stored[d] # Absent, stored'[d] # stored[d]
               PROVE  Excused(d)
    OBVIOUS
  <2>1. stored \in [DsNames -> Urls \cup {Absent}] /\ job \in Jobs /\ OnlyStrays
    BY DEF Inductive, Types
  <2>2. CASE \E k \in job.toDelete : Delete(k)
    <3>1. PICK k \in job.toDelete : Delete(k)
      BY <2>2
    <3>2. /\ job.pc = "create" /\ job.todo = {}
          /\ \/ stored' = stored
             \/ stored[k.name] = k.url /\ stored' = [stored EXCEPT ![k.name] = Absent]
      BY <3>1 DEF Delete, At
    <3>3. k \in job.known /\ k \in [name : DsNames, url : Urls]
      BY <2>1 DEF Jobs, Inductive, Types
    <3>4. k.name = d /\ k.url = stored[d] /\ stored'[d] = Absent
      BY <2>1, <3>2, <3>3
    <3>5. k = [name |-> d, url |-> stored[d]]
      BY <3>3, <3>4
    <3>6. k.url \notin Declared(job.list)
      BY <2>1, <3>1, <3>2 DEF OnlyStrays
    <3> QED BY <3>2, <3>3, <3>4, <3>5, <3>6
  <2>3. ASSUME NEW n \in CRs, Create(n) PROVE FALSE
    <3>1. \/ stored' = stored
          \/ /\ stored[job.list[n].name] = Absent
             /\ stored' = [stored EXCEPT ![job.list[n].name] = job.list[n].url]
      BY <2>3 DEF Create
    <3> QED BY <2>1, <3>1
  <2>4. ASSUME NEW k \in DsNames, ConsoleDelete(k) PROVE stored'[d] = Absent /\ UNCHANGED job
    BY <2>1, <2>4 DEF ConsoleDelete
  <2>5. ASSUME NEW s \in Specs, ConsoleCreate(s) PROVE FALSE
    BY <2>1, <2>5 DEF ConsoleCreate
  <2>6. stored' # stored
    OBVIOUS
  <2>7. ~UNCHANGED vars /\ ~Resync /\ ~Restart /\ ~EndPass
    BY <2>6 DEF vars, Resync, Restart, EndPass
  <2>8. \A n \in CRs : ~Reconcile(n) /\ ~ChangeResource(n) /\ ~IndexEmpty(n) /\ ~SkipKnown(n)
    BY <2>6 DEF Reconcile, ChangeResource, IndexEmpty, SkipKnown
  <2>9. \A b \in BOOLEAN : ~StateChange(b)
    BY <2>6 DEF StateChange
  <2>10. CASE \E k \in DsNames : ConsoleDelete(k)
    BY <2>4, <2>10
  <2> QED BY <2>2, <2>3, <2>5, <2>7, <2>8, <2>9, <2>10, Zenon DEF Next, Work
<1> HIDE DEF AllExcused
<1>2. Spec => [][AllExcused]_vars
  BY <1>1, InitInductive, NextInductive, PTL DEF Spec
<1> USE DEF AllExcused
<1> QED BY <1>2 DEF RemovedFirst
=============================================================================
