-------------------------- MODULE DashboardPipeline --------------------------
(***************************************************************************)
(* The pipeline that turns one GrafanaDashboard resource into a submission   *)
(* (controllers/grafanadashboard/dashboard_pipeline.go): which of its        *)
(* sources the contents are taken from, how fetched contents find their way  *)
(* back into the resource, and which hash remembers what was submitted.      *)
(*                                                                         *)
(* DashboardSync takes the contents of a resource for one value and looks at  *)
(* folders, goroutines and other dashboards; here there is one resource, and *)
(* the passes of one goroutine over it, with the sources failing, changing   *)
(* and being edited between any two steps.                                   *)
(***************************************************************************)
EXTENDS Naturals, Sequences

CONSTANTS
    Specs,          \* specs the resource can have: records of the type Spec
    WebAnswers,     \* what a url or grafana.com can answer: Contents, or Down
    MapEntries,     \* what a config map reference can lead to: Contents, NoMap or NoKey
    Contents,       \* documents that the sources can hold
    Invalid,        \* those that do not parse or that Grafana refuses
    Nulls,          \* those that parse and have nothing in them: json null
    ErrorPage,      \* the document that comes with an error status
    UidIn,          \* the uid written in a document, NoUid, or NoString: it is no string
    Compiled,       \* what a jsonnet snippet evaluates to; NoDoc: it fails
    InputLists,     \* values of spec.datasources
    InputText,      \* their names, one after the other
    Incomplete,     \* those with an input rule that lacks a name
    OwnUid,         \* the uid made from the namespace and the name
    FaultKinds,     \* "err": calls to the API server and to Grafana can fail
    Disturbances,   \* what else happens around the pipeline
    MaxDisturb,     \* bound on faults and disturbances together
    Down, NoMap, NoKey, NoDoc, NoUid, NoString, NoInputs, NoHash, Absent

\* The fields a document can come from, and the inputs to replace in it.
Spec == [com : BOOLEAN, url : BOOLEAN, cm : BOOLEAN, json : Contents \cup {NoDoc},
         jsonnet : DOMAIN Compiled, inputs : InputLists]

ASSUME BoundAssumption == MaxDisturb \in Nat
ASSUME SpecAssumption == Specs \subseteq Spec
ASSUME SourceAssumption == /\ WebAnswers \subseteq Contents \cup {Down}
                           /\ MapEntries \subseteq Contents \cup {NoMap, NoKey}
ASSUME DocAssumption ==
    /\ Invalid \subseteq Contents /\ ErrorPage \in Invalid
    /\ Nulls \subseteq Contents \ Invalid /\ \A d \in Nulls : UidIn[d] = NoUid
    /\ {NoDoc, NoKey, NoMap, Down} \cap Contents = {} /\ NoKey # NoDoc
    /\ DOMAIN UidIn = Contents
    /\ NoDoc \in DOMAIN Compiled /\ Compiled[NoDoc] = NoDoc
    /\ \A s \in DOMAIN Compiled : Compiled[s] \in Contents \cup {NoDoc}
    /\ \A d \in DOMAIN Compiled \cap (Contents \ Invalid) : Compiled[d] = d  \* json is jsonnet
    /\ DOMAIN InputText = InputLists /\ NoInputs \in InputLists /\ InputText[NoInputs] = <<>>

VARIABLES
    spec,       \* the resource in the API server
    web,        \* what its url, or grafana.com, answers
    configMap,  \* what its config map reference leads to
    known,      \* the known references to the resource: uid and hash
    shown,      \* Grafana: what is stored under each uid
    job,        \* the rest of the pass that is running
    disturbed

vars == <<spec, web, configMap, known, shown, job, disturbed>>
sources == <<spec, web, configMap>>

UIDs == ({ UidIn[d] : d \in Contents } \ {NoUid, NoString}) \cup {OwnUid}
Boards == [doc : Contents, inputs : InputLists]

\* Hash() runs the fields together, so that a text moved from one field to the
\* next leaves it as it was: from json to jsonnet, or between the two names of
\* an input rule.  It covers what the resource says about its contents, not
\* what a url, a revision of grafana.com or a config map has to say.
Text(doc) == IF doc = NoDoc THEN <<>> ELSE <<doc>>
Given(field, source) == IF field THEN <<source>> ELSE <<>>
Hash(s) ==
    InputText[s.inputs] \o Text(s.json) \o Given(s.url, "url") \o Text(s.jsonnet)
        \o <<"namespace">> \o Given(s.cm, "config map") \o Given(s.com, "grafana.com")
Hashes == { Hash(s) : s \in Spec }

\* UID() looks for a uid in spec.json only, wherever the contents come from.
UID(s) == IF s.json \in Contents \ Invalid /\ UidIn[s.json] \notin {NoUid, NoString}
          THEN UidIn[s.json] ELSE OwnUid

IdleJob(s) == [pc |-> "idle", copy |-> s, body |-> NoDoc, stale |-> FALSE, forced |-> FALSE,
               result |-> "none"]

Init == /\ spec \in Specs
        /\ web \in WebAnswers
        /\ configMap \in MapEntries
        /\ known = <<>>
        /\ shown = [u \in UIDs |-> Absent]
        /\ job = IdleJob(spec)
        /\ disturbed = 0

-----------------------------------------------------------------------------
(* obtainJson.                                                              *)

At(pc) == job.pc = pc
Undisturbed == disturbed' = disturbed
Disturb(kind) == kind \in Disturbances /\ disturbed < MaxDisturb /\ disturbed' = disturbed + 1
Call(outcome) ==
    \/ outcome = "ok" /\ Undisturbed
    \/ outcome \in FaultKinds /\ disturbed < MaxDisturb /\ disturbed' = disturbed + 1
Outcomes == {"ok"} \cup FaultKinds

OneRemote(s) == s.com # s.url
Entry(s) == IF s.com \/ s.url THEN "fetch" ELSE "local"

\* The contents were obtained: ProcessDashboard compares the hash, replaces the
\* inputs and parses.  A config map without the key gives "", for which Parse
\* takes spec.json, with its inputs as they are.
Document(s, body) == IF body = NoKey THEN s.json ELSE body
Board(s, body) == [doc |-> Document(s, body), inputs |-> IF body = NoKey THEN NoInputs ELSE s.inputs]
KnownHash == IF known = <<>> THEN NoHash ELSE Head(known).hash

\* resolveDatasources: every input rule has to name an input and a data source.
Resolvable(s) == s.inputs \notin Incomplete

\* ProcessDashboard writes into the board, which is a nil map for json null, and
\* UID() asserts that the uid in spec.json is a string: the operator panics.
Fatal(s, body) == \/ Document(s, body) \in Nulls
                  \/ s.json \in Contents \ Invalid /\ UidIn[s.json] = NoString

Result_NotParsed(s, body, forced) ==  \* mutant: a forced submission is not parsed
    IF body = NoDoc THEN "error"
    ELSE IF forced THEN "ready"
    ELSE IF Hash(s) = KnownHash THEN "unchanged"
    ELSE IF ~Resolvable(s) \/ Document(s, body) \in Invalid \cup {NoDoc} THEN "error"
    ELSE IF Fatal(s, body) THEN "fatal"
    ELSE "ready"
Result(s, body, forced) ==
    IF body = NoDoc THEN "error"
    ELSE IF Hash(s) = KnownHash /\ ~forced THEN "unchanged"
    ELSE IF ~Resolvable(s) \/ Document(s, body) \in Invalid \cup {NoDoc} THEN "error"
    ELSE IF Fatal(s, body) THEN "fatal"
    ELSE "ready"

\* The look at Grafana comes after the first attempt, and only then.  The error
\* of the first attempt is still in err after a second one that went well - the
\* second sets an err of its own - and ends the matter for this pass.
Processed(s, body) ==
    LET result == Result(s, body, job.forced)
        j == [job EXCEPT !.copy = s, !.body = body]
        posts == result = "ready" /\ job.result # "error"
    IN  \/ result = "fatal" /\ job' = [IdleJob(spec) EXCEPT !.pc = "panicked"]
        \/ result # "fatal" /\ ~job.forced /\ job' = [j EXCEPT !.pc = "look", !.result = result]
        \/ job.forced /\ posts /\ job' = [j EXCEPT !.pc = "post"]
        \/ job.forced /\ result # "fatal" /\ ~posts /\ job' = IdleJob(spec)

StartPass ==
    /\ At("idle")
    /\ job' = [IdleJob(spec) EXCEPT !.pc = Entry(spec)]
    /\ UNCHANGED <<sources, known, shown, disturbed>>

\* A url and a grafana.com source exclude each other.
BothGiven ==
    /\ At("fetch") /\ job.copy.com /\ job.copy.url
    /\ Processed(job.copy, NoDoc)
    /\ UNCHANGED <<sources, known, shown, disturbed>>

\* Only the answer of a url is checked for its status.
Fetched(s) == IF s.com THEN web # Down ELSE web \notin {Down, ErrorPage}

\* loadDashboardFromURL and loadDashboardFromGrafanaCom.  Fetched contents are
\* kept in spec.json of the copy the pass works on; when they are new, they
\* are saved to the resource next.
Kept_NotInCopy(s, doc) == s  \* mutant: the copy keeps its json
Kept(s, doc) == [s EXCEPT !.json = doc]

Fetch ==
    /\ At("fetch") /\ OneRemote(job.copy)
    /\ \/ /\ ~Fetched(job.copy)
          /\ job' = [job EXCEPT !.pc = "local"]
       \/ /\ Fetched(job.copy) /\ web = job.copy.json
          /\ Processed(job.copy, web)
       \/ /\ Fetched(job.copy) /\ web # job.copy.json
          /\ job' = [job EXCEPT !.pc = "save", !.copy = Kept(job.copy, web),
                                   !.body = web]
    /\ UNCHANGED <<sources, known, shown, disturbed>>

\* The update conflicts when the resource has changed since it was listed.  An
\* update that fails counts as a source that failed.
Save ==
    \E outcome \in Outcomes :
        LET saved == outcome = "ok" /\ ~job.stale
        IN  /\ At("save")
            /\ Call(outcome)
            /\ spec' = IF saved THEN job.copy ELSE spec
            /\ IF saved THEN Processed(job.copy, job.body)
               ELSE job' = [job EXCEPT !.pc = "local"]
            /\ UNCHANGED <<web, configMap, known, shown>>

\* The sources in the cluster, in their order: config map, json, jsonnet.
Local(s) ==
    IF s.cm /\ configMap # NoMap THEN configMap
    ELSE IF s.json # NoDoc THEN s.json
    ELSE Compiled[s.jsonnet]

LoadLocal ==
    /\ At("local")
    /\ Processed(job.copy, Local(job.copy))
    /\ UNCHANGED <<sources, known, shown, disturbed>>

-----------------------------------------------------------------------------
(* The pass around it.                                                      *)

\* GetDashboard for the uid the resource is known by.  If it is not in Grafana,
\* or the request fails, everything is done again, whatever the hash.
Missing_Never(outcome) == FALSE  \* mutant: nobody looks whether it is there
Missing(outcome) == known # <<>> /\ (outcome = "err" \/ shown[Head(known).uid] = Absent)

Look ==
    \E outcome \in Outcomes :
        /\ At("look")
        /\ IF known = <<>> THEN outcome = "ok" /\ Undisturbed ELSE Call(outcome)
        /\ job' = CASE Missing(outcome) -> [job EXCEPT !.pc = Entry(job.copy), !.forced = TRUE,
                                                       !.body = NoDoc]
                    [] ~Missing(outcome) /\ job.result = "ready" -> [job EXCEPT !.pc = "post"]
                    [] OTHER -> IdleJob(spec)
        /\ UNCHANGED <<sources, known, shown>>

\* AddDashboard: one reference for each uid, the first one is the one that is
\* found again.
Added(ref) ==
    IF \E i \in DOMAIN known : known[i].uid = ref.uid
    THEN [i \in DOMAIN known |-> IF known[i].uid = ref.uid THEN ref ELSE known[i]]
    ELSE Append(known, ref)

Post ==
    \E outcome \in Outcomes :
        LET s == job.copy
        IN  /\ At("post")
            /\ Call(outcome)
            /\ IF outcome = "ok"
               THEN /\ shown' = [shown EXCEPT ![UID(s)] = Board(s, job.body)]
                    /\ known' = Added([uid |-> UID(s), hash |-> Hash(s)])
               ELSE UNCHANGED <<shown, known>>
            /\ job' = IdleJob(spec)
            /\ UNCHANGED sources

\* The kubelet starts the operator again, which has forgotten everything.
Recover ==
    /\ At("panicked")
    /\ known' = <<>>
    /\ job' = IdleJob(spec)
    /\ UNCHANGED <<sources, shown, disturbed>>

-----------------------------------------------------------------------------
(* Everybody else.                                                          *)

Edit ==
    /\ Disturb("edit")
    /\ spec' \in Specs \ {spec}
    /\ job' = IF At("idle") THEN IdleJob(spec') ELSE [job EXCEPT !.stale = TRUE]
    /\ UNCHANGED <<web, configMap, known, shown>>

WebChange ==
    /\ Disturb("web")
    /\ web' \in WebAnswers \ {web}
    /\ UNCHANGED <<spec, configMap, known, shown, job>>

MapChange ==
    /\ Disturb("config map")
    /\ configMap' \in MapEntries \ {configMap}
    /\ UNCHANGED <<spec, web, known, shown, job>>

ConsoleDelete ==
    /\ Disturb("console delete")
    /\ \E u \in UIDs : shown[u] # Absent /\ shown' = [shown EXCEPT ![u] = Absent]
    /\ UNCHANGED <<sources, known, job>>

\* InvalidateDashboards clears the hashes, a restart the whole list.
Invalidate ==
    /\ Disturb("invalidate")
    /\ known' = [i \in DOMAIN known |-> [known[i] EXCEPT !.hash = NoHash]]
    /\ UNCHANGED <<sources, shown, job>>

Restart ==
    /\ Disturb("restart")
    /\ known' = <<>>
    /\ job' = IdleJob(spec)
    /\ UNCHANGED <<sources, shown>>

Pass == StartPass \/ BothGiven \/ Fetch \/ Save \/ LoadLocal \/ Look \/ Post \/ Recover
Environment == Edit \/ WebChange \/ MapChange \/ ConsoleDelete \/ Invalidate \/ Restart
Next == Pass \/ Environment

Pipeline == Init /\ [][Next]_vars
\* The ticker starts a pass every RequeueDelay, every step of a pass ends, and the
\* kubelet restarts a crashed operator.
FairPipeline == Pipeline /\ WF_vars(Pass)

-----------------------------------------------------------------------------
Phases == {"idle", "fetch", "save", "local", "look", "post", "panicked"}

\* The types of the pipeline's state: what is ready to be submitted is a document
\* that the operator survived, and no step meets a source it did not load.
TypeOK ==
    /\ spec \in Spec
    /\ web \in WebAnswers
    /\ configMap \in MapEntries
    /\ known \in Seq([uid : UIDs, hash : Hashes \cup {NoHash}])
    /\ shown \in [UIDs -> Boards \cup {Absent}]
    /\ job \in [pc : Phases, copy : Spec, body : Contents \cup {NoDoc, NoKey}, stale : BOOLEAN,
                forced : BOOLEAN, result : {"none", "error", "unchanged", "ready"}]
    /\ At("post") => /\ Document(job.copy, job.body) \in Contents \ Invalid
                     /\ ~Fatal(job.copy, job.body)
    /\ disturbed \in 0..MaxDisturb

\* What a spec without a config map says is to be in Grafana, and where.  About a
\* spec with a config map the hash has nothing to say.
Covered(s) ==
    [doc |-> IF s.json # NoDoc THEN s.json ELSE Compiled[s.jsonnet], inputs |-> s.inputs]
Told == { <<Hash(s), UID(s), Covered(s)>> : s \in { t \in Spec : ~t.cm } }
Untold == { Hash(s) : s \in { t \in Spec : t.cm } }

\* A dashboard is left alone as long as its hash is the known one.  That is
\* right only if the hash decides the contents: whatever failed, conflicted or
\* was edited on the way, Grafana shows under the uid of a reference what a spec
\* with this uid and the remembered hash says - except for a resource with a
\* config map, which the hash says nothing about.
HashDecides ==
    \A i \in DOMAIN known :
        LET ref == known[i]
        IN  \/ ref.hash \in Untold \cup {NoHash} \/ shown[ref.uid] = Absent
            \/ <<ref.hash, ref.uid, shown[ref.uid]>> \in Told

\* The document that the resource's first source that answers has, and what the
\* pass takes the resource for then.
Remote == OneRemote(spec) /\ Fetched(spec)
Best == IF Remote THEN web ELSE Local(spec)
BestSpec == IF Remote THEN Kept(spec, web) ELSE spec
Deliverable ==
    /\ ~(spec.com /\ spec.url) /\ Resolvable(spec)
    /\ Document(BestSpec, Best) \in Contents \ Invalid /\ ~Fatal(BestSpec, Best)
Delivered == shown[UID(BestSpec)] = Board(BestSpec, Best)

\* Without a config map, once the sources hold still Grafana shows the document
\* of the first one that answers, with the current inputs, and goes on to - or
\* what another spec says whose fields, run together, read the same.
SourceReaches ==
    <>[](Deliverable /\ ~spec.cm =>
            \E uid \in UIDs : <<Hash(BestSpec), uid, shown[uid]>> \in Told)

\* "The dashboard fetch priority by parameter is: url > configmap > json >
\* jsonnet" (documentation/dashboards.md): while the url answers, its contents
\* are the ones to be shown.
UrlFirst == <>[](Deliverable /\ spec.url /\ Fetched(spec) => Delivered)
=============================================================================
