------------------------- MODULE MCDashboardPipeline -------------------------
(***************************************************************************)
(* Small instances of DashboardPipeline: two documents, one with a uid of    *)
(* its own, one that does not parse, the error page, json null, and one with  *)
(* a number for a uid; two lists of inputs whose names read the same.        *)
(***************************************************************************)
EXTENDS DashboardPipeline, TLC

MCUidIn == "a" :> NoUid @@ "b" :> "ub" @@ "bad" :> NoUid @@ ErrorPage :> NoUid
           @@ "null" :> NoUid @@ "odd" :> NoString
MCContents == {"a", "b", "bad", "null", "odd", ErrorPage}
MCWebAnswers == {"a", "b", ErrorPage, Down}
MCMapEntries == {"a", "null", NoMap, NoKey}
MCInvalid == {"bad", ErrorPage}
MCCompiled == NoDoc :> NoDoc @@ "snippet" :> "a" @@ "b" :> "b" @@ "broken" :> NoDoc
MCInputText == "none" :> <<>> @@ "ds" :> <<"names">> @@ "sd" :> <<"names">> @@ "incomplete" :> <<"name">>

Plain == [com |-> FALSE, url |-> FALSE, cm |-> FALSE, json |-> NoDoc, jsonnet |-> NoDoc,
          inputs |-> "none"]
MCSpecs == { [Plain EXCEPT !.url = TRUE], [Plain EXCEPT !.com = TRUE, !.jsonnet = "snippet"],
             [Plain EXCEPT !.com = TRUE, !.url = TRUE],
             [Plain EXCEPT !.url = TRUE, !.cm = TRUE, !.inputs = "ds"],
             [Plain EXCEPT !.cm = TRUE, !.jsonnet = "broken"], [Plain EXCEPT !.cm = TRUE, !.json = "odd"],
             [Plain EXCEPT !.json = "b"], [Plain EXCEPT !.jsonnet = "b"],
             [Plain EXCEPT !.json = "a", !.inputs = "ds"], [Plain EXCEPT !.json = "a", !.inputs = "sd"],
             [Plain EXCEPT !.json = "bad", !.jsonnet = "b"],
             [Plain EXCEPT !.json = "b", !.inputs = "incomplete"] }
MCUrlAndMap == { [Plain EXCEPT !.url = TRUE, !.cm = TRUE] }
=============================================================================
