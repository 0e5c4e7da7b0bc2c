--------------------------- MODULE MCDashboardSync ---------------------------
(***************************************************************************)
(* Small instances of DashboardSync: two resources that share the namespace *)
(* "a", or live in "a" and "b"; up to four contents.                          *)
(***************************************************************************)
EXTENDS DashboardSync, TLC

MCNames == {"d1", "d2"}
MCSameNs == [n \in MCNames |-> "a"]
MCTwoNs == [n \in MCNames |-> IF n = "d1" THEN "a" ELSE "b"]
MCUidFixed == [n \in Names |-> [j \in Jsons |-> n]]
MCAll == {"a", "b"}
MCOneReconciler == {"r"}
MCOneName == {"d1"}
MCOneNs == [n \in MCOneName |-> "a"]
MCTwoReconcilers == MCAll
MCScopeOwn == [r \in MCTwoReconcilers |-> {r}]
MCScopeAll == [r \in MCOneReconciler |-> MCAll]

\* The populations: every one; those in which only the second resource has
\* contents that do not parse or are fatal; one resource with any contents, or
\* two, of which the second one may go (which of them goes makes no difference).
MCEvery == [Names -> Specs \cup {NoCR}]
Valid == { s \in Specs : s.json \notin InvalidJsons \cup FatalJsons }
Unfiled == { s \in Specs : s.folder = NoTitle }
MCFaultySecond ==
    { p \in MCEvery : p["d1"] \in Valid \cup {NoCR} /\ p["d2"] \in Valid \cup Unfiled \cup {NoCR} }
MCOneOrTwo ==
    { p \in MCEvery : p["d2"] = NoCR \/ \A n \in Names : p[n] \in { s \in Unfiled : s.json = "v1" } }
=============================================================================
