-------------------------- MODULE KnownDashboards --------------------------
(***************************************************************************)
(* The list of dashboards the operator knows it has submitted to Grafana:   *)
(* the Dashboards field of the ControllerConfig singleton, a Go slice of    *)
(* *GrafanaDashboardRef (controllers/config/controller_config.go).          *)
(* A slice and its readers are those of GoSlices; the elements are pointers  *)
(* to references, which are values here: only InvalidateDashboards writes     *)
(* through them.                                                             *)
(***************************************************************************)
EXTENDS GoSlices

CONSTANTS NoHash   \* the empty hash: "never submitted" or "invalidated"

\* HasDashboard: the index of the first reference with this uid, 0 for "no".
IndicesOf(s, uid) == { i \in 1..s.len : s.cells[i].uid = uid }

HasDashboard_SkipsFirst(s, uid) ==  \* mutant: the search starts one too late
    LET found == IndicesOf(s, uid) \ {1} IN IF found = {} THEN 0 ELSE Least(found)
HasDashboard_Minus(s, uid) ==  \* mutant: the index is used although "exists" is false
    IF IndicesOf(s, uid) = {} THEN -1 ELSE Least(IndicesOf(s, uid))
HasDashboard(s, uid) ==
    IF IndicesOf(s, uid) = {} THEN 0 ELSE Least(IndicesOf(s, uid))

\* findHash and findUid both stop at the first reference with the name and
\* namespace of the dashboard (a name here stands for the pair).
Find(s, name) ==
    LET found == { i \in 1..s.len : s.cells[i].name = name }
    IN  IF found = {} THEN NoRef ELSE s.cells[Least(found)]

\* InvalidateDashboards writes through the pointers, so it reaches every copy
\* of the slice that holds one of these references too.
Blank(ref) == [ref EXCEPT !.hash = NoHash]
Blanked(s, refs) ==
    [cells |-> [i \in 1..s.cap |-> IF s.cells[i] \in refs THEN Blank(s.cells[i]) ELSE s.cells[i]],
     cap |-> s.cap, len |-> s.len]
Invalidated(s) == Blanked(s, RefsIn(s))

-----------------------------------------------------------------------------
(* Readers.                                                                  *)

\* The cluster level reads a copy, a namespace the slice itself.
GetDashboards(s, allNamespaces) == IF allNamespaces THEN Copied(s) ELSE Shared(s)

\* InvalidateDashboards as a reader sees it.
Blanking(view, s) ==
    IF view.live THEN view ELSE [live |-> FALSE, slice |-> Blanked(view.slice, RefsIn(s))]
=============================================================================
