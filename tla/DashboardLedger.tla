--------------------------- MODULE DashboardLedger ---------------------------
(***************************************************************************)
(* What the known dashboards are to the operator, without slices, indices,    *)
(* passes or goroutines: a ledger with at most one entry for each uid, which  *)
(* says what Grafana holds under it.  An entry is made only of what Grafana    *)
(* accepted, crossed out only when Grafana holds nothing any more, and no      *)
(* step touches the entries of two uids, unless all of them.  The exceptions    *)
(* are uids of which the operator cannot know what Grafana holds.              *)
(*                                                                         *)
(* DashboardSync implements this ledger with its list.                        *)
(***************************************************************************)
CONSTANTS
    UIDs,
    Absent,     \* Grafana holds nothing under a uid
    Unknown     \* the contents in an entry that was invalidated

VARIABLES
    shown,      \* what Grafana holds: contents and folder under each uid
    entries,    \* the ledger: records of a uid, contents and a folder
    doubt,      \* uids whose last call Grafana did not confirm, or did for others
    pending     \* uids that were accepted and are not in the ledger yet

vars == <<shown, entries, doubt, pending>>

Init == /\ shown = [u \in UIDs |-> Absent]
        /\ entries = {} /\ doubt = {} /\ pending = {}

Others(u) == { e \in entries : e.uid # u }
Says(e, content) == content.folder = e.folder /\ (e.json = Unknown \/ e.json = content.json)

\* Nothing but what is under u changes in Grafana.
Only(u) == shown' = [shown EXCEPT ![u] = shown'[u]]

\* Grafana accepts contents for u ...
Submit(u) ==
    /\ Only(u) /\ shown'[u] # Absent
    /\ doubt' = doubt \ {u} /\ pending' = pending \cup {u}
    /\ UNCHANGED entries

\* ... or leaves it open whether it did; some answers pass for a yes.
Unanswered(u) ==
    /\ Only(u)
    /\ doubt' = doubt \cup {u} /\ pending' \in {pending, pending \cup {u}}
    /\ UNCHANGED entries

\* The entry that is made replaces the one there may be for u.
Record(u) ==
    /\ u \in pending /\ pending' = pending \ {u}
    /\ \E e \in entries' :
          /\ e.uid = u /\ entries' = Others(u) \cup {e}
          /\ u \in doubt \/ shown[u] = Absent \/ Says(e, shown[u])
    /\ UNCHANGED <<shown, doubt>>

\* Grafana confirms that nothing is left under u, or fails to.
Withdraw(u) ==
    /\ \/ shown' = [shown EXCEPT ![u] = Absent] /\ doubt' = doubt \ {u}
       \/ shown' = shown /\ doubt' = doubt \cup {u}
    /\ UNCHANGED <<entries, pending>>

Forget(u) ==
    /\ u \in doubt \/ shown[u] = Absent
    /\ entries' = Others(u)
    /\ UNCHANGED <<shown, doubt, pending>>

Invalidate ==
    /\ entries' = { [uid |-> e.uid, json |-> Unknown, folder |-> e.folder] : e \in entries }
    /\ UNCHANGED <<shown, doubt, pending>>

\* The operator loses its memory.
Reset ==
    /\ entries' = {}
    /\ doubt' = doubt \cup { u \in UIDs : shown[u] # Absent }
    /\ pending' \in {pending, {}}
    /\ UNCHANGED shown

\* With a folder goes only what nobody knows of.
Collateral ==
    /\ \A u \in UIDs : shown'[u] = shown[u] \/ (shown'[u] = Absent /\ u \in doubt)
    /\ shown' = [u \in UIDs |-> shown'[u]]
    /\ UNCHANGED <<entries, doubt, pending>>

\* People delete and create dashboards in Grafana.
Outside(u) ==
    /\ Only(u)
    /\ \/ shown'[u] = Absent /\ doubt' = doubt
       \/ shown'[u] # Absent /\ doubt' = doubt \cup {u}
    /\ UNCHANGED <<entries, pending>>

Next == \/ \E u \in UIDs : \/ Submit(u) \/ Unanswered(u) \/ Record(u)
                           \/ Withdraw(u) \/ Forget(u) \/ Outside(u)
        \/ Invalidate \/ Reset \/ Collateral

Spec == Init /\ [][Next]_vars

-----------------------------------------------------------------------------

\* One entry for each uid.
OneEntry == \A d, e \in entries : d.uid = e.uid => d = e

\* Every entry says what Grafana holds ...
Truthful ==
    \A e \in entries :
        \/ shown[e.uid] = Absent \/ e.uid \in doubt \cup pending \/ Says(e, shown[e.uid])

\* ... and nothing Grafana holds is missing.
Complete ==
    \A u \in UIDs : shown[u] = Absent \/ u \in doubt \cup pending \/ \E e \in entries : e.uid = u

Ledger == OneEntry /\ Truthful /\ Complete
=============================================================================
