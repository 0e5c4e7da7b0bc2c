------------------------------- MODULE GoSlices -------------------------------
(***************************************************************************)
(* Go slices as the operator's registries use them (controllers/config).    *)
(*                                                                         *)
(* A slice is a record: the backing array (cells, indexed 1..cap) and the     *)
(* length.  Whoever reads a registry gets a copy of the slice, or the slice   *)
(* itself; in the second case the reader keeps looking at the array the       *)
(* writers go on changing, until an append outgrows the array and leaves the  *)
(* reader with the old one.                                                  *)
(***************************************************************************)
EXTENDS Integers

CONSTANTS NoRef    \* what an unused cell of a backing array holds

EmptySlice == [cells |-> [i \in 1..0 |-> NoRef], cap |-> 0, len |-> 0]

IsSlice(s, Ref) ==
    /\ s = [cells |-> s.cells, cap |-> s.cap, len |-> s.len]
    /\ s.cap \in Nat /\ s.len \in 0..s.cap
    /\ s.cells \in [1..s.cap -> Ref \cup {NoRef}]
    /\ \A i \in 1..s.len : s.cells[i] \in Ref

RefsIn(s) == { s.cells[i] : i \in 1..s.len }

Least(S) == CHOOSE i \in S : \A j \in S : i <= j

-----------------------------------------------------------------------------
(* Writers.                                                                 *)

\* append: in place while there is room, otherwise into a new array of twice
\* the capacity.
Reallocates(s) == s.len = s.cap
GrownCap(s) == IF s.cap = 0 THEN 1 ELSE 2 * s.cap

Appended(s, ref) ==
    LET cap == IF Reallocates(s) THEN GrownCap(s) ELSE s.cap
    IN  [cells |-> [i \in 1..cap |-> IF i = s.len + 1 THEN ref
                                     ELSE IF i <= s.cap THEN s.cells[i] ELSE NoRef],
         cap |-> cap, len |-> s.len + 1]

Replaced(s, i, ref) ==
    [cells |-> [s.cells EXCEPT ![i] = ref], cap |-> s.cap, len |-> s.len]

\* Removal: the last reference takes the place of the removed one and
\* the slice gets shorter; the array keeps the last cell.
Dropped_Last(s, i) ==  \* mutant: the last reference is not moved first
    [cells |-> s.cells, cap |-> s.cap, len |-> s.len - 1]
Dropped(s, i) ==
    [cells |-> [s.cells EXCEPT ![i] = s.cells[s.len]], cap |-> s.cap, len |-> s.len - 1]

-----------------------------------------------------------------------------
(* Readers.  A live view shares the array of the writers' slice s; only its   *)
(* length is its own.                                                        *)

NoView == [live |-> FALSE, slice |-> EmptySlice]

CopyOf(s, len) == [cells |-> [i \in 1..len |-> s.cells[i]], cap |-> len, len |-> len]

Copied(s) == [live |-> FALSE, slice |-> CopyOf(s, s.len)]
Shared(s) == [live |-> TRUE, slice |-> [cells |-> EmptySlice.cells, cap |-> 0, len |-> s.len]]

Seen(view, s) ==
    IF view.live THEN [cells |-> s.cells, cap |-> s.cap, len |-> view.slice.len] ELSE view.slice

\* The writers move to a new array: a live view stays with the old one.
Detached(view, s) ==
    IF view.live THEN [live |-> FALSE, slice |-> CopyOf(s, view.slice.len)] ELSE view
=============================================================================
