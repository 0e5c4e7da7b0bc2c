------------------------------- MODULE Filters -------------------------------
(***************************************************************************)
(* The loop by which the operator makes one list of another: it looks at each *)
(* element in turn and appends to the new list what passes a test.           *)
(***************************************************************************)
EXTENDS Naturals, Sequences

\* The elements of s that are in keep, in their order.
Among(s, keep) ==
    LET upTo[k \in 0..Len(s)] ==
            IF k = 0 THEN <<>>
            ELSE IF s[k] \in keep THEN Append(upTo[k-1], s[k]) ELSE upTo[k-1]
    IN  upTo[Len(s)]
=============================================================================
