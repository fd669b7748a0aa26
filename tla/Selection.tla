----------------------------- MODULE Selection ------------------------------
(* Selections from a sequence.                                             *)
EXTENDS Integers, Sequences

\* The elements of a sequence that are in a set, in their order.
Kept(s, set) ==
    LET kept[i \in 0 .. Len(s)] ==
            IF i = 0 THEN <<>>
            ELSE IF s[i] \in set THEN Append(kept[i - 1], s[i]) ELSE kept[i - 1]
    IN kept[Len(s)]
=============================================================================
