------------------------------ MODULE Selection ------------------------------
(***************************************************************************)
(* The loops that walk a list of candidates and pass over the ones that    *)
(* are excluded, disabled, locked or benched.                              *)
(***************************************************************************)
EXTENDS Integers, Sequences

\* The members of s that are in A, in the order of s: SelectSeq over a set, as a
\* recursive function.
Keep(s, A) ==
    LET kept[n \in 0 .. Len(s)] ==
            IF n = 0 THEN <<>>
            ELSE IF s[n] \in A THEN Append(kept[n - 1], s[n]) ELSE kept[n - 1]
    IN kept[Len(s)]
==============================================================================
