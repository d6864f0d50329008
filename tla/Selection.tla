----------------------------- MODULE Selection -----------------------------
(***************************************************************************)
(* The elements of a sequence that a set has, in their order: SelectSeq    *)
(* for a set in place of a test, as a function that can be unfolded.       *)
(***************************************************************************)
EXTENDS Integers, Sequences

Chosen(s, S) ==
    LET upTo[n \in 0..Len(s)] ==
          IF n = 0 THEN <<>>
          ELSE IF s[n] \in S THEN Append(upTo[n - 1], s[n])
          ELSE upTo[n - 1]
    IN upTo[Len(s)]
=============================================================================
