---------------------------- MODULE Subsequences ----------------------------
(***************************************************************************)
(* The elements of a list that are in a set, in their order: what is left  *)
(* when code walks a list and drops some of it.  SelectSeq with a set for  *)
(* its test and a recursive function for its definition, so that it can be *)
(* proved about (SubsequenceProofs).                                       *)
(***************************************************************************)
EXTENDS Integers, Sequences

OnlyIn(s, S) ==
    LET F[i \in 0 .. Len(s)] ==
            IF i = 0 THEN << >>
            ELSE IF s[i] \in S THEN Append(F[i - 1], s[i]) ELSE F[i - 1]
    IN  F[Len(s)]
=============================================================================
