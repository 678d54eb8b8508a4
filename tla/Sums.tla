-------------------------------- MODULE Sums --------------------------------
(***************************************************************************)
(* The sum of the numbers a function gives to the elements of a finite     *)
(* set: as many as there are pairs of an element and a number from 1 to    *)
(* its own.  A sum as a cardinality needs no recursion over the set, and   *)
(* the facts about finite sets apply to it (SubsequenceProofs).            *)
(***************************************************************************)
EXTENDS Naturals, FiniteSets

Units(f, S) == UNION {{k} \X (1 .. f[k]) : k \in S}

SumOver(f, S) == Cardinality(Units(f, S))
=============================================================================
