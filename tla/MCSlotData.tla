----------------------------- MODULE MCSlotData -----------------------------
(* Instances of SlotData for TLC.                                          *)
EXTENDS SlotDataInv, TLC

CONSTANTS s1, k1, k2, n1, n2, p1, p2

(* One slot; its keys share a tag.                                         *)
OneSlot == [k \in Keys |-> s1]
OneTag  == [k \in Keys |-> "tag"]

(* Every key has a tag of its own.                                         *)
OwnTag  == [k \in Keys |-> k]

(* Nothing is claimed of what follows a late restore that overran a write. *)
Unspoilt == ~ overrun

Alike == Permutations(Proxies)
=============================================================================
