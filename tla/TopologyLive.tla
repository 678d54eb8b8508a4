---------------------------- MODULE TopologyLive ----------------------------
(***************************************************************************)
(* Progress of the control plane once failures stop.                       *)
(*                                                                         *)
(* Fairness.  Topom.mu is a Go mutex, which hands the lock to a waiter     *)
(* that has starved for a millisecond: a handler that keeps asking for it  *)
(* gets it, however often others take it, hence strong fairness of the     *)
(* actions that start with op = Idle.  A handler that holds it goes on     *)
(* and a proxy applies the calls it received.  An executor finds the slot  *)
(* empty at last: a slot holds finitely many keys and requests for it go   *)
(* to the target.  Nothing in the code finishes a promotion that failed    *)
(* halfway; the operator who started it repeats it.                        *)
(***************************************************************************)
EXTENDS Topology

CONSTANT MaxFaults      \* bound: failures before the cluster becomes reliable

ASSUME LiveAssumption == MaxFaults \in Nat

VARIABLE faults

live == <<vars, faults>>

Steady(A) == A /\ UNCHANGED faults

Strike == faults < MaxFaults /\ Fault /\ faults' = faults + 1

ExecutorDone(s)   == ExecutorReturns(s) /\ run'[s] = "done"
RetryPromotion(g) == group[g].state # "nothing" /\ \E a \in Servers : GroupPromoteServer(g, a)

Handler == \/ SlotStoreOk \/ SlotSyncOk \/ SlotSyncFail \/ SlotRollbackDone
           \/ GroupStoreOk \/ GroupSyncOk \/ GroupSyncFail \/ GroupRollbackDone

NextLive == Strike \/ Steady(Migration \/ Promotion \/ Apply \/ SlotOps \/ PromoteOps)

Fairness ==
    /\ WF_live(Steady(Handler))
    /\ WF_live(Steady(RoundEnds))
    /\ SF_live(Steady(RunPlans))
    /\ \A p \in Proxies : WF_live(Steady(FillSlots(p)))
    /\ \A s \in Slots : /\ SF_live(Steady(SlotActionPrepareFilter(s)))
                        /\ SF_live(Steady(newSlotActionExecutor(s)))
                        /\ SF_live(Steady(SlotActionComplete(s)))
                        /\ WF_live(Steady(ExecutorReturns(s)))
                        /\ SF_live(Steady(ExecutorDone(s)))
    /\ \A g \in Groups : SF_live(Steady(RetryPromotion(g)))

(* Whatever failed, a slot that was given an action is settled again.      *)
MigrationEnds == \A s \in Slots : slots[s].state # "nothing" ~> slots[s].state = "nothing"

(* A promotion that was begun ends, although executors and promotions      *)
(* exclude each other (topom_group.go:231, topom_slots.go:379-389).        *)
PromotionEnds == \A g \in Groups : group[g].state # "nothing" ~> group[g].state = "nothing"

(* No proxy stays blocked on a slot: the lock of a barrier that failed, or *)
(* whose roll back failed, is lifted by a later call.                      *)
LocksAreReleased ==
    \A p \in Proxies, s \in Slots : table[p][s].locked ~> ~ table[p][s].locked
=============================================================================
