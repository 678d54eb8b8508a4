----------------------------- MODULE MCTopology -----------------------------
(* Instances of Topology for TLC.                                          *)
EXTENDS TopologyInv, TLC

CONSTANTS s1, s2, g1, g2, g3, a1, a2, b1, c1, p1, p2

(* A group as it is created, with its servers.                             *)
Made(master, replicas) == [NoServer EXCEPT !.exists = TRUE, !.master = master, !.replicas = replicas]

(* Two groups, the first with a replica; the slot is in the first group.   *)
InitPromote ==
    /\ group = [g \in Groups |-> IF g = g1 THEN Made(a1, {a2}) ELSE Made(b1, {})]
    /\ slots = [s \in Slots |-> [Offline EXCEPT !.group = g1]]
    /\ AtRest /\ Quiet

(* The slot is migrated to and fro while the server of its group is        *)
(* promoted and the proxies come and go.                                   *)
NextPromote == Migration \/ Promotion \/ Apply \/ Fault \/ SlotOps \/ PromoteOps \/ ProxyOps
SpecPromote == InitPromote /\ [][NextPromote]_vars

Alike == Permutations(Proxies)

(* Three groups, the first with a replica; one slot is in the first group, *)
(* one is offline, so that both can be migrated at the same time.          *)
InitParallel ==
    /\ group = [g \in Groups |-> CASE g = g1 -> Made(a1, {a2})
                                   [] g = g2 -> Made(b1, {})
                                   [] g = g3 -> Made(c1, {})]
    /\ slots = [s \in Slots |-> IF s = s1 THEN [Offline EXCEPT !.group = g1] ELSE Offline]
    /\ AtRest /\ Quiet
NextParallel ==
    \/ Migration \/ Promotion \/ Apply
    \/ SlotOps \/ PromoteOps \/ SetSlotActionDisabled
    \/ SlotStoreFail \/ GroupStoreFail \/ NetFault
SpecParallel == InitParallel /\ [][NextParallel]_vars

(* Two groups of one server.  Operators reassign slots that are in use,    *)
(* resync and edit the groups while slots are migrated.                    *)
InitEdit ==
    /\ group = [g \in Groups |-> IF g = g1 THEN Made(a1, {}) ELSE Made(b1, {})]
    /\ slots = [s \in Slots |-> [Offline EXCEPT !.group = g1]]
    /\ AtRest /\ Quiet
NextEdit ==
    \/ Migration \/ Apply \/ Assignment \/ StoreFault \/ NetFault
    \/ SlotOps \/ AssignOps \/ GroupOps
SpecEdit == InitEdit /\ [][NextEdit]_vars
=============================================================================
