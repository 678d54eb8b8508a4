--------------------------- MODULE MCTopologyLive ---------------------------
(* An instance of TopologyLive for TLC.                                    *)
EXTENDS TopologyLive

CONSTANTS s1, g1, g2, a1, a2, b1, p1

Made(master, replicas) == [NoServer EXCEPT !.exists = TRUE, !.master = master, !.replicas = replicas]

InitLive ==
    /\ group = [g \in Groups |-> IF g = g1 THEN Made(a1, {a2}) ELSE Made(b1, {})]
    /\ slots = [s \in Slots |-> [Offline EXCEPT !.group = g1]]
    /\ AtRest /\ Quiet
    /\ faults = 0

SpecLive == InitLive /\ [][NextLive]_live /\ Fairness
=============================================================================
