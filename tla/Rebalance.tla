------------------------------ MODULE Rebalance ------------------------------
(***************************************************************************)
(* SlotsRebalance (pkg/topom/topom_slots.go): a plan that levels the       *)
(* groups that have servers, stored slot by slot as pending actions, which *)
(* are then carried out.  The store may fail half way; the call is made    *)
(* again over what it left.                                                *)
(***************************************************************************)
EXTENDS Integers, FiniteSets, Sequences, Sums

CONSTANTS
    RbSlots,        \* ids of the slots, MaxSlotNum of them
    RbGroups,       \* ids of the groups that have servers
    RbBare,         \* ids of groups that have none
    MaxRbCalls      \* bound: calls

ASSUME RebalanceAssumption ==
    /\ RbSlots \subseteq Nat /\ RbGroups \subseteq Nat \ {0} /\ RbBare \subseteq Nat \ {0}
    /\ IsFiniteSet(RbSlots) /\ IsFiniteSet(RbGroups)
    /\ RbGroups # {} /\ RbGroups \cap RbBare = {}
    /\ MaxRbCalls \in Nat

VARIABLES
    rbSlot,         \* the group of every slot, and the target of its action; 0 for none
    rbPlan,         \* the target of every slot of the last plan
    rbTodo,         \* slots of it that are not stored
    rbLevel,        \* a whole plan has been stored, and no slot has moved since
    rbCalls

rbVars == <<rbSlot, rbPlan, rbTodo, rbLevel, rbCalls>>

RbPlace == [group: {0} \cup RbGroups \cup RbBare, target: {0} \cup RbGroups]

RbInit ==
    /\ rbSlot \in [RbSlots -> {p \in RbPlace : p.target = 0 \/ p.target # p.group}]
    /\ rbPlan = << >> /\ rbTodo = {}
    /\ rbLevel = FALSE
    /\ rbCalls = 0

-----------------------------------------------------------------------------
groupIds == RbGroups

lowerBound == Cardinality(RbSlots) \div Cardinality(groupIds)
upperBound == (Cardinality(RbSlots) + Cardinality(groupIds) - 1) \div Cardinality(groupIds)

(* Slots that move to a group, slots that are there, and offline slots.    *)
Coming(g) == {s \in RbSlots : rbSlot[s].target = g}

There(g) == {s \in RbSlots : rbSlot[s].target = 0 /\ rbSlot[s].group = g}

Offline == There(0)

(* pendings: what is there beyond lowerBound, counted in the order of ids. *)
pendings(g) ==
    {s \in There(g) : Cardinality(Coming(g)) + Cardinality({t \in There(g) : t <= s}) > lowerBound}

groupSize(g, moveout) == Cardinality(Coming(g)) + Cardinality(There(g)) - moveout[g]

(* The order of the tree.                                                  *)
Smaller(g, h, moveout) ==
    \/ groupSize(g, moveout) < groupSize(h, moveout)
    \/ groupSize(g, moveout) = groupSize(h, moveout) /\ g < h

Left(tree, moveout)  == CHOOSE g \in tree : \A h \in tree \ {g} : Smaller(g, h, moveout)
Right(tree, moveout) == CHOOSE g \in tree : \A h \in tree \ {g} : Smaller(h, g, moveout)

(* Every offline slot goes to the group that is the smallest by then.      *)
dockSlot(moveout) == [moveout EXCEPT ![Left(groupIds, moveout)] = @ - 1]

Docked ==
    LET F[n \in 0 .. Cardinality(Offline)] == IF n = 0 THEN [g \in groupIds |-> 0] ELSE dockSlot(F[n - 1])
    IN  F[Cardinality(Offline)]

(* Mutant: groups that differ by two are level.                            *)
IsLevel_ByTwo(from, dest, moveout) ==
    \/ groupSize(from, moveout) <= lowerBound
    \/ groupSize(dest, moveout) >= upperBound
    \/ groupSize(from, moveout) - groupSize(dest, moveout) <= 2

IsLevel(from, dest, moveout) ==
    \/ groupSize(from, moveout) <= lowerBound
    \/ groupSize(dest, moveout) >= upperBound
    \/ groupSize(from, moveout) - groupSize(dest, moveout) <= 1

(* A round of the loop.  One slot goes from the largest to the smallest    *)
(* group of the tree; a group that has nothing more to give leaves the     *)
(* tree.  A loop that has ended stays as it is.                            *)
exchange(t) ==
    LET from == Right(t.tree, t.moveout)
        dest == Left(t.tree \ {from}, t.moveout)
    IN  IF Cardinality(t.tree) < 2 THEN t
        ELSE IF Cardinality(pendings(from)) = t.moveout[from]
        THEN [tree |-> t.tree \ {from}, moveout |-> t.moveout]
        ELSE IF IsLevel(from, dest, t.moveout) THEN t
        ELSE [tree |-> t.tree, moveout |-> [t.moveout EXCEPT ![from] = @ + 1, ![dest] = @ - 1]]

(* Rounds after which the loop has ended, whatever the slots.              *)
MaxRounds == 2 * Cardinality(RbSlots) + Cardinality(groupIds)

Leveled ==
    LET F[n \in 0 .. MaxRounds] ==
            IF n = 0 THEN [tree |-> groupIds, moveout |-> Docked] ELSE exchange(F[n - 1])
    IN  F[MaxRounds].moveout

(* Groups that have to give give their last pending slots; the slots, in   *)
(* their order, go to the groups that take, in theirs.                     *)
Given(g, moveout) ==
    {s \in pendings(g) : Cardinality({t \in pendings(g) : t >= s}) <= moveout[g]}

Taken(g, moveout) == IF moveout[g] < 0 THEN 0 - moveout[g] ELSE 0

docking(moveout) == Offline \cup UNION {Given(g, moveout) : g \in groupIds}

Place(s, S) == Cardinality({t \in S : t <= s})

UpTo(g, moveout) == SumOver([h \in groupIds |-> Taken(h, moveout)], {h \in groupIds : h <= g})

PlanFor(moveout) ==
    [s \in docking(moveout) |->
        CHOOSE g \in groupIds : /\ Place(s, docking(moveout)) <= UpTo(g, moveout)
                                /\ Place(s, docking(moveout)) > UpTo(g, moveout) - Taken(g, moveout)]

plans == PlanFor(Leveled)

First(S) == CHOOSE s \in S : \A t \in S : s <= t

-----------------------------------------------------------------------------
SlotsRebalance ==
    /\ rbTodo = {}
    /\ rbCalls < MaxRbCalls /\ rbCalls' = rbCalls + 1
    /\ rbPlan' = plans /\ rbTodo' = DOMAIN plans
    /\ rbLevel' = (rbLevel /\ DOMAIN plans = {})
    /\ UNCHANGED rbSlot

(* The slots are stored in their order.                                    *)
StoreSlot ==
    /\ rbTodo # {}
    /\ LET s == First(rbTodo)
       IN  /\ rbSlot' = [rbSlot EXCEPT ![s].target = rbPlan[s]]
           /\ rbTodo' = rbTodo \ {s}
    /\ rbLevel' = (rbTodo' = {})
    /\ UNCHANGED <<rbPlan, rbCalls>>

(* A write fails, and may have been made; or the dashboard goes down.      *)
StoreSlotFails ==
    /\ rbTodo # {}
    /\ LET s == First(rbTodo)
       IN  rbSlot' \in {rbSlot, [rbSlot EXCEPT ![s].target = rbPlan[s]]}
    /\ rbTodo' = {}
    /\ UNCHANGED <<rbPlan, rbLevel, rbCalls>>

(* The action of a slot ends (SlotActionComplete).                         *)
SlotMoved(s) ==
    /\ rbTodo = {}
    /\ rbSlot[s].target # 0
    /\ rbSlot' = [rbSlot EXCEPT ![s] = [group |-> rbSlot[s].target, target |-> 0]]
    /\ rbLevel' = FALSE
    /\ UNCHANGED <<rbPlan, rbTodo, rbCalls>>

RbNext ==
    \/ SlotsRebalance \/ StoreSlot \/ StoreSlotFails
    \/ \E s \in RbSlots : SlotMoved(s)

RbSpec == RbInit /\ [][RbNext]_rbVars

-----------------------------------------------------------------------------
(* Properties.                                                             *)

(* Types of the variables; slots are sent to groups that have servers.     *)
RbTypeOK ==
    /\ rbSlot \in [RbSlots -> RbPlace]
    /\ DOMAIN rbPlan \subseteq RbSlots /\ \A s \in DOMAIN rbPlan : rbPlan[s] \in RbGroups
    /\ rbTodo \subseteq DOMAIN rbPlan

(* Where a slot will be when its action and the plan are carried out.      *)
Goal(s) ==
    CASE s \in rbTodo          -> rbPlan[s]
      [] rbSlot[s].target # 0  -> rbSlot[s].target
      [] OTHER                 -> rbSlot[s].group

Share(g) == Cardinality({s \in RbSlots : Goal(s) = g})

(* A plan moves no slot that is on its way or is where it should be, and   *)
(* leaves no slot offline, also when it is made over what an earlier call  *)
(* left half done (topom_slots.go:577-630).                                *)
Sound ==
    /\ \A s \in rbTodo : rbSlot[s].target = 0 /\ rbSlot[s].group # rbPlan[s]
    /\ \A s \in RbSlots : Goal(s) # 0

PlansAreSound == [][rbCalls' # rbCalls => Sound']_rbVars

(* Once a plan is carried out no group that has servers has two slots more *)
(* than another, unless it has no more than the lower bound or none of its *)
(* slots may be moved: greedy moves end in the best distribution there is  *)
(* (topom_slots.go:634-663).                                               *)
Level ==
    \A g, h \in RbGroups :
        Share(g) > Share(h) + 1 => Share(g) <= lowerBound \/ pendings(g) \subseteq rbTodo

PlansAreLevel == [][rbCalls' # rbCalls => Level']_rbVars

(* A plan that was stored is not revised: called again before a slot has   *)
(* moved, SlotsRebalance plans nothing (topom_slots.go:577-598).           *)
RebalancedStays == [][rbLevel /\ rbCalls' # rbCalls => DOMAIN rbPlan' = {}]_rbVars

(* Plans are sound, level the groups that have servers and are final.      *)
PlansAreGood == []RbTypeOK /\ PlansAreSound /\ PlansAreLevel /\ RebalancedStays
=============================================================================
