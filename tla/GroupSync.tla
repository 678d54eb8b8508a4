------------------------------ MODULE GroupSync ------------------------------
(***************************************************************************)
(* Replicas follow the masters of their groups: the sync actions of the    *)
(* dashboard (pkg/topom/topom_group.go:456-608, topom_action.go:105-118)   *)
(* against promotions by an operator, failovers of the sentinels, which    *)
(* trySwitchGroupMaster takes over, and a dashboard that restarts.         *)
(*                                                                         *)
(* A promotion is its beginning, the exchange of the servers and its end;  *)
(* Topology has the barrier of the proxies in between.                     *)
(***************************************************************************)
EXTENDS Naturals, Sequences, FiniteSets

CONSTANTS
    GsGroups,
    GsServers,      \* the servers of every group, in their first order
    GsNone,         \* NO:ONE
    MaxGsChanges,   \* bound: promotions and failovers
    MaxGsSyncs      \* bound: sync actions and faults

GsAll == UNION {{GsServers[g][i] : i \in DOMAIN GsServers[g]} : g \in GsGroups}

ASSUME GroupSyncAssumption ==
    /\ GsServers \in [GsGroups -> Seq(GsAll)]
    /\ \A g \in GsGroups : Len(GsServers[g]) >= 1
    /\ \A g, h \in GsGroups : \A i \in DOMAIN GsServers[g], j \in DOMAIN GsServers[h] :
          GsServers[g][i] = GsServers[h][j] => g = h /\ i = j
    /\ GsNone \notin GsAll
    /\ MaxGsChanges \in Nat /\ MaxGsSyncs \in Nat

VARIABLES
    gsOrder,        \* Group.Servers, the master first
    gsAction,       \* GroupServer.Action: state and index
    gsPromoting,    \* Group.Promoting: state and index
    gsRun,          \* ProcessSyncAction: where it is, its server and what newSyncActionExecutor read
    gsMasterOf,     \* whom a server replicates, as it was told last
    gsElected,      \* the master the sentinels have elected, GsNone once the dashboard knows
    gsChanges, gsSyncs,
    gsStray         \* servers that were told by an executor, or not told, in the middle of a change

gsVars == <<gsOrder, gsAction, gsPromoting, gsRun, gsMasterOf, gsElected, gsChanges, gsSyncs, gsStray>>

NoAction == [state |-> "nothing", index |-> 0]
NotPromoting == [state |-> "nothing", index |-> 0]
NoSync   == [at |-> "idle", addr |-> GsNone, master |-> GsNone, failed |-> FALSE]

GsInit ==
    /\ gsOrder = GsServers
    /\ gsAction = [a \in GsAll |-> NoAction]
    /\ gsPromoting = [g \in GsGroups |-> NotPromoting]
    /\ gsRun = NoSync
    /\ gsMasterOf \in {[a \in GsAll |-> GsNone],
                       [a \in GsAll |-> LET g == CHOOSE h \in GsGroups : \E i \in DOMAIN GsServers[h] : GsServers[h][i] = a
                                       IN  IF a = Head(GsServers[g]) THEN GsNone ELSE Head(GsServers[g])]}
    /\ gsElected = [g \in GsGroups |-> GsNone]
    /\ gsChanges = 0 /\ gsSyncs = 0
    /\ gsStray = {}

getGroupByServer(a) == CHOOSE g \in GsGroups : \E i \in DOMAIN gsOrder[g] : gsOrder[g][i] = a
Members(g)  == {gsOrder[g][i] : i \in DOMAIN gsOrder[g]}
Master(g)   == Head(gsOrder[g])
GroupOf(a)  == getGroupByServer(a)
Promoting(a) == gsPromoting[GroupOf(a)] # NotPromoting
WithState(state) == {a \in GsAll : gsAction[a].state = state}

(* Whom an executor tells a server to replicate.                           *)
Target(a) == IF a = Master(GroupOf(a)) THEN GsNone ELSE Master(GroupOf(a))

-----------------------------------------------------------------------------
(* Calls of an operator.                                                   *)

maxSyncActionIndex ==
    IF WithState("pending") = {} THEN 0
    ELSE CHOOSE n \in {gsAction[a].index : a \in WithState("pending")} :
            \A a \in WithState("pending") : gsAction[a].index <= n

SyncCreateAction(a) ==
    /\ gsSyncs < MaxGsSyncs /\ gsSyncs' = gsSyncs + 1
    /\ ~ Promoting(a)
    /\ gsAction[a].state # "pending"
    /\ gsAction' = [gsAction EXCEPT ![a] = [state |-> "pending", index |-> maxSyncActionIndex + 1]]
    /\ UNCHANGED <<gsOrder, gsPromoting, gsRun, gsMasterOf, gsElected, gsChanges, gsStray>>

SyncRemoveAction(a) ==
    /\ ~ Promoting(a)
    /\ gsAction[a].state # "nothing"
    /\ gsAction' = [gsAction EXCEPT ![a] = NoAction]
    /\ UNCHANGED <<gsOrder, gsPromoting, gsRun, gsMasterOf, gsElected, gsChanges, gsSyncs, gsStray>>

-----------------------------------------------------------------------------
(* ProcessSyncAction, in a loop of the dashboard.                          *)

(* The pending action with the least index.  While its group is promoting  *)
(* nothing is done, also for other groups.                                 *)
SyncActionPrepare ==
    /\ gsRun.at = "idle"
    /\ \E a \in WithState("pending") :
          /\ \A b \in WithState("pending") : gsAction[a].index <= gsAction[b].index
          /\ ~ Promoting(a)
          /\ gsAction' = [gsAction EXCEPT ![a] = [state |-> "syncing", index |-> 0]]
          /\ gsRun' = [NoSync EXCEPT !.at = "prepared", !.addr = a]
    /\ UNCHANGED <<gsOrder, gsPromoting, gsMasterOf, gsElected, gsChanges, gsSyncs, gsStray>>

(* Mutant: the loop waits for an action that is not syncing any more.      *)
newSyncActionExecutor_Waits ==
    /\ gsRun.at = "prepared"
    /\ gsAction[gsRun.addr].state = "syncing"
    /\ gsRun' = [gsRun EXCEPT !.at = "exec", !.master = Target(gsRun.addr)]
    /\ UNCHANGED <<gsOrder, gsAction, gsPromoting, gsMasterOf, gsElected, gsChanges, gsSyncs, gsStray>>

newSyncActionExecutor ==
    LET a == gsRun.addr
    IN  /\ gsRun.at = "prepared"
        /\ \/ /\ gsAction[a].state = "syncing"
              /\ gsRun' = [gsRun EXCEPT !.at = "exec", !.master = Target(a)]
           \/ /\ gsAction[a].state # "syncing"
              /\ gsRun' = NoSync
        /\ UNCHANGED <<gsOrder, gsAction, gsPromoting, gsMasterOf, gsElected, gsChanges, gsSyncs, gsStray>>

(* The executor, without the lock.  Its master may be one of the past.     *)
SetMaster ==
    LET a == gsRun.addr
        now == gsElected[GroupOf(a)] = GsNone /\ gsRun.master = Target(a)
    IN  /\ gsRun.at = "exec"
        /\ \/ /\ gsMasterOf' = [gsMasterOf EXCEPT ![a] = gsRun.master]
              /\ gsRun' = [gsRun EXCEPT !.at = "complete"]
              /\ gsStray' = IF now THEN gsStray \ {a} ELSE gsStray \cup {a}
              /\ UNCHANGED gsSyncs
           \/ /\ gsSyncs < MaxGsSyncs /\ gsSyncs' = gsSyncs + 1
              /\ gsRun' = [gsRun EXCEPT !.at = "complete", !.failed = TRUE]
              /\ UNCHANGED <<gsMasterOf, gsStray>>
        /\ UNCHANGED <<gsOrder, gsAction, gsPromoting, gsElected, gsChanges>>

SyncActionComplete ==
    LET a == gsRun.addr
    IN  /\ gsRun.at = "complete"
        /\ gsRun' = NoSync
        /\ gsAction' = IF ~ Promoting(a) /\ gsAction[a].state = "syncing"
                       THEN [gsAction EXCEPT ![a].state = IF gsRun.failed THEN "synced_failed" ELSE "synced"]
                       ELSE gsAction
        /\ UNCHANGED <<gsOrder, gsPromoting, gsMasterOf, gsElected, gsChanges, gsSyncs, gsStray>>

(* The dashboard restarts: an action that was syncing stays so.            *)
GsRestart ==
    /\ gsRun # NoSync
    /\ gsSyncs < MaxGsSyncs /\ gsSyncs' = gsSyncs + 1
    /\ gsRun' = NoSync
    /\ UNCHANGED <<gsOrder, gsAction, gsPromoting, gsMasterOf, gsElected, gsChanges, gsStray>>

-----------------------------------------------------------------------------
(* GroupPromoteServer.                                                     *)

PromoteBegins(a) ==
    /\ gsChanges < MaxGsChanges /\ gsChanges' = gsChanges + 1
    /\ ~ Promoting(a)
    /\ a # Master(GroupOf(a))
    /\ \E i \in DOMAIN gsOrder[GroupOf(a)] :
          /\ gsOrder[GroupOf(a)][i] = a
          /\ gsPromoting' = [gsPromoting EXCEPT ![GroupOf(a)] = [state |-> "prepared", index |-> i]]
    /\ UNCHANGED <<gsOrder, gsAction, gsRun, gsMasterOf, gsElected, gsSyncs, gsStray>>

(* Mutant: the actions of the servers stay.                                *)
clearedActions_Kept(g) == gsAction

clearedActions(g) == [a \in GsAll |-> IF a \in Members(g) THEN NoAction ELSE gsAction[a]]

(* The server at the index comes first and the first comes last.           *)
exchanged(servers, index) ==
    [i \in DOMAIN servers |-> IF i = 1 THEN servers[index] ELSE IF i = Len(servers) THEN servers[1]
                              ELSE IF i < index THEN servers[i] ELSE servers[i + 1]]

(* The server at the index is exchanged for the first, and the actions of  *)
(* all are reset; SLAVEOF NO ONE may fail, which is logged.                *)
PromoteExchanges(g) ==
    LET new == gsOrder[g][gsPromoting[g].index]
    IN  /\ gsPromoting[g].state = "prepared"
        /\ gsPromoting' = [gsPromoting EXCEPT ![g] = [state |-> "finished", index |-> 0]]
        /\ gsOrder' = [gsOrder EXCEPT ![g] = exchanged(@, gsPromoting[g].index)]
        /\ gsAction' = clearedActions(g)
        /\ \/ gsMasterOf' = [gsMasterOf EXCEPT ![new] = GsNone] /\ gsStray' = gsStray \ {new}
           \/ gsStray' = gsStray \cup {new} /\ UNCHANGED gsMasterOf
        /\ UNCHANGED <<gsRun, gsElected, gsChanges, gsSyncs>>

PromoteEnds(g) ==
    /\ gsPromoting[g].state = "finished"
    /\ gsPromoting' = [gsPromoting EXCEPT ![g] = NotPromoting]
    /\ UNCHANGED <<gsOrder, gsAction, gsRun, gsMasterOf, gsElected, gsChanges, gsSyncs, gsStray>>

-----------------------------------------------------------------------------
(* Sentinels elect a replica of a server of the group and tell the others, *)
(* also while a promotion is under way: it only logs that the group could  *)
(* not be taken from them; ...                                             *)
Failover(g, a) ==
    /\ gsChanges < MaxGsChanges /\ gsChanges' = gsChanges + 1
    /\ gsElected[g] = GsNone
    /\ a \in Members(g) /\ gsMasterOf[a] \in Members(g)
    /\ gsElected' = [gsElected EXCEPT ![g] = a]
    /\ gsMasterOf' = [x \in GsAll |-> IF x = a THEN GsNone ELSE IF x \in Members(g) THEN a ELSE gsMasterOf[x]]
    /\ UNCHANGED <<gsOrder, gsAction, gsPromoting, gsRun, gsSyncs, gsStray>>

(* ... and trySwitchGroupMaster exchanges the first server, whatever else  *)
(* is under way in the group.                                              *)
trySwitchGroupMaster(g) ==
    LET a == gsElected[g]
    IN  /\ a # GsNone
        /\ gsElected' = [gsElected EXCEPT ![g] = GsNone]
        /\ gsOrder' = [gsOrder EXCEPT ![g] =
                          [i \in DOMAIN @ |-> IF i = 1 THEN a ELSE IF @[i] = a THEN @[1] ELSE @[i]]]
        /\ UNCHANGED <<gsAction, gsPromoting, gsRun, gsMasterOf, gsChanges, gsSyncs, gsStray>>

-----------------------------------------------------------------------------
ProcessSyncAction == SyncActionPrepare \/ newSyncActionExecutor \/ SetMaster \/ SyncActionComplete

GsNext ==
    \/ \E a \in GsAll : SyncCreateAction(a) \/ SyncRemoveAction(a) \/ PromoteBegins(a)
    \/ ProcessSyncAction \/ GsRestart
    \/ \E g \in GsGroups : \/ PromoteExchanges(g) \/ PromoteEnds(g) \/ trySwitchGroupMaster(g)
                           \/ \E a \in GsAll : Failover(g, a)

GsSpec == GsInit /\ [][GsNext]_gsVars

-----------------------------------------------------------------------------
(* Properties.                                                             *)

(* Types of the variables; actions that wait have different indexes, so    *)
(* that they are done in the order they were made (context.go:208-234).    *)
GsTypeOK ==
    /\ \A g \in GsGroups : Len(gsOrder[g]) = Len(GsServers[g]) /\ Members(g) = {GsServers[g][i] : i \in DOMAIN GsServers[g]}
    /\ \A a \in GsAll : gsAction[a].state \in {"nothing", "pending", "syncing", "synced", "synced_failed"}
    /\ \A a, b \in WithState("pending") : a # b => gsAction[a].index # gsAction[b].index

(* A server that is shown as synced replicates the master its group has    *)
(* now, through promotions, failovers and restarts, unless an executor     *)
(* that read the master before a change told it after                      *)
(* (topom_group.go:318-321, 541-608).                                      *)
SyncedReplicates ==
    \A a \in WithState("synced") \ gsStray :
        gsElected[GroupOf(a)] = GsNone => gsMasterOf[a] = Target(a)

(* The first server of a group is no replica, unless an executor of before *)
(* told it to be one or the SLAVEOF NO ONE of its promotion failed         *)
(* (topom_group.go:325-335).                                               *)
MastersReplicateNone ==
    \A g \in GsGroups : Master(g) \notin gsStray /\ gsElected[g] = GsNone => gsMasterOf[Master(g)] = GsNone

(* A sync action that waits is taken up, removed or reset, although others *)
(* are created and a promotion anywhere holds up all of them               *)
(* (topom_action.go:105-118, topom_group.go:508-539).                      *)
SyncsAreTaken == []<>(WithState("pending") = {})

(* Servers replicate what their state in the group says, and actions that  *)
(* wait have an order.                                                     *)
ReplicasFollow == GsTypeOK /\ SyncedReplicates /\ MastersReplicateNone
=============================================================================
