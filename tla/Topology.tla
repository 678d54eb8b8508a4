------------------------------ MODULE Topology ------------------------------
(***************************************************************************)
(* The control plane of Codis: the dashboard (pkg/topom), the store that   *)
(* holds the slot mappings and the groups, and the slot table of every     *)
(* proxy (pkg/proxy/router.go).  The dashboard moves a slot from a group   *)
(* to another one through the states of models.SlotMapping.Action, and     *)
(* promotes a server to master of its group through the states of          *)
(* models.Group.Promoting.  Each of these handlers runs with Topom.mu      *)
(* held, and each alternates writes of the store with FillSlots calls to   *)
(* every proxy; `op' is the handler that is running and where it stands.   *)
(*                                                                         *)
(* What can go wrong between two of its steps is part of the model: a      *)
(* store write fails, or is made and reported as failed; a FillSlots call  *)
(* is lost, or times out and is applied later (rpc.client has a timeout    *)
(* of a minute while Slot.blockAndWait may wait for longer); a proxy       *)
(* restarts with an empty table; the dashboard exits and a new one takes   *)
(* over from what the store holds.                                         *)
(*                                                                         *)
(* The cache of the dashboard is not a variable: newContext reloads every  *)
(* entry that a handler made dirty, so that a handler starts from the      *)
(* store, and its working copy is op.m or op.g.                            *)
(***************************************************************************)
EXTENDS Naturals, Sequences, FiniteSets

CONSTANTS
    Slots,      \* the slots (0 .. MaxSlotNum-1 in the code)
    Groups,     \* the group ids
    Servers,    \* the addresses of the codis-servers
    Proxies,    \* the proxies
    NoGroup,    \* group id 0: an offline slot, or no target
    NoAddr,     \* the empty address
    Parallel,   \* MigrationParallelSlots
    Reassign,   \* may an operator reassign slots that are in use
    MaxLate     \* bound: FillSlots calls outstanding at a proxy after a timeout

ASSUME TopologyAssumption ==
    /\ NoGroup \notin Groups
    /\ NoAddr \notin Servers
    /\ Parallel \in Nat \ {0}
    /\ Reassign \in BOOLEAN
    /\ MaxLate \in Nat

VARIABLES
    slots,      \* store: models.SlotMapping of every slot, Action.Index aside
    order,      \* store: the slots that have an action, by Action.Index
    group,      \* store: models.Group of every group id
    proxy,      \* store: the registered proxies
    op,         \* the handler that holds Topom.mu
    disabled,   \* Topom.action.disabled
    round,      \* ProcessSlotAction: "plan" or "run"
    plans,      \* ProcessSlotAction: the slots of this round
    run,        \* processSlotAction of every slot of the round
    table,      \* the slot table of every proxy
    queue,      \* FillSlots calls a proxy has not applied yet, in order
    reply       \* what the dashboard knows of its FillSlots call to a proxy

storeVars == <<slots, order, group, proxy>>
taskVars  == <<disabled, round, plans, run>>
proxyVars == <<table, queue, reply>>
vars      == <<storeVars, op, taskVars, proxyVars>>

ActionStates  == {"nothing", "pending", "preparing", "prepared", "migrating", "finished"}
PromoteStates == {"nothing", "preparing", "prepared", "finished"}
Addrs         == Servers \cup {NoAddr}

(* models.SlotMapping; the position in `order' stands for Action.Index.    *)
Mapping == [group: Groups \cup {NoGroup}, state: ActionStates, target: Groups \cup {NoGroup}]

(* models.Group: servers[0] is the master, the others are the replicas;    *)
(* `cand' is the server that Promoting.Index points at.                    *)
Group == [exists: BOOLEAN, master: Addrs, replicas: SUBSET Servers,
          state: PromoteStates, cand: Addrs, oos: BOOLEAN]

(* models.Slot, as FillSlots sends it: BackendAddr, MigrateFrom, Locked.   *)
Entry == [backend: Addrs, from: Addrs, locked: BOOLEAN]
Fills == UNION {[S -> Entry] : S \in SUBSET Slots}

Offline  == [group |-> NoGroup, state |-> "nothing", target |-> NoGroup]
NotReady == [backend |-> NoAddr, from |-> NoAddr, locked |-> FALSE]
NoServer == [exists |-> FALSE, master |-> NoAddr, replicas |-> {},
             state |-> "nothing", cand |-> NoAddr, oos |-> FALSE]
Idle     == [pc |-> "idle"]

-----------------------------------------------------------------------------
(* The context of a handler (pkg/topom/context.go), over the groups `grp'  *)
(* it sees.                                                                *)

getGroupMaster(grp, g) == IF g \in Groups THEN grp[g].master ELSE NoAddr

isGroupLocked(grp, g) == g \in Groups /\ grp[g].state = "prepared"

isGroupPromoting(g) == g \in Groups /\ group[g].state # "nothing"

(* Mutant: the targets of actions are forgotten.                           *)
isGroupInUse_TargetIgnored(g) == \E s \in Slots : slots[s].group = g

isGroupInUse(g) == \E s \in Slots : g \in {slots[s].group, slots[s].target}

getSlotMappingsByGroupId(g) == {s \in Slots : g \in {slots[s].group, slots[s].target}}

(* Mutant: the lock of the source group is forgotten.                      *)
isSlotLocked_SourceIgnored(m, grp) ==
    \/ m.state \in {"nothing", "pending", "preparing"} /\ isGroupLocked(grp, m.group)
    \/ m.state = "prepared"
    \/ m.state \in {"migrating", "finished"} /\ isGroupLocked(grp, m.target)

(* Mutant: a promotion holds its slots until it is over.                   *)
isSlotLocked_UntilOver(m, grp) ==
    \/ m.state = "prepared"
    \/ \E g \in Groups \cap {m.group, m.target} : grp[g].state \in {"prepared", "finished"}

isSlotLocked(m, grp) ==
    \/ m.state \in {"nothing", "pending", "preparing"} /\ isGroupLocked(grp, m.group)
    \/ m.state = "prepared"
    \/ m.state = "migrating" /\ (isGroupLocked(grp, m.group) \/ isGroupLocked(grp, m.target))
    \/ m.state = "finished" /\ isGroupLocked(grp, m.target)

toSlot(m, grp) ==
    [backend |-> IF m.state \in {"nothing", "pending", "preparing"}
                 THEN getGroupMaster(grp, m.group) ELSE getGroupMaster(grp, m.target),
     from    |-> IF m.state \in {"prepared", "migrating"}
                 THEN getGroupMaster(grp, m.group) ELSE NoAddr,
     locked  |-> isSlotLocked(m, grp)]

(* resyncSlotMappings: one FillSlots call to each proxy of `ps', in        *)
(* parallel.  No call is made for an empty list of slots.                  *)
Send(ps, fill) ==
    LET called == IF DOMAIN fill = {} THEN {} ELSE ps
    IN  /\ queue' = [p \in Proxies |-> IF p \in called THEN Append(queue[p], fill) ELSE queue[p]]
        /\ reply' = [p \in Proxies |-> IF p \in called THEN "wait" ELSE "ok"]
        /\ UNCHANGED table

(* The handler returns and releases Topom.mu.                              *)
Return ==
    /\ op' = Idle
    /\ reply' = [p \in Proxies |-> "ok"]
    /\ UNCHANGED <<table, queue>>

AllDone == \A p \in proxy : reply[p] # "wait"
AllOk   == \A p \in proxy : reply[p] = "ok"

(* A slot whose action ends has no Action.Index: it leaves the order.      *)
Without(s) ==
    LET at == {i \in DOMAIN order : order[i] = s}
        i  == CHOOSE j \in at : TRUE
    IN  IF at = {} THEN order ELSE SubSeq(order, 1, i - 1) \o SubSeq(order, i + 1, Len(order))

(* storeUpdateSlotMapping.                                                 *)
WriteSlot(s, m) ==
    /\ slots' = [slots EXCEPT ![s] = m]
    /\ order' = IF m.state = "nothing" THEN Without(s) ELSE order
    /\ UNCHANGED <<group, proxy>>

(* storeUpdateGroup.                                                       *)
WriteGroup(g, rec) ==
    /\ group' = [group EXCEPT ![g] = rec]
    /\ UNCHANGED <<slots, order, proxy>>

-----------------------------------------------------------------------------
(* Slot actions (topom_slots.go).                                          *)

(* SlotCreateAction; SlotCreateActionSome and SlotCreateActionRange take   *)
(* this step once for each slot they select.                               *)
SlotCreateAction(s, g) ==
    /\ op = Idle
    /\ group[g].master # NoAddr
    /\ slots[s].state = "nothing"
    /\ slots[s].group # g
    /\ slots' = [slots EXCEPT ![s].state = "pending", ![s].target = g]
    /\ order' = Append(order, s)
    /\ UNCHANGED <<group, proxy, op, taskVars, proxyVars>>

SlotRemoveAction(s) ==
    /\ op = Idle
    /\ slots[s].state = "pending"
    /\ WriteSlot(s, [Offline EXCEPT !.group = slots[s].group])
    /\ UNCHANGED <<op, taskVars, proxyVars>>

(* The groups marked by the plans of this round (ProcessSlotAction).       *)
marks == ({slots[s].group : s \in plans} \cup {slots[s].target : s \in plans}) \ {NoGroup}

(* Mutant: plans of one round may share groups.                            *)
accept_NoMarks(s) == s \notin plans

accept(s) == s \notin plans /\ {slots[s].group, slots[s].target} \cap marks = {}

(* minActionIndex: the first accepted slot of S in the order of actions.   *)
minActionIndex(S) ==
    {order[i] : i \in {i \in DOMAIN order :
        /\ order[i] \in S /\ accept(order[i])
        /\ \A j \in 1 .. (i - 1) : ~ (order[j] \in S /\ accept(order[j]))}}

(* Mutant: actions that have begun are not taken up again.                 *)
picked_PendingOnly ==
    IF disabled THEN {} ELSE minActionIndex({s \in Slots : slots[s].state = "pending"})

(* The slot SlotActionPrepareFilter works on: {} or a singleton.           *)
picked ==
    LET begun   == minActionIndex({s \in Slots : slots[s].state \notin {"nothing", "pending"}})
        pending == minActionIndex({s \in Slots : slots[s].state = "pending"})
    IN  IF begun # {} THEN begun ELSE IF disabled THEN {} ELSE pending

(* The handler enters a step: a store write, or a resync of the slot.      *)
SlotStore(s, m) ==
    /\ op' = [pc |-> "slotStore", sid |-> s, m |-> m]
    /\ UNCHANGED proxyVars

SlotSync(pc, s, m) ==
    LET fill == [t \in {s} |-> toSlot(m, group)]
    IN  /\ op' = [pc |-> pc, sid |-> s, m |-> m, fill |-> fill]
        /\ Send(proxy, fill)

(* A handler returns; an error ends the round (prepare) or the task of the *)
(* slot (complete).  All of them leave the slot cache dirty.               *)
PrepareFails ==
    /\ Return
    /\ plans' = {}
    /\ UNCHANGED <<disabled, round, run>>

CompleteReturns(s) ==
    /\ Return
    /\ run' = [run EXCEPT ![s] = "none"]
    /\ UNCHANGED <<disabled, round, plans>>

PrepareReturns(s) ==
    /\ Return
    /\ plans' = plans \cup {s}
    /\ UNCHANGED <<disabled, round, run>>

SlotFails(s, m) ==
    IF m.state \in {"preparing", "prepared", "migrating"} THEN PrepareFails ELSE CompleteReturns(s)

SlotActionPrepareFilter(s) ==
    /\ op = Idle
    /\ round = "plan"
    /\ Cardinality(plans) < Parallel
    /\ s \in picked
    /\ UNCHANGED storeVars
    /\ \/ /\ slots[s].state = "pending"
          /\ SlotStore(s, [slots[s] EXCEPT !.state = "preparing"])
          /\ UNCHANGED taskVars
       \/ /\ slots[s].state = "preparing"
          /\ SlotSync("slotSync", s, [slots[s] EXCEPT !.state = "prepared"])
          /\ UNCHANGED taskVars
       \/ /\ slots[s].state = "prepared"
          /\ SlotSync("slotSync", s, [slots[s] EXCEPT !.state = "migrating"])
          /\ UNCHANGED taskVars
       \/ /\ slots[s].state \in {"migrating", "finished"}
          /\ PrepareReturns(s)

(* SlotActionComplete, called by processSlotAction when no key is left.    *)
SlotActionComplete(s) ==
    /\ op = Idle
    /\ run[s] = "done"
    /\ UNCHANGED storeVars
    /\ \/ /\ slots[s].state = "migrating"
          /\ SlotStore(s, [slots[s] EXCEPT !.state = "finished"])
          /\ UNCHANGED taskVars
       \/ /\ slots[s].state = "finished"
          /\ SlotSync("slotSync", s, slots[s])
          /\ UNCHANGED taskVars
       \/ /\ slots[s].state \notin {"migrating", "finished"}
          /\ CompleteReturns(s)

(* The store write succeeds and the switch falls through.                  *)
SlotStoreOk ==
    /\ op.pc = "slotStore"
    /\ WriteSlot(op.sid, op.m)
    /\ \/ /\ op.m.state = "preparing"
          /\ SlotSync("slotSync", op.sid, [op.m EXCEPT !.state = "prepared"])
          /\ UNCHANGED taskVars
       \/ /\ op.m.state = "prepared"
          /\ SlotSync("slotSync", op.sid, [op.m EXCEPT !.state = "migrating"])
          /\ UNCHANGED taskVars
       \/ /\ op.m.state = "finished"
          /\ SlotSync("slotSync", op.sid, op.m)
          /\ UNCHANGED taskVars
       \/ /\ op.m.state = "migrating"
          /\ PrepareReturns(op.sid)
       \/ /\ op.m.state = "nothing"
          /\ CompleteReturns(op.sid)

SlotStoreFail ==
    /\ op.pc = "slotStore"
    /\ WriteSlot(op.sid, op.m) \/ UNCHANGED storeVars
    /\ SlotFails(op.sid, op.m)

(* Mutant: errors of proxies are ignored.                                  *)
SlotSyncOk_AnyAnswer ==
    /\ op.pc = "slotSync"
    /\ AllDone
    /\ SlotStore(op.sid, IF op.m.state = "finished"
                         THEN [Offline EXCEPT !.group = op.m.target] ELSE op.m)
    /\ UNCHANGED <<storeVars, taskVars>>

SlotSyncOk ==
    /\ op.pc = "slotSync"
    /\ AllOk
    /\ SlotStore(op.sid, IF op.m.state = "finished"
                         THEN [Offline EXCEPT !.group = op.m.target] ELSE op.m)
    /\ UNCHANGED <<storeVars, taskVars>>

SlotSyncFail ==
    /\ op.pc = "slotSync"
    /\ AllDone /\ ~ AllOk
    /\ UNCHANGED storeVars
    /\ \/ /\ op.m.state = "prepared"
          /\ SlotSync("slotRollback", op.sid, [op.m EXCEPT !.state = "preparing"])
          /\ UNCHANGED taskVars
       \/ /\ op.m.state # "prepared"
          /\ SlotFails(op.sid, op.m)

SlotRollbackDone ==
    /\ op.pc = "slotRollback"
    /\ AllDone
    /\ PrepareFails
    /\ UNCHANGED storeVars

-----------------------------------------------------------------------------
(* The migration loop (topom_action.go).                                   *)

(* The plan is full or nothing else can be picked.                         *)
RunPlans ==
    /\ op = Idle
    /\ round = "plan"
    /\ plans # {}
    /\ Cardinality(plans) >= Parallel \/ picked = {}
    /\ round' = "run"
    /\ run' = [s \in Slots |-> IF s \in plans THEN "ready" ELSE "none"]
    /\ UNCHANGED <<storeVars, op, disabled, plans, proxyVars>>

(* newSlotActionExecutor: a closure that counts as a running executor, one *)
(* that reports the end at once, or an error.  It returns nil (and the     *)
(* task retries later) when the actions are disabled or a group of the     *)
(* slot is being promoted.                                                 *)
newSlotActionExecutor(s) ==
    /\ op = Idle
    /\ run[s] = "ready"
    /\ \/ /\ slots[s].state = "migrating"
          /\ ~ disabled
          /\ ~ isGroupPromoting(slots[s].group)
          /\ ~ isGroupPromoting(slots[s].target)
          /\ run' = [run EXCEPT ![s] = "exec"]
       \/ /\ slots[s].state = "finished"
          /\ run' = [run EXCEPT ![s] = "done"]
       \/ /\ slots[s].state \notin {"migrating", "finished"}
          /\ run' = [run EXCEPT ![s] = "none"]
    /\ UNCHANGED <<storeVars, op, disabled, round, plans, proxyVars>>

(* The closure returns: keys remain, none is left, or an error.            *)
ExecutorReturns(s) ==
    /\ run[s] = "exec"
    /\ \E r \in {"ready", "done", "none"} : run' = [run EXCEPT ![s] = r]
    /\ UNCHANGED <<storeVars, op, disabled, round, plans, proxyVars>>

(* fut.Wait returns: the tasks of the round have ended.                    *)
RoundEnds ==
    /\ round = "run"
    /\ \A s \in plans : run[s] = "none"
    /\ round' = "plan"
    /\ plans' = {}
    /\ UNCHANGED <<storeVars, op, disabled, run, proxyVars>>

SetSlotActionDisabled ==
    /\ disabled' = ~ disabled
    /\ UNCHANGED <<storeVars, op, round, plans, run, proxyVars>>

-----------------------------------------------------------------------------
(* Groups and the promotion of a server (topom_group.go).                  *)

CreateGroup(g) ==
    /\ op = Idle
    /\ ~ group[g].exists
    /\ WriteGroup(g, [NoServer EXCEPT !.exists = TRUE])
    /\ UNCHANGED <<op, taskVars, proxyVars>>

RemoveGroup(g) ==
    /\ op = Idle
    /\ group[g].exists
    /\ group[g].master = NoAddr
    /\ WriteGroup(g, NoServer)
    /\ UNCHANGED <<op, taskVars, proxyVars>>

(* The servers of a group.                                                 *)
servers(g) == ({group[g].master} \cup group[g].replicas) \ {NoAddr}

GroupAddServer(g, a) ==
    /\ op = Idle
    /\ \A h \in Groups : a \notin servers(h)
    /\ group[g].exists
    /\ group[g].state = "nothing"
    /\ WriteGroup(g, IF group[g].master = NoAddr
                     THEN [group[g] EXCEPT !.master = a]
                     ELSE [group[g] EXCEPT !.replicas = @ \cup {a}])
    /\ UNCHANGED <<op, taskVars, proxyVars>>

GroupDelServer(g, a) ==
    /\ op = Idle
    /\ group[g].state = "nothing"
    /\ \/ /\ a \in group[g].replicas
          /\ WriteGroup(g, [group[g] EXCEPT !.replicas = @ \ {a}])
       \/ /\ a = group[g].master
          /\ group[g].replicas = {}
          /\ ~ isGroupInUse(g)
          /\ WriteGroup(g, [group[g] EXCEPT !.master = NoAddr, !.oos = FALSE])
    /\ UNCHANGED <<op, taskVars, proxyVars>>

GroupStore(g, rec) ==
    /\ op' = [pc |-> "groupStore", gid |-> g, g |-> rec]
    /\ UNCHANGED proxyVars

GroupSync(pc, g, rec) ==
    LET fill == [s \in getSlotMappingsByGroupId(g) |-> toSlot(slots[s], [group EXCEPT ![g] = rec])]
    IN  /\ op' = [pc |-> pc, gid |-> g, g |-> rec, fill |-> fill]
        /\ Send(proxy, fill)

(* Mutant: Promoting.Index is not that of the new master.                  *)
Promoted_NoIndex(rec) ==
    [rec EXCEPT !.master = rec.cand, !.replicas = (@ \ {rec.cand}) \cup {rec.master},
                !.state = "finished", !.cand = NoAddr]

(* The group with the promoted server in front and the old master last.    *)
Promoted(rec) ==
    [rec EXCEPT !.master = rec.cand, !.replicas = (@ \ {rec.cand}) \cup {rec.master},
                !.state = "finished", !.cand = rec.cand]

GroupPromoteServer(g, a) ==
    /\ op = Idle
    /\ \A s \in Slots : run[s] # "exec"
    /\ UNCHANGED <<storeVars, taskVars>>
    /\ \/ /\ group[g].state = "nothing"
          /\ a \in group[g].replicas
          /\ GroupStore(g, [group[g] EXCEPT !.state = "preparing", !.cand = a])
       \/ /\ group[g].state = "preparing"
          /\ a = group[g].cand
          /\ GroupSync("groupSync", g, [group[g] EXCEPT !.state = "prepared"])
       \/ /\ group[g].state = "prepared"
          /\ a = group[g].cand
          /\ GroupStore(g, Promoted(group[g]))
       \/ /\ group[g].state = "finished"
          /\ a = group[g].cand
          /\ GroupSync("groupSync", g, group[g])

GroupStoreOk ==
    /\ op.pc = "groupStore"
    /\ UNCHANGED taskVars
    /\ WriteGroup(op.gid, op.g)
    /\ \/ /\ op.g.state = "preparing"
          /\ GroupSync("groupSync", op.gid, [op.g EXCEPT !.state = "prepared"])
       \/ /\ op.g.state = "prepared"
          /\ GroupStore(op.gid, Promoted(op.g))
       \/ /\ op.g.state = "finished"
          /\ GroupSync("groupSync", op.gid, op.g)
       \/ /\ op.g.state = "nothing"
          /\ Return

GroupStoreFail ==
    /\ op.pc = "groupStore"
    /\ WriteGroup(op.gid, op.g) \/ UNCHANGED storeVars
    /\ Return
    /\ UNCHANGED taskVars

(* Mutant: errors of proxies are ignored.                                  *)
GroupSyncOk_AnyAnswer ==
    /\ op.pc = "groupSync"
    /\ AllDone
    /\ GroupStore(op.gid, IF op.g.state = "finished"
                          THEN [op.g EXCEPT !.state = "nothing", !.cand = NoAddr, !.oos = FALSE]
                          ELSE op.g)
    /\ UNCHANGED <<storeVars, taskVars>>

GroupSyncOk ==
    /\ op.pc = "groupSync"
    /\ AllOk
    /\ GroupStore(op.gid, IF op.g.state = "finished"
                          THEN [op.g EXCEPT !.state = "nothing", !.cand = NoAddr, !.oos = FALSE]
                          ELSE op.g)
    /\ UNCHANGED <<storeVars, taskVars>>

GroupSyncFail ==
    /\ op.pc = "groupSync"
    /\ AllDone /\ ~ AllOk
    /\ UNCHANGED <<storeVars, taskVars>>
    /\ \/ /\ op.g.state = "prepared"
          /\ GroupSync("groupRollback", op.gid, [op.g EXCEPT !.state = "preparing"])
       \/ /\ op.g.state = "finished"
          /\ Return

GroupRollbackDone ==
    /\ op.pc = "groupRollback"
    /\ AllDone
    /\ Return
    /\ UNCHANGED <<storeVars, taskVars>>

(* ResyncGroup; ResyncGroupAll takes these steps for each group.           *)
ResyncGroup(g) ==
    /\ op = Idle
    /\ group[g].exists
    /\ GroupSync("resyncSync", g, group[g])
    /\ UNCHANGED <<storeVars, taskVars>>

ResyncGroupDone ==
    /\ op.pc = "resyncSync"
    /\ AllDone
    /\ \/ AllOk /\ WriteGroup(op.gid, [op.g EXCEPT !.oos = FALSE])
       \/ UNCHANGED storeVars
    /\ Return
    /\ UNCHANGED taskVars

-----------------------------------------------------------------------------
(* SlotsAssignGroup and SlotsAssignOffline: the group is flagged, then the *)
(* mapping is stored whatever it was, then the proxies are told.  Unless   *)
(* Reassign, operators use them for offline slots only.                    *)

AssignStore(s, g) == op' = [pc |-> "assignStore", sid |-> s, m |-> [Offline EXCEPT !.group = g]]

(* Mutant: the group is not flagged.                                       *)
SlotsAssignGroup_NoFlag(s, g) ==
    /\ op = Idle
    /\ Reassign \/ slots[s] = Offline
    /\ group[g].master # NoAddr
    /\ AssignStore(s, g)
    /\ UNCHANGED <<storeVars, taskVars, proxyVars>>

SlotsAssignGroup(s, g) ==
    /\ op = Idle
    /\ Reassign \/ slots[s] = Offline
    /\ group[g].master # NoAddr
    /\ WriteGroup(g, [group[g] EXCEPT !.oos = TRUE])
    /\ AssignStore(s, g)
    /\ UNCHANGED <<taskVars, proxyVars>>

SlotsAssignOffline(s) ==
    /\ op = Idle
    /\ Reassign \/ slots[s] = Offline
    /\ AssignStore(s, NoGroup)
    /\ UNCHANGED <<storeVars, taskVars, proxyVars>>

AssignStoreOk ==
    /\ op.pc = "assignStore"
    /\ WriteSlot(op.sid, op.m)
    /\ SlotSync("assignSync", op.sid, op.m)
    /\ UNCHANGED taskVars

AssignStoreFail ==
    /\ op.pc = "assignStore"
    /\ WriteSlot(op.sid, op.m) \/ UNCHANGED storeVars
    /\ Return
    /\ UNCHANGED taskVars

AssignDone ==
    /\ op.pc = "assignSync"
    /\ AllDone
    /\ Return
    /\ UNCHANGED <<storeVars, taskVars>>

-----------------------------------------------------------------------------
(* Proxies (topom_proxy.go, pkg/proxy).                                    *)

(* CreateProxy, OnlineProxy and ReinitProxy: the proxy is registered, then *)
(* it is sent the whole table.                                             *)
OnlineProxy(p) ==
    LET fill == [s \in Slots |-> toSlot(slots[s], group)]
    IN  /\ op = Idle
        /\ proxy' = proxy \cup {p}
        /\ op' = [pc |-> "initSync", fill |-> fill]
        /\ Send({p}, fill)
        /\ UNCHANGED <<slots, order, group, taskVars>>

OnlineProxyDone ==
    /\ op.pc = "initSync"
    /\ AllDone
    /\ Return
    /\ UNCHANGED <<storeVars, taskVars>>

(* RemoveProxy: Shutdown makes the process exit; with `force' the operator *)
(* vouches for it that the process is gone (doc/tutorial_zh.md, 2.5.2).    *)
RemoveProxy(p) ==
    /\ op = Idle
    /\ p \in proxy
    /\ proxy' = proxy \ {p}
    /\ table' = [table EXCEPT ![p] = [s \in Slots |-> NotReady]]
    /\ queue' = [queue EXCEPT ![p] = << >>]
    /\ UNCHANGED <<slots, order, group, op, taskVars, reply>>

(* Proxy.FillSlots runs under Proxy.mu: calls are applied one at a time.   *)
(* That they are applied in the order they were sent is an assumption: the *)
(* code numbers no calls, and takes for granted that one that timed out    *)
(* has come to the mutex before a later one.  The answer may be lost.      *)
FillSlots(p) ==
    /\ queue[p] # << >>
    /\ table' = [table EXCEPT ![p] = [s \in Slots |->
                    IF s \in DOMAIN Head(queue[p]) THEN Head(queue[p])[s] ELSE table[p][s]]]
    /\ queue' = [queue EXCEPT ![p] = Tail(@)]
    /\ \/ Len(queue[p]) = 1 /\ reply[p] = "wait" /\ reply' = [reply EXCEPT ![p] = "ok"]
       \/ (Len(queue[p]) # 1 \/ reply[p] # "wait") /\ UNCHANGED reply
    /\ UNCHANGED <<storeVars, op, taskVars>>

(* The calls that never reach their proxy are dropped from its queue.      *)
Drop(ps) == [p \in Proxies |-> IF p \in ps THEN SubSeq(queue[p], 1, Len(queue[p]) - 1) ELSE queue[p]]

(* The call fails: it was lost, or it will still be applied.               *)
FillSlotsFails(p) ==
    /\ reply[p] = "wait"
    /\ reply' = [reply EXCEPT ![p] = "err"]
    /\ \/ queue' = Drop({p})
       \/ Len(queue[p]) <= MaxLate /\ UNCHANGED queue
    /\ UNCHANGED <<storeVars, op, taskVars, table>>

(* The call was applied and its answer is lost.                            *)
FillSlotsAnswerLost(p) ==
    /\ op # Idle
    /\ p \in proxy
    /\ reply[p] = "ok"
    /\ reply' = [reply EXCEPT ![p] = "err"]
    /\ UNCHANGED <<storeVars, op, taskVars, table, queue>>

(* The process of a proxy restarts with every slot unassigned.             *)
RestartProxy(p) ==
    /\ table' = [table EXCEPT ![p] = [s \in Slots |-> NotReady]]
    /\ queue' = [queue EXCEPT ![p] = << >>]
    /\ reply' = [reply EXCEPT ![p] = IF @ = "wait" THEN "err" ELSE @]
    /\ UNCHANGED <<storeVars, op, taskVars>>

(* The dashboard exits; a new one starts once the lock of the old one is   *)
(* removed.  A call it was waiting for may still reach its proxy.          *)
RestartDashboard ==
    /\ op' = Idle
    /\ disabled' = FALSE
    /\ round' = "plan"
    /\ plans' = {}
    /\ run' = [s \in Slots |-> "none"]
    /\ \E lost \in SUBSET {p \in Proxies : reply[p] = "wait"} :
          /\ \A p \in Proxies \ lost : reply[p] = "wait" => Len(queue[p]) <= MaxLate
          /\ queue' = Drop(lost)
    /\ reply' = [p \in Proxies |-> "ok"]
    /\ UNCHANGED <<storeVars, table>>

-----------------------------------------------------------------------------
(* A cluster at rest: no action, no promotion, and every registered proxy  *)
(* has been sent what the store holds.                                     *)
AtRest ==
    /\ slots \in [Slots -> Mapping]
    /\ group \in [Groups -> Group]
    /\ \A s \in Slots : slots[s].state = "nothing" /\ slots[s].target = NoGroup
    /\ \A g \in Groups :
          /\ group[g].state = "nothing" /\ group[g].cand = NoAddr /\ ~ group[g].oos
          /\ group[g].master = NoAddr => group[g].replicas = {}
          /\ ~ group[g].exists => group[g].master = NoAddr
          /\ group[g].master \notin group[g].replicas
          /\ \A h \in Groups \ {g} : servers(g) \cap servers(h) = {}
    /\ \A s \in Slots : slots[s].group \in Groups => group[slots[s].group].master # NoAddr

Quiet ==
    /\ order = << >>
    /\ proxy = Proxies
    /\ op = Idle
    /\ disabled = FALSE
    /\ round = "plan"
    /\ plans = {}
    /\ run = [s \in Slots |-> "none"]
    /\ table = [p \in Proxies |-> [s \in Slots |-> toSlot(slots[s], group)]]
    /\ queue = [p \in Proxies |-> << >>]
    /\ reply = [p \in Proxies |-> "ok"]

Init == AtRest /\ Quiet

(* What the dashboard does by itself, what proxies do, what operators ask  *)
(* for and what may fail.                                                  *)
Migration ==
    \/ \E s \in Slots : \/ SlotActionPrepareFilter(s)
                        \/ newSlotActionExecutor(s)
                        \/ ExecutorReturns(s)
                        \/ SlotActionComplete(s)
    \/ SlotStoreOk \/ SlotSyncOk \/ SlotSyncFail \/ SlotRollbackDone
    \/ RunPlans \/ RoundEnds

Promotion == GroupStoreOk \/ GroupSyncOk \/ GroupSyncFail \/ GroupRollbackDone

Assignment == ResyncGroupDone \/ AssignStoreOk \/ AssignDone

Apply == OnlineProxyDone \/ \E p \in Proxies : FillSlots(p)

SlotOps ==
    \E s \in Slots : SlotRemoveAction(s) \/ \E g \in Groups : SlotCreateAction(s, g)

AssignOps ==
    \/ \E s \in Slots : SlotsAssignOffline(s) \/ \E g \in Groups : SlotsAssignGroup(s, g)
    \/ \E g \in Groups : ResyncGroup(g)

PromoteOps == \E g \in Groups, a \in Servers : GroupPromoteServer(g, a)

GroupOps ==
    \E g \in Groups : \/ CreateGroup(g) \/ RemoveGroup(g)
                      \/ \E a \in Servers : GroupAddServer(g, a) \/ GroupDelServer(g, a)

ProxyOps == \E p \in Proxies : OnlineProxy(p) \/ RemoveProxy(p)

Operator == SlotOps \/ AssignOps \/ PromoteOps \/ GroupOps \/ ProxyOps \/ SetSlotActionDisabled

StoreFault == SlotStoreFail \/ GroupStoreFail \/ AssignStoreFail

NetFault ==
    \/ \E p \in Proxies : FillSlotsFails(p) \/ FillSlotsAnswerLost(p) \/ RestartProxy(p)
    \/ RestartDashboard

Fault == StoreFault \/ NetFault

Next == Migration \/ Promotion \/ Assignment \/ Apply \/ Operator \/ Fault

Spec == Init /\ [][Next]_vars
-----------------------------------------------------------------------------
(* Properties.                                                             *)

(* Types of the variables; `op' carries the fields its pc needs.           *)
TypeOK ==
    /\ slots \in [Slots -> Mapping]
    /\ order \in Seq(Slots)
    /\ group \in [Groups -> Group]
    /\ proxy \subseteq Proxies
    /\ op.pc \in {"idle", "slotStore", "slotSync", "slotRollback", "groupStore", "groupSync",
                  "groupRollback", "resyncSync", "assignStore", "assignSync", "initSync"}
    /\ op.pc \in {"slotStore", "slotSync", "slotRollback", "assignStore", "assignSync"} =>
          op.sid \in Slots /\ op.m \in Mapping
    /\ op.pc \in {"groupStore", "groupSync", "groupRollback", "resyncSync"} =>
          op.gid \in Groups /\ op.g \in Group
    /\ op.pc \notin {"idle", "slotStore", "groupStore", "assignStore"} => op.fill \in Fills
    /\ disabled \in BOOLEAN
    /\ round \in {"plan", "run"}
    /\ plans \subseteq Slots
    /\ run \in [Slots -> {"none", "ready", "exec", "done"}]
    /\ table \in [Proxies -> [Slots -> Entry]]
    /\ queue \in [Proxies -> Seq(Fills)]
    /\ reply \in [Proxies -> {"wait", "ok", "err"}]

(* The group that owns the keys of a slot by its mapping, and its master.  *)
OwnerGroup(m) == IF m.state \in {"nothing", "pending", "preparing"} THEN m.group ELSE m.target
Owner(s)      == getGroupMaster(group, OwnerGroup(slots[s]))

(* The group still holds keys of the slot: it owns it or is drained of it. *)
Concerned(m, g) == OwnerGroup(m) = g \/ (m.state \in {"prepared", "migrating"} /\ m.group = g)

(* A proxy forwards requests for the slot.                                 *)
Serving(e)   == e.backend # NoAddr /\ ~ e.locked
Serves(p, s) == Serving(table[p][s])

(* No two registered proxies ever forward requests for a slot to different *)
(* servers, whichever handler is half done, whatever failed and whichever  *)
(* table is late: the barrier of "prepared" (topom_slots.go:261-269 and    *)
(* topom_group.go:259-267) holds before the store changes the owner.       *)
RoutingAgreement ==
    \A s \in Slots : \A p, q \in proxy :
        Serves(p, s) /\ Serves(q, s) => table[p][s].backend = table[q][s].backend

(* A proxy that forwards requests for a slot pulls keys from the right     *)
(* place: from nowhere before the barrier, and from the master of the      *)
(* source group until the store says the slot is finished (context.go:102) *)
PullsFromSource ==
    \A s \in Slots : \A p \in proxy :
        Serves(p, s) =>
            /\ table[p][s].backend = Owner(s)
            /\ slots[s].state \in {"nothing", "pending", "preparing"} => table[p][s].from = NoAddr
            /\ slots[s].state \in {"prepared", "migrating"} =>
                  table[p][s].from = getGroupMaster(group, slots[s].group)

(* While a promotion is prepared in the store, no proxy serves a slot that *)
(* the group owns or is drained of: the switch of masters is not observed. *)
PromotionBarrier ==
    \A s \in Slots : \A p \in proxy : \A g \in Groups :
        group[g].state = "prepared" /\ Concerned(slots[s], g) => ~ Serves(p, s)

(* A group that a slot lives in or moves to keeps a master: SlotCreateAction *)
(* and GroupDelServer check it of each other's state, RemoveGroup relies on it *)
GroupsInUse ==
    \A s \in Slots :
        /\ slots[s].group # NoGroup => group[slots[s].group].exists /\ group[slots[s].group].master # NoAddr
        /\ slots[s].state # "nothing" =>
              /\ slots[s].target \in Groups \ {slots[s].group}
              /\ group[slots[s].target].exists /\ group[slots[s].target].master # NoAddr

(* Executors that run at the same time work on disjoint groups (the marks  *)
(* of ProcessSlotAction), and none runs while one of its groups has its    *)
(* master replaced (topom_group.go:231).                                   *)
ExecutorsApart ==
    \A s \in Slots : run[s] = "exec" =>
        /\ slots[s].state = "migrating"
        /\ ~ isGroupLocked(group, slots[s].group) /\ ~ isGroupLocked(group, slots[s].target)
        /\ \A t \in Slots \ {s} : run[t] = "exec" =>
              {slots[s].group, slots[s].target} \cap {slots[t].group, slots[t].target} \subseteq {NoGroup}

(* Whatever operators reassign, a proxy whose table for a settled slot is  *)
(* not what the store says belongs to a group that is flagged out of sync, *)
(* so that ResyncGroup is offered (topom_slots.go:487-508).                *)
DriftIsFlagged ==
    \A s \in Slots : \A p \in proxy :
        /\ op = Idle
        /\ slots[s].state = "nothing"
        /\ slots[s].group # NoGroup
        /\ group[slots[s].group].state = "nothing"
        /\ Serves(p, s)
        /\ table[p][s].backend # Owner(s)
        => group[slots[s].group].oos
=============================================================================
