---------------------------- MODULE TopologyInv ----------------------------
(***************************************************************************)
(* The inductive invariant behind the safety properties of Topology, and   *)
(* the abstract specification Topology implements.                         *)
(*                                                                         *)
(* The properties speak of the tables of the proxies and of the store.     *)
(* They are kept because of what sits between the two: the working copy of *)
(* the handler that runs, the calls a proxy has yet to apply, and what the *)
(* handler knows of its calls.  The invariant relates these.               *)
(***************************************************************************)
EXTENDS Topology

(* The entries for slot s in a table t and in the calls q not yet applied. *)
EntriesOf(t, q, s) == {t[s]} \cup {q[i][s] : i \in {j \in DOMAIN q : s \in DOMAIN q[j]}}

(* Every entry for slot s that proxy p uses or will use.                   *)
Entries(p, s) == EntriesOf(table[p], queue[p], s)

(* An entry that forwards requests agrees with the mapping of its slot and *)
(* the groups: it forwards to the owner, it pulls from where the keys are, *)
(* and no group it depends on is having its master replaced.               *)
Exact(m, grp, e) ==
    Serving(e) =>
        /\ e.backend = getGroupMaster(grp, OwnerGroup(m))
        /\ m.state \in {"nothing", "pending", "preparing"} => e.from = NoAddr
        /\ m.state \in {"prepared", "migrating"} => e.from = getGroupMaster(grp, m.group)
        /\ \A g \in Groups : Concerned(m, g) => grp[g].state # "prepared"

(* What SlotsAssignGroup and SlotsAssignOffline leave behind when they are *)
(* used on a slot that is served: its group is flagged, or it has none.    *)
Excused(m, grp) ==
    /\ Reassign
    /\ m.state \in {"nothing", "pending", "preparing"}
    /\ m.group # NoGroup => grp[m.group].oos

Good(m, grp, e) == Excused(m, grp) \/ Exact(m, grp, e)

EntriesInv == \A p \in Proxies, s \in Slots : \A e \in Entries(p, s) : Good(slots[s], group, e)

(* No proxy forwards requests for the slot, now or by a late call.         *)
Parked(s) == \A p \in Proxies : \A e \in Entries(p, s) : ~ Serving(e)

(* No proxy pulls keys of the slot any more, now or by a late call.        *)
Drained(s) == \A p \in Proxies : \A e \in Entries(p, s) : Serving(e) => e.from = NoAddr

(* Every proxy agrees with the store on the slot, now and by late calls.   *)
InSync(s) == \A p \in Proxies : \A e \in Entries(p, s) : Exact(slots[s], group, e)

(* A proxy that is not registered has an empty table.                      *)
GoneInv == \A p \in Proxies \ proxy : queue[p] = << >> /\ table[p] = [s \in Slots |-> NotReady]

(* A group with servers has a master; a promotion has a candidate.         *)
GroupInv == \A g \in Groups :
    /\ group[g].master # NoAddr => group[g].exists
    /\ group[g].replicas # {} => group[g].master # NoAddr
    /\ group[g].state # "nothing" => group[g].cand # NoAddr /\ group[g].master # NoAddr

(* What the handler of a slot action knows: its copy is one state ahead of *)
(* the store, and the barrier holds before the owner changes.              *)
SlotOpInv ==
    /\ op.pc = "slotStore" =>
        \/ op.m.state = "preparing" /\ slots[op.sid] = [op.m EXCEPT !.state = "pending"]
        \/ op.m.state = "prepared"  /\ slots[op.sid] = [op.m EXCEPT !.state = "preparing"] /\ Parked(op.sid)
        \/ op.m.state = "migrating" /\ slots[op.sid] = [op.m EXCEPT !.state = "prepared"]
        \/ op.m.state = "finished"  /\ slots[op.sid] = [op.m EXCEPT !.state = "migrating"]
        \/ /\ op.m = [Offline EXCEPT !.group = slots[op.sid].target]
           /\ slots[op.sid].state = "finished"
           /\ Drained(op.sid)
    /\ op.pc = "slotSync" =>
        /\ op.fill = [t \in {op.sid} |-> toSlot(op.m, group)]
        /\ \/ op.m.state = "prepared"  /\ slots[op.sid] = [op.m EXCEPT !.state = "preparing"]
           \/ op.m.state = "migrating" /\ slots[op.sid] = [op.m EXCEPT !.state = "prepared"]
           \/ op.m.state = "finished"  /\ slots[op.sid] = op.m
    /\ op.pc = "assignStore" =>
        /\ op.m = [Offline EXCEPT !.group = op.m.group]
        /\ op.m.group # NoGroup =>
              group[op.m.group].exists /\ group[op.m.group].master # NoAddr /\ group[op.m.group].oos
        /\ Reassign \/ slots[op.sid] = Offline

(* What the handler of a promotion knows.                                  *)
GroupOpInv ==
    /\ op.pc = "groupStore" =>
        LET old == group[op.gid]
        IN     \/ /\ op.g.state = "preparing" /\ old.state = "nothing"
                  /\ op.g = [old EXCEPT !.state = "preparing", !.cand = op.g.cand]
                  /\ op.g.cand # NoAddr /\ op.g.master # NoAddr
               \/ /\ op.g.state = "prepared" /\ old = [op.g EXCEPT !.state = "preparing"]
                  /\ \A s \in Slots : Concerned(slots[s], op.gid) => Parked(s)
               \/ op.g.state = "finished" /\ old.state = "prepared" /\ op.g = Promoted(old)
               \/ /\ op.g.state = "nothing" /\ old.state = "finished"
                  /\ op.g = [old EXCEPT !.state = "nothing", !.cand = NoAddr, !.oos = FALSE]
                  /\ \A s \in Slots : slots[s].group = op.gid => InSync(s)
    /\ op.pc \in {"groupSync", "resyncSync"} =>
          op.fill = [s \in getSlotMappingsByGroupId(op.gid) |->
                         toSlot(slots[s], [group EXCEPT ![op.gid] = op.g])]
    /\ op.pc = "groupSync" =>
           \/ op.g.state = "prepared" /\ group[op.gid] = [op.g EXCEPT !.state = "preparing"]
           \/ op.g.state = "finished" /\ group[op.gid] = op.g
    /\ op.pc = "groupRollback" => group[op.gid] = op.g /\ op.g.state = "preparing"
    /\ op.pc = "resyncSync" => group[op.gid] = op.g

(* The call f is the last one in the queue q.                              *)
EndsWith(q, f) == q # << >> /\ q[Len(q)] = f

(* What the handler knows of its calls: one it waits for is the last of    *)
(* its queue; one that succeeded was applied after every earlier one.      *)
ReplyInv ==
    op.pc \in {"slotSync", "groupSync", "resyncSync"} /\ DOMAIN op.fill # {} =>
        \A p \in proxy :
            /\ reply[p] = "wait" => EndsWith(queue[p], op.fill)
            /\ reply[p] = "ok" =>
                  /\ queue[p] = << >>
                  /\ \A s \in DOMAIN op.fill : table[p][s] \in {NotReady, op.fill[s]}

IInv ==
    /\ TypeOK
    /\ GroupsInUse
    /\ GroupInv
    /\ GoneInv
    /\ EntriesInv
    /\ SlotOpInv
    /\ GroupOpInv
    /\ ReplyInv

-----------------------------------------------------------------------------
(* The migration loop.  What follows is kept beside IInv: it says why the  *)
(* executors of a round stay apart.                                        *)

(* The slots the round still works on: those it has planned, and later     *)
(* those whose task has not ended.                                         *)
Live == IF round = "plan" THEN plans ELSE {s \in Slots : run[s] # "none"}

Apart(s, t) ==
    {slots[s].group, slots[s].target} \cap {slots[t].group, slots[t].target} \subseteq {NoGroup}

(* Tasks exist for planned slots of a round that runs.                     *)
TasksInv == \A s \in Slots : run[s] # "none" => round = "run" /\ s \in plans

(* The slots of a round are being migrated, between groups of their own.   *)
LiveInv == \A s \in Live : /\ slots[s].state \in {"migrating", "finished"}
                          /\ \A t \in Live \ {s} : Apart(s, t)

(* An executor moves keys between groups that are not being promoted.      *)
ExecInv == \A s \in Slots : run[s] = "exec" =>
    slots[s].state = "migrating" /\ ~ isGroupPromoting(slots[s].group) /\ ~ isGroupPromoting(slots[s].target)

(* A handler of a slot action prepares a slot that the plans of this round *)
(* accept, or completes a slot whose task reported that no key is left.    *)
Preparing(m) == m.state \in {"preparing", "prepared", "migrating"}

HandlerInv ==
    /\ op.pc \in {"slotStore", "slotSync", "slotRollback"} =>
          IF Preparing(op.m) THEN round = "plan" /\ accept(op.sid) ELSE run[op.sid] = "done"
    /\ op.pc = "slotRollback" => op.m.state = "preparing"
    /\ op.pc \in {"groupStore", "groupSync", "groupRollback"} => \A s \in Slots : run[s] # "exec"

LoopInv == TasksInv /\ LiveInv /\ ExecInv /\ HandlerInv

-----------------------------------------------------------------------------
(* Topology implements ExclusiveRouting: the owner of a slot is the master *)
(* the store points at, its phase and its source come from its action, and *)
(* a proxy routes a slot while it serves it.                               *)

PhaseOf(m) ==
    CASE m.state \in {"nothing", "pending", "preparing"} -> "settled"
      [] m.state \in {"prepared", "migrating"}           -> "moving"
      [] OTHER                                           -> "moved"

SourceOf(m, grp) == IF PhaseOf(m) = "moving" THEN getGroupMaster(grp, m.group) ELSE NoAddr

RouteOf(p, s) ==
    IF p \in proxy /\ Serves(p, s)
    THEN [to |-> table[p][s].backend, from |-> table[p][s].from]
    ELSE [to |-> NoAddr, from |-> NoAddr]

Owners  == [s \in Slots |-> Owner(s)]
Sources == [s \in Slots |-> SourceOf(slots[s], group)]
SlotPhases == [s \in Slots |-> PhaseOf(slots[s])]
Routes  == [p \in Proxies |-> [s \in Slots |-> RouteOf(p, s)]]

Abstract == INSTANCE ExclusiveRouting
                WITH None <- NoAddr, owner <- Owners, source <- Sources, phase <- SlotPhases, routes <- Routes

(* Every behaviour of the control plane is one of ExclusiveRouting: a slot *)
(* begins to move, and the masters behind it are replaced, only while no   *)
(* proxy forwards requests for it; it settles only when no proxy pulls its *)
(* keys; and tables change one proxy at a time.                            *)
ImplementsExclusiveRouting == Abstract!RoutingSpec
=============================================================================
