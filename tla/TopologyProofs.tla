--------------------------- MODULE TopologyProofs ---------------------------
(***************************************************************************)
(* Proofs about Topology, for every number of slots, groups, servers and   *)
(* proxies and any number of late calls.  First lemmas about the entries a *)
(* proxy uses or will use, then one lemma for each action (it keeps IInv), *)
(* then the theorems, then the refinement of ExclusiveRouting.             *)
(***************************************************************************)
EXTENDS TopologyInv, SequenceTheorems, TLAPS

(* A function from slots to entries is a list that FillSlots may carry.    *)
LEMMA FillType ==
    ASSUME NEW S \in SUBSET Slots, NEW f \in [S -> Entry]
    PROVE  f \in Fills
  BY DEF Fills

(* A list that FillSlots carries is a function from slots to entries.      *)
LEMMA FillDomain ==
    ASSUME NEW f \in Fills
    PROVE  DOMAIN f \subseteq Slots /\ f \in [DOMAIN f -> Entry]
  BY DEF Fills

(* The master of a group is an address, the empty one included.            *)
LEMMA MasterType ==
    ASSUME NEW grp \in [Groups -> Group], NEW g
    PROVE  getGroupMaster(grp, g) \in Addrs
  BY DEF getGroupMaster, Group, Addrs

(* toSlot computes entries of a slot table.                                *)
LEMMA ToSlotType ==
    ASSUME NEW m \in Mapping, NEW grp \in [Groups -> Group]
    PROVE  toSlot(m, grp) \in Entry
  <1>1. isSlotLocked(m, grp) \in BOOLEAN
    BY DEF isSlotLocked, isGroupLocked
  <1> QED BY <1>1, MasterType DEF toSlot, Entry, Mapping, Addrs

(* A call that is appended to the queue of a proxy adds its own entries only. *)
LEMMA EntriesAppend ==
    ASSUME NEW t, NEW q \in Seq(Fills), NEW f \in Fills, NEW s,
           NEW e \in EntriesOf(t, Append(q, f), s)
    PROVE  e \in EntriesOf(t, q, s) \/ (s \in DOMAIN f /\ e = f[s])
  BY DEF EntriesOf

(* FillSlots moves the entries of the first call into the table.           *)
LEMMA EntriesTail ==
    ASSUME NEW t, NEW u, NEW q \in Seq(Fills), NEW s, q # << >>,
           u[s] = IF s \in DOMAIN Head(q) THEN Head(q)[s] ELSE t[s],
           NEW e \in EntriesOf(u, Tail(q), s)
    PROVE  e \in EntriesOf(t, q, s)
  BY DEF EntriesOf

(* A call that is lost takes its entries with it.                          *)
LEMMA EntriesSubSeq ==
    ASSUME NEW t, NEW q \in Seq(Fills), NEW s,
           NEW e \in EntriesOf(t, SubSeq(q, 1, Len(q) - 1), s)
    PROVE  e \in EntriesOf(t, q, s)
  BY DEF EntriesOf

(* The last call of a queue stays the last one when an earlier one is applied. *)
LEMMA TailLast ==
    ASSUME NEW q \in Seq(Fills), q # << >>, Len(q) # 1
    PROVE  Tail(q) # << >> /\ Tail(q)[Len(Tail(q))] = q[Len(q)]
  <1>1. Len(q) \in Nat \ {0}
    BY EmptySeq
  <1>2. Len(Tail(q)) = Len(q) - 1 /\ \A i \in 1 .. Len(Tail(q)) : Tail(q)[i] = q[i + 1]
    BY HeadTailProperties
  <1>3. Len(Tail(q)) \in 1 .. Len(Tail(q)) /\ Len(Tail(q)) + 1 = Len(q)
    BY <1>1, <1>2
  <1>4. Len(<< >>) = 0
    BY EmptySeq
  <1>5. Tail(q) # << >>
    <2>1. Len(Tail(q)) # 0
      BY <1>1, <1>2
    <2> QED BY <1>4, <2>1, Zenon
  <1> QED BY <1>2, <1>3, <1>5

(* With no call outstanding, the table is all a proxy uses.                *)
LEMMA EntriesEmpty ==
    ASSUME NEW t, NEW s, NEW e \in EntriesOf(t, << >>, s)
    PROVE  e = t[s]
  BY DEF EntriesOf

(* What toSlot computes from a mapping and the groups agrees with them.    *)
LEMMA ExactToSlot ==
    ASSUME NEW m \in Mapping, NEW grp \in [Groups -> Group]
    PROVE  Exact(m, grp, toSlot(m, grp))
  BY DEF Exact, toSlot, Serving, Concerned, OwnerGroup, isSlotLocked, isGroupLocked, Mapping, ActionStates

LEMMA GoodToSlot ==
    ASSUME NEW m \in Mapping, NEW grp \in [Groups -> Group]
    PROVE  Good(m, grp, toSlot(m, grp))
  BY ExactToSlot DEF Good

(* An entry that forwards nothing disagrees with nothing.                  *)
LEMMA NotServingIsGood ==
    ASSUME NEW m, NEW grp, NEW e, ~ Serving(e)
    PROVE  Exact(m, grp, e) /\ Good(m, grp, e)
  BY DEF Exact, Good

LEMMA NotReadyIsGood ==
    ASSUME NEW m, NEW grp
    PROVE  Exact(m, grp, NotReady) /\ Good(m, grp, NotReady)
  <1>1. ~ Serving(NotReady)
    BY DEF Serving, NotReady
  <1> QED BY <1>1, NotServingIsGood

(* A new action does not change what entries are good: keys have not moved. *)
LEMMA GoodPending ==
    ASSUME NEW m \in Mapping, NEW grp \in [Groups -> Group], NEW e \in Entry, NEW g \in Groups,
           Good(m, grp, e), m.state = "nothing"
    PROVE  Good([m EXCEPT !.state = "pending", !.target = g], grp, e)
  <1> DEFINE n == [m EXCEPT !.state = "pending", !.target = g]
  <1>1. n.state = "pending" /\ n.group = m.group
    BY DEF Mapping
  <1> HIDE DEF n
  <1>2. Excused(m, grp) => Excused(n, grp)
    BY <1>1 DEF Excused
  <1>3. Exact(m, grp, e) => Exact(n, grp, e)
    BY <1>1 DEF Exact, Serving, Concerned, OwnerGroup
  <1> QED BY <1>2, <1>3 DEF Good, n

(* Nor does the removal of an action that is still pending.                *)
LEMMA GoodRemoved ==
    ASSUME NEW m \in Mapping, NEW grp \in [Groups -> Group], NEW e \in Entry,
           Good(m, grp, e), m.state = "pending"
    PROVE  Good([Offline EXCEPT !.group = m.group], grp, e)
  <1> DEFINE n == [Offline EXCEPT !.group = m.group]
  <1>1. n.state = "nothing" /\ n.group = m.group
    BY DEF Offline
  <1> HIDE DEF n
  <1>2. Excused(m, grp) => Excused(n, grp)
    BY <1>1 DEF Excused
  <1>3. Exact(m, grp, e) => Exact(n, grp, e)
    BY <1>1 DEF Exact, Serving, Concerned, OwnerGroup
  <1> QED BY <1>2, <1>3 DEF Good, n

(* Nobody serves a slot that is offline and was never reassigned.          *)
LEMMA GoodOffline ==
    ASSUME TopologyAssumption, ~ Reassign, NEW grp \in [Groups -> Group], NEW e \in Entry, Good(Offline, grp, e)
    PROVE  ~ Serving(e)
  BY DEF TopologyAssumption, Good, Exact, Excused, Serving, OwnerGroup, Offline, getGroupMaster

(* A group is written: its master stays, or nobody serves what it holds.   *)
LEMMA ExactGroup ==
    ASSUME NEW m \in Mapping, NEW grp \in [Groups -> Group], NEW e \in Entry, Exact(m, grp, e),
           NEW g \in Groups, NEW rec \in Group,
           \/ rec.master = grp[g].master /\ (rec.state # "prepared" \/ grp[g].state = "prepared")
           \/ Concerned(m, g) => ~ Serving(e)
    PROVE  Exact(m, [grp EXCEPT ![g] = rec], e)
  BY DEF Exact, Serving, Concerned, OwnerGroup, Mapping, ActionStates, getGroupMaster

(* Its flag stays, or the slot needs none.                                 *)
LEMMA GoodGroup ==
    ASSUME NEW m \in Mapping, NEW grp \in [Groups -> Group], NEW e \in Entry, Good(m, grp, e),
           NEW g \in Groups, NEW rec \in Group,
           Exact(m, grp, e) =>
              \/ rec.master = grp[g].master /\ (rec.state # "prepared" \/ grp[g].state = "prepared")
              \/ Concerned(m, g) => ~ Serving(e),
           (grp[g].oos => rec.oos) \/ m.group # g \/ Exact(m, grp, e)
    PROVE  Good(m, [grp EXCEPT ![g] = rec], e)
  <1>1. CASE Exact(m, grp, e)
    BY <1>1, ExactGroup DEF Good
  <1>2. CASE Excused(m, grp) /\ ((grp[g].oos => rec.oos) \/ m.group # g)
    <2>1. Excused(m, [grp EXCEPT ![g] = rec])
      BY <1>2 DEF Excused, Mapping
    <2> QED BY <2>1 DEF Good
  <1> QED BY <1>1, <1>2 DEF Good

(* A call brings the entries of f and no others.                           *)
Adds(f) == \A p \in Proxies, s \in Slots : \A e \in Entries(p, s)' :
               e \in Entries(p, s) \/ (s \in DOMAIN f /\ e = f[s])

(* resyncSlotMappings: each proxy of ps waits for f, the last of its queue. *)
LEMMA SendEffect ==
    ASSUME TypeOK, NEW ps \in SUBSET Proxies, NEW f \in Fills, Send(ps, f)
    PROVE  /\ table' = table
           /\ queue' \in [Proxies -> Seq(Fills)]
           /\ reply' \in [Proxies -> {"wait", "ok", "err"}]
           /\ \A p \in Proxies \ ps : queue'[p] = queue[p]
           /\ Adds(f)
           /\ DOMAIN f # {} => \A p \in ps : reply'[p] = "wait" /\ EndsWith(queue'[p], f)
  <1>1. \A p \in Proxies : queue'[p] = queue[p] \/ queue'[p] = Append(queue[p], f)
    BY DEF Send
  <1>2. queue \in [Proxies -> Seq(Fills)]
    BY DEF TypeOK
  <1>3. queue' \in [Proxies -> Seq(Fills)]
    BY <1>2 DEF Send
  <1>4. Adds(f)
    <2> SUFFICES ASSUME NEW p \in Proxies, NEW s \in Slots, NEW e \in Entries(p, s)'
                 PROVE  e \in Entries(p, s) \/ (s \in DOMAIN f /\ e = f[s])
      BY DEF Adds
    <2>1. table' = table
      BY DEF Send
    <2>2. e \in EntriesOf(table[p], queue'[p], s)
      BY <2>1 DEF Entries
    <2>3. CASE queue'[p] = queue[p]
      BY <2>2, <2>3 DEF Entries
    <2>4. CASE queue'[p] = Append(queue[p], f)
      <3>1. queue[p] \in Seq(Fills) /\ e \in EntriesOf(table[p], Append(queue[p], f), s)
        BY <1>2, <2>2, <2>4
      <3> QED BY <3>1, EntriesAppend DEF Entries
    <2> QED BY <1>1, <2>3, <2>4
  <1>5. DOMAIN f # {} => \A p \in ps : reply'[p] = "wait" /\ EndsWith(queue'[p], f)
    <2> SUFFICES ASSUME DOMAIN f # {}, NEW p \in ps
                 PROVE  reply'[p] = "wait" /\ EndsWith(queue'[p], f)
      OBVIOUS
    <2>1. queue'[p] = Append(queue[p], f) /\ reply'[p] = "wait"
      BY DEF Send
    <2> QED BY <1>2, <2>1 DEF EndsWith
  <1>6. /\ table' = table
        /\ reply' \in [Proxies -> {"wait", "ok", "err"}]
        /\ \A p \in Proxies \ ps : queue'[p] = queue[p]
    BY DEF Send
  <1> QED BY <1>3, <1>4, <1>5, <1>6

(* What a proxy uses or will use is an entry.                              *)
LEMMA EntryType ==
    ASSUME TypeOK, NEW p \in Proxies, NEW s \in Slots, NEW e \in Entries(p, s)
    PROVE  e \in Entry
  <1>1. table[p][s] \in Entry /\ queue[p] \in Seq(Fills)
    BY DEF TypeOK
  <1>2. CASE e = table[p][s]
    BY <1>1, <1>2
  <1>3. ASSUME NEW i \in DOMAIN queue[p], s \in DOMAIN queue[p][i], e = queue[p][i][s]
        PROVE  e \in Entry
    <2>1. queue[p][i] \in Fills
      BY <1>1
    <2> QED BY <2>1, <1>3, FillDomain
  <1> QED BY <1>2, <1>3 DEF Entries, EntriesOf

(* New entries are good, old ones remain so.                               *)
LEMMA GoodEntries ==
    ASSUME NEW f, Adds(f),
           \A p \in Proxies, s \in Slots : \A e \in Entries(p, s) : Good(slots'[s], group', e),
           \A s \in Slots : s \in DOMAIN f => Good(slots'[s], group', f[s])
    PROVE  EntriesInv'
  BY DEF EntriesInv, Adds

-----------------------------------------------------------------------------
(* Steps of the proxies and of the network.                                *)

(* A step of a proxy or of the network brings no entry but empty ones.     *)
LEMMA ProxyStep ==
    ASSUME IInv, UNCHANGED <<slots, group, proxy, op>>,
           \A p \in Proxies, s \in Slots : \A e \in Entries(p, s)' : e \in Entries(p, s) \/ e = NotReady
    PROVE  GroupsInUse' /\ GroupInv' /\ EntriesInv' /\ SlotOpInv' /\ GroupOpInv'
  <1>1. GroupsInUse' /\ GroupInv'
    BY DEF IInv, GroupsInUse, GroupInv
  <1>2. EntriesInv'
    <2>1. \A s \in Slots : Good(slots'[s], group', NotReady)
      BY NotReadyIsGood
    <2>2. \A p \in Proxies, s \in Slots : \A e \in Entries(p, s)' : Good(slots'[s], group', e)
      BY <2>1 DEF IInv, EntriesInv
    <2> QED BY <2>2 DEF EntriesInv
  <1>3. ~ Serving(NotReady)
    BY DEF Serving, NotReady
  <1>4. \A s \in Slots : Parked(s) => Parked(s)'
    BY <1>3 DEF Parked
  <1>5. \A s \in Slots : Drained(s) => Drained(s)'
    BY <1>3 DEF Drained
  <1>6. SlotOpInv'
    <2>1. op.pc = "slotStore" => op.sid \in Slots
      BY DEF IInv, TypeOK
    <2> QED BY <1>4, <1>5, <2>1 DEF IInv, SlotOpInv
  <1>7. GroupOpInv'
    <2>1. \A s \in Slots : InSync(s) => InSync(s)'
      BY NotReadyIsGood DEF InSync
    <2> QED BY <1>4, <2>1 DEF IInv, GroupOpInv, getSlotMappingsByGroupId
  <1> QED BY <1>1, <1>2, <1>6, <1>7

(* A proxy applies its first call.                                         *)
LEMMA FillSlotsStep ==
    ASSUME IInv, NEW p \in Proxies, FillSlots(p)
    PROVE  IInv'
  <1> USE DEF IInv
  <1>1. queue[p] \in Seq(Fills) /\ queue[p] # << >> /\ Head(queue[p]) \in Fills
    BY DEF FillSlots, TypeOK
  <1>2. UNCHANGED <<slots, order, group, proxy, op, disabled, round, plans, run>>
    BY DEF FillSlots, storeVars, taskVars
  <1>3. queue' = [queue EXCEPT ![p] = Tail(queue[p])]
    BY DEF FillSlots
  <1>4. table' \in [Proxies -> [Slots -> Entry]]
    BY <1>1, FillDomain DEF FillSlots, TypeOK
  <1>5. queue' \in [Proxies -> Seq(Fills)]
    BY <1>1, <1>3 DEF TypeOK
  <1>6. reply' \in [Proxies -> {"wait", "ok", "err"}]
    BY DEF FillSlots, TypeOK
  <1>7. TypeOK'
    BY <1>2, <1>4, <1>5, <1>6 DEF TypeOK
  <1>8. \A r \in Proxies, s \in Slots : \A e \in Entries(r, s)' : e \in Entries(r, s) \/ e = NotReady
    <2> SUFFICES ASSUME NEW r \in Proxies, NEW s \in Slots, NEW e \in Entries(r, s)'
                 PROVE  e \in Entries(r, s)
      OBVIOUS
    <2>1. CASE r = p
      <3>1. table'[p][s] = IF s \in DOMAIN Head(queue[p]) THEN Head(queue[p])[s] ELSE table[p][s]
        BY DEF FillSlots, TypeOK
      <3>2. queue'[p] = Tail(queue[p])
        BY <1>3 DEF TypeOK
      <3>3. e \in EntriesOf(table'[p], Tail(queue[p]), s)
        BY <2>1, <3>2 DEF Entries
      <3> QED BY <1>1, <2>1, <3>1, <3>3, EntriesTail DEF Entries
    <2>2. CASE r # p
      BY <2>2, <1>3 DEF FillSlots, Entries, TypeOK
    <2> QED BY <2>1, <2>2
  <1>9. GoneInv'
    BY <1>1, <1>2, <1>3 DEF GoneInv, FillSlots, TypeOK
  <1>10. ReplyInv'
    <2> SUFFICES ASSUME op.pc \in {"slotSync", "groupSync", "resyncSync"}, DOMAIN op.fill # {}, NEW r \in proxy
                 PROVE  /\ reply'[r] = "wait" => EndsWith(queue'[r], op.fill)
                        /\ reply'[r] = "ok" =>
                              /\ queue'[r] = << >>
                              /\ \A s \in DOMAIN op.fill : table'[r][s] \in {NotReady, op.fill[s]}
      BY <1>2 DEF ReplyInv
    <2>0. r \in Proxies
      BY DEF TypeOK
    <2>1. /\ reply[r] = "wait" => EndsWith(queue[r], op.fill)
          /\ reply[r] = "ok" =>
                /\ queue[r] = << >>
                /\ \A s \in DOMAIN op.fill : table[r][s] \in {NotReady, op.fill[s]}
      BY DEF ReplyInv
    <2>2. CASE r # p
      BY <2>0, <2>1, <2>2, <1>3 DEF FillSlots, TypeOK
    <2>3. CASE r = p
      <3>1. DOMAIN op.fill \subseteq Slots
        BY FillDomain DEF TypeOK
      <3>2. queue'[p] = Tail(queue[p])
        BY <1>3 DEF TypeOK
      <3>3. CASE Len(queue[p]) = 1 /\ reply[p] = "wait"
        <4>1. Head(queue[p]) = op.fill /\ queue'[p] = << >> /\ reply'[p] = "ok"
          BY <1>1, <2>1, <2>3, <3>2, <3>3 DEF FillSlots, TypeOK, EndsWith
        <4>2. \A s \in DOMAIN op.fill : table'[p][s] = op.fill[s]
          BY <3>1, <4>1 DEF FillSlots, TypeOK
        <4> QED BY <4>1, <4>2, <2>3
      <3>4. CASE ~ (Len(queue[p]) = 1 /\ reply[p] = "wait")
        <4>1. reply' = reply
          BY <3>4 DEF FillSlots
        <4>2. CASE reply[p] = "wait"
          <5>1. Len(queue[p]) # 1
            BY <3>4, <4>2
          <5>2. Tail(queue[p]) # << >> /\ Tail(queue[p])[Len(Tail(queue[p]))] = queue[p][Len(queue[p])]
            BY <1>1, <5>1, TailLast
          <5> QED BY <2>1, <2>3, <3>2, <4>1, <4>2, <5>2 DEF EndsWith
        <4>3. CASE reply[p] # "wait"
          BY <1>1, <2>1, <2>3, <4>1, <4>3
        <4> QED BY <4>2, <4>3
      <3> QED BY <3>3, <3>4
    <2> QED BY <2>2, <2>3
  <1> QED BY <1>2, <1>7, <1>8, <1>9, <1>10, ProxyStep

(* Dropping the last call of some queues leaves queues.                    *)
LEMMA DropType ==
    ASSUME TypeOK, NEW ps \in SUBSET Proxies
    PROVE  /\ Drop(ps) \in [Proxies -> Seq(Fills)]
           /\ \A p \in Proxies \ ps : Drop(ps)[p] = queue[p]
           /\ \A p \in Proxies : queue[p] = << >> => Drop(ps)[p] = << >>
  <1>1. \A p \in Proxies : queue[p] \in Seq(Fills)
    BY DEF TypeOK
  <1>2. \A p \in Proxies : SubSeq(queue[p], 1, Len(queue[p]) - 1) \in Seq(Fills)
    BY <1>1
  <1>3. \A p \in Proxies : queue[p] = << >> => SubSeq(queue[p], 1, Len(queue[p]) - 1) = << >>
    OBVIOUS
  <1> QED BY <1>1, <1>2, <1>3 DEF Drop

(* It brings no entry.                                                     *)
LEMMA DropEntries ==
    ASSUME TypeOK, NEW ps \in SUBSET Proxies, queue' = Drop(ps), table' = table
    PROVE  \A r \in Proxies, s \in Slots : \A e \in Entries(r, s)' : e \in Entries(r, s)
  <1> SUFFICES ASSUME NEW r \in Proxies, NEW s \in Slots, NEW e \in Entries(r, s)'
               PROVE  e \in Entries(r, s)
    OBVIOUS
  <1>1. e \in EntriesOf(table[r], queue'[r], s)
    BY DEF Entries
  <1>2. CASE queue'[r] = queue[r]
    BY <1>1, <1>2 DEF Entries
  <1>3. CASE queue'[r] = SubSeq(queue[r], 1, Len(queue[r]) - 1)
    <2>1. queue[r] \in Seq(Fills) /\ e \in EntriesOf(table[r], SubSeq(queue[r], 1, Len(queue[r]) - 1), s)
      BY <1>1, <1>3 DEF TypeOK
    <2> QED BY <2>1, EntriesSubSeq DEF Entries
  <1> QED BY <1>2, <1>3 DEF Drop

(* The call to a proxy fails.                                              *)
LEMMA FillSlotsFailsStep ==
    ASSUME IInv, NEW p \in Proxies, FillSlotsFails(p)
    PROVE  IInv'
  <1> USE DEF IInv
  <1>1. UNCHANGED <<slots, order, group, proxy, op, disabled, round, plans, run, table>>
    BY DEF FillSlotsFails, storeVars, taskVars
  <1>2. queue' = Drop({p}) \/ queue' = queue
    BY DEF FillSlotsFails
  <1>3. reply' = [reply EXCEPT ![p] = "err"]
    BY DEF FillSlotsFails
  <1>4. TypeOK'
    BY <1>1, <1>2, <1>3, DropType DEF TypeOK
  <1>5. \A r \in Proxies, s \in Slots : \A e \in Entries(r, s)' : e \in Entries(r, s) \/ e = NotReady
    <2>1. CASE queue' = queue
      BY <1>1, <2>1 DEF Entries
    <2>2. CASE queue' = Drop({p})
      BY <1>1, <2>2, DropEntries
    <2> QED BY <1>2, <2>1, <2>2
  <1>6. GoneInv'
    BY <1>1, <1>2, DropType DEF GoneInv
  <1>7. ReplyInv'
    <2>1. \A r \in Proxies \ {p} : queue'[r] = queue[r] /\ reply'[r] = reply[r]
      BY <1>2, <1>3, DropType DEF TypeOK
    <2>2. reply'[p] = "err"
      BY <1>3 DEF TypeOK
    <2>3. proxy \subseteq Proxies
      BY DEF TypeOK
    <2> QED BY <1>1, <2>1, <2>2, <2>3 DEF ReplyInv
  <1> QED BY <1>1, <1>4, <1>5, <1>6, <1>7, ProxyStep

(* The call was applied and its answer is lost.                            *)
LEMMA FillSlotsAnswerLostStep ==
    ASSUME IInv, NEW p \in Proxies, FillSlotsAnswerLost(p)
    PROVE  IInv'
  <1> USE DEF IInv
  <1>1. UNCHANGED <<slots, order, group, proxy, op, disabled, round, plans, run, table, queue>>
    BY DEF FillSlotsAnswerLost, storeVars, taskVars
  <1>2. reply' = [reply EXCEPT ![p] = "err"]
    BY DEF FillSlotsAnswerLost
  <1>3. TypeOK'
    BY <1>1, <1>2 DEF TypeOK
  <1>4. \A r \in Proxies, s \in Slots : \A e \in Entries(r, s)' : e \in Entries(r, s) \/ e = NotReady
    BY <1>1 DEF Entries
  <1>5. GoneInv'
    BY <1>1 DEF GoneInv
  <1>6. ReplyInv'
    BY <1>1, <1>2 DEF ReplyInv, TypeOK
  <1> QED BY <1>1, <1>3, <1>4, <1>5, <1>6, ProxyStep

(* The table of a proxy is emptied.                                        *)
LEMMA EmptiedEntries ==
    ASSUME TypeOK, NEW p \in Proxies,
           table' = [table EXCEPT ![p] = [s \in Slots |-> NotReady]],
           queue' = [queue EXCEPT ![p] = << >>]
    PROVE  /\ table' \in [Proxies -> [Slots -> Entry]]
           /\ queue' \in [Proxies -> Seq(Fills)]
           /\ \A r \in Proxies, s \in Slots : \A e \in Entries(r, s)' : e \in Entries(r, s) \/ e = NotReady
  <1>1. NotReady \in Entry
    BY DEF NotReady, Entry, Addrs
  <1>2. table' \in [Proxies -> [Slots -> Entry]] /\ queue' \in [Proxies -> Seq(Fills)]
    BY <1>1 DEF TypeOK
  <1>3. ASSUME NEW r \in Proxies, NEW s \in Slots, NEW e \in Entries(r, s)'
        PROVE  e \in Entries(r, s) \/ e = NotReady
    <2>1. CASE r = p
      <3>1. queue'[p] = << >> /\ table'[p][s] = NotReady
        BY DEF TypeOK
      <3> QED BY <2>1, <3>1, EntriesEmpty DEF Entries
    <2>2. CASE r # p
      BY <2>2 DEF Entries, TypeOK
    <2> QED BY <2>1, <2>2
  <1> QED BY <1>2, <1>3

(* A proxy restarts.                                                       *)
LEMMA RestartProxyStep ==
    ASSUME IInv, NEW p \in Proxies, RestartProxy(p)
    PROVE  IInv'
  <1> USE DEF IInv
  <1>1. UNCHANGED <<slots, order, group, proxy, op, disabled, round, plans, run>>
    BY DEF RestartProxy, storeVars, taskVars
  <1>2. /\ table' = [table EXCEPT ![p] = [s \in Slots |-> NotReady]]
        /\ queue' = [queue EXCEPT ![p] = << >>]
        /\ reply' = [reply EXCEPT ![p] = IF @ = "wait" THEN "err" ELSE @]
    BY DEF RestartProxy
  <1>3. TypeOK'
    BY <1>1, <1>2, EmptiedEntries DEF TypeOK
  <1>4. GoneInv'
    BY <1>1, <1>2 DEF GoneInv, TypeOK
  <1>5. ReplyInv'
    <2>1. \A r \in Proxies \ {p} : queue'[r] = queue[r] /\ reply'[r] = reply[r] /\ table'[r] = table[r]
      BY <1>2 DEF TypeOK
    <2>2. reply'[p] # "wait" /\ queue'[p] = << >> /\ \A s \in Slots : table'[p][s] = NotReady
      BY <1>2 DEF TypeOK
    <2>3. proxy \subseteq Proxies
      BY DEF TypeOK
    <2>4. op.pc \in {"slotSync", "groupSync", "resyncSync"} => DOMAIN op.fill \subseteq Slots
      BY FillDomain DEF TypeOK
    <2> QED BY <1>1, <2>1, <2>2, <2>3, <2>4 DEF ReplyInv
  <1> QED BY <1>1, <1>2, <1>3, <1>4, <1>5, EmptiedEntries, ProxyStep

-----------------------------------------------------------------------------
(* A handler returns: nothing is known of op any more.                     *)
LEMMA IdleInv ==
    ASSUME op' = Idle
    PROVE  SlotOpInv' /\ GroupOpInv' /\ ReplyInv'
  <1>1. op'.pc = "idle"
    BY DEF Idle
  <1> QED BY <1>1 DEF SlotOpInv, GroupOpInv, ReplyInv

(* The dashboard restarts: what it knew of its calls is gone, and not needed. *)
LEMMA RestartDashboardStep ==
    ASSUME IInv, RestartDashboard
    PROVE  IInv'
  <1> USE DEF IInv
  <1>1. PICK lost \in SUBSET Proxies : queue' = Drop(lost)
    BY DEF RestartDashboard
  <1>2. UNCHANGED <<slots, order, group, proxy, table>> /\ op' = Idle
    BY DEF RestartDashboard, storeVars
  <1>3. TypeOK'
    <2>1. op'.pc = "idle"
      BY <1>2 DEF Idle
    <2>2. /\ disabled' = FALSE /\ round' = "plan" /\ plans' = {}
          /\ run' = [s \in Slots |-> "none"]
          /\ reply' = [p \in Proxies |-> "ok"]
      BY DEF RestartDashboard
    <2>3. queue' \in [Proxies -> Seq(Fills)]
      BY <1>1, DropType
    <2> QED BY <1>2, <2>1, <2>2, <2>3 DEF TypeOK
  <1>4. GoneInv'
    BY <1>1, <1>2, DropType DEF GoneInv
  <1>5. GroupsInUse' /\ GroupInv'
    BY <1>2 DEF GroupsInUse, GroupInv
  <1>6. EntriesInv'
    BY <1>1, <1>2, DropEntries DEF EntriesInv
  <1> QED BY <1>2, <1>3, <1>4, <1>5, <1>6, IdleInv

(* A step that touches neither the mappings, the groups nor the proxies.   *)
LEMMA TaskStep ==
    ASSUME IInv, TypeOK', UNCHANGED <<slots, group, proxy, op, proxyVars>>
    PROVE  IInv'
  <1> USE DEF IInv, proxyVars
  <1>1. \A r \in Proxies, s \in Slots : \A e \in Entries(r, s)' : e \in Entries(r, s) \/ e = NotReady
    BY DEF Entries
  <1>2. GoneInv' /\ ReplyInv'
    BY DEF GoneInv, ReplyInv
  <1> QED BY <1>1, <1>2, ProxyStep

(* The migration loop does not touch what the invariant relates.           *)
LEMMA LoopStep ==
    ASSUME IInv,
           \/ RunPlans \/ RoundEnds \/ SetSlotActionDisabled
           \/ \E s \in Slots : newSlotActionExecutor(s) \/ ExecutorReturns(s)
    PROVE  IInv'
  <1>1. UNCHANGED <<slots, order, group, proxy, op, proxyVars>>
    BY DEF RunPlans, RoundEnds, SetSlotActionDisabled, newSlotActionExecutor, ExecutorReturns, storeVars
  <1>2. TypeOK
    BY DEF IInv
  <1> DEFINE TaskTypes == /\ run' \in [Slots -> {"none", "ready", "exec", "done"}]
                          /\ round' \in {"plan", "run"}
                          /\ plans' \subseteq Slots
                          /\ disabled' \in BOOLEAN
  <1>3. TaskTypes
    <2>1. CASE RunPlans
      BY <1>2, <2>1 DEF TypeOK, RunPlans
    <2>2. CASE RoundEnds
      BY <1>2, <2>2 DEF TypeOK, RoundEnds
    <2>3. CASE SetSlotActionDisabled
      BY <1>2, <2>3 DEF TypeOK, SetSlotActionDisabled
    <2>4. ASSUME NEW s \in Slots, newSlotActionExecutor(s) PROVE TaskTypes
      BY <1>2, <2>4 DEF TypeOK, newSlotActionExecutor
    <2>5. ASSUME NEW s \in Slots, ExecutorReturns(s) PROVE TaskTypes
      BY <1>2, <2>5 DEF TypeOK, ExecutorReturns
    <2> QED BY <2>1, <2>2, <2>3, <2>4, <2>5
  <1>4. TypeOK'
    BY <1>1, <1>2, <1>3 DEF TypeOK, proxyVars
  <1> QED BY <1>1, <1>4, TaskStep

(* A handler that makes no call ends: only its store write matters.        *)
LEMMA StoreStep ==
    ASSUME IInv, op' = Idle, UNCHANGED <<proxy, table, queue>>,
           TypeOK', GroupsInUse', GroupInv',
           \A p \in Proxies, s \in Slots : \A e \in Entries(p, s) : Good(slots'[s], group', e)
    PROVE  IInv'
  <1>1. EntriesInv'
    BY DEF EntriesInv, Entries
  <1>2. GoneInv'
    BY DEF IInv, GoneInv
  <1> QED BY <1>1, <1>2, IdleInv DEF IInv

(* The order of actions stays a sequence of slots.                         *)
LEMMA WithoutType ==
    ASSUME TypeOK, NEW s \in Slots
    PROVE  Without(s) \in Seq(Slots)
  <1> DEFINE at == {i \in DOMAIN order : order[i] = s}
             j  == CHOOSE i \in at : TRUE
  <1>1. order \in Seq(Slots)
    BY DEF TypeOK
  <1>2. CASE at = {}
    BY <1>1, <1>2 DEF Without
  <1>3. CASE at # {}
    <2>1. j \in DOMAIN order
      BY <1>3
    <2> HIDE DEF j
    <2>2. SubSeq(order, 1, j - 1) \o SubSeq(order, j + 1, Len(order)) \in Seq(Slots)
      BY <1>1, <2>1
    <2> QED BY <1>3, <2>2 DEF Without, j
  <1> QED BY <1>2, <1>3

-----------------------------------------------------------------------------
(* Handlers that only write the store.                                     *)

(* SlotCreateAction: the target has a master and is not the source.        *)
LEMMA SlotCreateActionStep ==
    ASSUME IInv, NEW s \in Slots, NEW g \in Groups, SlotCreateAction(s, g)
    PROVE  IInv'
  <1> USE DEF IInv
  <1> DEFINE m == [slots[s] EXCEPT !.state = "pending", !.target = g]
  <1>1. /\ UNCHANGED <<group, proxy, op, disabled, round, plans, run, table, queue, reply>>
        /\ op' = Idle
        /\ slots' = [slots EXCEPT ![s] = m]
        /\ order' = Append(order, s)
        /\ slots[s].state = "nothing" /\ slots[s].group # g /\ group[g].master # NoAddr
    BY DEF SlotCreateAction, taskVars, proxyVars, TypeOK
  <1>2. slots[s] \in Mapping /\ m \in Mapping
    BY DEF TypeOK, Mapping, ActionStates
  <1>3. TypeOK'
    <2>1. order' \in Seq(Slots)
      BY <1>1 DEF TypeOK
    <2>2. slots' \in [Slots -> Mapping]
      BY <1>1, <1>2 DEF TypeOK
    <2> HIDE DEF m
    <2> QED BY <1>1, <2>1, <2>2 DEF TypeOK
  <1>4. GroupsInUse'
    <2>1. m.group = slots[s].group /\ m.state = "pending" /\ m.target = g
      BY <1>2 DEF Mapping
    <2> HIDE DEF m
    <2> QED BY <1>1, <1>2, <2>1 DEF GroupsInUse, GroupInv, TypeOK
  <1>5. GroupInv'
    BY <1>1 DEF GroupInv
  <1>6. \A p \in Proxies, t \in Slots : \A e \in Entries(p, t) : Good(slots'[t], group', e)
    <2> SUFFICES ASSUME NEW p \in Proxies, NEW t \in Slots, NEW e \in Entries(p, t)
                 PROVE  Good(slots'[t], group', e)
      OBVIOUS
    <2>1. Good(slots[t], group, e) /\ e \in Entry
      BY EntryType DEF EntriesInv
    <2>2. CASE t = s
      <3>1. Good(m, group, e)
        BY <1>1, <1>2, <2>1, <2>2, GoodPending DEF TypeOK
      <3> QED BY <1>1, <2>2, <3>1 DEF TypeOK
    <2>3. CASE t # s
      BY <1>1, <2>1, <2>3 DEF TypeOK
    <2> QED BY <2>2, <2>3
  <1> QED BY <1>1, <1>3, <1>4, <1>5, <1>6, StoreStep

(* SlotRemoveAction.                                                       *)
LEMMA SlotRemoveActionStep ==
    ASSUME IInv, NEW s \in Slots, SlotRemoveAction(s)
    PROVE  IInv'
  <1> USE DEF IInv
  <1> DEFINE m == [Offline EXCEPT !.group = slots[s].group]
  <1>1. /\ UNCHANGED <<group, proxy, op, disabled, round, plans, run, table, queue, reply>>
        /\ op' = Idle
        /\ slots' = [slots EXCEPT ![s] = m]
        /\ slots[s].state = "pending"
    BY DEF SlotRemoveAction, WriteSlot, taskVars, proxyVars, TypeOK
  <1>2. slots[s] \in Mapping /\ m \in Mapping
    BY DEF TypeOK, Mapping, ActionStates, Offline
  <1>3. TypeOK'
    <2>1. order' \in Seq(Slots)
      BY WithoutType DEF TypeOK, SlotRemoveAction, WriteSlot
    <2>2. slots' \in [Slots -> Mapping]
      BY <1>1, <1>2 DEF TypeOK
    <2> HIDE DEF m
    <2> QED BY <1>1, <2>1, <2>2 DEF TypeOK
  <1>4. GroupsInUse'
    <2>1. m.group = slots[s].group /\ m.state = "nothing"
      BY DEF Offline
    <2> HIDE DEF m
    <2> QED BY <1>1, <1>2, <2>1 DEF GroupsInUse, TypeOK
  <1>5. GroupInv'
    BY <1>1 DEF GroupInv
  <1>6. \A p \in Proxies, t \in Slots : \A e \in Entries(p, t) : Good(slots'[t], group', e)
    <2> SUFFICES ASSUME NEW p \in Proxies, NEW t \in Slots, NEW e \in Entries(p, t)
                 PROVE  Good(slots'[t], group', e)
      OBVIOUS
    <2>1. Good(slots[t], group, e) /\ e \in Entry
      BY EntryType DEF EntriesInv
    <2>2. CASE t = s
      <3>1. Good(m, group, e)
        BY <1>1, <1>2, <2>1, <2>2, GoodRemoved DEF TypeOK
      <3> QED BY <1>1, <2>2, <3>1 DEF TypeOK
    <2>3. CASE t # s
      BY <1>1, <2>1, <2>3 DEF TypeOK
    <2> QED BY <2>2, <2>3
  <1> QED BY <1>1, <1>3, <1>4, <1>5, <1>6, StoreStep

(* A group is written: the groups in use keep a master.                    *)
LEMMA GroupWrite ==
    ASSUME IInv, NEW g \in Groups, NEW rec \in Group, WriteGroup(g, rec),
           rec.master # NoAddr => rec.exists,
           rec.replicas # {} => rec.master # NoAddr,
           rec.state # "nothing" => rec.cand # NoAddr /\ rec.master # NoAddr,
           group[g].exists /\ group[g].master # NoAddr =>
               (rec.exists /\ rec.master # NoAddr) \/ ~ isGroupInUse(g)
    PROVE  group' \in [Groups -> Group] /\ GroupInv' /\ GroupsInUse'
  <1> USE DEF IInv
  <1>1. group' = [group EXCEPT ![g] = rec] /\ UNCHANGED <<slots, order, proxy>>
    BY DEF WriteGroup
  <1>2. group' \in [Groups -> Group]
    BY <1>1 DEF TypeOK
  <1>3. GroupInv'
    BY <1>1 DEF GroupInv, TypeOK
  <1>4. GroupsInUse'
    <2> SUFFICES ASSUME NEW s \in Slots
                 PROVE  /\ slots[s].group # NoGroup =>
                              group'[slots[s].group].exists /\ group'[slots[s].group].master # NoAddr
                        /\ slots[s].state # "nothing" =>
                              /\ slots[s].target \in Groups \ {slots[s].group}
                              /\ group'[slots[s].target].exists /\ group'[slots[s].target].master # NoAddr
      BY <1>1 DEF GroupsInUse
    <2>1. slots[s] \in Mapping
      BY DEF TypeOK
    <2>2. /\ slots[s].group # NoGroup =>
                slots[s].group \in Groups /\ group[slots[s].group].exists /\ group[slots[s].group].master # NoAddr
          /\ slots[s].state # "nothing" =>
                /\ slots[s].target \in Groups \ {slots[s].group}
                /\ group[slots[s].target].exists /\ group[slots[s].target].master # NoAddr
      BY <2>1 DEF GroupsInUse, Mapping
    <2>3. \A h \in Groups \ {g} : group'[h] = group[h]
      BY <1>1 DEF TypeOK
    <2>4. group'[g] = rec
      BY <1>1 DEF TypeOK
    <2>5. g \in {slots[s].group, slots[s].target} /\ group[g].exists /\ group[g].master # NoAddr
          => rec.exists /\ rec.master # NoAddr
      BY DEF isGroupInUse
    <2> QED BY <2>2, <2>3, <2>4, <2>5
  <1> QED BY <1>2, <1>3, <1>4

(* A handler without calls that writes a group.                            *)
LEMMA GroupStep ==
    ASSUME IInv, NEW g \in Groups, NEW rec \in Group, WriteGroup(g, rec),
           op' = Idle, UNCHANGED <<taskVars, table, queue>>,
           reply' \in [Proxies -> {"wait", "ok", "err"}],
           group' \in [Groups -> Group] /\ GroupInv' /\ GroupsInUse',
           \A p \in Proxies, s \in Slots : \A e \in Entries(p, s) : Good(slots[s], group', e)
    PROVE  IInv'
  <1>1. op'.pc = "idle"
    BY DEF Idle
  <1>2. UNCHANGED <<slots, order, proxy>>
    BY DEF WriteGroup
  <1>3. TypeOK'
    BY <1>1, <1>2 DEF IInv, TypeOK, taskVars
  <1> QED BY <1>2, <1>3, StoreStep

(* A write that keeps the master of a group keeps its entries good.        *)
LEMMA KeepMaster ==
    ASSUME IInv, NEW g \in Groups, NEW rec \in Group, WriteGroup(g, rec),
           rec.master = group[g].master,
           rec.state # "prepared" \/ group[g].state = "prepared",
           (group[g].oos => rec.oos) \/ \A s \in Slots : slots[s].group = g => InSync(s)
    PROVE  \A p \in Proxies, s \in Slots : \A e \in Entries(p, s) : Good(slots[s], group', e)
  <1> SUFFICES ASSUME NEW p \in Proxies, NEW s \in Slots, NEW e \in Entries(p, s)
               PROVE  Good(slots[s], group', e)
    OBVIOUS
  <1>1. Good(slots[s], group, e) /\ e \in Entry
    BY EntryType DEF IInv, EntriesInv
  <1>2. slots[s] \in Mapping /\ group \in [Groups -> Group]
    BY DEF IInv, TypeOK
  <1>3. (group[g].oos => rec.oos) \/ slots[s].group # g \/ Exact(slots[s], group, e)
    BY DEF InSync
  <1> QED BY <1>1, <1>2, <1>3, GoodGroup DEF WriteGroup

(* So does any write of a group that no slot uses.                         *)
LEMMA UnusedGroup ==
    ASSUME TopologyAssumption, IInv, NEW g \in Groups, NEW rec \in Group, WriteGroup(g, rec),
           group[g].master = NoAddr \/ ~ isGroupInUse(g)
    PROVE  \A p \in Proxies, s \in Slots : \A e \in Entries(p, s) : Good(slots[s], group', e)
  <1> SUFFICES ASSUME NEW p \in Proxies, NEW s \in Slots, NEW e \in Entries(p, s)
               PROVE  Good(slots[s], group', e)
    OBVIOUS
  <1>1. Good(slots[s], group, e) /\ e \in Entry
    BY EntryType DEF IInv, EntriesInv
  <1>2. slots[s] \in Mapping /\ group \in [Groups -> Group]
    BY DEF IInv, TypeOK
  <1>3. ~ Concerned(slots[s], g) /\ slots[s].group # g
    <2>1. CASE ~ isGroupInUse(g)
      BY <1>2, <2>1 DEF isGroupInUse, Concerned, OwnerGroup
    <2>2. CASE group[g].master = NoAddr
      BY <1>2, <2>2 DEF IInv, GroupsInUse, Concerned, OwnerGroup, Mapping, TopologyAssumption
    <2> QED BY <2>1, <2>2
  <1> QED BY <1>1, <1>2, <1>3, GoodGroup DEF WriteGroup

(* CreateGroup and RemoveGroup deal with groups without servers.           *)
LEMMA GroupEmptyStep ==
    ASSUME TopologyAssumption, IInv, NEW g \in Groups, CreateGroup(g) \/ RemoveGroup(g)
    PROVE  IInv'
  <1> USE DEF IInv
  <1>2. UNCHANGED <<taskVars, table, queue, reply>> /\ op' = Idle
    BY DEF CreateGroup, RemoveGroup, proxyVars
  <1>3. reply' \in [Proxies -> {"wait", "ok", "err"}]
    BY <1>2 DEF TypeOK
  <1>4. group[g].master # NoAddr => group[g].exists
    BY DEF GroupInv
  <1>5. CASE CreateGroup(g)
    <2> DEFINE rec == [NoServer EXCEPT !.exists = TRUE]
    <2>1. rec \in Group /\ rec.exists /\ rec.master = NoAddr /\ rec.replicas = {} /\ rec.state = "nothing"
      BY DEF NoServer, Group, PromoteStates, Addrs
    <2>2. WriteGroup(g, rec) /\ group[g].master = NoAddr
      BY <1>4, <1>5 DEF CreateGroup
    <2> HIDE DEF rec
    <2> QED BY <1>2, <1>3, <2>1, <2>2, GroupWrite, UnusedGroup, GroupStep
  <1>6. CASE RemoveGroup(g)
    <2> DEFINE rec == NoServer
    <2>1. rec \in Group /\ rec.master = NoAddr /\ rec.replicas = {} /\ rec.state = "nothing"
      BY DEF NoServer, Group, PromoteStates, Addrs
    <2>2. WriteGroup(g, rec) /\ group[g].master = NoAddr
      BY <1>6 DEF RemoveGroup
    <2> HIDE DEF rec
    <2> QED BY <1>2, <1>3, <2>1, <2>2, GroupWrite, UnusedGroup, GroupStep
  <1> QED BY <1>5, <1>6

(* GroupAddServer and GroupDelServer.                                      *)
LEMMA GroupOpsStep ==
    ASSUME TopologyAssumption, IInv, NEW g \in Groups, NEW a \in Servers,
           GroupAddServer(g, a) \/ GroupDelServer(g, a)
    PROVE  IInv'
  <1> USE DEF IInv
  <1>1. group[g] \in Group
    BY DEF TypeOK
  <1>2. UNCHANGED <<taskVars, table, queue, reply>> /\ op' = Idle
    BY DEF GroupAddServer, GroupDelServer, proxyVars
  <1>3. reply' \in [Proxies -> {"wait", "ok", "err"}]
    BY <1>2 DEF TypeOK
  <1>4. /\ group[g].master # NoAddr => group[g].exists
        /\ group[g].replicas # {} => group[g].master # NoAddr
        /\ group[g].state # "nothing" => group[g].cand # NoAddr /\ group[g].master # NoAddr
    BY DEF GroupInv
  <1>7. CASE GroupAddServer(g, a)
    <2>1. CASE group[g].master = NoAddr
      <3> DEFINE rec == [group[g] EXCEPT !.master = a]
      <3>1. rec \in Group /\ rec.exists /\ rec.master = a /\ rec.state = "nothing"
        BY <1>1, <1>7 DEF GroupAddServer, Group, Addrs
      <3>2. WriteGroup(g, rec) /\ a # NoAddr
        BY <1>7, <2>1 DEF GroupAddServer, TopologyAssumption
      <3> HIDE DEF rec
      <3> QED BY <1>2, <1>3, <2>1, <3>1, <3>2, GroupWrite, UnusedGroup, GroupStep
    <2>2. CASE group[g].master # NoAddr
      <3> DEFINE rec == [group[g] EXCEPT !.replicas = @ \cup {a}]
      <3>1. rec \in Group /\ rec.exists /\ rec.master = group[g].master /\ rec.state = "nothing"
            /\ rec.oos = group[g].oos
        BY <1>1, <1>7 DEF GroupAddServer, Group, Addrs
      <3>2. WriteGroup(g, rec)
        BY <1>7, <2>2 DEF GroupAddServer
      <3> HIDE DEF rec
      <3> QED BY <1>2, <1>3, <2>2, <3>1, <3>2, GroupWrite, KeepMaster, GroupStep
    <2> QED BY <2>1, <2>2
  <1>8. CASE GroupDelServer(g, a)
    <2>1. CASE a \in group[g].replicas /\ WriteGroup(g, [group[g] EXCEPT !.replicas = @ \ {a}])
      <3> DEFINE rec == [group[g] EXCEPT !.replicas = @ \ {a}]
      <3>1. rec \in Group /\ rec.master = group[g].master /\ rec.exists = group[g].exists /\ rec.state = "nothing"
            /\ rec.oos = group[g].oos
        BY <1>1, <1>8 DEF GroupDelServer, Group, Addrs
      <3>2. WriteGroup(g, rec) /\ group[g].master # NoAddr
        BY <1>4, <2>1
      <3> HIDE DEF rec
      <3> QED BY <1>2, <1>3, <1>4, <3>1, <3>2, GroupWrite, KeepMaster, GroupStep
    <2>2. CASE /\ group[g].replicas = {} /\ ~ isGroupInUse(g)
               /\ WriteGroup(g, [group[g] EXCEPT !.master = NoAddr, !.oos = FALSE])
      <3> DEFINE rec == [group[g] EXCEPT !.master = NoAddr, !.oos = FALSE]
      <3>1. rec \in Group /\ rec.master = NoAddr /\ rec.state = "nothing" /\ rec.replicas = {}
        BY <1>1, <1>8, <2>2 DEF GroupDelServer, Group, Addrs
      <3>2. WriteGroup(g, rec)
        BY <2>2
      <3> HIDE DEF rec
      <3> QED BY <1>2, <1>3, <2>2, <3>1, <3>2, GroupWrite, UnusedGroup, GroupStep
    <2> QED BY <1>8, <2>1, <2>2 DEF GroupDelServer
  <1> QED BY <1>7, <1>8

-----------------------------------------------------------------------------
(* Proxies are registered and removed.                                     *)

(* What resyncSlotMappings sends when it works from the store.             *)
LEMMA FillFromStore ==
    ASSUME TypeOK, NEW S \in SUBSET Slots, NEW grp \in [Groups -> Group]
    PROVE  [s \in S |-> toSlot(slots[s], grp)] \in Fills
  <1>1. \A s \in S : toSlot(slots[s], grp) \in Entry
    BY ToSlotType DEF TypeOK
  <1>2. [s \in S |-> toSlot(slots[s], grp)] \in [S -> Entry]
    BY <1>1
  <1> QED BY <1>2, FillType

(* A proxy is registered and sent what the store holds.                    *)
LEMMA OnlineProxyStep ==
    ASSUME IInv, NEW p \in Proxies, OnlineProxy(p)
    PROVE  IInv'
  <1> USE DEF IInv
  <1> DEFINE fill == [s \in Slots |-> toSlot(slots[s], group)]
  <1>1. fill \in Fills
    BY FillFromStore DEF TypeOK
  <1>2. Send({p}, fill)
    BY DEF OnlineProxy
  <1>3. UNCHANGED <<slots, order, group, disabled, round, plans, run>> /\ proxy' = proxy \cup {p}
    BY DEF OnlineProxy, taskVars
  <1>4. op' = [pc |-> "initSync", fill |-> fill]
    BY DEF OnlineProxy
  <1>5. op'.pc = "initSync" /\ op'.fill = fill
    BY <1>4
  <1>6. \A s \in Slots : Good(slots[s], group, fill[s])
    BY GoodToSlot DEF TypeOK
  <1> HIDE DEF fill
  <1>7. /\ table' = table
        /\ queue' \in [Proxies -> Seq(Fills)]
        /\ reply' \in [Proxies -> {"wait", "ok", "err"}]
        /\ \A r \in Proxies \ {p} : queue'[r] = queue[r]
        /\ Adds(fill)
    <2> DEFINE ps == {p}
    <2>1. ps \in SUBSET Proxies /\ Send(ps, fill) /\ TypeOK
      BY <1>2
    <2>2. \A r \in Proxies \ {p} : r \notin ps
      OBVIOUS
    <2> HIDE DEF ps, IInv
    <2> QED BY <1>1, <2>1, <2>2, SendEffect
  <1>8. TypeOK'
    BY <1>1, <1>3, <1>5, <1>7 DEF TypeOK
  <1>9. GroupsInUse' /\ GroupInv'
    BY <1>3 DEF GroupsInUse, GroupInv
  <1>10. GoneInv'
    BY <1>3, <1>7 DEF GoneInv
  <1>11. EntriesInv'
    BY <1>3, <1>6, <1>7 DEF EntriesInv, Adds
  <1>12. SlotOpInv' /\ GroupOpInv' /\ ReplyInv'
    BY <1>5 DEF SlotOpInv, GroupOpInv, ReplyInv
  <1> QED BY <1>8, <1>9, <1>10, <1>11, <1>12

(* A proxy is removed and its process is gone.                             *)
LEMMA RemoveProxyStep ==
    ASSUME IInv, NEW p \in Proxies, RemoveProxy(p)
    PROVE  IInv'
  <1> USE DEF IInv
  <1>1. UNCHANGED <<slots, order, group, op, disabled, round, plans, run, reply>> /\ op' = Idle
    BY DEF RemoveProxy, taskVars
  <1>2. /\ table' = [table EXCEPT ![p] = [s \in Slots |-> NotReady]]
        /\ queue' = [queue EXCEPT ![p] = << >>]
        /\ proxy' = proxy \ {p}
    BY DEF RemoveProxy
  <1>3. TypeOK'
    BY <1>1, <1>2, EmptiedEntries DEF TypeOK
  <1>4. GoneInv'
    BY <1>1, <1>2 DEF GoneInv, TypeOK
  <1>5. GroupsInUse' /\ GroupInv'
    BY <1>1 DEF GroupsInUse, GroupInv
  <1>6. EntriesInv'
    <2>1. \A s \in Slots : Good(slots'[s], group', NotReady)
      BY NotReadyIsGood
    <2>2. \A r \in Proxies, s \in Slots : \A e \in Entries(r, s)' : Good(slots'[s], group', e)
      BY <1>1, <1>2, <2>1, EmptiedEntries DEF EntriesInv
    <2> QED BY <2>2 DEF EntriesInv
  <1> QED BY <1>1, <1>3, <1>4, <1>5, <1>6, IdleInv

-----------------------------------------------------------------------------
(* A handler returns and leaves the store alone.                           *)
LEMMA ReturnStep ==
    ASSUME IInv, Return, UNCHANGED storeVars,
           disabled' = disabled, round' = round, plans' \subseteq Slots,
           run' \in [Slots -> {"none", "ready", "exec", "done"}]
    PROVE  IInv'
  <1> USE DEF IInv
  <1>1. op' = Idle /\ UNCHANGED <<slots, order, group, proxy, table, queue>>
    BY DEF Return, storeVars
  <1>2. op'.pc = "idle"
    BY <1>1 DEF Idle
  <1>3. reply' \in [Proxies -> {"wait", "ok", "err"}]
    BY DEF Return
  <1>4. TypeOK'
    BY <1>1, <1>2, <1>3 DEF TypeOK
  <1>5. GroupsInUse' /\ GroupInv'
    BY <1>1 DEF GroupsInUse, GroupInv
  <1> QED BY <1>1, <1>4, <1>5, StoreStep DEF EntriesInv

(* A handler writes a mapping and returns.                                 *)
LEMMA SlotReturn ==
    ASSUME IInv, Return, UNCHANGED <<group, proxy>>,
           disabled' = disabled, round' = round, plans' \subseteq Slots,
           run' \in [Slots -> {"none", "ready", "exec", "done"}],
           slots' \in [Slots -> Mapping], order' \in Seq(Slots), GroupsInUse',
           \A p \in Proxies, t \in Slots : \A e \in Entries(p, t) : Good(slots'[t], group, e)
    PROVE  IInv'
  <1> USE DEF IInv
  <1>1. op' = Idle /\ UNCHANGED <<table, queue>>
    BY DEF Return
  <1>2. op'.pc = "idle"
    BY <1>1 DEF Idle
  <1>3. reply' \in [Proxies -> {"wait", "ok", "err"}]
    BY DEF Return
  <1>4. TypeOK'
    BY <1>1, <1>2, <1>3 DEF TypeOK
  <1>5. GroupInv'
    BY DEF GroupInv
  <1> QED BY <1>1, <1>4, <1>5, StoreStep

(* The tasks of the loop when a handler returns.                           *)
LEMMA ReturnTypes ==
    ASSUME TypeOK, NEW s \in Slots, NEW m,
           PrepareFails \/ CompleteReturns(s) \/ PrepareReturns(s) \/ SlotFails(s, m)
    PROVE  /\ Return
           /\ disabled' = disabled /\ round' = round /\ plans' \subseteq Slots
           /\ run' \in [Slots -> {"none", "ready", "exec", "done"}]
  BY DEF TypeOK, PrepareFails, CompleteReturns, PrepareReturns, SlotFails

(* Handlers that return without a write.                                   *)
LEMMA PlainReturns ==
    ASSUME IInv,
           OnlineProxyDone \/ AssignDone \/ GroupRollbackDone \/ SlotRollbackDone
    PROVE  IInv'
  <1>1. /\ Return /\ UNCHANGED storeVars
        /\ disabled' = disabled /\ round' = round /\ plans' \subseteq Slots
        /\ run' \in [Slots -> {"none", "ready", "exec", "done"}]
    BY DEF IInv, TypeOK, OnlineProxyDone, AssignDone, GroupRollbackDone, SlotRollbackDone, PrepareFails, taskVars
  <1> QED BY <1>1, ReturnStep

-----------------------------------------------------------------------------
(* The handlers of slot actions.                                           *)

(* A resync of all proxies establishes what ReplyInv says of it.           *)
LEMMA SyncEffect ==
    ASSUME IInv, NEW f \in Fills, Send(proxy, f), proxy' = proxy, op'.fill = f
    PROVE  /\ table' = table
           /\ queue' \in [Proxies -> Seq(Fills)]
           /\ reply' \in [Proxies -> {"wait", "ok", "err"}]
           /\ Adds(f) /\ GoneInv' /\ ReplyInv'
  <1>1. PICK ps \in SUBSET Proxies : ps = proxy
    BY DEF IInv, TypeOK
  <1>2. TypeOK /\ Send(ps, f)
    BY <1>1 DEF IInv
  <1>3. table' = table /\ Adds(f)
    BY <1>2, SendEffect
  <1>4. /\ queue' \in [Proxies -> Seq(Fills)]
        /\ reply' \in [Proxies -> {"wait", "ok", "err"}]
    BY <1>2, SendEffect
  <1>5. \A p \in Proxies \ ps : queue'[p] = queue[p]
    BY <1>2, SendEffect
  <1>6. DOMAIN f # {} => \A p \in ps : reply'[p] = "wait" /\ EndsWith(queue'[p], f)
    BY <1>2, SendEffect
  <1>7. GoneInv'
    BY <1>1, <1>3, <1>5 DEF IInv, GoneInv
  <1>8. ReplyInv'
    BY <1>1, <1>6 DEF ReplyInv
  <1> QED BY <1>3, <1>4, <1>7, <1>8

(* A handler writes the store and goes on with the calls for its slot.     *)
LEMMA SlotSyncStep ==
    ASSUME IInv, NEW s \in Slots, NEW m \in Mapping,
           NEW pc \in {"slotSync", "slotRollback", "assignSync"}, SlotSync(pc, s, m),
           UNCHANGED <<group, proxy, taskVars>>,
           slots' \in [Slots -> Mapping], order' \in Seq(Slots), GroupsInUse',
           \A p \in Proxies, t \in Slots : \A e \in Entries(p, t) : Good(slots'[t], group, e),
           Good(slots'[s], group, toSlot(m, group)),
           pc = "slotSync" =>
              \/ m.state = "prepared"  /\ slots'[s] = [m EXCEPT !.state = "preparing"]
              \/ m.state = "migrating" /\ slots'[s] = [m EXCEPT !.state = "prepared"]
              \/ m.state = "finished"  /\ slots'[s] = m
    PROVE  IInv'
  <1> DEFINE f == [t \in {s} |-> toSlot(m, group)]
  <1>1. f \in Fills
    <2>1. toSlot(m, group) \in Entry
      BY ToSlotType DEF IInv, TypeOK
    <2>2. f \in [{s} -> Entry] /\ {s} \in SUBSET Slots
      BY <2>1
    <2> QED BY <2>2, FillType
  <1>2. op' = [pc |-> pc, sid |-> s, m |-> m, fill |-> f] /\ Send(proxy, f)
    BY DEF SlotSync
  <1>3. op'.pc = pc /\ op'.sid = s /\ op'.m = m /\ op'.fill = f
    BY <1>2
  <1>4. DOMAIN f = {s} /\ f[s] = toSlot(m, group)
    OBVIOUS
  <1>5. SlotOpInv'
    <2>1. op'.fill = [t \in {op'.sid} |-> toSlot(op'.m, group')]
      BY <1>3
    <2> QED BY <1>3, <2>1 DEF SlotOpInv
  <1> HIDE DEF f
  <1>6. /\ table' = table
        /\ queue' \in [Proxies -> Seq(Fills)]
        /\ reply' \in [Proxies -> {"wait", "ok", "err"}]
        /\ Adds(f) /\ GoneInv' /\ ReplyInv'
    BY <1>1, <1>2, <1>3, SyncEffect
  <1>7. TypeOK'
    BY <1>1, <1>3, <1>6 DEF IInv, TypeOK, taskVars
  <1>8. GroupInv'
    BY DEF IInv, GroupInv
  <1>9. EntriesInv'
    BY <1>4, <1>6, GoodEntries
  <1>10. GroupOpInv'
    BY <1>3 DEF GroupOpInv
  <1> QED BY <1>5, <1>6, <1>7, <1>8, <1>9, <1>10 DEF IInv

(* A handler is about to write the mapping of its slot.                    *)
LEMMA SlotStoreStep ==
    ASSUME IInv, NEW s \in Slots, NEW m \in Mapping, SlotStore(s, m),
           UNCHANGED <<storeVars, taskVars>>,
           \/ m.state = "preparing" /\ slots[s] = [m EXCEPT !.state = "pending"]
           \/ m.state = "prepared"  /\ slots[s] = [m EXCEPT !.state = "preparing"] /\ Parked(s)
           \/ m.state = "migrating" /\ slots[s] = [m EXCEPT !.state = "prepared"]
           \/ m.state = "finished"  /\ slots[s] = [m EXCEPT !.state = "migrating"]
           \/ m = [Offline EXCEPT !.group = slots[s].target] /\ slots[s].state = "finished" /\ Drained(s)
    PROVE  IInv'
  <1> USE DEF storeVars, taskVars, proxyVars
  <1>1. op' = [pc |-> "slotStore", sid |-> s, m |-> m] /\ UNCHANGED <<table, queue, reply>>
    BY DEF SlotStore
  <1>2. op'.pc = "slotStore" /\ op'.sid = s /\ op'.m = m
    BY <1>1
  <1>3. TypeOK'
    BY <1>1, <1>2 DEF IInv, TypeOK
  <1>4. GroupsInUse' /\ GroupInv' /\ GoneInv'
    BY <1>1 DEF IInv, GroupsInUse, GroupInv, GoneInv
  <1>5. EntriesInv'
    BY <1>1 DEF IInv, EntriesInv, Entries
  <1>6. Parked(s) => Parked(s)'
    BY <1>1 DEF Parked, Entries
  <1>7. Drained(s) => Drained(s)'
    BY <1>1 DEF Drained, Entries
  <1>8. SlotOpInv'
    BY <1>2, <1>6, <1>7 DEF SlotOpInv
  <1>9. GroupOpInv' /\ ReplyInv'
    BY <1>2 DEF GroupOpInv, ReplyInv
  <1> QED BY <1>3, <1>4, <1>5, <1>8, <1>9 DEF IInv

(* The write of a slot action keeps every entry good.                      *)
LEMMA SlotWrite ==
    ASSUME IInv, op.pc = "slotStore", WriteSlot(op.sid, op.m)
    PROVE  /\ slots' \in [Slots -> Mapping] /\ order' \in Seq(Slots)
           /\ slots'[op.sid] = op.m
           /\ UNCHANGED <<group, proxy>>
           /\ GroupsInUse'
           /\ \A p \in Proxies, t \in Slots : \A e \in Entries(p, t) : Good(slots'[t], group, e)
  <1> USE DEF IInv
  <1> DEFINE s == op.sid
             m == op.m
  <1>1. s \in Slots /\ m \in Mapping /\ slots[s] \in Mapping /\ slots \in [Slots -> Mapping]
    BY DEF TypeOK
  <1>2. slots' = [slots EXCEPT ![s] = m] /\ UNCHANGED <<group, proxy>>
    BY DEF WriteSlot
  <1>3. \/ m.state = "preparing" /\ slots[s] = [m EXCEPT !.state = "pending"]
        \/ m.state = "prepared"  /\ slots[s] = [m EXCEPT !.state = "preparing"] /\ Parked(s)
        \/ m.state = "migrating" /\ slots[s] = [m EXCEPT !.state = "prepared"]
        \/ m.state = "finished"  /\ slots[s] = [m EXCEPT !.state = "migrating"]
        \/ m = [Offline EXCEPT !.group = slots[s].target] /\ slots[s].state = "finished" /\ Drained(s)
    BY DEF SlotOpInv
  <1>4. order' \in Seq(Slots)
    BY <1>1, WithoutType DEF TypeOK, WriteSlot
  <1> HIDE DEF s, m
  <1>5. slots' \in [Slots -> Mapping] /\ slots'[s] = m /\ \A t \in Slots \ {s} : slots'[t] = slots[t]
    BY <1>1, <1>2
  <1>6. GroupsInUse'
    <2>1. CASE m.state # "nothing"
      <3>1. m.group = slots[s].group /\ m.target = slots[s].target /\ slots[s].state # "nothing"
        BY <1>1, <1>3, <2>1 DEF Mapping, Offline
      <3> QED BY <1>1, <1>2, <1>5, <2>1, <3>1 DEF GroupsInUse
    <2>2. CASE m.state = "nothing"
      <3>1. m.group = slots[s].target /\ slots[s].state # "nothing"
        BY <1>1, <1>3, <2>2 DEF Mapping, Offline
      <3> QED BY <1>1, <1>2, <1>5, <2>2, <3>1 DEF GroupsInUse
    <2> QED BY <2>1, <2>2
  <1>7. ASSUME NEW p \in Proxies, NEW t \in Slots, NEW e \in Entries(p, t)
        PROVE  Good(slots'[t], group, e)
    <2>1. Good(slots[t], group, e) /\ e \in Entry /\ group \in [Groups -> Group]
      BY EntryType DEF EntriesInv, TypeOK
    <2>2. CASE t # s
      BY <1>5, <2>1, <2>2
    <2>3. CASE t = s
      <3>1. Parked(s) => ~ Serving(e)
        BY <2>3 DEF Parked
      <3>2. Drained(s) => (Serving(e) => e.from = NoAddr)
        BY <2>3 DEF Drained
      <3>3. Good(m, group, e)
        <4>0. Excused(slots[s], group) \/ Exact(slots[s], group, e)
          BY <2>1, <2>3 DEF Good
        <4>1. CASE m.state = "preparing" /\ slots[s] = [m EXCEPT !.state = "pending"]
          <5>1. slots[s].state = "pending" /\ slots[s].group = m.group
            BY <1>1, <4>1 DEF Mapping
          <5>2. Excused(slots[s], group) => Excused(m, group)
            BY <4>1, <5>1 DEF Excused
          <5>3. Exact(slots[s], group, e) => Exact(m, group, e)
            BY <4>1, <5>1 DEF Exact, Concerned, OwnerGroup
          <5> QED BY <4>0, <5>2, <5>3 DEF Good
        <4>2. CASE m.state = "prepared" /\ slots[s] = [m EXCEPT !.state = "preparing"] /\ Parked(s)
          BY <3>1, <4>2, NotServingIsGood
        <4>3. CASE m.state = "migrating" /\ slots[s] = [m EXCEPT !.state = "prepared"]
          <5>1. slots[s].state = "prepared" /\ slots[s].group = m.group /\ slots[s].target = m.target
            BY <1>1, <4>3 DEF Mapping
          <5> QED BY <4>0, <4>3, <5>1 DEF Good, Excused, Exact, Concerned, OwnerGroup
        <4>4. CASE m.state = "finished" /\ slots[s] = [m EXCEPT !.state = "migrating"]
          <5>1. slots[s].state = "migrating" /\ slots[s].group = m.group /\ slots[s].target = m.target
            BY <1>1, <4>4 DEF Mapping
          <5> QED BY <4>0, <4>4, <5>1 DEF Good, Excused, Exact, Concerned, OwnerGroup
        <4>5. CASE m = [Offline EXCEPT !.group = slots[s].target] /\ slots[s].state = "finished" /\ Drained(s)
          <5>1. m.state = "nothing" /\ m.group = slots[s].target
            BY <4>5 DEF Offline
          <5> QED BY <3>2, <4>0, <4>5, <5>1 DEF Good, Excused, Exact, Concerned, OwnerGroup
        <4> QED BY <1>3, <4>1, <4>2, <4>3, <4>4, <4>5
      <3> QED BY <1>5, <2>3, <3>3
    <2> QED BY <2>2, <2>3
  <1> QED BY <1>2, <1>4, <1>5, <1>6, <1>7 DEF s, m

(* A locked entry is good, and so is the one of the next state of a move.  *)
LEMMA GoodAhead ==
    ASSUME NEW m \in Mapping, NEW grp \in [Groups -> Group]
    PROVE  /\ m.state = "prepared" => \A n : Good(n, grp, toSlot(m, grp))
           /\ m.state = "migrating" => Good([m EXCEPT !.state = "prepared"], grp, toSlot(m, grp))
  <1>1. m.state = "prepared" => \A n : Good(n, grp, toSlot(m, grp))
    <2>1. m.state = "prepared" => ~ Serving(toSlot(m, grp))
      BY DEF Serving, toSlot, isSlotLocked
    <2> QED BY <2>1, NotServingIsGood
  <1>2. Exact(m, grp, toSlot(m, grp))
    BY ExactToSlot
  <1>3. m.state = "migrating" => Good([m EXCEPT !.state = "prepared"], grp, toSlot(m, grp))
    <2> DEFINE n == [m EXCEPT !.state = "prepared"]
    <2>1. n.state = "prepared" /\ n.group = m.group /\ n.target = m.target
      BY DEF Mapping
    <2> HIDE DEF n
    <2>2. m.state = "migrating" => Exact(n, grp, toSlot(m, grp))
      BY <1>2, <2>1 DEF Exact, Concerned, OwnerGroup
    <2> QED BY <2>2 DEF Good, n
  <1> QED BY <1>1, <1>3

(* The write of a slot action succeeds and the handler goes on.            *)
LEMMA SlotStoreOkStep ==
    ASSUME IInv, SlotStoreOk
    PROVE  IInv'
  <1> DEFINE s == op.sid
             m == op.m
  <1>1. op.pc = "slotStore" /\ WriteSlot(s, m)
    BY DEF SlotStoreOk
  <1>2. s \in Slots /\ m \in Mapping /\ group \in [Groups -> Group]
    BY <1>1 DEF IInv, TypeOK
  <1>3. /\ slots' \in [Slots -> Mapping] /\ order' \in Seq(Slots)
        /\ slots'[s] = m
        /\ UNCHANGED <<group, proxy>>
        /\ GroupsInUse'
        /\ \A p \in Proxies, t \in Slots : \A e \in Entries(p, t) : Good(slots'[t], group, e)
    BY <1>1, SlotWrite
  <1> DEFINE m2 == [m EXCEPT !.state = "prepared"]
             m3 == [m EXCEPT !.state = "migrating"]
  <1>4. CASE m.state = "preparing" /\ SlotSync("slotSync", s, m2) /\ UNCHANGED taskVars
    <2>1. m2 \in Mapping /\ m2.state = "prepared" /\ m = [m2 EXCEPT !.state = "preparing"]
      BY <1>2, <1>4 DEF Mapping, ActionStates
    <2>2. Good(m, group, toSlot(m2, group))
      BY <1>2, <2>1, GoodAhead
    <2>3. SlotSync("slotSync", s, m2) /\ UNCHANGED taskVars
      BY <1>4
    <2> HIDE DEF s, m, m2
    <2> QED BY <1>2, <1>3, <2>1, <2>2, <2>3, SlotSyncStep
  <1>5. CASE m.state = "prepared" /\ SlotSync("slotSync", s, m3) /\ UNCHANGED taskVars
    <2>1. m3 \in Mapping /\ m3.state = "migrating" /\ m = [m3 EXCEPT !.state = "prepared"]
      BY <1>2, <1>5 DEF Mapping, ActionStates
    <2>2. Good(m, group, toSlot(m3, group))
      BY <1>2, <2>1, GoodAhead
    <2>3. SlotSync("slotSync", s, m3) /\ UNCHANGED taskVars
      BY <1>5
    <2> HIDE DEF s, m, m3
    <2> QED BY <1>2, <1>3, <2>1, <2>2, <2>3, SlotSyncStep
  <1>6. CASE m.state = "finished" /\ SlotSync("slotSync", s, m) /\ UNCHANGED taskVars
    <2>1. Good(m, group, toSlot(m, group))
      BY <1>2, GoodToSlot
    <2> HIDE DEF s, m
    <2> QED BY <1>2, <1>3, <1>6, <2>1, SlotSyncStep
  <1>7. CASE PrepareReturns(s) \/ CompleteReturns(s)
    <2>1. /\ Return
          /\ disabled' = disabled /\ round' = round /\ plans' \subseteq Slots
          /\ run' \in [Slots -> {"none", "ready", "exec", "done"}]
      BY <1>2, <1>7, ReturnTypes DEF IInv
    <2> QED BY <1>3, <2>1, SlotReturn
  <1> QED BY <1>4, <1>5, <1>6, <1>7 DEF SlotStoreOk

(* The write of a slot action fails, made or not.                          *)
LEMMA SlotStoreFailStep ==
    ASSUME IInv, SlotStoreFail
    PROVE  IInv'
  <1>1. op.pc = "slotStore" /\ op.sid \in Slots
    BY DEF SlotStoreFail, IInv, TypeOK
  <1>2. /\ Return
        /\ disabled' = disabled /\ round' = round /\ plans' \subseteq Slots
        /\ run' \in [Slots -> {"none", "ready", "exec", "done"}]
    BY <1>1, ReturnTypes DEF SlotStoreFail, IInv
  <1>3. CASE UNCHANGED storeVars
    BY <1>2, <1>3, ReturnStep
  <1>4. CASE WriteSlot(op.sid, op.m)
    <2>1. /\ slots' \in [Slots -> Mapping] /\ order' \in Seq(Slots)
          /\ UNCHANGED <<group, proxy>>
          /\ GroupsInUse'
          /\ \A p \in Proxies, t \in Slots : \A e \in Entries(p, t) : Good(slots'[t], group, e)
      BY <1>1, <1>4, SlotWrite
    <2> QED BY <1>2, <2>1, SlotReturn
  <1> QED BY <1>3, <1>4 DEF SlotStoreFail

(* Once every call has succeeded, a proxy holds what it was sent, or       *)
(* nothing after a restart, and no call is late.                           *)
LEMMA Acknowledged ==
    ASSUME IInv, op.pc \in {"slotSync", "groupSync", "resyncSync"}, AllOk,
           NEW s \in DOMAIN op.fill, NEW p \in Proxies, NEW e \in Entries(p, s)
    PROVE  e \in {NotReady, op.fill[s]}
  <1>1. s \in Slots
    BY FillDomain DEF IInv, TypeOK
  <1>2. queue[p] = << >> /\ table[p][s] \in {NotReady, op.fill[s]}
    <2>1. CASE p \in proxy
      BY <2>1 DEF IInv, ReplyInv, AllOk
    <2>2. CASE p \notin proxy
      BY <1>1, <2>2 DEF IInv, GoneInv
    <2> QED BY <2>1, <2>2
  <1> QED BY <1>2, EntriesEmpty DEF Entries

(* All proxies confirmed: the barrier holds, or nobody pulls any more.     *)
LEMMA SlotSyncOkStep ==
    ASSUME IInv, SlotSyncOk
    PROVE  IInv'
  <1> DEFINE s == op.sid
             m == op.m
             n == [Offline EXCEPT !.group = op.m.target]
  <1>1. op.pc = "slotSync" /\ AllOk /\ UNCHANGED <<storeVars, taskVars>>
    BY DEF SlotSyncOk
  <1>2. s \in Slots /\ m \in Mapping
    BY <1>1 DEF IInv, TypeOK
  <1>3. /\ op.fill = [t \in {s} |-> toSlot(m, group)]
        /\ \/ m.state = "prepared"  /\ slots[s] = [m EXCEPT !.state = "preparing"]
           \/ m.state = "migrating" /\ slots[s] = [m EXCEPT !.state = "prepared"]
           \/ m.state = "finished"  /\ slots[s] = m
    BY <1>1 DEF IInv, SlotOpInv
  <1>4. \A p \in Proxies : \A e \in Entries(p, s) : e \in {NotReady, toSlot(m, group)}
    <2>1. s \in DOMAIN op.fill /\ op.fill[s] = toSlot(m, group)
      BY <1>3
    <2> HIDE DEF s, m
    <2> QED BY <1>1, <2>1, Acknowledged
  <1>5. CASE m.state = "prepared"
    <2>1. Parked(s)
      BY <1>4, <1>5 DEF Parked, Serving, NotReady, toSlot, isSlotLocked
    <2>2. SlotStore(s, m)
      BY <1>5 DEF SlotSyncOk
    <2> HIDE DEF s, m
    <2> QED BY <1>1, <1>2, <1>3, <1>5, <2>1, <2>2, SlotStoreStep
  <1>6. CASE m.state = "migrating"
    <2>1. SlotStore(s, m)
      BY <1>6 DEF SlotSyncOk
    <2> HIDE DEF s, m
    <2> QED BY <1>1, <1>2, <1>3, <1>6, <2>1, SlotStoreStep
  <1>7. CASE m.state = "finished"
    <2>1. Drained(s)
      BY <1>4, <1>7 DEF Drained, Serving, NotReady, toSlot
    <2>2. SlotStore(s, n)
      BY <1>7 DEF SlotSyncOk
    <2>3. n \in Mapping /\ slots[s] = m /\ n = [Offline EXCEPT !.group = slots[s].target]
      BY <1>2, <1>3, <1>7 DEF Offline, Mapping, ActionStates
    <2> HIDE DEF s, m, n
    <2> QED BY <1>1, <1>2, <1>7, <2>1, <2>2, <2>3, SlotStoreStep
  <1> QED BY <1>3, <1>5, <1>6, <1>7

(* A proxy did not confirm: roll back, or give up.                         *)
LEMMA SlotSyncFailStep ==
    ASSUME IInv, SlotSyncFail
    PROVE  IInv'
  <1> DEFINE s == op.sid
             m == [op.m EXCEPT !.state = "preparing"]
  <1>1. op.pc = "slotSync" /\ s \in Slots /\ op.m \in Mapping /\ UNCHANGED storeVars
    BY DEF SlotSyncFail, IInv, TypeOK
  <1>2. CASE SlotFails(s, op.m)
    <2>1. /\ Return
          /\ disabled' = disabled /\ round' = round /\ plans' \subseteq Slots
          /\ run' \in [Slots -> {"none", "ready", "exec", "done"}]
      BY <1>1, <1>2, ReturnTypes DEF IInv
    <2> QED BY <1>1, <2>1, ReturnStep
  <1>3. CASE op.m.state = "prepared" /\ SlotSync("slotRollback", s, m) /\ UNCHANGED taskVars
    <2>1. m \in Mapping /\ slots[s] = m
      BY <1>1, <1>3 DEF Mapping, ActionStates, IInv, SlotOpInv
    <2>2. /\ slots' = slots /\ slots \in [Slots -> Mapping] /\ order' = order /\ order \in Seq(Slots)
          /\ UNCHANGED <<group, proxy, taskVars>> /\ GroupsInUse'
      BY <1>1, <1>3 DEF IInv, TypeOK, GroupsInUse, storeVars
    <2>3. \A p \in Proxies, t \in Slots : \A e \in Entries(p, t) : Good(slots'[t], group, e)
      BY <2>2 DEF IInv, EntriesInv
    <2>4. Good(m, group, toSlot(m, group))
      BY <2>1, GoodToSlot DEF IInv, TypeOK
    <2>5. SlotSync("slotRollback", s, m)
      BY <1>3
    <2> HIDE DEF s, m
    <2> QED BY <1>1, <2>1, <2>2, <2>3, <2>4, <2>5, SlotSyncStep
  <1> QED BY <1>2, <1>3 DEF SlotSyncFail

(* A handler of a slot action starts on a slot.                            *)
LEMMA SlotBegin ==
    ASSUME IInv, UNCHANGED <<storeVars, taskVars>>, NEW s \in Slots,
           \/ slots[s].state = "pending"   /\ SlotStore(s, [slots[s] EXCEPT !.state = "preparing"])
           \/ slots[s].state = "preparing" /\ SlotSync("slotSync", s, [slots[s] EXCEPT !.state = "prepared"])
           \/ slots[s].state = "prepared"  /\ SlotSync("slotSync", s, [slots[s] EXCEPT !.state = "migrating"])
           \/ slots[s].state = "migrating" /\ SlotStore(s, [slots[s] EXCEPT !.state = "finished"])
           \/ slots[s].state = "finished"  /\ SlotSync("slotSync", s, slots[s])
    PROVE  IInv'
  <1>1. slots[s] \in Mapping
    BY DEF IInv, TypeOK
  <1>2. /\ slots' = slots /\ slots \in [Slots -> Mapping] /\ order' = order /\ order \in Seq(Slots)
        /\ UNCHANGED <<group, proxy, taskVars>> /\ GroupsInUse' /\ group \in [Groups -> Group]
    BY DEF IInv, TypeOK, GroupsInUse, storeVars
  <1>3. \A p \in Proxies, t \in Slots : \A e \in Entries(p, t) : Good(slots'[t], group, e)
    BY <1>2 DEF IInv, EntriesInv
  <1>4. CASE slots[s].state = "pending" /\ SlotStore(s, [slots[s] EXCEPT !.state = "preparing"])
    <2> DEFINE m == [slots[s] EXCEPT !.state = "preparing"]
    <2>1. m \in Mapping /\ m.state = "preparing" /\ slots[s] = [m EXCEPT !.state = "pending"] /\ SlotStore(s, m)
      BY <1>1, <1>4 DEF Mapping, ActionStates
    <2> HIDE DEF m
    <2> QED BY <2>1, SlotStoreStep
  <1>5. CASE slots[s].state = "preparing" /\ SlotSync("slotSync", s, [slots[s] EXCEPT !.state = "prepared"])
    <2> DEFINE m == [slots[s] EXCEPT !.state = "prepared"]
    <2>1. m \in Mapping /\ m.state = "prepared" /\ slots[s] = [m EXCEPT !.state = "preparing"]
      BY <1>1, <1>5 DEF Mapping, ActionStates
    <2>2. Good(slots[s], group, toSlot(m, group))
      BY <1>2, <2>1, GoodAhead
    <2>3. SlotSync("slotSync", s, m)
      BY <1>5
    <2> HIDE DEF m
    <2> QED BY <1>2, <1>3, <2>1, <2>2, <2>3, SlotSyncStep
  <1>6. CASE slots[s].state = "prepared" /\ SlotSync("slotSync", s, [slots[s] EXCEPT !.state = "migrating"])
    <2> DEFINE m == [slots[s] EXCEPT !.state = "migrating"]
    <2>1. m \in Mapping /\ m.state = "migrating" /\ slots[s] = [m EXCEPT !.state = "prepared"]
      BY <1>1, <1>6 DEF Mapping, ActionStates
    <2>2. Good(slots[s], group, toSlot(m, group))
      BY <1>2, <2>1, GoodAhead
    <2>3. SlotSync("slotSync", s, m)
      BY <1>6
    <2> HIDE DEF m
    <2> QED BY <1>2, <1>3, <2>1, <2>2, <2>3, SlotSyncStep
  <1>7. CASE slots[s].state = "migrating" /\ SlotStore(s, [slots[s] EXCEPT !.state = "finished"])
    <2> DEFINE m == [slots[s] EXCEPT !.state = "finished"]
    <2>1. m \in Mapping /\ m.state = "finished" /\ slots[s] = [m EXCEPT !.state = "migrating"] /\ SlotStore(s, m)
      BY <1>1, <1>7 DEF Mapping, ActionStates
    <2> HIDE DEF m
    <2> QED BY <2>1, SlotStoreStep
  <1>8. CASE slots[s].state = "finished" /\ SlotSync("slotSync", s, slots[s])
    <2> DEFINE m == slots[s]
    <2>1. m \in Mapping /\ m.state = "finished" /\ slots'[s] = m /\ SlotSync("slotSync", s, m)
      BY <1>1, <1>2, <1>8
    <2>2. Good(slots'[s], group, toSlot(m, group))
      BY <1>2, <2>1, GoodToSlot
    <2> HIDE DEF m
    <2> QED BY <1>2, <1>3, <2>1, <2>2, SlotSyncStep
  <1> QED BY <1>4, <1>5, <1>6, <1>7, <1>8

(* The handlers of a slot action begin.                                    *)
LEMMA SlotHandlerStep ==
    ASSUME IInv, NEW s \in Slots, SlotActionPrepareFilter(s) \/ SlotActionComplete(s)
    PROVE  IInv'
  <1>1. UNCHANGED storeVars
    BY DEF SlotActionPrepareFilter, SlotActionComplete
  <1>2. CASE PrepareReturns(s) \/ CompleteReturns(s)
    <2>1. /\ Return
          /\ disabled' = disabled /\ round' = round /\ plans' \subseteq Slots
          /\ run' \in [Slots -> {"none", "ready", "exec", "done"}]
      BY <1>2, ReturnTypes DEF IInv
    <2> QED BY <1>1, <2>1, ReturnStep
  <1>3. CASE ~ (PrepareReturns(s) \/ CompleteReturns(s))
    BY <1>1, <1>3, SlotBegin DEF SlotActionPrepareFilter, SlotActionComplete
  <1> QED BY <1>2, <1>3

-----------------------------------------------------------------------------
(* The handlers of groups.                                                 *)

(* A handler goes on with the calls for the slots of its group.            *)
LEMMA GroupSyncStep ==
    ASSUME IInv, NEW g \in Groups, NEW rec \in Group,
           NEW pc \in {"groupSync", "groupRollback", "resyncSync"}, GroupSync(pc, g, rec),
           UNCHANGED <<slots, order, proxy, taskVars>>,
           group' \in [Groups -> Group], GroupInv', GroupsInUse',
           [group EXCEPT ![g] = rec] = [group' EXCEPT ![g] = rec],
           \A p \in Proxies, s \in Slots : \A e \in Entries(p, s) : Good(slots[s], group', e),
           \A s \in Slots : Good(slots[s], group', toSlot(slots[s], [group EXCEPT ![g] = rec])),
           pc = "groupSync" =>
              \/ rec.state = "prepared" /\ group'[g] = [rec EXCEPT !.state = "preparing"]
              \/ rec.state = "finished" /\ group'[g] = rec,
           pc = "groupRollback" => group'[g] = rec /\ rec.state = "preparing",
           pc = "resyncSync" => group'[g] = rec
    PROVE  IInv'
  <1> DEFINE S == getSlotMappingsByGroupId(g)
             f == [s \in S |-> toSlot(slots[s], [group EXCEPT ![g] = rec])]
  <1>1. S \in SUBSET Slots /\ [group EXCEPT ![g] = rec] \in [Groups -> Group]
    BY DEF getSlotMappingsByGroupId, IInv, TypeOK
  <1>2. f \in Fills
    BY <1>1, FillFromStore DEF IInv
  <1>3. op' = [pc |-> pc, gid |-> g, g |-> rec, fill |-> f] /\ Send(proxy, f)
    BY DEF GroupSync
  <1>4. op'.pc = pc /\ op'.gid = g /\ op'.g = rec /\ op'.fill = f
    BY <1>3
  <1>5. \A s \in Slots : s \in DOMAIN f => Good(slots'[s], group', f[s])
    OBVIOUS
  <1>6. GroupOpInv'
    <2>1. f = [s \in getSlotMappingsByGroupId(g)' |-> toSlot(slots'[s], [group' EXCEPT ![g] = rec])]
      BY DEF getSlotMappingsByGroupId
    <2> HIDE DEF f, S
    <2>2. op'.fill = [s \in getSlotMappingsByGroupId(op.gid)' |->
                          toSlot(slots'[s], [group' EXCEPT ![op'.gid] = op'.g])]
      BY <1>4, <2>1 DEF getSlotMappingsByGroupId
    <2>3. /\ op'.pc = "groupSync" =>
                \/ op'.g.state = "prepared" /\ group'[op'.gid] = [op'.g EXCEPT !.state = "preparing"]
                \/ op'.g.state = "finished" /\ group'[op'.gid] = op'.g
          /\ op'.pc = "groupRollback" => group'[op'.gid] = op'.g /\ op'.g.state = "preparing"
          /\ op'.pc = "resyncSync" => group'[op'.gid] = op'.g
      BY <1>4
    <2> QED BY <1>4, <2>2, <2>3 DEF GroupOpInv
  <1> HIDE DEF f, S
  <1>7. /\ table' = table
        /\ queue' \in [Proxies -> Seq(Fills)]
        /\ reply' \in [Proxies -> {"wait", "ok", "err"}]
        /\ Adds(f) /\ GoneInv' /\ ReplyInv'
    BY <1>2, <1>3, <1>4, SyncEffect
  <1>8. TypeOK'
    BY <1>2, <1>4, <1>7 DEF IInv, TypeOK, taskVars
  <1>9. EntriesInv'
    BY <1>5, <1>7, GoodEntries
  <1>10. SlotOpInv'
    BY <1>4 DEF SlotOpInv
  <1> QED BY <1>6, <1>7, <1>8, <1>9, <1>10 DEF IInv

(* A handler is about to write its group.                                  *)
LEMMA GroupStoreStep ==
    ASSUME IInv, NEW g \in Groups, NEW rec \in Group, GroupStore(g, rec),
           UNCHANGED <<slots, order, proxy, taskVars>>,
           group' \in [Groups -> Group], GroupInv', GroupsInUse',
           \A p \in Proxies, s \in Slots : \A e \in Entries(p, s) : Good(slots[s], group', e),
           \/ /\ rec.state = "preparing" /\ group'[g].state = "nothing"
              /\ rec = [group'[g] EXCEPT !.state = "preparing", !.cand = rec.cand]
              /\ rec.cand # NoAddr /\ rec.master # NoAddr
           \/ /\ rec.state = "prepared" /\ group'[g] = [rec EXCEPT !.state = "preparing"]
              /\ \A s \in Slots : Concerned(slots[s], g) => Parked(s)
           \/ rec.state = "finished" /\ group'[g].state = "prepared" /\ rec = Promoted(group'[g])
           \/ /\ rec.state = "nothing" /\ group'[g].state = "finished"
              /\ rec = [group'[g] EXCEPT !.state = "nothing", !.cand = NoAddr, !.oos = FALSE]
              /\ \A s \in Slots : slots[s].group = g =>
                    \A p \in Proxies : \A e \in Entries(p, s) : Exact(slots[s], group', e)
    PROVE  IInv'
  <1>1. op' = [pc |-> "groupStore", gid |-> g, g |-> rec] /\ UNCHANGED <<table, queue, reply>>
    BY DEF GroupStore, proxyVars
  <1>2. op'.pc = "groupStore" /\ op'.gid = g /\ op'.g = rec
    BY <1>1
  <1>3. TypeOK'
    BY <1>1, <1>2 DEF IInv, TypeOK, taskVars
  <1>4. GoneInv'
    BY <1>1 DEF IInv, GoneInv
  <1>5. EntriesInv'
    BY <1>1 DEF EntriesInv, Entries
  <1>6. \A s \in Slots : Parked(s) => Parked(s)'
    BY <1>1 DEF Parked, Entries
  <1>7. GroupOpInv'
    <2>1. ASSUME NEW s \in Slots, \A p \in Proxies : \A e \in Entries(p, s) : Exact(slots[s], group', e)
          PROVE  InSync(s)'
      BY <1>1, <2>1 DEF InSync, Entries
    <2> QED BY <1>2, <1>6, <2>1 DEF GroupOpInv
  <1>8. SlotOpInv' /\ ReplyInv'
    BY <1>2 DEF SlotOpInv, ReplyInv
  <1> QED BY <1>3, <1>4, <1>5, <1>7, <1>8 DEF IInv

(* The write of a promotion keeps every entry good.                        *)
LEMMA PromotionWrite ==
    ASSUME TopologyAssumption, IInv, op.pc = "groupStore", WriteGroup(op.gid, op.g)
    PROVE  /\ group' \in [Groups -> Group] /\ GroupInv' /\ GroupsInUse'
           /\ \A p \in Proxies, s \in Slots : \A e \in Entries(p, s) : Good(slots[s], group', e)
  <1> DEFINE g   == op.gid
             rec == op.g
             old == group[g]
  <1>1. g \in Groups /\ rec \in Group /\ old \in Group /\ group \in [Groups -> Group] /\ TypeOK
    BY DEF IInv, TypeOK
  <1>2. /\ old.master # NoAddr => old.exists
        /\ old.replicas # {} => old.master # NoAddr
        /\ old.state # "nothing" => old.cand # NoAddr /\ old.master # NoAddr
    BY <1>1 DEF IInv, GroupInv
  <1>3. WriteGroup(g, rec)
    OBVIOUS
  <1>4. \/ /\ rec.state = "preparing" /\ old.state = "nothing"
           /\ rec = [old EXCEPT !.state = "preparing", !.cand = rec.cand]
           /\ rec.cand # NoAddr /\ rec.master # NoAddr
        \/ /\ rec.state = "prepared" /\ old = [rec EXCEPT !.state = "preparing"]
           /\ \A s \in Slots : Concerned(slots[s], g) => Parked(s)
        \/ rec.state = "finished" /\ old.state = "prepared" /\ rec = Promoted(old)
        \/ /\ rec.state = "nothing" /\ old.state = "finished"
           /\ rec = [old EXCEPT !.state = "nothing", !.cand = NoAddr, !.oos = FALSE]
           /\ \A s \in Slots : slots[s].group = g => InSync(s)
    BY DEF IInv, GroupOpInv
  <1>5. /\ rec.master # NoAddr /\ rec.exists
        /\ rec.state # "nothing" => rec.cand # NoAddr
    <2>1. CASE rec.state = "preparing" /\ rec = [old EXCEPT !.state = "preparing", !.cand = rec.cand]
               /\ rec.cand # NoAddr /\ rec.master # NoAddr
      BY <1>1, <1>2, <2>1 DEF Group
    <2>2. CASE rec.state = "prepared" /\ old = [rec EXCEPT !.state = "preparing"]
      BY <1>1, <1>2, <2>2 DEF Group
    <2>3. CASE rec.state = "finished" /\ old.state = "prepared" /\ rec = Promoted(old)
      BY <1>1, <1>2, <2>3 DEF Group, Promoted
    <2>4. CASE rec.state = "nothing" /\ old.state = "finished"
               /\ rec = [old EXCEPT !.state = "nothing", !.cand = NoAddr, !.oos = FALSE]
      BY <1>1, <1>2, <2>4 DEF Group
    <2> QED BY <1>4, <2>1, <2>2, <2>3, <2>4
  <1>6. ASSUME NEW p \in Proxies, NEW s \in Slots, NEW e \in Entries(p, s)
        PROVE  Good(slots[s], group', e)
    <2>1. Good(slots[s], group, e) /\ e \in Entry /\ slots[s] \in Mapping
      BY EntryType DEF IInv, EntriesInv, TypeOK
    <2>2. Exact(slots[s], group, e) =>
             \/ rec.master = old.master /\ rec.state # "prepared"
             \/ Concerned(slots[s], g) => ~ Serving(e)
      <3>1. CASE rec = [old EXCEPT !.state = "preparing", !.cand = rec.cand] /\ rec.state = "preparing"
        BY <1>1, <3>1 DEF Group
      <3>2. CASE \A t \in Slots : Concerned(slots[t], g) => Parked(t)
        BY <3>2 DEF Parked
      <3>3. CASE old.state = "prepared"
        BY <1>1, <3>3 DEF Exact
      <3>4. CASE rec = [old EXCEPT !.state = "nothing", !.cand = NoAddr, !.oos = FALSE] /\ rec.state = "nothing"
        BY <1>1, <3>4 DEF Group
      <3> QED BY <1>4, <3>1, <3>2, <3>3, <3>4
    <2>3. group' = [group EXCEPT ![g] = rec]
      BY <1>3 DEF WriteGroup
    <2>4. (old.oos => rec.oos) \/ slots[s].group # g \/ Exact(slots[s], group, e)
      <3>1. CASE rec = [old EXCEPT !.state = "preparing", !.cand = rec.cand]
        BY <1>1, <3>1 DEF Group
      <3>2. CASE old = [rec EXCEPT !.state = "preparing"]
        BY <1>1, <3>2 DEF Group
      <3>3. CASE rec = Promoted(old)
        BY <1>1, <3>3 DEF Group, Promoted
      <3>4. CASE \A t \in Slots : slots[t].group = g => InSync(t)
        BY <3>4 DEF InSync
      <3> QED BY <1>4, <3>1, <3>2, <3>3, <3>4
    <2> HIDE DEF g, rec
    <2> QED BY <1>1, <2>1, <2>2, <2>3, <2>4, GoodGroup
  <1> HIDE DEF g, rec, old
  <1>7. group' \in [Groups -> Group] /\ GroupInv' /\ GroupsInUse'
    BY <1>1, <1>3, <1>5, GroupWrite
  <1> QED BY <1>6, <1>7

(* What the proxies are told of a group that is stored as it is, or that   *)
(* is about to be prepared.                                                *)
LEMMA ToldGood ==
    ASSUME IInv, NEW grp \in [Groups -> Group], NEW g \in Groups, NEW rec \in Group, NEW s \in Slots,
           \/ grp[g] = rec
           \/ rec.state = "prepared" /\ grp[g] = [rec EXCEPT !.state = "preparing"]
    PROVE  Good(slots[s], grp, toSlot(slots[s], [grp EXCEPT ![g] = rec]))
  <1> DEFINE new == [grp EXCEPT ![g] = rec]
             e   == toSlot(slots[s], new)
  <1>1. slots[s] \in Mapping /\ new \in [Groups -> Group]
    BY DEF IInv, TypeOK
  <1>2. Good(slots[s], new, e) /\ e \in Entry
    BY <1>1, GoodToSlot, ToSlotType
  <1>3. CASE grp[g] = rec
    <2>1. new = grp
      BY <1>3
    <2> QED BY <1>2, <2>1
  <1>4. CASE rec.state = "prepared" /\ grp[g] = [rec EXCEPT !.state = "preparing"]
    <2> DEFINE r2 == grp[g]
    <2>1. r2 \in Group /\ r2.master = rec.master /\ r2.state = "preparing" /\ r2.oos = rec.oos /\ new[g] = rec
      BY <1>4 DEF Group
    <2>2. grp = [new EXCEPT ![g] = r2]
      OBVIOUS
    <2> HIDE DEF new, e, r2
    <2>3. Good(slots[s], [new EXCEPT ![g] = r2], e)
      BY <1>1, <1>2, <2>1, GoodGroup
    <2> QED BY <2>2, <2>3 DEF e, new
  <1> QED BY <1>3, <1>4

(* GroupPromoteServer begins, or takes up what it left.                    *)
LEMMA GroupPromoteServerStep ==
    ASSUME TopologyAssumption, IInv, NEW g \in Groups, NEW a \in Servers, GroupPromoteServer(g, a)
    PROVE  IInv'
  <1>1. UNCHANGED <<slots, order, group, proxy, taskVars>>
    BY DEF GroupPromoteServer, storeVars
  <1>2. group \in [Groups -> Group] /\ group[g] \in Group
    BY DEF IInv, TypeOK
  <1>3. group' \in [Groups -> Group] /\ GroupInv' /\ GroupsInUse'
    BY <1>1, <1>2 DEF IInv, GroupInv, GroupsInUse
  <1>4. \A p \in Proxies, s \in Slots : \A e \in Entries(p, s) : Good(slots[s], group', e)
    BY <1>1 DEF IInv, EntriesInv
  <1>5. /\ group[g].replicas # {} => group[g].master # NoAddr
        /\ group[g].state # "nothing" => group[g].cand # NoAddr /\ group[g].master # NoAddr
    BY DEF IInv, GroupInv
  <1>6. CASE /\ group[g].state = "nothing" /\ a \in group[g].replicas
             /\ GroupStore(g, [group[g] EXCEPT !.state = "preparing", !.cand = a])
    <2> DEFINE rec == [group[g] EXCEPT !.state = "preparing", !.cand = a]
    <2>1. rec \in Group /\ rec.state = "preparing" /\ rec.cand = a /\ a # NoAddr /\ rec.master # NoAddr
      BY <1>2, <1>5, <1>6 DEF Group, PromoteStates, Addrs, TopologyAssumption
    <2>2. GroupStore(g, rec) /\ rec = [group'[g] EXCEPT !.state = "preparing", !.cand = rec.cand]
      BY <1>1, <1>6, <2>1
    <2> HIDE DEF rec
    <2> QED BY <1>1, <1>3, <1>4, <1>6, <2>1, <2>2, GroupStoreStep
  <1>7. CASE /\ group[g].state = "preparing"
             /\ GroupSync("groupSync", g, [group[g] EXCEPT !.state = "prepared"])
    <2> DEFINE rec == [group[g] EXCEPT !.state = "prepared"]
    <2>1. rec \in Group /\ rec.state = "prepared" /\ group[g] = [rec EXCEPT !.state = "preparing"]
      BY <1>2, <1>7 DEF Group, PromoteStates
    <2>2. GroupSync("groupSync", g, rec)
      BY <1>7
    <2> HIDE DEF rec
    <2>3. \A s \in Slots : Good(slots[s], group', toSlot(slots[s], [group EXCEPT ![g] = rec]))
      BY <1>1, <1>2, <2>1, ToldGood
    <2> QED BY <1>1, <1>3, <1>4, <2>1, <2>2, <2>3, GroupSyncStep
  <1>8. CASE group[g].state = "prepared" /\ GroupStore(g, Promoted(group[g]))
    <2> DEFINE rec == Promoted(group[g])
    <2>1. rec \in Group /\ rec.state = "finished"
      BY <1>2, <1>5, <1>8 DEF Promoted, Group, PromoteStates, Addrs
    <2>2. GroupStore(g, rec) /\ rec = Promoted(group'[g])
      BY <1>1, <1>8
    <2> HIDE DEF rec
    <2> QED BY <1>1, <1>3, <1>4, <1>8, <2>1, <2>2, GroupStoreStep
  <1>9. CASE group[g].state = "finished" /\ GroupSync("groupSync", g, group[g])
    <2> DEFINE rec == group[g]
    <2>1. \A s \in Slots : Good(slots[s], group', toSlot(slots[s], [group EXCEPT ![g] = rec]))
      BY <1>1, <1>2, ToldGood
    <2>2. GroupSync("groupSync", g, rec) /\ rec \in Group /\ rec.state = "finished" /\ group'[g] = rec
      BY <1>1, <1>2, <1>9
    <2> HIDE DEF rec
    <2> QED BY <1>1, <1>3, <1>4, <2>1, <2>2, GroupSyncStep
  <1> QED BY <1>6, <1>7, <1>8, <1>9 DEF GroupPromoteServer

(* A handler of a group returns after a write that keeps entries good.     *)
LEMMA GroupReturn ==
    ASSUME TopologyAssumption, IInv, NEW g \in Groups, NEW rec \in Group, WriteGroup(g, rec),
           Return, UNCHANGED taskVars,
           group' \in [Groups -> Group] /\ GroupInv' /\ GroupsInUse',
           \A p \in Proxies, s \in Slots : \A e \in Entries(p, s) : Good(slots[s], group', e)
    PROVE  IInv'
  <1>1. /\ op' = Idle /\ UNCHANGED <<taskVars, table, queue>>
        /\ reply' \in [Proxies -> {"wait", "ok", "err"}]
    BY DEF Return
  <1> QED BY <1>1, GroupStep

(* The write of a promotion succeeds and the handler goes on.              *)
LEMMA GroupStoreOkStep ==
    ASSUME TopologyAssumption, IInv, GroupStoreOk
    PROVE  IInv'
  <1> DEFINE g   == op.gid
             rec == op.g
  <1>1. op.pc = "groupStore" /\ WriteGroup(g, rec) /\ UNCHANGED <<slots, order, proxy, taskVars>>
    BY DEF GroupStoreOk, WriteGroup
  <1>2. g \in Groups /\ rec \in Group /\ group \in [Groups -> Group]
    BY <1>1 DEF IInv, TypeOK
  <1>3. /\ group' \in [Groups -> Group] /\ GroupInv' /\ GroupsInUse'
        /\ \A p \in Proxies, s \in Slots : \A e \in Entries(p, s) : Good(slots[s], group', e)
    BY <1>1, PromotionWrite
  <1>4. group' = [group EXCEPT ![g] = rec] /\ group'[g] = rec
    BY <1>1, <1>2 DEF WriteGroup
  <1>5. \A r \in Group : [group EXCEPT ![g] = r] = [group' EXCEPT ![g] = r]
    BY <1>2, <1>4
  <1>6. CASE rec.state = "preparing" /\ GroupSync("groupSync", g, [rec EXCEPT !.state = "prepared"])
    <2> DEFINE r2 == [rec EXCEPT !.state = "prepared"]
    <2>1. r2 \in Group /\ r2.state = "prepared" /\ rec = [r2 EXCEPT !.state = "preparing"]
      BY <1>2, <1>6 DEF Group, PromoteStates
    <2>2. GroupSync("groupSync", g, r2)
      BY <1>6
    <2> HIDE DEF r2, rec, g
    <2>3. [group EXCEPT ![g] = r2] = [group' EXCEPT ![g] = r2]
      BY <1>5, <2>1
    <2>4. \A s \in Slots : Good(slots[s], group', toSlot(slots[s], [group EXCEPT ![g] = r2]))
      <3>1. \A s \in Slots : Good(slots[s], group', toSlot(slots[s], [group' EXCEPT ![g] = r2]))
        BY <1>2, <1>3, <1>4, <2>1, ToldGood
      <3> QED BY <2>3, <3>1
    <2> QED BY <1>1, <1>2, <1>3, <1>4, <2>1, <2>2, <2>3, <2>4, GroupSyncStep
  <1>7. CASE rec.state = "prepared" /\ GroupStore(g, Promoted(rec))
    <2> DEFINE r2 == Promoted(rec)
    <2>1. r2 \in Group /\ r2.state = "finished"
      <3>1. rec.cand # NoAddr /\ rec.master # NoAddr
        BY <1>2, <1>3, <1>4, <1>7 DEF GroupInv
      <3> QED BY <1>2, <3>1 DEF Promoted, Group, PromoteStates, Addrs
    <2>2. GroupStore(g, r2) /\ r2 = Promoted(group'[g]) /\ group'[g].state = "prepared"
      BY <1>4, <1>7
    <2> HIDE DEF r2, rec, g
    <2> QED BY <1>1, <1>2, <1>3, <2>1, <2>2, GroupStoreStep
  <1>8. CASE rec.state = "finished" /\ GroupSync("groupSync", g, rec)
    <2> HIDE DEF rec, g
    <2>1. \A s \in Slots : Good(slots[s], group', toSlot(slots[s], [group EXCEPT ![g] = rec]))
      BY <1>2, <1>3, <1>4, <1>5, ToldGood
    <2>2. [group EXCEPT ![g] = rec] = [group' EXCEPT ![g] = rec]
      BY <1>2, <1>5
    <2> QED BY <1>1, <1>2, <1>3, <1>4, <1>8, <2>1, <2>2, GroupSyncStep
  <1>9. CASE rec.state = "nothing" /\ Return
    <2> HIDE DEF rec, g
    <2> QED BY <1>1, <1>2, <1>3, <1>9, GroupReturn
  <1> QED BY <1>6, <1>7, <1>8, <1>9 DEF GroupStoreOk

(* The write of a promotion fails, made or not.                            *)
LEMMA GroupStoreFailStep ==
    ASSUME TopologyAssumption, IInv, GroupStoreFail
    PROVE  IInv'
  <1> DEFINE g   == op.gid
             rec == op.g
  <1>1. op.pc = "groupStore" /\ Return /\ UNCHANGED taskVars
    BY DEF GroupStoreFail
  <1>2. g \in Groups /\ rec \in Group
    BY <1>1 DEF IInv, TypeOK
  <1>3. CASE UNCHANGED storeVars
    BY <1>1, <1>3, ReturnStep DEF IInv, TypeOK, taskVars
  <1>4. CASE WriteGroup(g, rec)
    <2>1. /\ group' \in [Groups -> Group] /\ GroupInv' /\ GroupsInUse'
          /\ \A p \in Proxies, s \in Slots : \A e \in Entries(p, s) : Good(slots[s], group', e)
      BY <1>1, <1>4, PromotionWrite
    <2> HIDE DEF rec, g
    <2> QED BY <1>1, <1>2, <1>4, <2>1, GroupReturn
  <1> QED BY <1>3, <1>4 DEF GroupStoreFail

(* A handler of a group goes on, or a resync starts, with the store as it  *)
(* is.                                                                     *)
LEMMA GroupTold ==
    ASSUME IInv, NEW g \in Groups, NEW pc \in {"groupRollback", "resyncSync"}, GroupSync(pc, g, group[g]),
           UNCHANGED <<storeVars, taskVars>>, pc = "groupRollback" => group[g].state = "preparing"
    PROVE  IInv'
  <1> DEFINE rec == group[g]
  <1>1. UNCHANGED <<slots, order, group, proxy, taskVars>>
    BY DEF storeVars
  <1>2. group \in [Groups -> Group] /\ rec \in Group /\ group'[g] = rec /\ GroupSync(pc, g, rec)
    BY <1>1 DEF IInv, TypeOK
  <1>3. group' \in [Groups -> Group] /\ GroupInv' /\ GroupsInUse'
    BY <1>1, <1>2 DEF IInv, GroupInv, GroupsInUse
  <1>4. \A p \in Proxies, s \in Slots : \A e \in Entries(p, s) : Good(slots[s], group', e)
    BY <1>1 DEF IInv, EntriesInv
  <1>5. \A s \in Slots : Good(slots[s], group', toSlot(slots[s], [group EXCEPT ![g] = rec]))
    BY <1>1, <1>2, ToldGood
  <1>6. pc = "groupRollback" => rec.state = "preparing"
    OBVIOUS
  <1> HIDE DEF rec
  <1> QED BY <1>1, <1>2, <1>3, <1>4, <1>5, <1>6, GroupSyncStep

(* All proxies confirmed what the store holds of a group: they agree with  *)
(* it on every slot of the group.                                          *)
LEMMA Settled ==
    ASSUME IInv, op.pc \in {"groupSync", "resyncSync"}, AllOk, group[op.gid] = op.g
    PROVE  \A s \in Slots : slots[s].group = op.gid => InSync(s)
  <1> SUFFICES ASSUME NEW s \in Slots, slots[s].group = op.gid, NEW p \in Proxies, NEW e \in Entries(p, s)
               PROVE  Exact(slots[s], group, e)
    BY DEF InSync
  <1>1. group \in [Groups -> Group] /\ slots[s] \in Mapping /\ op.gid \in Groups
    BY DEF IInv, TypeOK
  <1>2. [group EXCEPT ![op.gid] = op.g] = group
    BY <1>1
  <1>3. s \in getSlotMappingsByGroupId(op.gid)
    BY DEF getSlotMappingsByGroupId
  <1>4. s \in DOMAIN op.fill /\ op.fill[s] = toSlot(slots[s], group)
    BY <1>2, <1>3 DEF IInv, GroupOpInv
  <1>5. e \in {NotReady, toSlot(slots[s], group)}
    BY <1>4, Acknowledged
  <1> QED BY <1>1, <1>5, ExactToSlot, NotReadyIsGood

(* All proxies confirmed: no slot of the group is served, or all may be.   *)
LEMMA GroupSyncOkStep ==
    ASSUME IInv, GroupSyncOk
    PROVE  IInv'
  <1> DEFINE g   == op.gid
             rec == op.g
             end == [op.g EXCEPT !.state = "nothing", !.cand = NoAddr, !.oos = FALSE]
             new == [group EXCEPT ![g] = rec]
  <1>1. op.pc = "groupSync" /\ AllOk /\ UNCHANGED <<slots, order, group, proxy, taskVars>>
    BY DEF GroupSyncOk, storeVars
  <1>2. g \in Groups /\ rec \in Group /\ group \in [Groups -> Group]
    BY <1>1 DEF IInv, TypeOK
  <1>3. /\ op.fill = [s \in getSlotMappingsByGroupId(g) |-> toSlot(slots[s], new)]
        /\ \/ rec.state = "prepared" /\ group[g] = [rec EXCEPT !.state = "preparing"]
           \/ rec.state = "finished" /\ group[g] = rec
    BY <1>1 DEF IInv, GroupOpInv
  <1>4. group' \in [Groups -> Group] /\ GroupInv' /\ GroupsInUse'
    BY <1>1, <1>2 DEF IInv, GroupInv, GroupsInUse
  <1>5. \A p \in Proxies, s \in Slots : \A e \in Entries(p, s) : Good(slots[s], group', e)
    BY <1>1 DEF IInv, EntriesInv
  <1>6. CASE rec.state = "prepared" /\ group[g] = [rec EXCEPT !.state = "preparing"]
    <2>1. ASSUME NEW s \in Slots, Concerned(slots[s], g)
          PROVE  Parked(s)
      <3>1. s \in getSlotMappingsByGroupId(g)
        BY <2>1 DEF Concerned, OwnerGroup, getSlotMappingsByGroupId
      <3>2. s \in DOMAIN op.fill /\ op.fill[s] = toSlot(slots[s], new)
        BY <1>3, <3>1
      <3>3. new \in [Groups -> Group] /\ new[g].state = "prepared" /\ slots[s] \in Mapping
        BY <1>2, <1>6 DEF IInv, TypeOK
      <3>4. ~ Serving(toSlot(slots[s], new))
        <4> HIDE DEF new
        <4>1. Exact(slots[s], new, toSlot(slots[s], new))
          BY <3>3, ExactToSlot
        <4> QED BY <1>2, <2>1, <3>3, <4>1 DEF Exact
      <3>5. ~ Serving(NotReady)
        BY DEF Serving, NotReady
      <3> HIDE DEF new, g, rec
      <3> QED BY <1>1, <3>2, <3>4, <3>5, Acknowledged DEF Parked
    <2>2. GroupStore(g, rec) /\ group'[g] = [rec EXCEPT !.state = "preparing"]
      BY <1>1, <1>6 DEF GroupSyncOk
    <2> HIDE DEF g, rec
    <2> QED BY <1>1, <1>2, <1>4, <1>5, <1>6, <2>1, <2>2, GroupStoreStep
  <1>7. CASE rec.state = "finished" /\ group[g] = rec
    <2>1. end \in Group /\ end.state = "nothing"
      BY <1>2 DEF Group, PromoteStates, Addrs
    <2>2. GroupStore(g, end)
      BY <1>7 DEF GroupSyncOk
    <2>3. /\ group'[g].state = "finished"
          /\ end = [group'[g] EXCEPT !.state = "nothing", !.cand = NoAddr, !.oos = FALSE]
      BY <1>1, <1>7
    <2>4. \A s \in Slots : slots[s].group = g =>
             \A p \in Proxies : \A e \in Entries(p, s) : Exact(slots[s], group', e)
      BY <1>1, <1>7, Settled DEF InSync
    <2> HIDE DEF g, rec, end
    <2> QED BY <1>1, <1>2, <1>4, <1>5, <2>1, <2>2, <2>3, <2>4, GroupStoreStep
  <1> QED BY <1>3, <1>6, <1>7

(* A proxy did not confirm the promotion.                                  *)
LEMMA GroupSyncFailStep ==
    ASSUME IInv, GroupSyncFail
    PROVE  IInv'
  <1>1. op.pc = "groupSync" /\ UNCHANGED <<storeVars, taskVars>> /\ op.gid \in Groups /\ op.g \in Group
    BY DEF GroupSyncFail, IInv, TypeOK
  <1>2. CASE Return
    BY <1>1, <1>2, ReturnStep DEF IInv, TypeOK, taskVars
  <1>3. CASE op.g.state = "prepared" /\ GroupSync("groupRollback", op.gid, [op.g EXCEPT !.state = "preparing"])
    <2>1. group[op.gid] = [op.g EXCEPT !.state = "preparing"]
      BY <1>1, <1>3 DEF IInv, GroupOpInv
    <2>2. group[op.gid].state = "preparing" /\ GroupSync("groupRollback", op.gid, group[op.gid])
      BY <1>1, <1>3, <2>1 DEF Group
    <2> QED BY <1>1, <2>2, GroupTold
  <1> QED BY <1>2, <1>3 DEF GroupSyncFail

(* ResyncGroup sends what the store holds.                                 *)
LEMMA ResyncGroupStep ==
    ASSUME IInv, NEW g \in Groups, ResyncGroup(g)
    PROVE  IInv'
  BY GroupTold DEF ResyncGroup

(* ResyncGroup clears the flag of the group.                               *)
LEMMA ResyncGroupDoneStep ==
    ASSUME TopologyAssumption, IInv, ResyncGroupDone
    PROVE  IInv'
  <1> DEFINE g   == op.gid
             rec == [op.g EXCEPT !.oos = FALSE]
  <1>1. op.pc = "resyncSync" /\ Return /\ UNCHANGED taskVars /\ g \in Groups /\ op.g \in Group
    BY DEF ResyncGroupDone, IInv, TypeOK
  <1>2. CASE UNCHANGED storeVars
    BY <1>1, <1>2, ReturnStep DEF IInv, TypeOK, taskVars
  <1>3. CASE AllOk /\ WriteGroup(g, rec)
    <2>1. group[g] = op.g
      BY <1>1 DEF IInv, GroupOpInv
    <2>2. /\ rec \in Group
          /\ rec.master = group[g].master /\ rec.exists = group[g].exists /\ rec.state = group[g].state
          /\ rec.cand = group[g].cand /\ rec.replicas = group[g].replicas
      BY <1>1, <2>1 DEF Group
    <2>3. WriteGroup(g, rec)
      BY <1>3
    <2>4. /\ rec.master # NoAddr => rec.exists
          /\ rec.replicas # {} => rec.master # NoAddr
          /\ rec.state # "nothing" => rec.cand # NoAddr /\ rec.master # NoAddr
      BY <1>1, <2>2 DEF IInv, GroupInv
    <2>7. \A s \in Slots : slots[s].group = g => InSync(s)
      BY <1>1, <1>3, <2>1, Settled
    <2> HIDE DEF g, rec
    <2>5. group' \in [Groups -> Group] /\ GroupInv' /\ GroupsInUse'
      BY <1>1, <2>2, <2>3, <2>4, GroupWrite
    <2>6. \A p \in Proxies, s \in Slots : \A e \in Entries(p, s) : Good(slots[s], group', e)
      BY <1>1, <2>2, <2>3, <2>7, KeepMaster
    <2> QED BY <1>1, <2>2, <2>3, <2>5, <2>6, GroupReturn
  <1> QED BY <1>2, <1>3 DEF ResyncGroupDone

-----------------------------------------------------------------------------
(* Assignment of slots.                                                    *)

(* The handler of an assignment is about to write the slot.                *)
LEMMA AssignBegin ==
    ASSUME IInv, NEW s \in Slots, NEW g \in Groups \cup {NoGroup}, AssignStore(s, g),
           Reassign \/ slots[s] = Offline,
           g # NoGroup => group'[g].exists /\ group'[g].master # NoAddr /\ group'[g].oos,
           UNCHANGED <<slots, order, proxy, taskVars, proxyVars>>,
           group' \in [Groups -> Group], GroupInv', GroupsInUse',
           \A p \in Proxies, t \in Slots : \A e \in Entries(p, t) : Good(slots[t], group', e)
    PROVE  IInv'
  <1> USE DEF proxyVars
  <1> DEFINE m == [Offline EXCEPT !.group = g]
  <1>1. op' = [pc |-> "assignStore", sid |-> s, m |-> m]
    BY DEF AssignStore
  <1>2. op'.pc = "assignStore" /\ op'.sid = s /\ op'.m = m
    BY <1>1
  <1>3. m \in Mapping /\ m.group = g
    BY DEF Mapping, Offline, ActionStates
  <1>4. SlotOpInv'
    BY <1>2, <1>3 DEF SlotOpInv
  <1> HIDE DEF m
  <1>5. TypeOK'
    BY <1>2, <1>3 DEF IInv, TypeOK, taskVars
  <1>6. GoneInv'
    BY DEF IInv, GoneInv
  <1>7. EntriesInv'
    BY DEF EntriesInv, Entries
  <1>8. GroupOpInv' /\ ReplyInv'
    BY <1>2 DEF GroupOpInv, ReplyInv
  <1> QED BY <1>4, <1>5, <1>6, <1>7, <1>8 DEF IInv

(* SlotsAssignGroup and SlotsAssignOffline begin.                          *)
LEMMA AssignOpsStep ==
    ASSUME IInv, NEW s \in Slots,
           SlotsAssignOffline(s) \/ \E g \in Groups : SlotsAssignGroup(s, g)
    PROVE  IInv'
  <1>1. CASE SlotsAssignOffline(s)
    <2>1. /\ Reassign \/ slots[s] = Offline
          /\ AssignStore(s, NoGroup)
          /\ UNCHANGED <<slots, order, group, proxy, taskVars, proxyVars>>
      BY <1>1 DEF SlotsAssignOffline, storeVars
    <2>2. group' \in [Groups -> Group] /\ GroupInv' /\ GroupsInUse'
      BY <2>1 DEF IInv, TypeOK, GroupInv, GroupsInUse
    <2>3. \A p \in Proxies, t \in Slots : \A e \in Entries(p, t) : Good(slots[t], group', e)
      BY <2>1 DEF IInv, EntriesInv
    <2> QED BY <2>1, <2>2, <2>3, AssignBegin
  <1>2. ASSUME NEW g \in Groups, SlotsAssignGroup(s, g)
        PROVE  IInv'
    <2> DEFINE rec == [group[g] EXCEPT !.oos = TRUE]
    <2>1. /\ Reassign \/ slots[s] = Offline
          /\ AssignStore(s, g) /\ WriteGroup(g, rec)
          /\ UNCHANGED <<slots, order, proxy, taskVars, proxyVars>>
          /\ group[g].master # NoAddr
      BY <1>2 DEF SlotsAssignGroup, WriteGroup
    <2>2. group[g] \in Group
      BY DEF IInv, TypeOK
    <2>3. /\ rec \in Group
          /\ rec.master = group[g].master /\ rec.exists = group[g].exists /\ rec.state = group[g].state
          /\ rec.cand = group[g].cand /\ rec.replicas = group[g].replicas /\ rec.oos
      BY <2>2 DEF Group
    <2>4. /\ rec.exists
          /\ rec.state # "nothing" => rec.cand # NoAddr /\ rec.master # NoAddr
      BY <2>1, <2>3 DEF IInv, GroupInv
    <2>5. group'[g] = rec
      BY <2>1 DEF WriteGroup, IInv, TypeOK
    <2> HIDE DEF rec
    <2>6. group' \in [Groups -> Group] /\ GroupInv' /\ GroupsInUse'
      BY <2>1, <2>3, <2>4, GroupWrite
    <2>7. \A p \in Proxies, t \in Slots : \A e \in Entries(p, t) : Good(slots[t], group', e)
      BY <2>1, <2>3, KeepMaster
    <2> QED BY <2>1, <2>3, <2>4, <2>5, <2>6, <2>7, AssignBegin
  <1> QED BY <1>1, <1>2

(* A slot gets a group: nobody serves it, or its group is flagged.         *)
LEMMA AssignWrite ==
    ASSUME TopologyAssumption, IInv, op.pc = "assignStore", WriteSlot(op.sid, op.m)
    PROVE  /\ slots' \in [Slots -> Mapping] /\ order' \in Seq(Slots)
           /\ slots'[op.sid] = op.m
           /\ UNCHANGED <<group, proxy>>
           /\ GroupsInUse'
           /\ \A p \in Proxies, t \in Slots : \A e \in Entries(p, t) : Good(slots'[t], group, e)
  <1> USE DEF IInv
  <1> DEFINE s == op.sid
             m == op.m
  <1>1. s \in Slots /\ m \in Mapping /\ slots \in [Slots -> Mapping] /\ group \in [Groups -> Group]
    BY DEF TypeOK
  <1>2. slots' = [slots EXCEPT ![s] = m] /\ UNCHANGED <<group, proxy>>
    BY DEF WriteSlot
  <1>3. /\ Reassign \/ slots[s] = Offline
        /\ m.state = "nothing"
        /\ m.group # NoGroup => group[m.group].exists /\ group[m.group].master # NoAddr /\ group[m.group].oos
    BY DEF SlotOpInv, Offline
  <1>4. order' \in Seq(Slots)
    BY <1>1, WithoutType DEF TypeOK, WriteSlot
  <1> HIDE DEF s, m
  <1>5. slots' \in [Slots -> Mapping] /\ slots'[s] = m /\ \A t \in Slots \ {s} : slots'[t] = slots[t]
    BY <1>1, <1>2
  <1>6. GroupsInUse'
    BY <1>1, <1>2, <1>3, <1>5 DEF GroupsInUse
  <1>7. ASSUME NEW p \in Proxies, NEW t \in Slots, NEW e \in Entries(p, t)
        PROVE  Good(slots'[t], group, e)
    <2>1. Good(slots[t], group, e) /\ e \in Entry
      BY EntryType DEF EntriesInv, TypeOK
    <2>2. CASE t # s
      BY <1>5, <2>1, <2>2
    <2>3. CASE t = s
      <3>1. CASE Reassign
        BY <1>3, <1>5, <2>3, <3>1 DEF Good, Excused
      <3>2. CASE ~ Reassign /\ slots[s] = Offline
        BY <1>1, <2>1, <2>3, <3>2, GoodOffline, NotServingIsGood
      <3> QED BY <1>3, <3>1, <3>2
    <2> QED BY <2>2, <2>3
  <1> QED BY <1>2, <1>4, <1>5, <1>6, <1>7 DEF s, m

(* The write of an assignment succeeds or fails.                           *)
LEMMA AssignStoreStep ==
    ASSUME TopologyAssumption, IInv, AssignStoreOk \/ AssignStoreFail
    PROVE  IInv'
  <1> DEFINE s == op.sid
             m == op.m
  <1>1. op.pc = "assignStore" /\ UNCHANGED taskVars /\ s \in Slots /\ m \in Mapping
    BY DEF AssignStoreOk, AssignStoreFail, IInv, TypeOK
  <1>2. WriteSlot(s, m) =>
           /\ slots' \in [Slots -> Mapping] /\ order' \in Seq(Slots)
           /\ slots'[s] = m
           /\ UNCHANGED <<group, proxy>>
           /\ GroupsInUse'
           /\ \A p \in Proxies, t \in Slots : \A e \in Entries(p, t) : Good(slots'[t], group, e)
    BY <1>1, AssignWrite
  <1>3. CASE AssignStoreOk
    <2>1. WriteSlot(s, m) /\ SlotSync("assignSync", s, m)
      BY <1>3 DEF AssignStoreOk
    <2>2. Good(m, group, toSlot(m, group))
      BY <1>1, GoodToSlot DEF IInv, TypeOK
    <2> HIDE DEF s, m
    <2> QED BY <1>1, <1>2, <2>1, <2>2, SlotSyncStep
  <1>4. CASE WriteSlot(s, m) /\ Return
    BY <1>1, <1>2, <1>4, SlotReturn DEF IInv, TypeOK, taskVars
  <1>5. CASE UNCHANGED storeVars /\ Return
    BY <1>1, <1>5, ReturnStep DEF IInv, TypeOK, taskVars
  <1> QED BY <1>3, <1>4, <1>5 DEF AssignStoreFail

-----------------------------------------------------------------------------
(* The invariant holds at the start and every step keeps it.               *)

(* The invariant holds of a cluster at rest.                               *)
LEMMA InitIInv ==
    ASSUME TopologyAssumption, Init
    PROVE  IInv
  <1> USE DEF Init, AtRest, Quiet
  <1>1. \A s \in Slots : slots[s] \in Mapping /\ toSlot(slots[s], group) \in Entry
    BY ToSlotType
  <1>2. table \in [Proxies -> [Slots -> Entry]]
    BY <1>1
  <1>3. op.pc = "idle"
    BY DEF Idle
  <1>4. TypeOK
    <2>1. order \in Seq(Slots) /\ queue \in [Proxies -> Seq(Fills)]
      OBVIOUS
    <2>2. proxy \subseteq Proxies /\ disabled \in BOOLEAN /\ round \in {"plan", "run"} /\ plans \subseteq Slots
      OBVIOUS
    <2>3. run \in [Slots -> {"none", "ready", "exec", "done"}] /\ reply \in [Proxies -> {"wait", "ok", "err"}]
      OBVIOUS
    <2>4. slots \in [Slots -> Mapping] /\ group \in [Groups -> Group]
      OBVIOUS
    <2> HIDE DEF Init, AtRest, Quiet
    <2> QED BY <1>2, <1>3, <2>1, <2>2, <2>3, <2>4 DEF TypeOK
  <1>5. GroupsInUse
    <2>1. \A s \in Slots : slots[s].group # NoGroup => slots[s].group \in Groups
      BY DEF Mapping
    <2> QED BY <2>1 DEF GroupsInUse
  <1>6. GroupInv
    BY DEF GroupInv
  <1>7. GoneInv
    BY DEF GoneInv
  <1>8. EntriesInv
    <2> SUFFICES ASSUME NEW p \in Proxies, NEW s \in Slots, NEW e \in Entries(p, s)
                 PROVE  Good(slots[s], group, e)
      BY DEF EntriesInv
    <2>1. queue[p] = << >> /\ table[p][s] = toSlot(slots[s], group)
      OBVIOUS
    <2>2. e = toSlot(slots[s], group)
      BY <2>1, EntriesEmpty DEF Entries
    <2> QED BY <1>1, <2>2, GoodToSlot
  <1>9. SlotOpInv /\ GroupOpInv /\ ReplyInv
    BY <1>3 DEF SlotOpInv, GroupOpInv, ReplyInv
  <1> QED BY <1>4, <1>5, <1>6, <1>7, <1>8, <1>9 DEF IInv

(* The invariant does not depend on anything but the variables.            *)
LEMMA StutterIInv ==
    ASSUME IInv, UNCHANGED vars
    PROVE  IInv'
  <1>1. UNCHANGED <<slots, order, group, proxy, op, disabled, round, plans, run, proxyVars>>
    BY DEF vars, storeVars, taskVars
  <1>2. TypeOK'
    BY <1>1 DEF IInv, TypeOK, proxyVars
  <1> QED BY <1>1, <1>2, TaskStep

(* Every step keeps the invariant.                                         *)
LEMMA NextIInv ==
    ASSUME TopologyAssumption, IInv, [Next]_vars
    PROVE  IInv'
  <1>1. CASE Migration
    <2>1. ASSUME NEW s \in Slots, SlotActionPrepareFilter(s) \/ SlotActionComplete(s) PROVE IInv'
      BY <2>1, SlotHandlerStep
    <2>2. ASSUME NEW s \in Slots, newSlotActionExecutor(s) \/ ExecutorReturns(s) PROVE IInv'
      BY <2>2, LoopStep
    <2>3. CASE SlotStoreOk
      BY <2>3, SlotStoreOkStep
    <2>4. CASE SlotSyncOk
      BY <2>4, SlotSyncOkStep
    <2>5. CASE SlotSyncFail
      BY <2>5, SlotSyncFailStep
    <2>6. CASE SlotRollbackDone
      BY <2>6, PlainReturns
    <2>7. CASE RunPlans \/ RoundEnds
      BY <2>7, LoopStep
    <2> QED BY <1>1, <2>1, <2>2, <2>3, <2>4, <2>5, <2>6, <2>7 DEF Migration
  <1>2. CASE Promotion
    <2>1. CASE GroupStoreOk
      BY <2>1, GroupStoreOkStep
    <2>2. CASE GroupSyncOk
      BY <2>2, GroupSyncOkStep
    <2>3. CASE GroupSyncFail
      BY <2>3, GroupSyncFailStep
    <2>4. CASE GroupRollbackDone
      BY <2>4, PlainReturns
    <2> QED BY <1>2, <2>1, <2>2, <2>3, <2>4 DEF Promotion
  <1>3. CASE Assignment
    <2>1. CASE ResyncGroupDone
      BY <2>1, ResyncGroupDoneStep
    <2>2. CASE AssignStoreOk
      BY <2>2, AssignStoreStep
    <2>3. CASE AssignDone
      BY <2>3, PlainReturns
    <2> QED BY <1>3, <2>1, <2>2, <2>3 DEF Assignment
  <1>4. CASE Apply
    BY <1>4, PlainReturns, FillSlotsStep DEF Apply
  <1>5. CASE Operator
    <2>1. ASSUME NEW s \in Slots, SlotRemoveAction(s) PROVE IInv'
      BY <2>1, SlotRemoveActionStep
    <2>2. ASSUME NEW s \in Slots, NEW g \in Groups, SlotCreateAction(s, g) PROVE IInv'
      BY <2>2, SlotCreateActionStep
    <2>3. ASSUME NEW s \in Slots, SlotsAssignOffline(s) \/ \E g \in Groups : SlotsAssignGroup(s, g) PROVE IInv'
      BY <2>3, AssignOpsStep
    <2>4. ASSUME NEW g \in Groups, ResyncGroup(g) PROVE IInv'
      BY <2>4, ResyncGroupStep
    <2>5. ASSUME NEW g \in Groups, NEW a \in Servers, GroupPromoteServer(g, a) PROVE IInv'
      BY <2>5, GroupPromoteServerStep
    <2>6. ASSUME NEW g \in Groups, NEW a \in Servers, GroupAddServer(g, a) \/ GroupDelServer(g, a) PROVE IInv'
      BY <2>6, GroupOpsStep
    <2>7. ASSUME NEW g \in Groups, CreateGroup(g) \/ RemoveGroup(g) PROVE IInv'
      BY <2>7, GroupEmptyStep
    <2>8. ASSUME NEW p \in Proxies, OnlineProxy(p) PROVE IInv'
      BY <2>8, OnlineProxyStep
    <2>9. ASSUME NEW p \in Proxies, RemoveProxy(p) PROVE IInv'
      BY <2>9, RemoveProxyStep
    <2>10. CASE SetSlotActionDisabled
      BY <2>10, LoopStep
    <2> QED BY <1>5, <2>1, <2>2, <2>3, <2>4, <2>5, <2>6, <2>7, <2>8, <2>9, <2>10
            DEF Operator, SlotOps, AssignOps, PromoteOps, GroupOps, ProxyOps
  <1>6. CASE Fault
    <2>1. CASE SlotStoreFail
      BY <2>1, SlotStoreFailStep
    <2>2. CASE GroupStoreFail
      BY <2>2, GroupStoreFailStep
    <2>3. CASE AssignStoreFail
      BY <2>3, AssignStoreStep
    <2>4. ASSUME NEW p \in Proxies, FillSlotsFails(p) PROVE IInv'
      BY <2>4, FillSlotsFailsStep
    <2>5. ASSUME NEW p \in Proxies, FillSlotsAnswerLost(p) PROVE IInv'
      BY <2>5, FillSlotsAnswerLostStep
    <2>6. ASSUME NEW p \in Proxies, RestartProxy(p) PROVE IInv'
      BY <2>6, RestartProxyStep
    <2>7. CASE RestartDashboard
      BY <2>7, RestartDashboardStep
    <2> QED BY <1>6, <2>1, <2>2, <2>3, <2>4, <2>5, <2>6, <2>7 DEF Fault, StoreFault, NetFault
  <1>7. CASE UNCHANGED vars
    BY <1>7, StutterIInv
  <1> QED BY <1>1, <1>2, <1>3, <1>4, <1>5, <1>6, <1>7 DEF Next

(* The inductive invariant holds in every behaviour, whatever operators    *)
(* reassign.                                                               *)
THEOREM Inductive == Spec => []IInv
  <1>1. Init => IInv
    BY InitIInv, TopologyAssumption
  <1>2. IInv /\ [Next]_vars => IInv'
    BY NextIInv, TopologyAssumption
  <1> QED BY <1>1, <1>2, PTL DEF Spec

-----------------------------------------------------------------------------
(* The properties.  Those about what the proxies serve are stated for      *)
(* clusters in which operators assign only offline slots (~ Reassign):     *)
(* SlotsAssignGroup on a slot in use breaks them by design, since it       *)
(* stores first and tells the proxies afterwards.  What it does not break  *)
(* is that the drift is flagged.                                           *)

(* The entry a proxy uses is one of its entries.                           *)
LEMMA TableGood ==
    ASSUME IInv, NEW p \in proxy, NEW s \in Slots
    PROVE  /\ Good(slots[s], group, table[p][s]) /\ p \in Proxies
           /\ ~ Reassign => Exact(slots[s], group, table[p][s])
  <1>1. p \in Proxies
    BY DEF IInv, TypeOK
  <1>2. table[p][s] \in Entries(p, s)
    BY DEF Entries, EntriesOf
  <1>3. Good(slots[s], group, table[p][s])
    BY <1>1, <1>2 DEF IInv, EntriesInv
  <1> QED BY <1>1, <1>3 DEF Good, Excused

(* The variables keep their types: no handler leaves a half-built record   *)
(* in the store, in a table or in a call.                                  *)
THEOREM TypeCorrect == Spec => []TypeOK
  <1>1. IInv => TypeOK
    BY DEF IInv
  <1> QED BY <1>1, Inductive, PTL

(* Registered proxies never forward requests for a slot to different       *)
(* servers, for any number of slots, groups, servers, proxies and late     *)
(* calls.                                                                  *)
THEOREM RoutesAgree == ~ Reassign /\ Spec => []RoutingAgreement
  <1> SUFFICES ASSUME ~ Reassign PROVE Spec => []RoutingAgreement
    OBVIOUS
  <1>1. IInv => RoutingAgreement
    BY TableGood DEF RoutingAgreement, Serves, Exact
  <1> QED BY <1>1, Inductive, PTL

(* A proxy that serves a slot forwards to the owner by the store and pulls *)
(* keys from the source of the migration, and from nowhere outside one.    *)
THEOREM PullsAreRight == ~ Reassign /\ Spec => []PullsFromSource
  <1> SUFFICES ASSUME ~ Reassign PROVE Spec => []PullsFromSource
    OBVIOUS
  <1>1. IInv => PullsFromSource
    BY TableGood DEF PullsFromSource, Serves, Exact, Owner
  <1> QED BY <1>1, Inductive, PTL

(* The masters of a group are switched behind the back of no proxy.        *)
THEOREM BarrierHolds == ~ Reassign /\ Spec => []PromotionBarrier
  <1> SUFFICES ASSUME ~ Reassign PROVE Spec => []PromotionBarrier
    OBVIOUS
  <1>1. IInv => PromotionBarrier
    BY TableGood DEF PromotionBarrier, Serves, Exact
  <1> QED BY <1>1, Inductive, PTL

(* Whatever operators reassign while slots are migrated and masters are    *)
(* replaced, a proxy that sends the requests of a settled slot elsewhere   *)
(* than the store says belongs to a group that is flagged out of sync: no  *)
(* handler clears the flag before every proxy has been told.               *)
THEOREM DriftIsVisible == Spec => []DriftIsFlagged
  <1>1. IInv => DriftIsFlagged
    BY TableGood DEF DriftIsFlagged, Serves, Good, Exact, Excused, Owner
  <1> QED BY <1>1, Inductive, PTL

(* No group that a slot lives in or moves to loses its last server.        *)
THEOREM GroupsStay == Spec => []GroupsInUse
  <1>1. IInv => GroupsInUse
    BY DEF IInv
  <1> QED BY <1>1, Inductive, PTL

-----------------------------------------------------------------------------
(* The control plane implements ExclusiveRouting.                          *)

AbstractInv ==
    /\ Owners \in Abstract!Owned
    /\ Sources \in Abstract!Owned
    /\ Routes \in Abstract!Routed
    /\ \A s \in Slots : SlotPhases[s] # "moving" => Sources[s] = NoAddr
    /\ \A p \in Proxies, s \in Slots : Abstract!Fits(Routes[p][s], s)

(* Owners, sources and routes have the types ExclusiveRouting expects, and *)
(* every route agrees with the owner and the source of its slot.           *)
LEMMA AbstractTypes ==
    ~ Reassign /\ IInv => AbstractInv
  <1> SUFFICES ASSUME ~ Reassign, IInv PROVE AbstractInv
    OBVIOUS
  <1>1. \A s \in Slots : Owner(s) \in Addrs /\ SourceOf(slots[s], group) \in Addrs
    BY MasterType DEF IInv, TypeOK, Owner, SourceOf, Addrs
  <1>2. \A p \in Proxies, s \in Slots : table[p][s].backend \in Addrs /\ table[p][s].from \in Addrs
    BY DEF IInv, TypeOK, Entry
  <1>3. \A p \in Proxies, s \in Slots : RouteOf(p, s) \in [to: Addrs, from: Addrs]
    BY <1>2 DEF RouteOf, Addrs
  <1>4. /\ Owners \in [Slots -> Addrs]
        /\ Sources \in [Slots -> Addrs]
        /\ Routes \in [Proxies -> [Slots -> [to: Addrs, from: Addrs]]]
    BY <1>1, <1>3 DEF Owners, Sources, Routes
  <1>5. \A s \in Slots : SlotPhases[s] # "moving" => Sources[s] = NoAddr
    BY DEF SlotPhases, Sources, SourceOf
  <1>6. ASSUME NEW p \in Proxies, NEW s \in Slots
        PROVE  Abstract!Fits(Routes[p][s], s)
    <2> SUFFICES ASSUME p \in proxy, Serves(p, s)
                 PROVE  Abstract!Fits([to |-> table[p][s].backend, from |-> table[p][s].from], s)
      BY DEF Routes, RouteOf, Abstract!Fits, Abstract!NoRoute
    <2>1. /\ table[p][s].backend = Owner(s)
          /\ slots[s].state \in {"nothing", "pending", "preparing"} => table[p][s].from = NoAddr
          /\ slots[s].state \in {"prepared", "migrating"} => table[p][s].from = getGroupMaster(group, slots[s].group)
      BY TableGood DEF Serves, Exact, Owner
    <2>2. /\ PhaseOf(slots[s]) = "settled" => slots[s].state \in {"nothing", "pending", "preparing"}
          /\ PhaseOf(slots[s]) = "moving" => slots[s].state \in {"prepared", "migrating"}
      BY DEF PhaseOf
    <2> QED BY <2>1, <2>2 DEF Abstract!Fits, Owners, Sources, SlotPhases, SourceOf
  <1> QED BY <1>4, <1>5, <1>6
          DEF AbstractInv, Abstract!Owned, Abstract!Routed, Abstract!Route, Abstract!Address, Addrs

(* What a step does to the mappings: nothing, or a write of one of them    *)
(* that keeps its phase, or one that advances it behind its barrier.       *)
KeepsPhases == \A s \in Slots : PhaseOf(slots'[s]) = PhaseOf(slots[s])

Advances(s) ==
    /\ UNCHANGED group
    /\ slots' = [slots EXCEPT ![s] = slots'[s]]
    /\ \/ /\ slots[s].state = "preparing" /\ slots'[s] = [slots[s] EXCEPT !.state = "prepared"]
          /\ Parked(s)
       \/ slots[s].state = "migrating" /\ slots'[s] = [slots[s] EXCEPT !.state = "finished"]
       \/ /\ slots[s].state = "finished" /\ slots'[s] = [Offline EXCEPT !.group = slots[s].target]
          /\ Drained(s)

(* A proxy that serves a slot uses one of its entries.                     *)
LEMMA RouteIsEntry ==
    ASSUME IInv, NEW p \in Proxies, NEW s \in Slots
    PROVE  /\ Parked(s) => Routes[p][s] = Abstract!NoRoute
           /\ Drained(s) => Routes[p][s].from = NoAddr
  <1>1. table[p][s] \in Entries(p, s)
    BY DEF Entries, EntriesOf
  <1> QED BY <1>1 DEF Parked, Drained, Routes, RouteOf, Serves, Abstract!NoRoute

(* A step that changes neither tables, registrations nor phases.           *)
LEMMA SwitchRefines ==
    ASSUME AbstractInv, AbstractInv', UNCHANGED <<table, proxy>>, KeepsPhases
    PROVE  Abstract!Switch
  <1>1. Routes' = Routes /\ SlotPhases' = SlotPhases
    BY DEF Routes, RouteOf, Serves, SlotPhases, KeepsPhases
  <1>2. ASSUME NEW s \in Slots, Owners'[s] # Owners[s] \/ Sources'[s] # Sources[s], NEW p \in Proxies
        PROVE  Routes[p][s] = Abstract!NoRoute
    <2>1. Abstract!Fits(Routes[p][s], s) /\ Abstract!Fits(Routes[p][s], s)'
      BY <1>1 DEF AbstractInv
    <2>2. SlotPhases[s] # "moving" => Sources[s] = NoAddr /\ Sources'[s] = NoAddr
      BY <1>1 DEF AbstractInv
    <2> QED BY <1>1, <1>2, <2>1, <2>2 DEF Abstract!Fits
  <1>3. \A s \in Slots : SlotPhases[s] # "moving" => Sources'[s] = Sources[s]
    BY <1>1 DEF AbstractInv
  <1> QED BY <1>1, <1>2, <1>3 DEF Abstract!Switch, Abstract!Unrouted, AbstractInv

(* A write that advances the phase of a slot.                              *)
LEMMA AdvanceRefines ==
    ASSUME IInv, UNCHANGED <<table, proxy>>, NEW s \in Slots, Advances(s)
    PROVE  \/ Abstract!Begin(s, Owners'[s])
           \/ Abstract!Finish(s)
           \/ Abstract!Settle(s)
  <1>1. Routes' = Routes
    BY DEF Routes, RouteOf, Serves
  <1>2. slots \in [Slots -> Mapping] /\ slots[s] \in Mapping
    BY DEF IInv, TypeOK
  <1>3. \A t \in Slots \ {s} : slots'[t] = slots[t]
    BY <1>2 DEF Advances
  <1>4. /\ Owners'  = [Owners  EXCEPT ![s] = Owners'[s]]
        /\ Sources' = [Sources EXCEPT ![s] = Sources'[s]]
        /\ SlotPhases' = [SlotPhases EXCEPT ![s] = SlotPhases'[s]]
    <2>1. UNCHANGED group
      BY DEF Advances
    <2>2. \A t \in Slots \ {s} : /\ Owner(t)' = Owner(t)
                                  /\ SourceOf(slots[t], group)' = SourceOf(slots[t], group)
                                  /\ PhaseOf(slots[t])' = PhaseOf(slots[t])
      BY <1>3, <2>1 DEF Owner, SourceOf, getGroupMaster
    <2>3. Owners' = [Owners EXCEPT ![s] = Owners'[s]]
      BY <2>2 DEF Owners
    <2>4. Sources' = [Sources EXCEPT ![s] = Sources'[s]]
      BY <2>2 DEF Sources
    <2>5. SlotPhases' = [SlotPhases EXCEPT ![s] = SlotPhases'[s]]
      BY <2>2 DEF SlotPhases
    <2> QED BY <2>3, <2>4, <2>5
  <1>5. CASE slots[s].state = "preparing" /\ slots'[s] = [slots[s] EXCEPT !.state = "prepared"] /\ Parked(s)
    <2>1. slots'[s].state = "prepared" /\ slots'[s].group = slots[s].group
      BY <1>2, <1>5 DEF Mapping
    <2>2. SlotPhases[s] = "settled" /\ SlotPhases'[s] = "moving"
      BY <1>5, <2>1 DEF SlotPhases, PhaseOf
    <2>3. Sources'[s] = Owners[s]
      BY <1>5, <2>1, <2>2 DEF Sources, SourceOf, SlotPhases, Owners, Owner, OwnerGroup, Advances, getGroupMaster
    <2>4. Abstract!Unrouted(s)
      BY <1>5, RouteIsEntry DEF Abstract!Unrouted
    <2> QED BY <1>1, <1>4, <2>2, <2>3, <2>4 DEF Abstract!Begin
  <1>6. CASE slots[s].state = "migrating" /\ slots'[s] = [slots[s] EXCEPT !.state = "finished"]
    <2>1. slots'[s].state = "finished" /\ slots'[s].target = slots[s].target
      BY <1>2, <1>6 DEF Mapping
    <2>2. SlotPhases[s] = "moving" /\ SlotPhases'[s] = "moved"
      BY <1>6, <2>1 DEF SlotPhases, PhaseOf
    <2>3. Sources'[s] = NoAddr
      BY <2>2 DEF Sources, SourceOf, SlotPhases
    <2>4. Owners'[s] = Owners[s]
      BY <1>6, <2>1 DEF Owners, Owner, OwnerGroup, Advances, getGroupMaster
    <2>5. Owners' = Owners
      BY <1>4, <2>4 DEF Owners
    <2> QED BY <1>1, <1>4, <2>2, <2>3, <2>5 DEF Abstract!Finish
  <1>7. CASE slots[s].state = "finished" /\ slots'[s] = [Offline EXCEPT !.group = slots[s].target] /\ Drained(s)
    <2>1. slots'[s].state = "nothing" /\ slots'[s].group = slots[s].target
      BY <1>7 DEF Offline
    <2>2. SlotPhases[s] = "moved" /\ SlotPhases'[s] = "settled"
      BY <1>7, <2>1 DEF SlotPhases, PhaseOf
    <2>3. Sources'[s] = NoAddr /\ Sources[s] = NoAddr
      BY <2>2 DEF Sources, SourceOf, SlotPhases
    <2>4. Owners'[s] = Owners[s]
      BY <1>7, <2>1 DEF Owners, Owner, OwnerGroup, Advances, getGroupMaster
    <2>5. Owners' = Owners /\ Sources' = Sources
      BY <1>4, <2>3, <2>4 DEF Owners, Sources
    <2>6. \A p \in Proxies : Routes[p][s].from = NoAddr
      BY <1>7, RouteIsEntry
    <2> QED BY <1>1, <1>4, <2>2, <2>5, <2>6 DEF Abstract!Settle
  <1> QED BY <1>5, <1>6, <1>7 DEF Advances

(* The write of a slot handler advances a phase or keeps it.               *)
LEMMA SlotWriteAdvances ==
    ASSUME IInv, op.pc = "slotStore", WriteSlot(op.sid, op.m)
    PROVE  KeepsPhases \/ \E s \in Slots : Advances(s)
  <1>1. slots \in [Slots -> Mapping] /\ op.sid \in Slots /\ op.m \in Mapping /\ slots[op.sid] \in Mapping
    BY DEF IInv, TypeOK
  <1>2. slots' = [slots EXCEPT ![op.sid] = op.m] /\ slots'[op.sid] = op.m /\ UNCHANGED group
    BY <1>1 DEF WriteSlot
  <1>3. slots' = [slots EXCEPT ![op.sid] = slots'[op.sid]]
    BY <1>2
  <1>4. CASE op.m.state = "preparing" /\ slots[op.sid] = [op.m EXCEPT !.state = "pending"]
    BY <1>1, <1>2, <1>4 DEF KeepsPhases, PhaseOf, Mapping
  <1>5. CASE op.m.state = "migrating" /\ slots[op.sid] = [op.m EXCEPT !.state = "prepared"]
    BY <1>1, <1>2, <1>5 DEF KeepsPhases, PhaseOf, Mapping
  <1>6. CASE op.m.state = "prepared" /\ slots[op.sid] = [op.m EXCEPT !.state = "preparing"] /\ Parked(op.sid)
    <2>1. slots[op.sid].state = "preparing" /\ op.m = [slots[op.sid] EXCEPT !.state = "prepared"]
      BY <1>1, <1>6 DEF Mapping
    <2> QED BY <1>1, <1>2, <1>3, <1>6, <2>1 DEF Advances
  <1>7. CASE op.m.state = "finished" /\ slots[op.sid] = [op.m EXCEPT !.state = "migrating"]
    <2>1. slots[op.sid].state = "migrating" /\ op.m = [slots[op.sid] EXCEPT !.state = "finished"]
      BY <1>1, <1>7 DEF Mapping
    <2> QED BY <1>1, <1>2, <1>3, <2>1 DEF Advances
  <1>8. CASE /\ op.m = [Offline EXCEPT !.group = slots[op.sid].target]
             /\ slots[op.sid].state = "finished" /\ Drained(op.sid)
    BY <1>1, <1>2, <1>3, <1>8 DEF Advances
  <1> QED BY <1>4, <1>5, <1>6, <1>7, <1>8 DEF IInv, SlotOpInv

(* A step of one proxy.                                                    *)
LEMMA TableRefines ==
    ASSUME AbstractInv', UNCHANGED <<slots, group>>, NEW p \in Proxies,
           \A q \in Proxies \ {p} : Routes'[q] = Routes[q]
    PROVE  Abstract!Reroute(p)
  <1>1. Owners' = Owners /\ Sources' = Sources /\ SlotPhases' = SlotPhases
    BY DEF Owners, Owner, Sources, SourceOf, SlotPhases, OwnerGroup, getGroupMaster
  <1>2. Routes' \in [Proxies -> [Slots -> Abstract!Route]]
    BY DEF AbstractInv, Abstract!Routed
  <1>3. Routes' = [Routes EXCEPT ![p] = Routes'[p]] /\ Routes'[p] \in [Slots -> Abstract!Route]
    BY <1>2 DEF Routes
  <1>4. \A s \in Slots : Abstract!Fits(Routes'[p][s], s)
    BY <1>1 DEF AbstractInv, Abstract!Fits
  <1> QED BY <1>1, <1>3, <1>4 DEF Abstract!Reroute, Abstract!controlVars

(* Every other step leaves the tables and the registrations alone.         *)
LEMMA OtherSteps ==
    ASSUME [Next]_vars
    PROVE  \/ UNCHANGED <<table, proxy>>
           \/ \E p \in Proxies : FillSlots(p) \/ RestartProxy(p) \/ RemoveProxy(p) \/ OnlineProxy(p)
  <1> USE DEF storeVars, proxyVars, Return, Send, WriteSlot, WriteGroup
  <1>1. CASE Migration
    <2>1. ASSUME NEW s \in Slots, SlotActionPrepareFilter(s) \/ SlotActionComplete(s)
          PROVE  UNCHANGED <<table, proxy>>
      BY <2>1 DEF SlotActionPrepareFilter, SlotActionComplete, SlotStore, SlotSync, PrepareReturns, CompleteReturns
    <2>2. ASSUME NEW s \in Slots, newSlotActionExecutor(s) \/ ExecutorReturns(s)
          PROVE  UNCHANGED <<table, proxy>>
      BY <2>2 DEF newSlotActionExecutor, ExecutorReturns
    <2>3. CASE SlotStoreOk \/ SlotSyncOk
      BY <2>3 DEF SlotStoreOk, SlotSyncOk, SlotStore, SlotSync, PrepareReturns, CompleteReturns
    <2>4. CASE SlotSyncFail \/ SlotRollbackDone
      BY <2>4 DEF SlotSyncFail, SlotRollbackDone, SlotSync, SlotFails, PrepareFails, CompleteReturns
    <2>5. CASE RunPlans \/ RoundEnds
      BY <2>5 DEF RunPlans, RoundEnds
    <2> QED BY <1>1, <2>1, <2>2, <2>3, <2>4, <2>5 DEF Migration
  <1>2. CASE Promotion
    BY <1>2 DEF Promotion, GroupStoreOk, GroupSyncOk, GroupSyncFail, GroupRollbackDone, GroupStore, GroupSync
  <1>3. CASE Assignment
    BY <1>3 DEF Assignment, ResyncGroupDone, AssignStoreOk, AssignDone, SlotSync
  <1>4. CASE Apply
    BY <1>4 DEF Apply, OnlineProxyDone
  <1>5. CASE Operator
    BY <1>5 DEF Operator, SlotOps, AssignOps, PromoteOps, GroupOps, ProxyOps, SetSlotActionDisabled,
                SlotRemoveAction, SlotCreateAction, SlotsAssignOffline, SlotsAssignGroup, ResyncGroup,
                GroupPromoteServer, CreateGroup, RemoveGroup, GroupAddServer, GroupDelServer,
                GroupStore, GroupSync
  <1>6. CASE Fault
    BY <1>6 DEF Fault, StoreFault, NetFault, SlotStoreFail, GroupStoreFail, AssignStoreFail, SlotFails,
                PrepareFails, CompleteReturns, FillSlotsFails, FillSlotsAnswerLost, RestartDashboard
  <1>7. CASE UNCHANGED vars
    BY <1>7 DEF vars
  <1> QED BY <1>1, <1>2, <1>3, <1>4, <1>5, <1>6, <1>7 DEF Next

(* Steps that write no mapping, and the single ones that operators write.  *)
LEMMA PhaseSteps ==
    ASSUME IInv, ~ Reassign, [Next]_vars
    PROVE  KeepsPhases \/ \E s \in Slots : Advances(s)
  <1> USE DEF storeVars, WriteGroup
  <1>1. slots' = slots => KeepsPhases
    BY DEF KeepsPhases
  <1>2. slots \in [Slots -> Mapping]
    BY DEF IInv, TypeOK
  <1>3. CASE Migration
    <2>1. ASSUME NEW s \in Slots,
                 SlotActionPrepareFilter(s) \/ SlotActionComplete(s) \/ newSlotActionExecutor(s) \/ ExecutorReturns(s)
          PROVE  slots' = slots
      BY <2>1 DEF SlotActionPrepareFilter, SlotActionComplete, newSlotActionExecutor, ExecutorReturns
    <2>2. CASE SlotStoreOk
      BY <2>2, SlotWriteAdvances DEF SlotStoreOk
    <2>3. CASE SlotSyncOk \/ SlotSyncFail \/ SlotRollbackDone \/ RunPlans \/ RoundEnds
      BY <1>1, <2>3 DEF SlotSyncOk, SlotSyncFail, SlotRollbackDone, RunPlans, RoundEnds
    <2> QED BY <1>1, <1>3, <2>1, <2>2, <2>3 DEF Migration
  <1>4. CASE Promotion
    BY <1>1, <1>4 DEF Promotion, GroupStoreOk, GroupSyncOk, GroupSyncFail, GroupRollbackDone
  <1>5. ASSUME op.pc = "assignStore", WriteSlot(op.sid, op.m)
        PROVE  KeepsPhases
    <2>1. slots[op.sid] = Offline /\ op.m = [Offline EXCEPT !.group = op.m.group] /\ op.sid \in Slots
      BY <1>5 DEF IInv, SlotOpInv, TypeOK
    <2>2. PhaseOf(op.m) = PhaseOf(slots[op.sid])
      BY <2>1 DEF PhaseOf, Offline
    <2> QED BY <1>2, <1>5, <2>1, <2>2 DEF WriteSlot, KeepsPhases
  <1>6. CASE Assignment
    BY <1>1, <1>5, <1>6 DEF Assignment, ResyncGroupDone, AssignStoreOk, AssignDone
  <1>7. CASE Apply
    BY <1>1, <1>7 DEF Apply, OnlineProxyDone, FillSlots
  <1>8. CASE Operator
    <2>1. ASSUME NEW s \in Slots, SlotRemoveAction(s)
          PROVE  KeepsPhases
      <3>1. slots[s].state = "pending" /\ slots' = [slots EXCEPT ![s] = [Offline EXCEPT !.group = slots[s].group]]
        BY <2>1 DEF SlotRemoveAction, WriteSlot
      <3> QED BY <1>2, <3>1 DEF KeepsPhases, PhaseOf, Offline
    <2>2. ASSUME NEW s \in Slots, NEW g \in Groups, SlotCreateAction(s, g)
          PROVE  KeepsPhases
      <3>1. /\ slots[s].state = "nothing"
            /\ slots' = [slots EXCEPT ![s].state = "pending", ![s].target = g]
        BY <2>2 DEF SlotCreateAction
      <3>2. slots'[s].state = "pending" /\ \A t \in Slots \ {s} : slots'[t] = slots[t]
        BY <1>2, <3>1 DEF Mapping
      <3> QED BY <3>1, <3>2 DEF KeepsPhases, PhaseOf
    <2>3. CASE AssignOps
      BY <1>1, <2>3 DEF AssignOps, SlotsAssignOffline, SlotsAssignGroup, ResyncGroup
    <2>4. CASE PromoteOps \/ GroupOps
      BY <1>1, <2>4 DEF PromoteOps, GroupOps, GroupPromoteServer, CreateGroup, RemoveGroup, GroupAddServer,
                        GroupDelServer
    <2>5. CASE ProxyOps \/ SetSlotActionDisabled
      BY <1>1, <2>5 DEF ProxyOps, SetSlotActionDisabled, OnlineProxy, RemoveProxy
    <2> QED BY <1>8, <2>1, <2>2, <2>3, <2>4, <2>5 DEF Operator, SlotOps
  <1>9. CASE Fault
    <2>1. CASE SlotStoreFail
      BY <1>1, <2>1, SlotWriteAdvances DEF SlotStoreFail
    <2>2. CASE AssignStoreFail
      BY <1>1, <1>5, <2>2 DEF AssignStoreFail
    <2>3. CASE GroupStoreFail \/ NetFault
      BY <1>1, <2>3 DEF GroupStoreFail, NetFault, FillSlotsFails, FillSlotsAnswerLost, RestartProxy, RestartDashboard
    <2> QED BY <1>9, <2>1, <2>2, <2>3 DEF Fault, StoreFault
  <1>10. CASE UNCHANGED vars
    BY <1>1, <1>10 DEF vars
  <1> QED BY <1>3, <1>4, <1>6, <1>7, <1>8, <1>9, <1>10 DEF Next

(* Every step advances a slot behind its barrier, replaces masters nobody  *)
(* routes to, or reroutes one proxy.                                       *)
LEMMA StepRefines ==
    ASSUME IInv, AbstractInv, AbstractInv', ~ Reassign, [Next]_vars
    PROVE  Abstract!RoutingNext
  <1>1. CASE UNCHANGED <<table, proxy>>
    <2>1. CASE KeepsPhases
      BY <1>1, <2>1, SwitchRefines DEF Abstract!RoutingNext
    <2>2. ASSUME NEW s \in Slots, Advances(s)
          PROVE  Abstract!RoutingNext
      <3>1. Owners'[s] \in Abstract!Address
        BY DEF AbstractInv, Abstract!Owned
      <3> QED BY <1>1, <2>2, <3>1, AdvanceRefines DEF Abstract!RoutingNext
    <2> QED BY <2>1, <2>2, PhaseSteps
  <1>2. ASSUME NEW p \in Proxies, FillSlots(p) \/ RestartProxy(p)
        PROVE  Abstract!RoutingNext
    <2>1. UNCHANGED <<slots, group, proxy>> /\ \A q \in Proxies \ {p} : table'[q] = table[q]
      BY <1>2 DEF FillSlots, RestartProxy, storeVars, IInv, TypeOK
    <2>2. \A q \in Proxies \ {p} : Routes'[q] = Routes[q]
      BY <2>1 DEF Routes, RouteOf, Serves
    <2> QED BY <2>1, <2>2, TableRefines DEF Abstract!RoutingNext
  <1>3. ASSUME NEW p \in Proxies, RemoveProxy(p)
        PROVE  Abstract!RoutingNext
    <2>1. /\ UNCHANGED <<slots, group>> /\ proxy' = proxy \ {p}
          /\ \A q \in Proxies \ {p} : table'[q] = table[q]
      BY <1>3 DEF RemoveProxy, IInv, TypeOK
    <2>2. \A q \in Proxies \ {p} : Routes'[q] = Routes[q]
      BY <2>1 DEF Routes, RouteOf, Serves
    <2> QED BY <2>1, <2>2, TableRefines DEF Abstract!RoutingNext
  <1>4. ASSUME NEW p \in Proxies, OnlineProxy(p)
        PROVE  Abstract!RoutingNext
    <2>1. UNCHANGED <<slots, group, table>> /\ proxy' = proxy \cup {p}
      BY <1>4 DEF OnlineProxy, Send
    <2>2. \A q \in Proxies \ {p} : Routes'[q] = Routes[q]
      BY <2>1 DEF Routes, RouteOf, Serves
    <2> QED BY <2>1, <2>2, TableRefines DEF Abstract!RoutingNext
  <1>5. \/ UNCHANGED <<table, proxy>>
        \/ \E p \in Proxies : FillSlots(p) \/ RestartProxy(p) \/ RemoveProxy(p) \/ OnlineProxy(p)
    BY OtherSteps
  <1> QED BY <1>1, <1>2, <1>3, <1>4, <1>5

(* The control plane implements its abstract specification: owners and     *)
(* sources of a slot change only while no registered proxy forwards        *)
(* requests for it, it settles only when none pulls its keys, and no step  *)
(* changes both the store and a table.                                     *)
THEOREM Refinement == ~ Reassign /\ Spec => ImplementsExclusiveRouting
  <1> SUFFICES ASSUME ~ Reassign PROVE Spec => Abstract!RoutingSpec
    BY DEF ImplementsExclusiveRouting
  <1>1. Init => Abstract!RoutingInit
    <2> SUFFICES ASSUME Init PROVE Abstract!RoutingInit
      OBVIOUS
    <2>1. AbstractInv
      BY InitIInv, AbstractTypes, TopologyAssumption
    <2>2. \A s \in Slots : PhaseOf(slots[s]) = "settled"
      BY DEF Init, AtRest, PhaseOf
    <2>3. SlotPhases = [s \in Slots |-> "settled"] /\ Sources = [s \in Slots |-> NoAddr]
      BY <2>2 DEF SlotPhases, Sources, SourceOf
    <2> QED BY <2>1, <2>3 DEF AbstractInv, Abstract!RoutingInit
  <1>2. IInv /\ AbstractInv /\ AbstractInv' /\ [Next]_vars => [Abstract!RoutingNext]_(Abstract!routingVars)
    BY StepRefines
  <1>3. Spec => []IInv
    BY Inductive
  <1> QED BY <1>1, <1>2, <1>3, AbstractTypes, PTL DEF Spec, Abstract!RoutingSpec

-----------------------------------------------------------------------------
(* The migration loop: LoopInv is kept, given IInv.                        *)

KeepsEnds(s) == slots'[s].group = slots[s].group /\ slots'[s].target = slots[s].target

KeepsStates == \A g \in Groups : group'[g].state = group[g].state

KeepsTasks == round' = round /\ plans' = plans /\ run' = run

(* Slots of a round stay apart while their mappings keep their groups.     *)
LEMMA StaysApart ==
    ASSUME LiveInv, Live' \subseteq Live,
           \A s \in Live' : KeepsEnds(s) /\ slots'[s].state \in {"migrating", "finished"}
    PROVE  LiveInv'
  <1>1. ASSUME NEW s \in Live', NEW t \in Live' \ {s}
        PROVE  Apart(s, t)'
    <2>1. Apart(s, t)
      BY <1>1 DEF LiveInv
    <2> QED BY <1>1, <2>1 DEF Apart, KeepsEnds
  <1> QED BY <1>1 DEF LiveInv

(* Executors keep their slots and groups.                                  *)
LEMMA ExecKept ==
    ASSUME ExecInv, KeepsStates,
           \A s \in Slots : run'[s] = "exec" => run[s] = "exec" /\ slots'[s] = slots[s]
    PROVE  ExecInv'
  BY DEF ExecInv, KeepsStates, isGroupPromoting

(* A slot that an executor, or a task, works on is one of the round.       *)
LEMMA TaskIsLive ==
    ASSUME TasksInv, NEW s \in Slots, run[s] # "none"
    PROVE  s \in Live
  BY DEF TasksInv, Live

(* A handler that leaves the tasks and the slots of the round alone.       *)
LEMMA LoopKept ==
    ASSUME LoopInv, KeepsTasks, KeepsStates, HandlerInv',
           \A s \in Live : slots'[s] = slots[s]
    PROVE  LoopInv'
  <1>1. Live' = Live
    BY DEF Live, KeepsTasks
  <1>2. TasksInv'
    BY DEF LoopInv, TasksInv, KeepsTasks
  <1>3. LiveInv'
    <2>1. \A s \in Live' : KeepsEnds(s) /\ slots'[s].state \in {"migrating", "finished"}
      BY <1>1 DEF KeepsEnds, LoopInv, LiveInv
    <2> QED BY <1>1, <2>1, StaysApart DEF LoopInv
  <1>4. \A s \in Slots : run'[s] = "exec" => run[s] = "exec" /\ slots'[s] = slots[s]
    BY TaskIsLive DEF KeepsTasks, LoopInv
  <1>5. ExecInv'
    BY <1>4, ExecKept DEF LoopInv
  <1> QED BY <1>2, <1>3, <1>5 DEF LoopInv

(* A pc that HandlerInv says nothing about.                                *)
Free(pc) == pc \in {"idle", "resyncSync", "assignStore", "assignSync", "initSync"}

LEMMA FreeHandler ==
    ASSUME Free(op'.pc)
    PROVE  HandlerInv'
  BY DEF Free, HandlerInv

LEMMA ReturnIsFree ==
    ASSUME Return
    PROVE  HandlerInv'
  BY FreeHandler DEF Return, Idle, Free

(* The handler that runs goes on while proxies and the network act.        *)
LEMMA SameHandler ==
    ASSUME HandlerInv, op' = op, slots' = slots, KeepsTasks
    PROVE  HandlerInv'
  BY DEF HandlerInv, KeepsTasks, accept, marks

(* Steps that change nothing the loop depends on but the handler.          *)
LEMMA QuietStep ==
    ASSUME LoopInv, UNCHANGED <<slots, group>>, KeepsTasks, HandlerInv'
    PROVE  LoopInv'
  BY LoopKept DEF KeepsStates

LEMMA QuietSteps ==
    ASSUME LoopInv,
           \/ \E p \in Proxies : \/ FillSlots(p) \/ FillSlotsFails(p) \/ FillSlotsAnswerLost(p)
                                 \/ RestartProxy(p) \/ OnlineProxy(p) \/ RemoveProxy(p)
           \/ SetSlotActionDisabled \/ OnlineProxyDone \/ AssignDone \/ UNCHANGED vars
    PROVE  LoopInv'
  <1>1. UNCHANGED <<slots, group>> /\ KeepsTasks
    BY DEF FillSlots, FillSlotsFails, FillSlotsAnswerLost, RestartProxy, OnlineProxy, RemoveProxy,
           SetSlotActionDisabled, OnlineProxyDone, AssignDone, vars, storeVars, taskVars, KeepsTasks
  <1>2. op' = op \/ Return \/ op'.pc = "initSync"
    <2>1. ASSUME NEW p \in Proxies, OnlineProxy(p) PROVE op'.pc = "initSync"
      BY <2>1 DEF OnlineProxy
    <2>2. ASSUME NEW p \in Proxies, FillSlots(p) \/ FillSlotsFails(p) \/ FillSlotsAnswerLost(p)
                                       \/ RestartProxy(p) \/ RemoveProxy(p)
          PROVE  op' = op
      BY <2>2 DEF FillSlots, FillSlotsFails, FillSlotsAnswerLost, RestartProxy, RemoveProxy
    <2>3. CASE SetSlotActionDisabled \/ UNCHANGED vars
      BY <2>3 DEF SetSlotActionDisabled, vars
    <2>4. CASE OnlineProxyDone \/ AssignDone
      BY <2>4 DEF OnlineProxyDone, AssignDone
    <2> QED BY <2>1, <2>2, <2>3, <2>4
  <1>3. HandlerInv'
    BY <1>1, <1>2, SameHandler, ReturnIsFree, FreeHandler DEF LoopInv, Free
  <1> QED BY <1>1, <1>3, QuietStep

(* Where a handler stands after each kind of step.                         *)
LEMMA StepPcs ==
    /\ Return => op'.pc = "idle"
    /\ \A g, rec : GroupStore(g, rec) => op'.pc = "groupStore"
    /\ \A pc, g, rec : GroupSync(pc, g, rec) => op'.pc = pc
    /\ \A s, m : SlotStore(s, m) => op'.pc = "slotStore" /\ op'.sid = s /\ op'.m = m
    /\ \A pc, s, m : SlotSync(pc, s, m) => op'.pc = pc /\ op'.sid = s /\ op'.m = m
    /\ \A s, g : AssignStore(s, g) => op'.pc = "assignStore"
  BY DEF Return, Idle, GroupStore, GroupSync, SlotStore, SlotSync, AssignStore

(* GroupAddServer and GroupDelServer write a group whose state they keep.  *)
LEMMA ServerEdits ==
    ASSUME IInv, NEW g \in Groups, NEW a \in Servers, GroupAddServer(g, a) \/ GroupDelServer(g, a)
    PROVE  UNCHANGED taskVars /\ op' = Idle /\ \E rec : WriteGroup(g, rec) /\ rec.state = group[g].state
  <1>1. UNCHANGED taskVars /\ op' = Idle
    BY DEF GroupAddServer, GroupDelServer
  <1>2. group[g] \in Group
    BY DEF IInv, TypeOK
  <1>3. \A b : /\ [group[g] EXCEPT !.master = b].state = group[g].state
              /\ [group[g] EXCEPT !.replicas = b].state = group[g].state
              /\ [group[g] EXCEPT !.master = b, !.oos = FALSE].state = group[g].state
    BY <1>2 DEF Group
  <1>4. CASE GroupAddServer(g, a)
    BY <1>3, <1>4 DEF GroupAddServer
  <1>5. CASE GroupDelServer(g, a)
    BY <1>3, <1>5 DEF GroupDelServer
  <1> QED BY <1>1, <1>4, <1>5

(* GroupPromoteServer begins while no executor runs.                       *)
LEMMA PromotionBegins ==
    ASSUME NEW g \in Groups, NEW a \in Servers, GroupPromoteServer(g, a)
    PROVE  /\ UNCHANGED <<storeVars, taskVars>>
           /\ \A s \in Slots : run[s] # "exec"
           /\ op'.pc \in {"groupStore", "groupSync"}
  <1>1. UNCHANGED <<storeVars, taskVars>> /\ \A s \in Slots : run[s] # "exec"
    BY DEF GroupPromoteServer
  <1>2. (\E rec : GroupStore(g, rec)) \/ (\E rec : GroupSync("groupSync", g, rec))
    BY DEF GroupPromoteServer
  <1>3. op'.pc \in {"groupStore", "groupSync"}
    BY <1>2, StepPcs
  <1> QED BY <1>1, <1>3

(* Groups edited, flagged or synced keep the state of their promotion.     *)
LEMMA GroupEditsKeepLoop ==
    ASSUME IInv, LoopInv,
           \/ \E g \in Groups : \/ CreateGroup(g) \/ RemoveGroup(g) \/ ResyncGroup(g)
                                \/ \E a \in Servers : GroupAddServer(g, a) \/ GroupDelServer(g, a)
                                \/ \E s \in Slots : SlotsAssignGroup(s, g)
           \/ \E s \in Slots : SlotsAssignOffline(s)
           \/ ResyncGroupDone
    PROVE  LoopInv'
  <1>1. slots' = slots /\ KeepsTasks
    <2>1. UNCHANGED taskVars /\ (slots' = slots \/ UNCHANGED storeVars \/ \E g, rec : WriteGroup(g, rec))
      <3>1. ASSUME NEW g \in Groups, CreateGroup(g) \/ RemoveGroup(g) \/ ResyncGroup(g)
            PROVE  UNCHANGED taskVars /\ (UNCHANGED storeVars \/ \E h, rec : WriteGroup(h, rec))
        BY <3>1 DEF CreateGroup, RemoveGroup, ResyncGroup
      <3>2. ASSUME NEW g \in Groups, NEW a \in Servers, GroupAddServer(g, a) \/ GroupDelServer(g, a)
            PROVE  UNCHANGED taskVars /\ \E h, rec : WriteGroup(h, rec)
        BY <3>2, ServerEdits
      <3>3. ASSUME NEW g \in Groups, NEW s \in Slots, SlotsAssignGroup(s, g)
            PROVE  UNCHANGED taskVars /\ \E h, rec : WriteGroup(h, rec)
        BY <3>3 DEF SlotsAssignGroup
      <3>4. ASSUME NEW s \in Slots, SlotsAssignOffline(s) PROVE UNCHANGED <<taskVars, storeVars>>
        BY <3>4 DEF SlotsAssignOffline
      <3>5. CASE ResyncGroupDone
        BY <3>5 DEF ResyncGroupDone
      <3> QED BY <3>1, <3>2, <3>3, <3>4, <3>5
    <2> QED BY <2>1 DEF WriteGroup, storeVars, taskVars, KeepsTasks
  <1>2. Free(op'.pc)
    <2>1. ASSUME NEW g \in Groups, ResyncGroup(g) PROVE op'.pc = "resyncSync"
      BY <2>1, StepPcs DEF ResyncGroup
    <2>2. ASSUME NEW s \in Slots, SlotsAssignOffline(s) PROVE op'.pc = "assignStore"
      BY <2>2, StepPcs DEF SlotsAssignOffline
    <2>3. ASSUME NEW g \in Groups, NEW s \in Slots, SlotsAssignGroup(s, g) PROVE op'.pc = "assignStore"
      BY <2>3, StepPcs DEF SlotsAssignGroup
    <2>4. ASSUME NEW g \in Groups, CreateGroup(g) \/ RemoveGroup(g) PROVE op'.pc = "idle"
      BY <2>4 DEF CreateGroup, RemoveGroup, Idle
    <2>5. ASSUME NEW g \in Groups, NEW a \in Servers, GroupAddServer(g, a) \/ GroupDelServer(g, a)
          PROVE  op'.pc = "idle"
      BY <2>5, ServerEdits DEF Idle
    <2>6. CASE ResyncGroupDone
      BY <2>6, StepPcs DEF ResyncGroupDone, Free
    <2> QED BY <2>1, <2>2, <2>3, <2>4, <2>5, <2>6 DEF Free
  <1>3. KeepsStates
    <2>1. group \in [Groups -> Group]
      BY DEF IInv, TypeOK
    <2>2. ASSUME NEW g \in Groups, NEW rec, WriteGroup(g, rec), rec.state = group[g].state
          PROVE  KeepsStates
      BY <2>1, <2>2 DEF WriteGroup, KeepsStates
    <2>3. ASSUME NEW g \in Groups, CreateGroup(g) \/ RemoveGroup(g) PROVE KeepsStates
      <3>1. group[g].master = NoAddr
        BY <2>3 DEF CreateGroup, RemoveGroup, IInv, GroupInv
      <3>2. group[g].state = "nothing"
        BY <3>1 DEF IInv, GroupInv
      <3>3. [NoServer EXCEPT !.exists = TRUE].state = "nothing" /\ NoServer.state = "nothing"
        BY DEF NoServer
      <3> QED BY <2>2, <2>3, <3>2, <3>3 DEF CreateGroup, RemoveGroup
    <2>4. ASSUME NEW g \in Groups, NEW a \in Servers, GroupAddServer(g, a) \/ GroupDelServer(g, a)
          PROVE  KeepsStates
      BY <2>2, <2>4, ServerEdits
    <2>5. ASSUME NEW g \in Groups, NEW b, WriteGroup(g, [group[g] EXCEPT !.oos = b])
          PROVE  KeepsStates
      <3>1. [group[g] EXCEPT !.oos = b].state = group[g].state
        BY <2>1 DEF Group
      <3> QED BY <2>2, <2>5, <3>1
    <2>6. CASE ResyncGroupDone
      <3>1. op.gid \in Groups /\ op.g = group[op.gid]
        BY <2>6 DEF ResyncGroupDone, IInv, TypeOK, GroupOpInv
      <3> QED BY <2>5, <2>6, <3>1 DEF ResyncGroupDone, storeVars, KeepsStates
    <2> QED BY <2>3, <2>4, <2>5, <2>6 DEF ResyncGroup, SlotsAssignGroup, SlotsAssignOffline, storeVars, KeepsStates
  <1> QED BY <1>1, <1>2, <1>3, FreeHandler, LoopKept

(* Mappings of slots outside the round are written.                        *)
LEMMA OutsideWrites ==
    ASSUME IInv, LoopInv, KeepsTasks, group' = group, Free(op'.pc), NEW s \in Slots, s \notin Live,
           \A t \in Slots \ {s} : slots'[t] = slots[t]
    PROVE  LoopInv'
  <1>1. Live \subseteq Slots
    BY DEF Live, IInv, TypeOK
  <1> QED BY <1>1, LoopKept, FreeHandler DEF KeepsStates

LEMMA SlotEditsKeepLoop ==
    ASSUME IInv, LoopInv, ~ Reassign,
           \/ \E s \in Slots : SlotRemoveAction(s) \/ \E g \in Groups : SlotCreateAction(s, g)
           \/ AssignStoreOk \/ AssignStoreFail
    PROVE  LoopInv'
  <1>1. slots \in [Slots -> Mapping]
    BY DEF IInv, TypeOK
  <1>2. ASSUME NEW s \in Slots, SlotRemoveAction(s) PROVE LoopInv'
    <2>1. s \notin Live
      BY <1>2 DEF SlotRemoveAction, LoopInv, LiveInv
    <2>2. KeepsTasks /\ group' = group /\ Free(op'.pc) /\ \A t \in Slots \ {s} : slots'[t] = slots[t]
      BY <1>1, <1>2 DEF SlotRemoveAction, WriteSlot, taskVars, KeepsTasks, Idle, Free
    <2> QED BY <2>1, <2>2, OutsideWrites
  <1>3. ASSUME NEW s \in Slots, NEW g \in Groups, SlotCreateAction(s, g) PROVE LoopInv'
    <2>1. s \notin Live
      BY <1>3 DEF SlotCreateAction, LoopInv, LiveInv
    <2>2. KeepsTasks /\ group' = group /\ Free(op'.pc) /\ \A t \in Slots \ {s} : slots'[t] = slots[t]
      BY <1>1, <1>3 DEF SlotCreateAction, taskVars, KeepsTasks, Idle, Free
    <2> QED BY <2>1, <2>2, OutsideWrites
  <1>4. CASE AssignStoreOk \/ AssignStoreFail
    <2>1. op.sid \in Slots /\ op.sid \notin Live
      BY <1>4 DEF AssignStoreOk, AssignStoreFail, IInv, TypeOK, SlotOpInv, Offline, LoopInv, LiveInv
    <2>2. KeepsTasks /\ group' = group
      BY <1>4 DEF AssignStoreOk, AssignStoreFail, WriteSlot, storeVars, taskVars, KeepsTasks
    <2>3. Free(op'.pc)
      BY <1>4 DEF AssignStoreOk, AssignStoreFail, SlotSync, Return, Idle, Free
    <2>4. \A t \in Slots \ {op.sid} : slots'[t] = slots[t]
      BY <1>1, <1>4 DEF AssignStoreOk, AssignStoreFail, WriteSlot, storeVars
    <2> QED BY <2>1, <2>2, <2>3, <2>4, OutsideWrites
  <1> QED BY <1>2, <1>3, <1>4

(* A promotion begins while no executor runs, and none starts under it.    *)
LEMMA PromotionKeepsLoop ==
    ASSUME IInv, LoopInv,
           \/ \E g \in Groups, a \in Servers : GroupPromoteServer(g, a)
           \/ GroupStoreOk \/ GroupStoreFail \/ GroupSyncOk \/ GroupSyncFail \/ GroupRollbackDone
    PROVE  LoopInv'
  <1>1. slots' = slots /\ KeepsTasks
    <2>1. ASSUME NEW g \in Groups, NEW a \in Servers, GroupPromoteServer(g, a)
          PROVE  UNCHANGED <<storeVars, taskVars>>
      BY <2>1, PromotionBegins
    <2>2. UNCHANGED taskVars /\ (UNCHANGED storeVars \/ \E g, rec : WriteGroup(g, rec))
      BY <2>1 DEF GroupStoreOk, GroupStoreFail, GroupSyncOk, GroupSyncFail, GroupRollbackDone
    <2> QED BY <2>2 DEF WriteGroup, storeVars, taskVars, KeepsTasks
  <1>2. \A s \in Slots : run[s] # "exec"
    <2>1. ASSUME NEW g \in Groups, NEW a \in Servers, GroupPromoteServer(g, a)
          PROVE  \A s \in Slots : run[s] # "exec"
      BY <2>1, PromotionBegins
    <2>2. CASE op.pc \in {"groupStore", "groupSync", "groupRollback"}
      BY <2>2 DEF LoopInv, HandlerInv
    <2> QED BY <2>1, <2>2 DEF GroupStoreOk, GroupStoreFail, GroupSyncOk, GroupSyncFail, GroupRollbackDone
  <1>3. op'.pc \in {"idle", "groupStore", "groupSync", "groupRollback"}
    <2>1. ASSUME NEW g \in Groups, NEW a \in Servers, GroupPromoteServer(g, a)
          PROVE  op'.pc \in {"groupStore", "groupSync"}
      BY <2>1, PromotionBegins
    <2>2. CASE GroupStoreOk
      BY <2>2, StepPcs DEF GroupStoreOk
    <2>3. CASE GroupSyncOk
      BY <2>3, StepPcs DEF GroupSyncOk
    <2>4. CASE GroupSyncFail
      BY <2>4, StepPcs DEF GroupSyncFail
    <2>5. CASE GroupStoreFail \/ GroupRollbackDone
      BY <2>5, StepPcs DEF GroupStoreFail, GroupRollbackDone
    <2> QED BY <2>1, <2>2, <2>3, <2>4, <2>5
  <1>4. HandlerInv'
    BY <1>1, <1>2, <1>3 DEF HandlerInv, KeepsTasks
  <1>5. ExecInv'
    BY <1>1, <1>2 DEF ExecInv, KeepsTasks
  <1>6. TasksInv' /\ LiveInv'
    BY <1>1 DEF LoopInv, TasksInv, LiveInv, Live, Apart, KeepsTasks
  <1> QED BY <1>4, <1>5, <1>6 DEF LoopInv

(* A task goes on to another of its states, or ends.                       *)
LEMMA TaskMoves ==
    ASSUME IInv, LoopInv, NEW s \in Slots, NEW r, run[s] # "none", run' = [run EXCEPT ![s] = r],
           UNCHANGED <<round, plans>>, group' = group, HandlerInv',
           \A t \in Slots \ {s} : slots'[t] = slots[t],
           r # "none" => slots' = slots,
           r = "exec" => /\ slots[s].state = "migrating"
                         /\ ~ isGroupPromoting(slots[s].group) /\ ~ isGroupPromoting(slots[s].target)
    PROVE  LoopInv'
  <1>1. run \in [Slots -> {"none", "ready", "exec", "done"}] /\ round = "run" /\ s \in plans
    BY DEF IInv, TypeOK, LoopInv, TasksInv
  <1>2. run'[s] = r /\ \A t \in Slots \ {s} : run'[t] = run[t]
    BY <1>1
  <1>3. TasksInv'
    BY <1>1, <1>2 DEF LoopInv, TasksInv
  <1>4. Live' \subseteq Live /\ Live' \subseteq Slots /\ (s \in Live' => r # "none")
    BY <1>1, <1>2 DEF Live
  <1>5. \A t \in Live' : slots'[t] = slots[t]
    BY <1>4
  <1>6. LiveInv'
    <2>1. \A t \in Live' : KeepsEnds(t) /\ slots'[t].state \in {"migrating", "finished"}
      BY <1>4, <1>5 DEF LoopInv, LiveInv, KeepsEnds
    <2> QED BY <1>4, <2>1, StaysApart DEF LoopInv
  <1>7. ExecInv'
    BY <1>2 DEF LoopInv, ExecInv, isGroupPromoting
  <1> QED BY <1>3, <1>6, <1>7 DEF LoopInv

LEMMA ExecutorsKeepLoop ==
    ASSUME IInv, LoopInv, NEW s \in Slots, newSlotActionExecutor(s) \/ ExecutorReturns(s)
    PROVE  LoopInv'
  <1>1. UNCHANGED <<slots, group, op, round, plans>>
    BY DEF newSlotActionExecutor, ExecutorReturns, storeVars
  <1>2. CASE newSlotActionExecutor(s)
    <2>1. op'.pc = "idle" /\ run[s] # "none"
      BY <1>2 DEF newSlotActionExecutor, Idle
    <2>2. PICK r : /\ run' = [run EXCEPT ![s] = r]
                   /\ r = "exec" => /\ slots[s].state = "migrating"
                                    /\ ~ isGroupPromoting(slots[s].group) /\ ~ isGroupPromoting(slots[s].target)
      BY <1>2 DEF newSlotActionExecutor
    <2>3. HandlerInv'
      BY <2>1, FreeHandler DEF Free
    <2> QED BY <1>1, <2>1, <2>2, <2>3, TaskMoves
  <1>3. CASE ExecutorReturns(s)
    <2>1. run[s] = "exec"
      BY <1>3 DEF ExecutorReturns
    <2>2. PICK r \in {"ready", "done", "none"} : run' = [run EXCEPT ![s] = r]
      BY <1>3 DEF ExecutorReturns
    <2>3. \A t \in Slots \ {s} : run'[t] = run[t]
      BY <2>2 DEF IInv, TypeOK
    <2>4. HandlerInv'
      <3>1. op.pc \notin {"groupStore", "groupSync", "groupRollback"}
        BY <2>1 DEF LoopInv, HandlerInv
      <3>2. op.pc \in {"slotStore", "slotSync", "slotRollback"} => op.sid \in Slots
        BY DEF IInv, TypeOK
      <3>3. accept(op.sid)' = accept(op.sid)
        BY <1>1 DEF accept, marks
      <3> QED BY <1>1, <2>1, <2>3, <3>1, <3>2, <3>3 DEF LoopInv, HandlerInv
    <2> QED BY <1>1, <2>1, <2>2, <2>4, TaskMoves
  <1> QED BY <1>2, <1>3

(* Rounds begin and end; a new dashboard has no round.                     *)
LEMMA RoundsKeepLoop ==
    ASSUME IInv, LoopInv, RunPlans \/ RoundEnds \/ RestartDashboard
    PROVE  LoopInv'
  <1>1. UNCHANGED <<slots, group>>
    BY DEF RunPlans, RoundEnds, RestartDashboard, storeVars
  <1>2. CASE RunPlans
    <2>1. round = "plan" /\ round' = "run" /\ plans' = plans /\ op' = Idle
      BY <1>2 DEF RunPlans
    <2>2. \A s \in Slots : run'[s] = IF s \in plans THEN "ready" ELSE "none"
      BY <1>2 DEF RunPlans
    <2>3. Live' = plans /\ Live = plans
      BY <2>1, <2>2 DEF Live, IInv, TypeOK
    <2>4. TasksInv' /\ ExecInv'
      BY <2>1, <2>2 DEF TasksInv, ExecInv
    <2>5. LiveInv'
      BY <1>1, <2>3 DEF LoopInv, LiveInv, Apart
    <2> QED BY <2>1, <2>4, <2>5, FreeHandler DEF LoopInv, Idle, Free
  <1>3. CASE RoundEnds
    <2>1. round = "run" /\ round' = "plan" /\ plans' = {} /\ op' = op /\ run' = run
      BY <1>3 DEF RoundEnds
    <2>2. \A s \in Slots : run[s] = "none"
      BY <1>3 DEF RoundEnds, LoopInv, TasksInv
    <2>3. Live' = {}
      BY <2>1 DEF Live
    <2>4. TasksInv' /\ ExecInv' /\ LiveInv'
      BY <2>1, <2>2, <2>3 DEF TasksInv, ExecInv, LiveInv
    <2>5. op.pc \notin {"slotStore", "slotSync", "slotRollback"}
      BY <2>1, <2>2 DEF LoopInv, HandlerInv, IInv, TypeOK
    <2>6. HandlerInv'
      BY <2>1, <2>2, <2>5 DEF HandlerInv
    <2> QED BY <2>4, <2>6 DEF LoopInv
  <1>4. CASE RestartDashboard
    <2>1. op' = Idle /\ round' = "plan" /\ plans' = {} /\ \A s \in Slots : run'[s] = "none"
      BY <1>4 DEF RestartDashboard
    <2>2. Live' = {}
      BY <2>1 DEF Live
    <2>3. TasksInv' /\ ExecInv' /\ LiveInv'
      BY <2>1, <2>2 DEF TasksInv, ExecInv, LiveInv
    <2> QED BY <2>1, <2>3, FreeHandler DEF LoopInv, Idle, Free
  <1> QED BY <1>2, <1>3, <1>4

(* SlotActionComplete and what follows it leave a slot of the round as it  *)
(* is, or end its task.                                                    *)
LEMMA CompleteEnds ==
    ASSUME IInv, LoopInv, NEW s \in Slots, run[s] = "done", CompleteReturns(s), group' = group,
           \A t \in Slots \ {s} : slots'[t] = slots[t]
    PROVE  LoopInv'
  BY TaskMoves, ReturnIsFree DEF CompleteReturns

LEMMA CompleteGoesOn ==
    ASSUME IInv, LoopInv, KeepsTasks, group' = group, NEW s \in Slots, run[s] = "done",
           op'.pc \in {"slotStore", "slotSync"}, op'.sid = s, ~ Preparing(op'.m),
           \A t \in Slots \ {s} : slots'[t] = slots[t],
           KeepsEnds(s), slots'[s].state \in {"migrating", "finished"}
    PROVE  LoopInv'
  <1>1. HandlerInv'
    BY DEF HandlerInv, KeepsTasks, Preparing
  <1>2. TasksInv' /\ Live' = Live /\ Live \subseteq Slots
    BY DEF LoopInv, TasksInv, Live, KeepsTasks, IInv, TypeOK
  <1>3. \A t \in Live' : KeepsEnds(t) /\ slots'[t].state \in {"migrating", "finished"}
    BY <1>2 DEF LoopInv, LiveInv, KeepsEnds
  <1>4. LiveInv'
    BY <1>2, <1>3, StaysApart DEF LoopInv
  <1>5. ExecInv'
    <2>1. \A t \in Slots : run'[t] = "exec" => run[t] = "exec" /\ slots'[t] = slots[t]
      BY DEF KeepsTasks
    <2> QED BY <2>1, ExecKept DEF LoopInv, KeepsStates
  <1> QED BY <1>1, <1>2, <1>4, <1>5 DEF LoopInv

(* SlotActionPrepareFilter goes on with a slot the plans accept, gives up  *)
(* the round, or adds the slot to the plans.                               *)
LEMMA PrepareGoesOn ==
    ASSUME IInv, LoopInv, KeepsTasks, group' = group, NEW s \in Slots, round = "plan", accept(s),
           op'.pc \in {"slotStore", "slotSync", "slotRollback"}, op'.sid = s, Preparing(op'.m),
           op'.pc = "slotRollback" => op'.m.state = "preparing",
           \A t \in Slots \ {s} : slots'[t] = slots[t], KeepsEnds(s)
    PROVE  LoopInv'
  <1>1. plans \subseteq Slots /\ s \notin plans /\ Live = plans
    BY DEF IInv, TypeOK, accept, Live
  <1>2. marks' = marks
    BY <1>1 DEF marks, KeepsTasks
  <1>3. HandlerInv'
    BY <1>2 DEF HandlerInv, KeepsTasks, KeepsEnds, accept
  <1> QED BY <1>1, <1>3, LoopKept DEF KeepsStates

LEMMA PrepareGivesUp ==
    ASSUME LoopInv, round = "plan", PrepareFails
    PROVE  LoopInv'
  <1>1. round' = "plan" /\ plans' = {} /\ \A s \in Slots : run'[s] = "none"
    BY DEF PrepareFails, LoopInv, TasksInv
  <1>2. Live' = {}
    BY <1>1 DEF Live
  <1>3. TasksInv' /\ ExecInv' /\ LiveInv'
    BY <1>1, <1>2 DEF TasksInv, ExecInv, LiveInv
  <1> QED BY <1>3, ReturnIsFree DEF LoopInv, PrepareFails

LEMMA PrepareEnds ==
    ASSUME IInv, LoopInv, NEW s \in Slots, round = "plan", accept(s), PrepareReturns(s),
           \A t \in Slots \ {s} : slots'[t] = slots[t], KeepsEnds(s),
           slots'[s].state \in {"migrating", "finished"}
    PROVE  LoopInv'
  <1>1. round' = "plan" /\ plans' = plans \cup {s} /\ run' = run /\ \A t \in Slots : run[t] = "none"
    BY DEF PrepareReturns, LoopInv, TasksInv
  <1>2. plans \subseteq Slots /\ s \notin plans /\ Live = plans /\ Live' = plans \cup {s}
    BY <1>1 DEF IInv, TypeOK, accept, Live
  <1>3. TasksInv' /\ ExecInv'
    BY <1>1 DEF TasksInv, ExecInv
  <1>4. ASSUME NEW t \in plans
        PROVE  Apart(s, t)' /\ Apart(t, s)'
    <2>1. slots[t].group \in marks \cup {NoGroup} /\ slots[t].target \in marks \cup {NoGroup}
      BY DEF marks
    <2>2. {slots[s].group, slots[s].target} \cap marks = {}
      BY DEF accept
    <2>3. slots'[t] = slots[t]
      BY <1>2
    <2> QED BY <2>1, <2>2, <2>3 DEF Apart, KeepsEnds
  <1>5. ASSUME NEW t \in plans, NEW u \in plans \ {t}
        PROVE  Apart(t, u)'
    <2>1. Apart(t, u)
      BY <1>2 DEF LoopInv, LiveInv
    <2>2. slots'[t] = slots[t] /\ slots'[u] = slots[u]
      BY <1>2
    <2> QED BY <2>1, <2>2 DEF Apart
  <1>6. \A t \in Live' : slots'[t].state \in {"migrating", "finished"}
    BY <1>2 DEF LoopInv, LiveInv
  <1>7. LiveInv'
    BY <1>2, <1>4, <1>5, <1>6 DEF LiveInv
  <1> QED BY <1>3, <1>7, ReturnIsFree DEF LoopInv, PrepareReturns

(* What SlotActionPrepareFilter picks is accepted by the plans.            *)
LEMMA PickedIsAccepted ==
    ASSUME NEW s \in picked
    PROVE  accept(s)
  <1>1. ASSUME NEW S, s \in minActionIndex(S) PROVE accept(s)
    BY <1>1 DEF minActionIndex
  <1> QED BY <1>1 DEF picked

LEMMA PrepareKeepsLoop ==
    ASSUME IInv, LoopInv, NEW s \in Slots, SlotActionPrepareFilter(s)
    PROVE  LoopInv'
  <1>1. round = "plan" /\ accept(s) /\ UNCHANGED <<slots, group>>
    BY PickedIsAccepted DEF SlotActionPrepareFilter, storeVars
  <1>2. slots[s] \in Mapping /\ KeepsEnds(s)
    BY <1>1 DEF IInv, TypeOK, KeepsEnds
  <1>3. ASSUME NEW m, Preparing(m), UNCHANGED taskVars, SlotStore(s, m) \/ SlotSync("slotSync", s, m)
        PROVE  LoopInv'
    <2>1. op'.pc \in {"slotStore", "slotSync"} /\ op'.sid = s /\ op'.m = m
      BY <1>3, StepPcs
    <2> QED BY <1>1, <1>2, <1>3, <2>1, PrepareGoesOn DEF KeepsTasks, taskVars
  <1>4. \A st \in {"preparing", "prepared", "migrating"} : Preparing([slots[s] EXCEPT !.state = st])
    BY <1>2 DEF Preparing, Mapping
  <1>5. CASE slots[s].state = "pending"
    BY <1>3, <1>4, <1>5 DEF SlotActionPrepareFilter
  <1>6. CASE slots[s].state = "preparing"
    BY <1>3, <1>4, <1>6 DEF SlotActionPrepareFilter
  <1>7. CASE slots[s].state = "prepared"
    BY <1>3, <1>4, <1>7 DEF SlotActionPrepareFilter
  <1>8. CASE slots[s].state \in {"migrating", "finished"} /\ PrepareReturns(s)
    BY <1>1, <1>2, <1>8, PrepareEnds
  <1> QED BY <1>5, <1>6, <1>7, <1>8 DEF SlotActionPrepareFilter

LEMMA CompleteKeepsLoop ==
    ASSUME IInv, LoopInv, NEW s \in Slots, SlotActionComplete(s)
    PROVE  LoopInv'
  <1>1. run[s] = "done" /\ UNCHANGED <<slots, group>>
    BY DEF SlotActionComplete, storeVars
  <1>2. slots[s] \in Mapping /\ KeepsEnds(s)
    BY <1>1 DEF IInv, TypeOK, KeepsEnds
  <1>3. slots'[s].state \in {"migrating", "finished"}
    BY <1>1, TaskIsLive DEF LoopInv, LiveInv
  <1>4. ASSUME NEW m, ~ Preparing(m), UNCHANGED taskVars, SlotStore(s, m) \/ SlotSync("slotSync", s, m)
        PROVE  LoopInv'
    <2>1. op'.pc \in {"slotStore", "slotSync"} /\ op'.sid = s /\ op'.m = m
      BY <1>4, StepPcs
    <2> QED BY <1>1, <1>2, <1>3, <1>4, <2>1, CompleteGoesOn DEF KeepsTasks, taskVars
  <1>5. CASE slots[s].state = "migrating"
    <2>1. ~ Preparing([slots[s] EXCEPT !.state = "finished"])
      BY <1>2 DEF Preparing, Mapping
    <2> QED BY <1>4, <1>5, <2>1 DEF SlotActionComplete
  <1>6. CASE slots[s].state = "finished"
    <2>1. ~ Preparing(slots[s])
      BY <1>6 DEF Preparing
    <2> QED BY <1>4, <1>6, <2>1 DEF SlotActionComplete
  <1> QED BY <1>1, <1>3, <1>5, <1>6

(* The store write of a slot action keeps the groups of the slot, unless   *)
(* it ends the action.                                                     *)
LEMMA WriteKeepsEnds ==
    ASSUME IInv, op.pc = "slotStore", WriteSlot(op.sid, op.m)
    PROVE  /\ \A t \in Slots \ {op.sid} : slots'[t] = slots[t]
           /\ slots'[op.sid] = op.m
           /\ op.m.state # "nothing" => KeepsEnds(op.sid)
  <1>1. slots \in [Slots -> Mapping] /\ op.sid \in Slots /\ op.m \in Mapping
    BY DEF IInv, TypeOK
  <1>2. slots'[op.sid] = op.m /\ \A t \in Slots \ {op.sid} : slots'[t] = slots[t]
    BY <1>1 DEF WriteSlot
  <1>3. op.m.state # "nothing" => slots[op.sid].group = op.m.group /\ slots[op.sid].target = op.m.target
    BY <1>1 DEF IInv, SlotOpInv, Mapping, Offline
  <1> QED BY <1>2, <1>3 DEF KeepsEnds

LEMMA SlotStoreOkKeepsLoop ==
    ASSUME IInv, LoopInv, SlotStoreOk
    PROVE  LoopInv'
  <1>1. op.pc = "slotStore" /\ WriteSlot(op.sid, op.m) /\ op.sid \in Slots /\ op.m \in Mapping
    BY DEF SlotStoreOk, IInv, TypeOK
  <1>2. group' = group
    BY <1>1 DEF WriteSlot
  <1>3. PICK s \in Slots : s = op.sid
    BY <1>1
  <1>4. /\ \A t \in Slots \ {s} : slots'[t] = slots[t]
        /\ slots'[s] = op.m
        /\ op.m.state # "nothing" => KeepsEnds(s)
    BY <1>1, <1>3, WriteKeepsEnds DEF KeepsEnds
  <1>5. IF Preparing(op.m) THEN round = "plan" /\ accept(s) ELSE run[s] = "done"
    BY <1>1, <1>3 DEF LoopInv, HandlerInv
  <1>6. ASSUME NEW m, Preparing(m), Preparing(op.m), UNCHANGED taskVars, SlotSync("slotSync", s, m)
        PROVE  LoopInv'
    <2>1. op'.pc = "slotSync" /\ op'.sid = s /\ op'.m = m
      BY <1>6, StepPcs
    <2>2. KeepsEnds(s) /\ KeepsTasks
      BY <1>4, <1>6 DEF Preparing, KeepsTasks, taskVars
    <2> QED BY <1>2, <1>4, <1>5, <1>6, <2>1, <2>2, PrepareGoesOn
  <1>7. \A st \in {"prepared", "migrating"} : Preparing([op.m EXCEPT !.state = st])
    BY <1>1 DEF Preparing, Mapping
  <1>8. CASE op.m.state = "preparing"
    <2>1. \E m : m = [op.m EXCEPT !.state = "prepared"] /\ SlotSync("slotSync", s, m) /\ UNCHANGED taskVars
      BY <1>3, <1>8 DEF SlotStoreOk
    <2>2. PICK m : m = [op.m EXCEPT !.state = "prepared"] /\ SlotSync("slotSync", s, m) /\ UNCHANGED taskVars
      BY <2>1
    <2>3. Preparing(m) /\ Preparing(op.m)
      BY <1>7, <1>8, <2>2 DEF Preparing
    <2> QED BY <1>6, <2>2, <2>3
  <1>9. CASE op.m.state = "prepared"
    <2>1. \E m : m = [op.m EXCEPT !.state = "migrating"] /\ SlotSync("slotSync", s, m) /\ UNCHANGED taskVars
      BY <1>3, <1>9 DEF SlotStoreOk
    <2>2. PICK m : m = [op.m EXCEPT !.state = "migrating"] /\ SlotSync("slotSync", s, m) /\ UNCHANGED taskVars
      BY <2>1
    <2>3. Preparing(m) /\ Preparing(op.m)
      BY <1>7, <1>9, <2>2 DEF Preparing
    <2> QED BY <1>6, <2>2, <2>3
  <1>10. CASE op.m.state = "migrating"
    <2>1. PrepareReturns(s)
      BY <1>3, <1>10 DEF SlotStoreOk
    <2> QED BY <1>4, <1>5, <1>10, <2>1, PrepareEnds DEF Preparing
  <1>11. CASE op.m.state = "nothing"
    <2>1. CompleteReturns(s)
      BY <1>3, <1>11 DEF SlotStoreOk
    <2> QED BY <1>2, <1>4, <1>5, <1>11, <2>1, CompleteEnds DEF Preparing
  <1>12. CASE op.m.state = "finished"
    <2>1. SlotSync("slotSync", s, op.m) /\ UNCHANGED taskVars
      BY <1>3, <1>12 DEF SlotStoreOk
    <2>2. op'.pc = "slotSync" /\ op'.sid = s /\ op'.m = op.m
      BY <2>1, StepPcs
    <2>3. ~ Preparing(op.m) /\ ~ Preparing(op'.m)
      BY <1>12, <2>2 DEF Preparing
    <2>4. KeepsTasks /\ KeepsEnds(s)
      BY <1>4, <1>12, <2>1 DEF KeepsTasks, taskVars
    <2> QED BY <1>2, <1>4, <1>5, <1>12, <2>2, <2>3, <2>4, CompleteGoesOn
  <1> QED BY <1>8, <1>9, <1>10, <1>11, <1>12 DEF SlotStoreOk

(* A handler that fails gives up the round, or ends the task of its slot.  *)
LEMMA FailureKeepsLoop ==
    ASSUME IInv, LoopInv, NEW s \in Slots, s = op.sid, op.pc \in {"slotStore", "slotSync"},
           SlotFails(s, op.m), group' = group, \A t \in Slots \ {s} : slots'[t] = slots[t]
    PROVE  LoopInv'
  <1>1. CASE Preparing(op.m)
    <2>1. round = "plan" /\ PrepareFails
      BY <1>1 DEF LoopInv, HandlerInv, SlotFails, Preparing
    <2> QED BY <2>1, PrepareGivesUp
  <1>2. CASE ~ Preparing(op.m)
    <2>1. run[s] = "done" /\ CompleteReturns(s)
      BY <1>2 DEF LoopInv, HandlerInv, SlotFails, Preparing
    <2> QED BY <2>1, CompleteEnds
  <1> QED BY <1>1, <1>2

LEMMA SlotSyncsKeepLoop ==
    ASSUME IInv, LoopInv, SlotStoreFail \/ SlotSyncOk \/ SlotSyncFail \/ SlotRollbackDone
    PROVE  LoopInv'
  <1>1. op.pc \in {"slotStore", "slotSync", "slotRollback"}
    BY DEF SlotStoreFail, SlotSyncOk, SlotSyncFail, SlotRollbackDone
  <1>2. PICK s \in Slots : s = op.sid
    BY <1>1 DEF IInv, TypeOK
  <1>3. op.m \in Mapping
    BY <1>1 DEF IInv, TypeOK
  <1>4. IF Preparing(op.m) THEN round = "plan" /\ accept(s) ELSE run[s] = "done"
    BY <1>1, <1>2 DEF LoopInv, HandlerInv
  <1>5. CASE SlotStoreFail
    <2>1. group' = group /\ \A t \in Slots \ {s} : slots'[t] = slots[t]
      BY <1>2, <1>5, WriteKeepsEnds DEF SlotStoreFail, WriteSlot, storeVars
    <2> QED BY <1>2, <1>5, <2>1, FailureKeepsLoop DEF SlotStoreFail
  <1>6. CASE SlotSyncOk
    <2>1. UNCHANGED <<slots, group>> /\ KeepsTasks /\ KeepsEnds(s)
      BY <1>6 DEF SlotSyncOk, storeVars, taskVars, KeepsTasks, KeepsEnds
    <2>2. PICK m : SlotStore(s, m) /\ m = IF op.m.state = "finished"
                                          THEN [Offline EXCEPT !.group = op.m.target] ELSE op.m
      BY <1>2, <1>6 DEF SlotSyncOk
    <2>3. op'.pc = "slotStore" /\ op'.sid = s /\ op'.m = m
      BY <2>2, StepPcs
    <2>4. CASE Preparing(op.m)
      BY <1>4, <2>1, <2>2, <2>3, <2>4, PrepareGoesOn DEF Preparing
    <2>5. CASE ~ Preparing(op.m)
      <3>1. ~ Preparing(m)
        BY <2>2, <2>5 DEF Preparing, Offline
      <3>2. slots'[s].state \in {"migrating", "finished"}
        BY <1>4, <2>1, <2>5, TaskIsLive DEF LoopInv, LiveInv
      <3> QED BY <1>4, <2>1, <2>3, <2>5, <3>1, <3>2, CompleteGoesOn
    <2> QED BY <2>4, <2>5
  <1>7. CASE SlotSyncFail
    <2>1. UNCHANGED <<slots, group>> /\ KeepsEnds(s) /\ op.pc = "slotSync"
      BY <1>7 DEF SlotSyncFail, storeVars, KeepsEnds
    <2>2. CASE op.m.state = "prepared"
      <3>1. PICK m : SlotSync("slotRollback", s, m) /\ m = [op.m EXCEPT !.state = "preparing"]
        BY <1>2, <1>7, <2>2 DEF SlotSyncFail
      <3>2. op'.pc = "slotRollback" /\ op'.sid = s /\ op'.m = m
        BY <3>1, StepPcs
      <3>3. m.state = "preparing" /\ Preparing(m) /\ Preparing(op.m)
        BY <1>3, <2>2, <3>1 DEF Preparing, Mapping
      <3>4. KeepsTasks
        BY <1>7, <2>2 DEF SlotSyncFail, KeepsTasks, taskVars
      <3> QED BY <1>4, <2>1, <3>2, <3>3, <3>4, PrepareGoesOn
    <2>3. CASE op.m.state # "prepared"
      BY <1>2, <1>7, <2>1, <2>3, FailureKeepsLoop DEF SlotSyncFail
    <2> QED BY <2>2, <2>3
  <1>8. CASE SlotRollbackDone
    <2>1. round = "plan" /\ PrepareFails
      BY <1>4, <1>8 DEF SlotRollbackDone, LoopInv, HandlerInv, Preparing
    <2> QED BY <2>1, PrepareGivesUp
  <1> QED BY <1>5, <1>6, <1>7, <1>8

(* Every step keeps the invariant of the loop.                             *)
LEMMA NextLoopInv ==
    ASSUME ~ Reassign, IInv, LoopInv, [Next]_vars
    PROVE  LoopInv'
  <1>1. CASE Migration
    BY <1>1, PrepareKeepsLoop, ExecutorsKeepLoop, CompleteKeepsLoop, SlotStoreOkKeepsLoop, SlotSyncsKeepLoop,
       RoundsKeepLoop DEF Migration
  <1>2. CASE Promotion
    BY <1>2, PromotionKeepsLoop DEF Promotion
  <1>3. CASE Assignment
    BY <1>3, GroupEditsKeepLoop, SlotEditsKeepLoop, QuietSteps DEF Assignment
  <1>4. CASE Apply
    BY <1>4, QuietSteps DEF Apply
  <1>5. CASE Operator
    <2>1. CASE SlotOps
      BY <2>1, SlotEditsKeepLoop DEF SlotOps
    <2>2. CASE AssignOps \/ GroupOps
      BY <2>2, GroupEditsKeepLoop DEF AssignOps, GroupOps
    <2>3. CASE PromoteOps
      BY <2>3, PromotionKeepsLoop DEF PromoteOps
    <2>4. CASE ProxyOps \/ SetSlotActionDisabled
      BY <2>4, QuietSteps DEF ProxyOps
    <2> QED BY <1>5, <2>1, <2>2, <2>3, <2>4 DEF Operator
  <1>6. CASE Fault
    BY <1>6, SlotSyncsKeepLoop, PromotionKeepsLoop, SlotEditsKeepLoop, QuietSteps, RoundsKeepLoop
       DEF Fault, StoreFault, NetFault
  <1>7. CASE UNCHANGED vars
    BY <1>7, QuietSteps
  <1> QED BY <1>1, <1>2, <1>3, <1>4, <1>5, <1>6, <1>7 DEF Next

LEMMA InitLoopInv ==
    ASSUME Init
    PROVE  LoopInv
  <1>1. round = "plan" /\ plans = {} /\ op = Idle /\ \A s \in Slots : run[s] = "none"
    BY DEF Init, Quiet
  <1>2. TasksInv /\ LiveInv /\ ExecInv
    BY <1>1 DEF TasksInv, LiveInv, Live, ExecInv
  <1>3. HandlerInv
    BY <1>1 DEF HandlerInv, Idle
  <1> QED BY <1>2, <1>3 DEF LoopInv

LEMMA LoopGivesApart ==
    ASSUME LoopInv
    PROVE  ExecutorsApart
  <1>1. ASSUME NEW s \in Slots, run[s] = "exec"
        PROVE  /\ slots[s].state = "migrating"
               /\ ~ isGroupLocked(group, slots[s].group) /\ ~ isGroupLocked(group, slots[s].target)
    BY <1>1 DEF LoopInv, ExecInv, isGroupPromoting, isGroupLocked
  <1>2. ASSUME NEW s \in Slots, run[s] = "exec", NEW t \in Slots \ {s}, run[t] = "exec"
        PROVE  {slots[s].group, slots[s].target} \cap {slots[t].group, slots[t].target} \subseteq {NoGroup}
    <2>1. s \in Live /\ t \in Live
      BY <1>2, TaskIsLive DEF LoopInv
    <2> QED BY <2>1 DEF LoopInv, LiveInv, Apart
  <1> QED BY <1>1, <1>2 DEF ExecutorsApart

(* Executors that run at the same time work on disjoint groups, and none   *)
(* runs while a master of its groups is replaced: what ProcessSlotAction   *)
(* marks, what GroupPromoteServer checks and what newSlotActionExecutor    *)
(* checks are enough, however rounds, promotions and crashes interleave.   *)
THEOREM ExecutorsStayApart == ~ Reassign /\ Spec => []ExecutorsApart
  <1> SUFFICES ASSUME ~ Reassign PROVE Spec => []ExecutorsApart
    OBVIOUS
  <1>1. Spec => []IInv
    BY Inductive
  <1>2. Init => LoopInv
    BY InitLoopInv
  <1>3. IInv /\ LoopInv /\ [Next]_vars => LoopInv'
    BY NextLoopInv
  <1>4. LoopInv => ExecutorsApart
    BY LoopGivesApart
  <1> QED BY <1>1, <1>2, <1>3, <1>4, PTL DEF Spec

=============================================================================
