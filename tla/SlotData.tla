------------------------------ MODULE SlotData ------------------------------
(***************************************************************************)
(* The keys of a cluster while its slots move: the requests a proxy has in *)
(* hand (pkg/proxy/forward.go), the commands with which codis-servers hand *)
(* keys to each other (extern/redis-8.6.3/src/slots.c and slots_async.c),  *)
(* and the executors of the dashboard that drain a slot (topom_slots.go).  *)
(*                                                                         *)
(* Routes are those ExclusiveRouting allows, which Topology implements; a  *)
(* route changes only when no request holds it, because Slot.blockAndWait  *)
(* takes Slot.lock and waits for Slot.refs.                                *)
(*                                                                         *)
(* A value is the number of the write that made it, 0 if the key does not  *)
(* exist.  A server runs commands one at a time, so that each is one step. *)
(* `last' is what the last write to a key left, on whichever server it was *)
(* run.  Promotions (Switch), expiry and eviction are left out.            *)
(***************************************************************************)
EXTENDS ExclusiveRouting, Naturals, Sequences, FiniteSets

CONSTANTS
    Keys,       \* the keys of one database
    SlotOf,     \* the slot of a key
    Tag,        \* the hash tag of a key (the key itself if it has none)
    Method,     \* models.ForwardMethod: "sync" or "semi-async"
    Commands,   \* what clients send: "get", "set", "del", "script" (EVAL)
    MultiKey,   \* do they send commands on several keys of a tag
    MaxWrites,  \* bound: writes of clients
    MaxFails,   \* bound: commands between servers that fail
    MaxLate     \* bound: restores run after their connection was given up

ASSUME SlotDataAssumption ==
    /\ None \notin Servers
    /\ SlotOf \in [Keys -> Slots]
    /\ \A k, l \in Keys : Tag[k] = Tag[l] => SlotOf[k] = SlotOf[l]
    /\ Method \in {"sync", "semi-async"}
    /\ Commands \subseteq {"get", "set", "del", "script"}
    /\ MultiKey \in BOOLEAN
    /\ IsFiniteSet(Proxies)
    /\ MaxWrites \in Nat /\ MaxFails \in Nat /\ MaxLate \in Nat

VARIABLES
    came,       \* where the keys of a slot came from in its last move
    data,       \* the value of every key on every server
    last,       \* the value of every key after the last write to it
    writes,     \* number of writes
    req,        \* the request every proxy has in hand
    batch,      \* slotsmgrtAsyncClient of every server
    late,       \* restores given up by their senders that may yet be run
    overrun,    \* has one of them replaced a newer value, or come to a server the slot has left
    fails,      \* number of failures
    drained     \* has an executor found the source empty

keyVars == <<data, last, writes>>
lateVars == <<late, overrun>>
netVars == <<batch, lateVars, fails>>
vars    == <<routingVars, came, keyVars, req, netVars, drained>>

Value    == 0 .. MaxWrites
Restores == UNION {[K -> Value] : K \in SUBSET Keys}

(* A request is routed by hkey (getHashKey) and works on key; the two      *)
(* differ in a command on several keys.  "begin": it needs Slot.lock;      *)
(* "pull": it waits for SLOTSMGRTTAGONE; "wrap": for SLOTSMGRT-EXEC-WRAPPER; *)
(* "sent": it is in the queue of the owner and counts in Slot.refs.        *)
NoRequest == [stage |-> "none"]
Request   == [stage: {"begin", "pull", "wrap", "sent"}, cmd: Commands, hkey: Keys, key: Keys]

(* batchedObjectIterator: the keys, those not visited, those sent, and the *)
(* messages the target has not run.  No batch has no keys.                 *)
Message == [k: Keys, v: Value]
Batch   == [to: Address, keys: SUBSET Keys, todo: SUBSET Keys, sent: SUBSET Keys, wire: Seq(Message)]
NoBatch == [to |-> None, keys |-> {}, todo |-> {}, sent |-> {}, wire |-> << >>]

Held(p, s)    == req[p].stage \in {"pull", "wrap", "sent"} /\ SlotOf[req[p].hkey] = s
Route0(p)     == routes[p][SlotOf[req[p].hkey]]
KeysAt(a, s)  == {k \in Keys : SlotOf[k] = s /\ data[a][k] # 0}
Together(k)   == {l \in Keys : Tag[l] = Tag[k]}
Writing(p)    == req[p] # NoRequest /\ req[p].cmd \in {"set", "script"}
CanFail       == fails < MaxFails
Fail          == fails' = fails + 1

Init ==
    /\ RoutingInit
    /\ \A s \in Slots : owner[s] # None
    /\ routes = [p \in Proxies |-> [s \in Slots |-> [to |-> owner[s], from |-> None]]]
    /\ came = [s \in Slots |-> None]
    /\ last = [k \in Keys |-> 0]
    /\ data = [a \in Servers |-> [k \in Keys |-> 0]]
    /\ writes = 0
    /\ req = [p \in Proxies |-> NoRequest]
    /\ batch = [a \in Servers |-> NoBatch]
    /\ late = {} /\ overrun = FALSE
    /\ fails = 0
    /\ drained = [s \in Slots |-> FALSE]

-----------------------------------------------------------------------------
(* A request in a proxy.                                                   *)

(* Mutant: the request that is over is not cleared.                        *)
Answer_Uncleared(p) == req' = [req EXCEPT ![p].stage = "none"]

Enter(p, stage) == req' = [req EXCEPT ![p].stage = stage]
Answer(p)       == req' = [req EXCEPT ![p] = NoRequest]

(* Commands have a hash key: one without it has no key to pull and goes to *)
(* the owner as if the slot did not move.                                  *)
Receive(p, cmd, hkey, key) ==
    /\ req[p] = NoRequest
    /\ cmd \in {"set", "script"} => writes + Cardinality({q \in Proxies : Writing(q)}) < MaxWrites
    /\ hkey = key \/ (MultiKey /\ Tag[hkey] = Tag[key])
    /\ req' = [req EXCEPT ![p] = [stage |-> "begin", cmd |-> cmd, hkey |-> hkey, key |-> key]]
    /\ UNCHANGED <<routingVars, came, keyVars, netVars, drained>>

(* The head of forwardSync.process and forwardSemiAsync.process.  A slot   *)
(* that is locked keeps the request waiting for Slot.lock.                 *)
Forward(p) ==
    /\ req[p].stage = "begin"
    /\ Route0(p).to # None
    /\ Enter(p, CASE Route0(p).from = None -> "sent"
                  [] Route0(p).from # None /\ Method = "sync" -> "pull"
                  [] OTHER -> "wrap")
    /\ UNCHANGED <<routingVars, came, keyVars, netVars, drained>>

(* A slot that has no backend, or a session that is broken.                *)
Refuse(p) ==
    /\ req[p].stage = "begin"
    /\ Answer(p)
    /\ UNCHANGED <<routingVars, came, keyVars, netVars, drained>>

(* A server runs the command of a client.                                  *)
Run(a, r) ==
    \/ /\ r.cmd = "get"
       /\ UNCHANGED keyVars
    \/ /\ r.cmd \in {"set", "script"}
       /\ writes' = writes + 1
       /\ data' = [data EXCEPT ![a][r.key] = writes + 1]
       /\ last' = [last EXCEPT ![r.key] = writes + 1]
    \/ /\ r.cmd = "del"
       /\ data' = [data EXCEPT ![a][r.key] = 0]
       /\ last' = [last EXCEPT ![r.key] = 0]
       /\ UNCHANGED writes

(* The owner runs the request; or its connection is lost before that.  In  *)
(* both cases the request leaves Slot.refs.                                *)
Serve(p) ==
    /\ req[p].stage = "sent"
    /\ Run(Route0(p).to, req[p])
    /\ Answer(p)
    /\ UNCHANGED <<routingVars, came, netVars, drained>>

Lose(p) ==
    /\ req[p].stage \in {"pull", "wrap", "sent"}
    /\ CanFail /\ Fail
    /\ Answer(p)
    /\ UNCHANGED <<routingVars, came, keyVars, batch, lateVars, drained>>

-----------------------------------------------------------------------------
(* The sync method (slots.c): the source sends the values of keys in one   *)
(* SLOTSRESTORE, which overwrites, and removes them when it is answered.   *)

Restored(d, b, vals) == [d EXCEPT ![b] = [k \in Keys |-> IF k \in DOMAIN vals THEN vals[k] ELSE @[k]]]
Removed(d, a, K)     == [d EXCEPT ![a] = [k \in Keys |-> IF k \in K THEN 0 ELSE @[k]]]
Values(a, K)         == [k \in {l \in K : data[a][l] # 0} |-> data[a][k]]

(* The keys handed over with a key: slotsmgrtTagCommand, slotsmgrtOneKey.  *)
Handed(k) == Together(k)

(* Mutant: the source removes the keys although the restore failed.        *)
slotsmgrtFails_Removes(a, b, K) ==
    /\ CanFail /\ Fail
    /\ data' = Removed(data, a, K)
    /\ UNCHANGED lateVars

slotsmgrt(a, b, K) == data' = Removed(Restored(data, b, Values(a, K)), a, K)

(* The error path: nothing was done, or the answer to SLOTSRESTORE was     *)
(* lost, or it is run after the source has closed the connection.          *)
slotsmgrtFails(a, b, K) ==
    /\ CanFail /\ Fail
    /\ \/ UNCHANGED <<data, lateVars>>
       \/ data' = Restored(data, b, Values(a, K)) /\ UNCHANGED lateVars
       \/ /\ Cardinality(late) < MaxLate
          /\ late' = late \cup {[at |-> b, vals |-> Values(a, K)]}
          /\ UNCHANGED <<data, overrun>>

(* SLOTSMGRTTAGONE, sent by forwardHelper.slotsmgrt; then forward2.        *)
Pull(p) ==
    /\ req[p].stage = "pull"
    /\ \/ /\ slotsmgrt(Route0(p).from, Route0(p).to, Handed(req[p].hkey))
          /\ Enter(p, "sent")
          /\ UNCHANGED <<lateVars, fails>>
       \/ /\ slotsmgrtFails(Route0(p).from, Route0(p).to, Handed(req[p].hkey))
          /\ Answer(p)
    /\ UNCHANGED <<routingVars, came, last, writes, batch, drained>>

(* SLOTSMGRTTAGSLOT, sent by an executor, hands over a key of the slot.    *)
MigrateSlot(s, k) ==
    /\ Method = "sync"
    /\ phase[s] = "moving"
    /\ source[s] # None
    /\ k \in KeysAt(source[s], s)
    /\ \/ slotsmgrt(source[s], owner[s], Handed(k)) /\ UNCHANGED <<lateVars, fails>>
       \/ slotsmgrtFails(source[s], owner[s], Handed(k))
    /\ UNCHANGED <<routingVars, came, last, writes, req, batch, drained>>

(* A restore whose connection was given up is run after all: SLOTSRESTORE  *)
(* overwrites, wherever the slot is now and whatever was written since.    *)
LateRestore(c) ==
    /\ data' = Restored(data, c.at, c.vals)
    /\ late' = late \ {c}
    /\ overrun' = (overrun \/ \E k \in DOMAIN c.vals : c.at # owner[SlotOf[k]] \/ c.vals[k] # last[k])
    /\ UNCHANGED <<routingVars, came, last, writes, req, batch, fails, drained>>

-----------------------------------------------------------------------------
(* The semi-async method (slots_async.c): executors move batches of keys,  *)
(* message by message, and proxies send commands to the source, which runs *)
(* those on keys it still has and refuses writes to keys that are moving.  *)

(* Mutant: keys that have not been sent are not protected.                 *)
Fenced_SentOnly(a, k) == \E l \in batch[a].sent : Tag[l] = Tag[k]

(* getSlotsmgrtAsyncClientMigrationStatusOrBlock.                          *)
Fenced(a, k) == \E l \in batch[a].keys : Tag[l] = Tag[k]

(* The command table of the server flags EVAL and EVALSHA with neither     *)
(* CMD_WRITE nor CMD_READONLY.                                             *)
CMD_WRITE(cmd) == cmd \in {"set", "del"}

(* Mutant: keys that are being moved are taken for gone.                   *)
slotsmgrtExecWrapperCommand_FencedGone(p) ==
    LET a == Route0(p).from  k == req[p].hkey
    IN  /\ req[p].stage = "wrap"
        /\ \/ /\ data[a][k] = 0 \/ (CMD_WRITE(req[p].cmd) /\ Fenced(a, k))
              /\ Enter(p, "sent")
              /\ UNCHANGED keyVars
           \/ /\ data[a][k] # 0
              /\ ~ (CMD_WRITE(req[p].cmd) /\ Fenced(a, k))
              /\ Run(a, req[p])
              /\ Answer(p)
        /\ UNCHANGED <<routingVars, came, netVars, drained>>

(* Mutant: a key that is gone is tried again.                              *)
slotsmgrtExecWrapperCommand_GoneRetries(p) ==
    LET a == Route0(p).from  k == req[p].hkey
    IN  /\ req[p].stage = "wrap"
        /\ \/ /\ data[a][k] = 0 \/ (CMD_WRITE(req[p].cmd) /\ Fenced(a, k))
              /\ Enter(p, "begin")
              /\ UNCHANGED keyVars
           \/ /\ data[a][k] # 0
              /\ ~ (CMD_WRITE(req[p].cmd) /\ Fenced(a, k))
              /\ Run(a, req[p])
              /\ Answer(p)
        /\ UNCHANGED <<routingVars, came, netVars, drained>>

slotsmgrtExecWrapperCommand(p) ==
    LET a == Route0(p).from  k == req[p].hkey
    IN  /\ req[p].stage = "wrap"
        /\ \/ /\ data[a][k] = 0
              /\ Enter(p, "sent")
              /\ UNCHANGED keyVars
           \/ /\ data[a][k] # 0
              /\ CMD_WRITE(req[p].cmd) /\ Fenced(a, k)
              /\ Enter(p, "begin")
              /\ UNCHANGED keyVars
           \/ /\ data[a][k] # 0
              /\ ~ (CMD_WRITE(req[p].cmd) /\ Fenced(a, k))
              /\ Run(a, req[p])
              /\ Answer(p)
        /\ UNCHANGED <<routingVars, came, netVars, drained>>

(* SLOTSMGRTTAGSLOT-ASYNC: some keys of the slot, and those of their tags. *)
MigrateSlotAsync(s, K) ==
    LET a == source[s]
    IN  /\ Method = "semi-async"
        /\ phase[s] = "moving"
        /\ a # None
        /\ batch[a] = NoBatch
        /\ K # {} /\ K \subseteq KeysAt(a, s)
        /\ \A k \in K : Together(k) \cap KeysAt(a, s) \subseteq K
        /\ batch' = [batch EXCEPT ![a] = [NoBatch EXCEPT !.to = owner[s], !.keys = K, !.todo = K]]
        /\ UNCHANGED <<routingVars, came, keyVars, req, lateVars, fails, drained>>

(* batchedObjectIteratorNext: the value is what the key has when it is sent *)
BatchNext(a, k) ==
    /\ k \in batch[a].todo
    /\ batch' = [batch EXCEPT ![a].todo = @ \ {k},
                              ![a].sent = IF data[a][k] = 0 THEN @ ELSE @ \cup {k},
                              ![a].wire = IF data[a][k] = 0 THEN @
                                          ELSE @ \o <<[k |-> k, v |-> 0], [k |-> k, v |-> data[a][k]]>>]
    /\ UNCHANGED <<routingVars, came, keyVars, req, lateVars, fails, drained>>

(* slotsrestoreAsyncHandle at the target: "delete" (0) or "object".  A     *)
(* target that sends a batch itself refuses, and the batch is aborted.     *)
BatchRestore(a) ==
    /\ batch[a].wire # << >>
    /\ batch[batch[a].to] = NoBatch
    /\ data' = [data EXCEPT ![batch[a].to][Head(batch[a].wire).k] = Head(batch[a].wire).v]
    /\ batch' = [batch EXCEPT ![a].wire = Tail(@)]
    /\ UNCHANGED <<routingVars, came, last, writes, req, lateVars, fails, drained>>

(* Mutant: the batch is over when its last message has been sent.          *)
slotsmgrtAsyncComplete_NoAcks(a) ==
    /\ batch[a] # NoBatch
    /\ batch[a].todo = {}
    /\ data' = Removed(data, a, batch[a].sent)
    /\ batch' = [batch EXCEPT ![a] = NoBatch]
    /\ UNCHANGED <<routingVars, came, last, writes, req, lateVars, fails, drained>>

(* Mutant: the source keeps the keys of the batch.                         *)
slotsmgrtAsyncComplete_Keeps(a) ==
    /\ batch[a] # NoBatch
    /\ batch[a].todo = {} /\ batch[a].wire = << >>
    /\ batch' = [batch EXCEPT ![a] = NoBatch]
    /\ UNCHANGED <<routingVars, came, keyVars, req, lateVars, fails, drained>>

(* Every message was acknowledged: the keys that were sent are removed.    *)
slotsmgrtAsyncComplete(a) ==
    /\ batch[a] # NoBatch
    /\ batch[a].todo = {} /\ batch[a].wire = << >>
    /\ data' = Removed(data, a, batch[a].sent)
    /\ batch' = [batch EXCEPT ![a] = NoBatch]
    /\ UNCHANGED <<routingVars, came, last, writes, req, lateVars, fails, drained>>

(* A timeout, a lost connection, an error or SLOTSMGRT-ASYNC-CANCEL ends   *)
(* the batch; the source keeps its keys, and what was not run is dropped.  *)
unlinkSlotsmgrtAsyncCachedClient(a) ==
    /\ batch[a] # NoBatch
    /\ CanFail /\ Fail
    /\ batch' = [batch EXCEPT ![a] = NoBatch]
    /\ UNCHANGED <<routingVars, came, keyVars, req, lateVars, drained>>

-----------------------------------------------------------------------------
(* The control plane.                                                      *)

(* Mutant: the fill does not wait for the requests of the slot.            *)
FillSlots_NoWait(p) ==
    /\ Reroute(p)
    /\ \A s \in Slots : routes'[p][s].from \in {None, source[s], came[s]}
    /\ UNCHANGED <<came, keyVars, req, netVars, drained>>

(* Router.fillSlot: Slot.blockAndWait waits for the requests of the slot.  *)
(* A route that pulls after the slot has moved pulls from where it did.    *)
FillSlots(p) ==
    /\ Reroute(p)
    /\ \A s \in Slots : /\ routes'[p][s] # routes[p][s] => ~ Held(p, s)
                        /\ routes'[p][s].from \in {None, source[s], came[s]}
    /\ UNCHANGED <<came, keyVars, req, netVars, drained>>

(* The action of the slot becomes "prepared".                              *)
BeginMove(s, a) ==
    /\ a # owner[s]
    /\ Begin(s, a)
    /\ came' = [came EXCEPT ![s] = owner[s]]
    /\ drained' = [drained EXCEPT ![s] = FALSE]
    /\ UNCHANGED <<keyVars, req, netVars>>

(* An executor is told that no key is left, and the task of the slot ends. *)
ExecutorDone(s) ==
    /\ phase[s] = "moving"
    /\ source[s] # None
    /\ batch[source[s]] = NoBatch
    /\ KeysAt(source[s], s) = {}
    /\ drained' = [drained EXCEPT ![s] = TRUE]
    /\ UNCHANGED <<routingVars, came, keyVars, req, netVars>>

(* Mutant: the move ends although keys are left.                           *)
FinishMove_Early(s) ==
    /\ Finish(s)
    /\ UNCHANGED <<came, keyVars, req, netVars, drained>>

(* Its action becomes "finished".                                          *)
FinishMove(s) ==
    /\ drained[s]
    /\ Finish(s)
    /\ UNCHANGED <<came, keyVars, req, netVars, drained>>

(* Its action ends.                                                        *)
SettleMove(s) ==
    /\ Settle(s)
    /\ UNCHANGED <<came, keyVars, req, netVars, drained>>

-----------------------------------------------------------------------------
Requests ==
    \E p \in Proxies :
        \/ \E cmd \in Commands, hkey, key \in Keys : Receive(p, cmd, hkey, key)
        \/ Forward(p) \/ Refuse(p) \/ Serve(p) \/ Lose(p)
        \/ Pull(p) \/ slotsmgrtExecWrapperCommand(p)

Moves ==
    \/ \E s \in Slots : \/ \E k \in Keys : MigrateSlot(s, k)
                        \/ \E K \in SUBSET Keys : MigrateSlotAsync(s, K)
    \/ \E a \in Servers : \/ \E k \in Keys : BatchNext(a, k)
                          \/ BatchRestore(a)
                          \/ slotsmgrtAsyncComplete(a)
                          \/ unlinkSlotsmgrtAsyncCachedClient(a)
    \/ \E c \in late : LateRestore(c)

Control ==
    \/ \E p \in Proxies : FillSlots(p)
    \/ \E s \in Slots : \/ \E a \in Servers : BeginMove(s, a)
                        \/ ExecutorDone(s) \/ FinishMove(s) \/ SettleMove(s)

Next == Requests \/ Moves \/ Control

Spec == Init /\ [][Next]_vars

(* Requests go on while their connections work, and Slot.lock admits the   *)
(* readers that wait for it before the next writer (sync.RWMutex); servers *)
(* run what they are sent; executors are run until their slot is empty;    *)
(* and the dashboard unlocks the slots it has locked and ends the actions  *)
(* that executors have ended (Topology: LocksAreReleased, MigrationEnds).  *)
Fairness ==
    /\ \A p \in Proxies :
          /\ SF_vars(Forward(p))
          /\ WF_vars(Serve(p)) /\ WF_vars(Pull(p)) /\ WF_vars(slotsmgrtExecWrapperCommand(p))
          /\ WF_vars(FillSlots(p) /\ \A s \in Slots : routes'[p][s].to # None)
    /\ \A a \in Servers :
          /\ \A k \in Keys : WF_vars(BatchNext(a, k))
          /\ WF_vars(BatchRestore(a)) /\ WF_vars(slotsmgrtAsyncComplete(a))
    /\ \A s \in Slots :
          /\ WF_vars(\E k \in Keys : MigrateSlot(s, k))
          /\ WF_vars(\E K \in SUBSET Keys : MigrateSlotAsync(s, K))
          /\ WF_vars(ExecutorDone(s)) /\ WF_vars(FinishMove(s))

LiveSpec == Spec /\ Fairness
-----------------------------------------------------------------------------
(* Properties.                                                             *)

(* Types of the variables.                                                 *)
TypeOK ==
    /\ owner \in Owned /\ source \in Owned /\ came \in Owned
    /\ phase \in Phased
    /\ routes \in Routed
    /\ data \in [Servers -> [Keys -> Value]]
    /\ last \in [Keys -> Value]
    /\ writes \in Value
    /\ req \in [Proxies -> Request \cup {NoRequest}]
    /\ batch \in [Servers -> Batch]
    /\ late \subseteq [at: Servers, vals: Restores]
    /\ overrun \in BOOLEAN
    /\ fails \in 0 .. MaxFails
    /\ drained \in [Slots -> BOOLEAN]

(* The last write to a key is never lost, whichever server ran it and      *)
(* whatever failed since: the value it left is at the source of a moving   *)
(* slot while the source has the key, and at the owner otherwise, until a  *)
(* restore that was given up overruns it.  Sending keys again, and late    *)
(* restores of what is still the newest, do no harm (slots.c:513-645,      *)
(* slots_async.c:931-965).                                                 *)
NewestKept ==
    overrun \/ \A k \in Keys :
        LET s == SlotOf[k]
            moving == phase[s] = "moving" /\ source[s] # None
        IN  IF moving /\ data[source[s]][k] # 0
            THEN data[source[s]][k] = last[k]
            ELSE data[owner[s]][k] = last[k]

(* A request on its way to the owner finds there the newest value of the   *)
(* key it works on, also when it was routed by another key of the tag and  *)
(* however long it waits: nothing can move the key back, overwrite it or   *)
(* change the route behind it but a late restore that overruns a write     *)
(* (forward.go:50-66, slots.go:53-59).                                     *)
SentFindsNewest ==
    overrun \/ \A p \in Proxies : req[p].stage = "sent" => data[Route0(p).to][req[p].key] = last[req[p].key]

(* When a move is over, no other server has a key of the slot, which would *)
(* come back to life when the slot returns there, unless a late restore    *)
(* brought it (topom_slots.go:427-445).                                    *)
NothingLeft ==
    overrun \/ \A s \in Slots : phase[s] = "settled" => \A a \in Servers \ {owner[s]} : KeysAt(a, s) = {}

(* While a batch is on its way its keys do not change at the source, from  *)
(* the moment they are selected to the moment they are removed             *)
(* (slots_async.c:694-700).                                                *)
MovingKeysAreStill ==
    [][\A a \in Servers : batch'[a].keys = batch[a].keys =>
          \A k \in batch[a].keys : data'[a][k] = data[a][k]]_vars

(* Every request is answered unless slots begin to move for ever: the      *)
(* retries of the semi-async method end (forward.go:76-105) and nobody     *)
(* keeps Slot.lock.                                                        *)
RequestsEnd ==
    \/ []<><<\E s \in Slots : phase[s] = "settled" /\ phase'[s] # "settled">>_phase
    \/ \A p \in Proxies : []<>(req[p] = NoRequest)

(* A slot that moves is drained, for all that clients write meanwhile.     *)
MovesEnd == \A s \in Slots : []<>(phase[s] # "moving")
=============================================================================
