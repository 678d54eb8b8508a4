----------------------------- MODULE SlotDataInv -----------------------------
(***************************************************************************)
(* The inductive invariants behind the safety of SlotData: of its types,   *)
(* of the sync method as long as no late restore overruns a newer write,   *)
(* and of the semi-async method, without deletions or with them.           *)
(***************************************************************************)
EXTENDS SlotData

(* No more writes come in than are counted, and a slot has a server.       *)
(* Without this, the types are not inductive.                              *)
WritesInv == writes + Cardinality({p \in Proxies : Writing(p)}) <= MaxWrites

PullInv == \A p \in Proxies : req[p].stage = "pull" => Route0(p).to # None /\ Route0(p).from # None

TypeInv == TypeOK /\ owner \in [Slots -> Servers] /\ WritesInv /\ PullInv

-----------------------------------------------------------------------------
(* The sync method.                                                        *)

SyncTypes ==
    /\ owner \in [Slots -> Servers]
    /\ source \in Owned /\ came \in Owned
    /\ phase \in Phased
    /\ routes \in Routed
    /\ data \in [Servers -> [Keys -> Nat]]
    /\ last \in [Keys -> Nat]
    /\ writes \in Nat
    /\ req \in [Proxies -> Request \cup {NoRequest}]
    /\ drained \in [Slots -> BOOLEAN]

(* Only a moving slot has a source, which is not its owner.                *)
SourceInv ==
    \A s \in Slots :
        /\ phase[s] = "moving" => source[s] \in Servers /\ came[s] = source[s]
        /\ phase[s] # "moving" => source[s] = None
        /\ came[s] # owner[s]

RouteInv ==
    \A p \in Proxies, s \in Slots :
        /\ Fits(routes[p][s], s)
        /\ routes[p][s].from \in {None, came[s]}

(* Where the keys are: nowhere but at the owner and, while the slot moves, *)
(* at the source; and what is at the source is the newest.                 *)
KeyOk(k) ==
    LET s == SlotOf[k]
    IN  /\ \A a \in Servers \ {owner[s], source[s]} : data[a][k] = 0
        /\ phase[s] = "moving" =>
              data[IF data[source[s]][k] # 0 THEN source[s] ELSE owner[s]][k] = last[k]
        /\ phase[s] # "moving" => data[owner[s]][k] = last[k]

KeysInv == \A k \in Keys : KeyOk(k)

(* An executor that found the source empty left it so.                     *)
DrainedInv ==
    \A k \in Keys :
        phase[SlotOf[k]] = "moving" /\ drained[SlotOf[k]] => data[source[SlotOf[k]]][k] = 0

(* A request that holds its slot has a route; one that is sent has left    *)
(* no key of its tag behind it.                                            *)
RequestOk(p) ==
    req[p] # NoRequest =>
        LET s == SlotOf[req[p].hkey]
        IN  /\ Tag[req[p].key] = Tag[req[p].hkey]
            /\ req[p].stage # "wrap"
            /\ req[p].stage \in {"pull", "sent"} => routes[p][s].to # None
            /\ req[p].stage = "pull" => routes[p][s].from # None
            /\ req[p].stage = "sent" /\ phase[s] = "moving" =>
                  \A k \in Together(req[p].hkey) : data[source[s]][k] = 0

RequestInv == \A p \in Proxies : RequestOk(p)

(* The sync method uses no batches.                                        *)
NoBatches == batch = [a \in Servers |-> NoBatch]

Intact ==
    /\ SyncTypes
    /\ SourceInv
    /\ RouteInv
    /\ KeysInv
    /\ DrainedInv
    /\ RequestInv
    /\ NoBatches

SyncInv == overrun \/ Intact

-----------------------------------------------------------------------------
(* The semi-async method.                                                  *)

(* A request that holds its slot has a route; one that is wrapped has a    *)
(* source.                                                                 *)
WrapOk(p) ==
    req[p] # NoRequest =>
        LET s == SlotOf[req[p].hkey]
        IN  /\ Tag[req[p].key] = Tag[req[p].hkey]
            /\ req[p].stage # "pull"
            /\ req[p].stage \in {"wrap", "sent"} => routes[p][s].to # None
            /\ req[p].stage = "wrap" => routes[p][s].from # None

(* The keys of a batch are of moving slots, and on their way from source   *)
(* to owner; the source has them until the batch is over.                  *)
BatchOk(a) ==
    /\ batch[a].todo \cup batch[a].sent \subseteq batch[a].keys
    /\ batch[a].todo \cap batch[a].sent = {}
    /\ \A i \in DOMAIN batch[a].wire : batch[a].wire[i].k \in batch[a].sent
    /\ \A k \in batch[a].keys :
          /\ phase[SlotOf[k]] = "moving" /\ source[SlotOf[k]] = a /\ owner[SlotOf[k]] = batch[a].to
          /\ data[a][k] # 0

(* What keeps the keys of a batch still, whatever clients send but scripts. *)
StillInv ==
    /\ SourceInv
    /\ RouteInv
    /\ DrainedInv
    /\ \A p \in Proxies : WrapOk(p)
    /\ \A a \in Servers : BatchOk(a)
    /\ late = {} /\ ~ overrun

(* A key that was sent has its value at the target, and no message for it  *)
(* is left; or the last message for it, which is on its way, has it.       *)
WireOk(a) ==
    \A k \in batch[a].sent :
        \/ /\ data[batch[a].to][k] = data[a][k]
           /\ \A i \in DOMAIN batch[a].wire : batch[a].wire[i].k # k
        \/ \E i \in DOMAIN batch[a].wire :
              /\ batch[a].wire[i].k = k /\ batch[a].wire[i].v = data[a][k]
              /\ \A j \in DOMAIN batch[a].wire : j > i => batch[a].wire[j].k # k

(* A request was sent to the owner because the source had not its key.     *)
GoneOk(p) ==
    req[p] # NoRequest =>
        LET s == SlotOf[req[p].hkey]
        IN  /\ req[p].key = req[p].hkey
            /\ req[p].stage = "sent" /\ phase[s] = "moving" => data[source[s]][req[p].hkey] = 0

SemiInv ==
    /\ StillInv
    /\ KeysInv
    /\ \A a \in Servers : WireOk(a)
    /\ \A p \in Proxies : GoneOk(p)

(* The owner of a moving slot has nothing of a key that the source has,    *)
(* but for those the batch of the source has sent: no batch has left       *)
(* anything behind.  unlinkSlotsmgrtAsyncCachedClient ends this.           *)
CleanInv ==
    \A k \in Keys :
        LET s == SlotOf[k]
        IN  phase[s] = "moving" /\ data[source[s]][k] # 0 /\ k \notin batch[source[s]].sent =>
                data[owner[s]][k] = 0
=============================================================================
