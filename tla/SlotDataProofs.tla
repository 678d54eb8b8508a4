--------------------------- MODULE SlotDataProofs ---------------------------
(***************************************************************************)
(* The keys of a cluster while its slots move, for any number of servers,  *)
(* proxies, slots, keys and failures.  The sync method keeps them: the     *)
(* conjunction Intact of SlotDataInv is kept by every step but a restore   *)
(* that was given up and overruns a newer write.  Both methods keep the    *)
(* types and, without scripts, leave a key alone that is in a batch.  The  *)
(* semi-async method keeps the keys for reads and writes of one key each,  *)
(* and for deletions too as long as no batch is given up.                  *)
(***************************************************************************)
EXTENDS SlotDataInv, FiniteSetTheorems, SequenceTheorems, TLAPS

(* What the proofs assume: the method.                                     *)
Sync == Method = "sync"

(* A request that holds a slot has its tag and its slot.                   *)
LEMMA SameSlot ==
    ASSUME NEW k \in Keys, NEW l \in Keys, Tag[k] = Tag[l]
    PROVE  SlotOf[k] = SlotOf[l]
BY SlotDataAssumption

LEMMA InitIntact ==
    ASSUME Init
    PROVE  Intact
<1>1. SyncTypes
  BY SlotDataAssumption DEF Init, RoutingInit, SyncTypes, Owned, Phased, Phases, Address
<1>2. SourceInv
  BY SlotDataAssumption, <1>1 DEF Init, RoutingInit, SourceInv, SyncTypes
<1>3. RouteInv
  BY <1>1 DEF Init, RoutingInit, RouteInv, SyncTypes
<1>4. KeysInv
  BY SlotDataAssumption, <1>1 DEF Init, RoutingInit, KeysInv, KeyOk, SyncTypes
<1>5. DrainedInv /\ RequestInv /\ NoBatches
  BY SlotDataAssumption, <1>1 DEF Init, RoutingInit, DrainedInv, RequestInv, RequestOk, NoBatches, SyncTypes
<1> QED BY <1>1, <1>2, <1>3, <1>4, <1>5 DEF Intact

-----------------------------------------------------------------------------
(* Requests.                                                               *)

(* A request that has a route goes to the owner of its slot.               *)
LEMMA ToOwner ==
    ASSUME Intact, NEW p \in Proxies, req[p].stage \in {"pull", "sent"}
    PROVE  /\ req[p] \in Request
           /\ SlotOf[req[p].hkey] \in Slots
           /\ SlotOf[req[p].key] = SlotOf[req[p].hkey]
           /\ Route0(p) \in Route
           /\ Route0(p).to = owner[SlotOf[req[p].hkey]]
           /\ Route0(p).to \in Servers
<1>1. req[p] \in Request
  BY DEF Intact, SyncTypes, NoRequest
<1>2. SlotOf[req[p].hkey] \in Slots
  BY <1>1, SlotDataAssumption DEF Request
<1>3. req[p] # NoRequest
  BY DEF NoRequest
<1>4. SlotOf[req[p].key] = SlotOf[req[p].hkey]
  BY <1>1, <1>3, SameSlot DEF Request, Intact, RequestInv, RequestOk
<1>5. Route0(p) \in Route
  BY <1>2 DEF Intact, SyncTypes, Routed, Route0
<1>6. Route0(p).to # None
  BY <1>3 DEF Intact, RequestInv, RequestOk, Route0
<1>7. Route0(p).to = owner[SlotOf[req[p].hkey]]
  BY <1>2, <1>6 DEF Intact, RouteInv, Fits, NoRoute, Route0
<1> QED BY <1>1, <1>2, <1>4, <1>5, <1>7 DEF Intact, SyncTypes

(* A request comes in.                                                     *)
LEMMA ReceiveKeeps ==
    ASSUME Intact, NEW p \in Proxies, NEW cmd \in Commands, NEW hkey \in Keys, NEW key \in Keys,
           Receive(p, cmd, hkey, key)
    PROVE  Intact'
<1>1. SyncTypes'
  BY DEF Intact, SyncTypes, Receive, routingVars, controlVars, keyVars, Request
<1>2. (SourceInv /\ RouteInv /\ KeysInv /\ DrainedInv /\ NoBatches)'
  BY DEF Intact, Receive, routingVars, controlVars, keyVars, netVars, SourceInv, RouteInv, Fits,
         KeysInv, KeyOk, DrainedInv, NoBatches
<1>3. RequestInv'
  BY DEF Intact, SyncTypes, Receive, routingVars, controlVars, keyVars, RequestInv, RequestOk, Together
<1> QED BY <1>1, <1>2, <1>3 DEF Intact

(* It takes the lock of its slot.                                          *)
LEMMA ForwardKeeps ==
    ASSUME Intact, NEW p \in Proxies, Forward(p), Sync
    PROVE  Intact'
<1> DEFINE s == SlotOf[req[p].hkey]
<1>1. req[p] \in Request /\ req[p] # NoRequest
  BY DEF Intact, SyncTypes, NoRequest, Forward
<1>2. s \in Slots
  BY <1>1, SlotDataAssumption DEF Request
<1>3. PICK stage \in {"pull", "sent"} :
        /\ req' = [req EXCEPT ![p].stage = stage]
        /\ stage = "pull" => Route0(p).from # None
        /\ stage = "sent" => Route0(p).from = None
  BY DEF Forward, Enter, Sync
<1>4. SyncTypes'
  BY <1>1, <1>3 DEF Intact, SyncTypes, Forward, routingVars, controlVars, keyVars, Request
<1>5. (SourceInv /\ RouteInv /\ KeysInv /\ DrainedInv /\ NoBatches)'
  BY DEF Intact, Forward, routingVars, controlVars, keyVars, netVars, SourceInv, RouteInv, Fits,
         KeysInv, KeyOk, DrainedInv, NoBatches
<1>6. phase[s] = "moving" => stage = "pull"
  BY <1>2, <1>3, SlotDataAssumption
     DEF Forward, Intact, RouteInv, SourceInv, Fits, NoRoute, Route0
<1>7. ASSUME NEW q \in Proxies
      PROVE  RequestOk(q)'
  <2>1. CASE q = p
    <3>1. req'[p] = [req[p] EXCEPT !.stage = stage]
      BY <1>3 DEF Intact, SyncTypes
    <3>2. /\ req'[p].stage = stage
          /\ req'[p].hkey = req[p].hkey
          /\ req'[p].key = req[p].key
      BY <1>1, <3>1 DEF Request
    <3> QED BY <1>1, <1>3, <1>6, <2>1, <3>2
            DEF Intact, RequestInv, RequestOk, Forward, routingVars, controlVars, Route0
  <2>2. CASE q # p
    BY <1>3, <2>2 DEF Intact, SyncTypes, RequestInv, RequestOk, Forward, routingVars, controlVars, keyVars, Together
  <2> QED BY <2>1, <2>2
<1> QED BY <1>4, <1>5, <1>7 DEF Intact, RequestInv

(* A request that is over leaves nothing behind.                           *)
LEMMA AnswerKeeps ==
    ASSUME Intact, NEW p \in Proxies, Answer(p),
           UNCHANGED <<routingVars, came, keyVars, batch, drained>>
    PROVE  Intact'
<1>1. SyncTypes'
  BY DEF Intact, SyncTypes, Answer, routingVars, controlVars, keyVars
<1>2. (SourceInv /\ RouteInv /\ KeysInv /\ DrainedInv /\ NoBatches)'
  BY DEF Intact, routingVars, controlVars, keyVars, SourceInv, RouteInv, Fits,
         KeysInv, KeyOk, DrainedInv, NoBatches
<1>3. RequestInv'
  BY DEF Intact, SyncTypes, Answer, routingVars, controlVars, keyVars, RequestInv, RequestOk, Together
<1> QED BY <1>1, <1>2, <1>3 DEF Intact

(* The owner runs a request: its key is no longer at the source.           *)
LEMMA ServeKeeps ==
    ASSUME Intact, NEW p \in Proxies, Serve(p)
    PROVE  Intact'
<1> DEFINE s == SlotOf[req[p].hkey]
           k == req[p].key
<1>1. /\ req[p] \in Request /\ req[p] # NoRequest
      /\ s \in Slots /\ SlotOf[k] = s /\ k \in Keys
      /\ Route0(p).to = owner[s] /\ owner[s] \in Servers
  BY ToOwner DEF Serve, Request, NoRequest
<1>2. phase[s] = "moving" => source[s] # owner[s] /\ data[source[s]][k] = 0
  BY <1>1 DEF Serve, Intact, SourceInv, RequestInv, RequestOk, Together
<1>3. CASE UNCHANGED keyVars
  BY <1>3, AnswerKeeps DEF Serve, netVars
<1>4. CASE \E v \in Nat : /\ data' = [data EXCEPT ![owner[s]][k] = v]
                          /\ last' = [last EXCEPT ![k] = v]
                          /\ writes' \in Nat
  <2>1. PICK v \in Nat : /\ data' = [data EXCEPT ![owner[s]][k] = v]
                         /\ last' = [last EXCEPT ![k] = v]
    BY <1>4
  <2>2. SyncTypes'
    BY <1>1, <1>4, <2>1 DEF Intact, SyncTypes, Serve, Answer, routingVars, controlVars
  <2>3. /\ \A l \in Keys \ {k} : last'[l] = last[l] /\ \A a \in Servers : data'[a][l] = data[a][l]
        /\ \A a \in Servers \ {owner[s]} : data'[a][k] = data[a][k]
        /\ data'[owner[s]][k] = v /\ last'[k] = v
    BY <1>1, <2>1 DEF Intact, SyncTypes
  <2>4. (SourceInv /\ RouteInv /\ NoBatches)'
    BY DEF Intact, Serve, routingVars, controlVars, netVars, SourceInv, RouteInv, Fits, NoBatches
  <2>5. KeysInv'
    BY <1>1, <1>2, <2>3, SlotDataAssumption
       DEF Intact, SyncTypes, Owned, Address, SourceInv, KeysInv, KeyOk, Serve, routingVars, controlVars
  <2>6. DrainedInv'
    BY <1>1, <1>2, <2>3, SlotDataAssumption
       DEF Intact, SourceInv, DrainedInv, Serve, routingVars, controlVars
  <2>7. ASSUME NEW q \in Proxies
        PROVE  RequestOk(q)'
    BY <1>1, <1>2, <2>3, SlotDataAssumption, SameSlot
       DEF Intact, SyncTypes, SourceInv, RequestInv, RequestOk, Request, Together, Serve, Answer, routingVars, controlVars
  <2> QED BY <2>2, <2>4, <2>5, <2>6, <2>7 DEF Intact, RequestInv
<1>5. Run(owner[s], req[p]) /\ writes \in Nat
  BY <1>1 DEF Serve, Intact, SyncTypes
<1>6. CASE req[p].cmd \in {"set", "script"} /\ writes' = writes + 1
             /\ data' = [data EXCEPT ![owner[s]][k] = writes + 1] /\ last' = [last EXCEPT ![k] = writes + 1]
  <2>1. writes + 1 \in Nat
    BY <1>5
  <2> QED BY <1>4, <1>6, <2>1
<1>7. CASE req[p].cmd = "del" /\ UNCHANGED writes
             /\ data' = [data EXCEPT ![owner[s]][k] = 0] /\ last' = [last EXCEPT ![k] = 0]
  <2>1. 0 \in Nat
    OBVIOUS
  <2> QED BY <1>4, <1>5, <1>7, <2>1
<1> QED BY <1>3, <1>5, <1>6, <1>7 DEF Run

-----------------------------------------------------------------------------
(* Keys between servers.                                                   *)

(* What the removal at the server a makes of every key of every server.    *)
LEMMA RemovedAt ==
    ASSUME NEW d \in [Servers -> [Keys -> Nat]], NEW a \in Servers, NEW K \in SUBSET Keys
    PROVE  /\ Removed(d, a, K) \in [Servers -> [Keys -> Nat]]
           /\ \A c \in Servers, k \in Keys :
                 Removed(d, a, K)[c][k] = IF c = a /\ k \in K THEN 0 ELSE d[c][k]
BY DEF Removed

(* Keys of a slot are handed to its owner by a server that is its source,  *)
(* or was; the answer of the owner may be lost.  This keeps the newest     *)
(* value of every key and writes to no other server.                       *)
LEMMA HandOver ==
    ASSUME Intact, NEW s \in Slots, NEW a \in Servers, NEW K \in SUBSET Keys,
           \A k \in K : SlotOf[k] = s,
           a # owner[s],
           phase[s] = "moving" => a = source[s],
           UNCHANGED <<routingVars, last>>,
           \/ slotsmgrt(a, owner[s], K)
           \/ data' = Restored(data, owner[s], Values(a, K))
           \/ UNCHANGED data
    PROVE  /\ data' \in [Servers -> [Keys -> Nat]]
           /\ KeysInv'
           /\ slotsmgrt(a, owner[s], K) => \A k \in K : data'[a][k] = 0
           /\ \A b \in Servers, k \in Keys : b # owner[SlotOf[k]] => data'[b][k] \in {0, data[b][k]}
<1> DEFINE L == {l \in K : data[a][l] # 0}
           rest == Restored(data, owner[s], Values(a, K))
<1>1. data \in [Servers -> [Keys -> Nat]] /\ owner[s] \in Servers
  BY DEF Intact, SyncTypes
<1>2. /\ rest \in [Servers -> [Keys -> Nat]]
      /\ \A c \in Servers, k \in Keys :
            rest[c][k] = IF c = owner[s] /\ k \in L THEN data[a][k] ELSE data[c][k]
  <2> DEFINE vals == Values(a, K)
  <2>1. L \in SUBSET Keys /\ vals \in [L -> Nat] /\ \A k \in L : vals[k] = data[a][k]
    BY <1>1 DEF Values
  <2>2. DOMAIN vals = L
    BY <2>1
  <2>3. rest = [data EXCEPT ![owner[s]] = [k \in Keys |-> IF k \in L THEN vals[k] ELSE data[owner[s]][k]]]
    BY <2>2 DEF Restored
  <2> HIDE DEF L, vals, rest
  <2> QED BY <1>1, <2>1, <2>3
<1>3. /\ Removed(rest, a, K) \in [Servers -> [Keys -> Nat]]
      /\ \A c \in Servers, k \in Keys :
            Removed(rest, a, K)[c][k] = IF c = a /\ k \in K THEN 0 ELSE rest[c][k]
  <2> HIDE DEF rest
  <2> QED BY <1>2, RemovedAt
<1>4. data' = Removed(rest, a, K) \/ data' = rest \/ data' = data
  BY DEF slotsmgrt
<1> HIDE DEF rest
<1>5. data' \in [Servers -> [Keys -> Nat]]
  BY <1>1, <1>2, <1>3, <1>4
<1>6. /\ \A c \in Servers, k \in Keys \ K : data'[c][k] = data[c][k]
      /\ \A c \in Servers \ {a, owner[s]}, k \in K : data'[c][k] = data[c][k]
      /\ \A k \in K : \/ data'[a][k] = data[a][k] /\ data'[owner[s]][k] = data[owner[s]][k]
                      \/ /\ data'[a][k] \in {0, data[a][k]}
                         /\ data'[owner[s]][k] = IF data[a][k] # 0 THEN data[a][k] ELSE data[owner[s]][k]
  BY <1>1, <1>2, <1>3, <1>4
<1>7. ASSUME slotsmgrt(a, owner[s], K), NEW k \in K
      PROVE  data'[a][k] = 0
  BY <1>1, <1>3, <1>7 DEF slotsmgrt, rest
<1>8. \A k \in K : phase[s] # "moving" => data[a][k] = 0
  BY SlotDataAssumption DEF Intact, KeysInv, KeyOk, SourceInv
<1>9. ASSUME NEW b \in Servers, NEW k \in Keys, b # owner[SlotOf[k]]
      PROVE  data'[b][k] \in {0, data[b][k]}
  BY <1>6, <1>9
<1>10. ASSUME NEW k \in Keys
       PROVE  KeyOk(k)'
  <2>1. CASE k \notin K
    <3>1. \A c \in Servers : data'[c][k] = data[c][k]
      BY <1>6, <2>1
    <3> QED BY <3>1, SlotDataAssumption
            DEF Intact, SyncTypes, SourceInv, KeysInv, KeyOk, routingVars, controlVars
  <2>2. CASE k \in K /\ phase[s] = "moving"
    <3>1. SlotOf[k] = s /\ a = source[s]
      BY <2>2
    <3> QED BY <1>6, <2>2, <3>1 DEF Intact, KeysInv, KeyOk, routingVars, controlVars
  <2>3. CASE k \in K /\ phase[s] # "moving"
    <3>1. SlotOf[k] = s /\ data[a][k] = 0
      BY <1>8, <2>3
    <3>2. \A c \in Servers : data'[c][k] = data[c][k]
      BY <1>1, <1>6, <2>3, <3>1
    <3> QED BY <1>1, <2>3, <3>1, <3>2 DEF Intact, KeysInv, KeyOk, routingVars, controlVars
  <2> QED BY <2>1, <2>2, <2>3
<1> QED BY <1>5, <1>7, <1>9, <1>10 DEF KeysInv

(* The rest of Intact, when keys were handed over and a request may have  *)
(* been answered or sent after its keys were.                              *)
LEMMA HandOverKeeps ==
    ASSUME Intact, data' \in [Servers -> [Keys -> Nat]], KeysInv',
           \A b \in Servers, k \in Keys : b # owner[SlotOf[k]] => data'[b][k] \in {0, data[b][k]},
           UNCHANGED <<routingVars, came, last, writes, batch, drained>>,
           req' \in [Proxies -> Request \cup {NoRequest}],
           RequestInv'
    PROVE  Intact'
<1>1. SyncTypes'
  BY DEF Intact, SyncTypes, routingVars, controlVars
<1>2. (SourceInv /\ RouteInv /\ NoBatches)'
  BY DEF Intact, routingVars, controlVars, SourceInv, RouteInv, Fits, NoBatches
<1>3. DrainedInv'
  <2>1. ASSUME NEW k \in Keys, phase[SlotOf[k]] = "moving", drained[SlotOf[k]]
        PROVE  data'[source[SlotOf[k]]][k] = 0
    <3>1. /\ source[SlotOf[k]] \in Servers /\ source[SlotOf[k]] # owner[SlotOf[k]]
          /\ data[source[SlotOf[k]]][k] = 0
      BY <2>1, SlotDataAssumption DEF Intact, SourceInv, DrainedInv
    <3> QED BY <3>1
  <2> QED BY <2>1 DEF DrainedInv, routingVars, controlVars
<1> QED BY <1>1, <1>2, <1>3 DEF Intact

(* Requests other than the one that pulls, when keys are handed over.      *)
LEMMA OtherRequests ==
    ASSUME Intact, UNCHANGED <<routingVars, came>>,
           \A b \in Servers, k \in Keys : b # owner[SlotOf[k]] => data'[b][k] \in {0, data[b][k]},
           NEW q \in Proxies, req'[q] = req[q]
    PROVE  RequestOk(q)'
<1>1. CASE req[q] = NoRequest
  BY <1>1 DEF RequestOk
<1>2. CASE req[q] \in Request
  <2> DEFINE s == SlotOf[req[q].hkey]
  <2>1. s \in Slots /\ \A k \in Together(req[q].hkey) : k \in Keys /\ SlotOf[k] = s
    BY <1>2, SlotDataAssumption, SameSlot DEF Request, Together
  <2>2. phase[s] = "moving" => source[s] \in Servers /\ source[s] # owner[s]
    BY <2>1 DEF Intact, SourceInv
  <2> QED BY <1>2, <2>1, <2>2
          DEF Intact, RequestInv, RequestOk, Together, routingVars, controlVars
<1> QED BY <1>1, <1>2 DEF Intact, SyncTypes

(* An error leaves the data, or has given them to the other server.        *)
LEMMA FailKeepsSource ==
    ASSUME NEW a, NEW b, NEW K, slotsmgrtFails(a, b, K)
    PROVE  UNCHANGED data \/ data' = Restored(data, b, Values(a, K))
BY DEF slotsmgrtFails

LEMMA PullKeeps ==
    ASSUME Intact, NEW p \in Proxies, Pull(p), Sync
    PROVE  Intact'
<1> DEFINE s == SlotOf[req[p].hkey]
           a == Route0(p).from
           K == Together(req[p].hkey)
<1>1. /\ req[p] \in Request /\ req[p] # NoRequest
      /\ s \in Slots /\ Route0(p) \in Route
      /\ Route0(p).to = owner[s] /\ owner[s] \in Servers
  BY ToOwner DEF Pull, Request, NoRequest
<1>2. K \in SUBSET Keys /\ \A k \in K : SlotOf[k] = s
  BY <1>1, SlotDataAssumption, SameSlot DEF Request, Together
<1>3. /\ a \in Servers /\ a # owner[s]
      /\ phase[s] = "moving" => a = source[s]
  <2>1. a # None /\ Route0(p).to # None
    BY <1>1 DEF Intact, RequestInv, RequestOk, Route0, Pull
  <2>2. Fits(Route0(p), s) /\ a \in {None, came[s]}
    BY <1>1 DEF Intact, RouteInv, Route0
  <2>3. a \in Servers
    BY <1>1, <2>1 DEF Route, Address
  <2>4. a = came[s] /\ came[s] # owner[s]
    BY <1>1, <2>1, <2>2 DEF Intact, SourceInv
  <2>5. phase[s] = "moving" => a = source[s]
    BY <2>1, <2>2 DEF Fits, NoRoute
  <2> QED BY <2>3, <2>4, <2>5
<1>4. /\ UNCHANGED <<routingVars, came, last, writes, batch, drained>>
      /\ \/ slotsmgrt(a, owner[s], K) /\ Enter(p, "sent")
         \/ /\ UNCHANGED data \/ data' = Restored(data, owner[s], Values(a, K))
            /\ Answer(p)
  BY <1>1, FailKeepsSource DEF Pull, Handed
<1> HIDE DEF a, K
<1>5. /\ data' \in [Servers -> [Keys -> Nat]]
      /\ KeysInv'
      /\ slotsmgrt(a, owner[s], K) => \A k \in K : data'[a][k] = 0
      /\ \A b \in Servers, k \in Keys : b # owner[SlotOf[k]] => data'[b][k] \in {0, data[b][k]}
  BY <1>1, <1>2, <1>3, <1>4, HandOver
<1>6. req' \in [Proxies -> Request \cup {NoRequest}]
  BY <1>1, <1>4 DEF Intact, SyncTypes, Enter, Answer, Request
<1>7. RequestOk(p)'
  <2>1. CASE Answer(p)
    BY <2>1 DEF Answer, Intact, SyncTypes, RequestOk
  <2>2. CASE slotsmgrt(a, owner[s], K) /\ Enter(p, "sent")
    <3>1. /\ req'[p].stage = "sent"
          /\ req'[p].hkey = req[p].hkey
          /\ req'[p].key = req[p].key
      BY <1>1, <2>2 DEF Enter, Intact, SyncTypes, Request
    <3>2. \A k \in K : data'[a][k] = 0
      BY <1>5, <2>2
    <3> QED BY <1>1, <1>3, <1>4, <3>1, <3>2
            DEF Intact, RequestInv, RequestOk, Pull, routingVars, controlVars, K
  <2> QED BY <1>4, <2>1, <2>2
<1>8. ASSUME NEW q \in Proxies, q # p
      PROVE  RequestOk(q)'
  <2>1. req'[q] = req[q]
    BY <1>4, <1>8 DEF Enter, Answer, Intact, SyncTypes
  <2> QED BY <1>4, <1>5, <2>1, OtherRequests
<1>9. RequestInv'
  BY <1>7, <1>8 DEF RequestInv
<1> QED BY <1>4, <1>5, <1>6, <1>9, HandOverKeeps

LEMMA MigrateSlotKeeps ==
    ASSUME Intact, NEW s \in Slots, NEW k \in Keys, MigrateSlot(s, k), Sync
    PROVE  Intact'
<1> DEFINE a == source[s]
           K == Together(k)
<1>1. /\ a \in Servers /\ a # owner[s] /\ owner[s] \in Servers
      /\ phase[s] = "moving"
  BY DEF Intact, SyncTypes, SourceInv, MigrateSlot
<1>2. K \in SUBSET Keys /\ \A l \in K : SlotOf[l] = s
  BY SameSlot DEF Together, MigrateSlot, KeysAt
<1>3. /\ UNCHANGED <<routingVars, came, last, writes, req, batch, drained>>
      /\ \/ slotsmgrt(a, owner[s], K)
         \/ data' = Restored(data, owner[s], Values(a, K))
         \/ UNCHANGED data
  BY FailKeepsSource DEF MigrateSlot, Handed
<1>4. /\ data' \in [Servers -> [Keys -> Nat]]
      /\ KeysInv'
      /\ \A b \in Servers, l \in Keys : b # owner[SlotOf[l]] => data'[b][l] \in {0, data[b][l]}
  <2> HIDE DEF K
  <2> QED BY <1>1, <1>2, <1>3, HandOver
<1>5. RequestInv'
  BY <1>3, <1>4, OtherRequests DEF RequestInv
<1>6. req' \in [Proxies -> Request \cup {NoRequest}]
  BY <1>3 DEF Intact, SyncTypes
<1> QED BY <1>3, <1>4, <1>5, <1>6, HandOverKeeps

(* The sync method uses no batches.                                        *)
LEMMA NothingAsync ==
    ASSUME Intact, Sync
    PROVE  /\ \A p \in Proxies : ~ slotsmgrtExecWrapperCommand(p)
           /\ \A s \in Slots, K \in SUBSET Keys : ~ MigrateSlotAsync(s, K)
           /\ \A a \in Servers : /\ \A k \in Keys : ~ BatchNext(a, k)
                                 /\ ~ BatchRestore(a)
                                 /\ ~ slotsmgrtAsyncComplete(a)
                                 /\ ~ unlinkSlotsmgrtAsyncCachedClient(a)
<1>1. ASSUME NEW p \in Proxies PROVE ~ slotsmgrtExecWrapperCommand(p)
  BY DEF Intact, RequestInv, RequestOk, slotsmgrtExecWrapperCommand, NoRequest
<1>2. \A a \in Servers : batch[a] = NoBatch
  BY DEF Intact, NoBatches
<1>3. \A s \in Slots, K \in SUBSET Keys : ~ MigrateSlotAsync(s, K)
  BY DEF MigrateSlotAsync, Sync
<1>4. ASSUME NEW a \in Servers
      PROVE  /\ \A k \in Keys : ~ BatchNext(a, k)
             /\ ~ BatchRestore(a)
             /\ ~ slotsmgrtAsyncComplete(a)
             /\ ~ unlinkSlotsmgrtAsyncCachedClient(a)
  <2>1. batch[a].todo = {} /\ batch[a].wire = << >>
    BY <1>2 DEF NoBatch
  <2> QED BY <1>2, <2>1
          DEF BatchNext, BatchRestore, slotsmgrtAsyncComplete, unlinkSlotsmgrtAsyncCachedClient
<1> QED BY <1>1, <1>3, <1>4

(* A late restore that overruns nothing gives the owner what it has to     *)
(* have.                                                                   *)
LEMMA LateRestoreKeeps ==
    ASSUME Intact, NEW c \in late, LateRestore(c), ~ overrun'
    PROVE  Intact'
<1>1. \A k \in DOMAIN c.vals : c.at = owner[SlotOf[k]] /\ c.vals[k] = last[k]
  BY DEF LateRestore
<1>2. /\ data \in [Servers -> [Keys -> Nat]] /\ last \in [Keys -> Nat]
      /\ data' = [data EXCEPT ![c.at] = [k \in Keys |-> IF k \in DOMAIN c.vals THEN c.vals[k] ELSE data[c.at][k]]]
  BY DEF Intact, SyncTypes, LateRestore, Restored
<1>3. /\ data' \in [Servers -> [Keys -> Nat]]
      /\ \A b \in Servers, k \in Keys :
            data'[b][k] = IF b = c.at /\ k \in DOMAIN c.vals THEN last[k] ELSE data[b][k]
  BY <1>1, <1>2
<1>4. UNCHANGED <<routingVars, came, last, writes, req, batch, drained>>
  BY DEF LateRestore
<1>5. \A b \in Servers, k \in Keys :
          \/ data'[b][k] = data[b][k]
          \/ b = owner[SlotOf[k]] /\ data'[b][k] = last[k]
  BY <1>1, <1>3
<1>6. ASSUME NEW k \in Keys
      PROVE  KeyOk(k)'
  <2>1. SlotOf[k] \in Slots /\ owner[SlotOf[k]] \in Servers
    BY SlotDataAssumption DEF Intact, SyncTypes
  <2>2. phase[SlotOf[k]] = "moving" => source[SlotOf[k]] \in Servers /\ source[SlotOf[k]] # owner[SlotOf[k]]
    BY <2>1 DEF Intact, SourceInv
  <2> QED BY <1>4, <1>5, <2>1, <2>2 DEF Intact, KeysInv, KeyOk, routingVars, controlVars
<1>7. \A b \in Servers, k \in Keys : b # owner[SlotOf[k]] => data'[b][k] \in {0, data[b][k]}
  BY <1>5
<1>8. RequestInv'
  BY <1>4, <1>7, OtherRequests DEF RequestInv
<1>9. req' \in [Proxies -> Request \cup {NoRequest}] /\ KeysInv'
  BY <1>4, <1>6 DEF Intact, SyncTypes, KeysInv
<1> QED BY <1>3, <1>4, <1>7, <1>8, <1>9, HandOverKeeps

-----------------------------------------------------------------------------
(* The control plane.                                                      *)

(* A fill waits for the requests of the slots it changes.                  *)
LEMMA FillSlotsKeeps ==
    ASSUME Intact, NEW p \in Proxies, FillSlots(p)
    PROVE  Intact'
<1>1. PICK r \in [Slots -> Route] :
        /\ \A s \in Slots : Fits(r[s], s)
        /\ routes' = [routes EXCEPT ![p] = r]
        /\ UNCHANGED controlVars
  BY DEF FillSlots, Reroute
<1>2. \A s \in Slots : /\ routes'[p][s] = r[s]
                       /\ \A q \in Proxies \ {p} : routes'[q][s] = routes[q][s]
  BY <1>1 DEF Intact, SyncTypes, Routed
<1>3. UNCHANGED <<controlVars, came, keyVars, req, netVars, drained>>
  BY <1>1 DEF FillSlots
<1>4. SyncTypes'
  BY <1>1, <1>3 DEF Intact, SyncTypes, Routed, controlVars, keyVars
<1>5. (SourceInv /\ KeysInv /\ DrainedInv /\ NoBatches)'
  BY <1>3 DEF Intact, controlVars, keyVars, netVars, SourceInv, KeysInv, KeyOk, DrainedInv, NoBatches
<1>6. RouteInv'
  <2>1. ASSUME NEW s \in Slots, NEW q \in Proxies
        PROVE  Fits(routes'[q][s], s) /\ routes'[q][s].from \in {None, came[s]}
    <3>1. CASE q = p
      BY <1>1, <1>2, <3>1 DEF FillSlots, Intact, SourceInv, SyncTypes, Phased
    <3>2. CASE q # p
      BY <1>2, <3>2 DEF Intact, RouteInv
    <3> QED BY <3>1, <3>2
  <2> QED BY <1>3, <2>1 DEF RouteInv, Fits, controlVars
<1>7. ASSUME NEW q \in Proxies
      PROVE  RequestOk(q)'
  <2>1. CASE req[q] \in Request /\ Held(q, SlotOf[req[q].hkey])
    <3>1. SlotOf[req[q].hkey] \in Slots
      BY <2>1, SlotDataAssumption DEF Request
    <3>2. routes'[q][SlotOf[req[q].hkey]] = routes[q][SlotOf[req[q].hkey]]
      BY <1>2, <2>1, <3>1 DEF FillSlots
    <3> QED BY <1>3, <3>2 DEF Intact, RequestInv, RequestOk, Together, controlVars, keyVars
  <2>2. CASE req[q] \in Request /\ ~ Held(q, SlotOf[req[q].hkey])
    BY <1>3, <2>2 DEF Held, Request, Intact, RequestInv, RequestOk
  <2>3. CASE req[q] = NoRequest
    BY <1>3, <2>3 DEF RequestOk
  <2> QED BY <2>1, <2>2, <2>3 DEF Intact, SyncTypes
<1> QED BY <1>4, <1>5, <1>6, <1>7 DEF Intact, RequestInv

(* A slot begins to move when nobody routes it, hence nobody holds it.     *)
LEMMA BeginMoveKeeps ==
    ASSUME Intact, NEW s \in Slots, NEW a \in Servers, BeginMove(s, a)
    PROVE  Intact'
<1>1. /\ phase[s] = "settled" /\ Unrouted(s) /\ a # owner[s]
      /\ phase'  = [phase EXCEPT ![s] = "moving"]
      /\ source' = [source EXCEPT ![s] = owner[s]]
      /\ owner'  = [owner EXCEPT ![s] = a]
      /\ came'   = [came EXCEPT ![s] = owner[s]]
      /\ drained' = [drained EXCEPT ![s] = FALSE]
      /\ UNCHANGED <<routes, data, last, writes, req, batch>>
  BY DEF BeginMove, Begin, keyVars, netVars
<1>2. SyncTypes'
  BY <1>1 DEF Intact, SyncTypes, Owned, Address, Phased, Phases
<1>3. /\ phase'[s] = "moving" /\ source'[s] = owner[s] /\ owner'[s] = a /\ came'[s] = owner[s]
      /\ ~ drained'[s]
      /\ \A t \in Slots \ {s} : /\ phase'[t] = phase[t] /\ source'[t] = source[t] /\ owner'[t] = owner[t]
                                /\ came'[t] = came[t] /\ drained'[t] = drained[t]
  BY <1>1 DEF Intact, SyncTypes, Owned, Phased
<1>4. SourceInv'
  BY <1>1, <1>3 DEF Intact, SyncTypes, SourceInv
<1>5. RouteInv'
  BY <1>1, <1>3 DEF Intact, RouteInv, Fits, Unrouted, NoRoute
<1>6. ASSUME NEW k \in Keys
      PROVE  KeyOk(k)'
  <2>1. CASE SlotOf[k] = s
    <3>1. source[s] = None /\ None \notin Servers /\ owner[s] \in Servers
      BY <1>1, SlotDataAssumption DEF Intact, SourceInv, SyncTypes
    <3>2. /\ data[owner[s]][k] = last[k]
          /\ \A b \in Servers \ {owner[s]} : data[b][k] = 0
      BY <1>1, <2>1, <3>1 DEF Intact, KeysInv, KeyOk
    <3> QED BY <1>1, <1>3, <2>1, <3>1, <3>2 DEF KeyOk
  <2>2. CASE SlotOf[k] # s
    BY <1>1, <1>3, <2>2, SlotDataAssumption DEF Intact, KeysInv, KeyOk
  <2> QED BY <2>1, <2>2
<1>7. (DrainedInv /\ NoBatches)'
  BY <1>1, <1>3, SlotDataAssumption DEF Intact, DrainedInv, NoBatches
<1>8. ASSUME NEW q \in Proxies
      PROVE  RequestOk(q)'
  <2>1. CASE req[q] \in Request
    <3>1. SlotOf[req[q].hkey] \in Slots
      BY <2>1, SlotDataAssumption DEF Request
    <3>2. CASE SlotOf[req[q].hkey] = s
      BY <1>1, <3>2 DEF Intact, RequestInv, RequestOk, Unrouted, NoRoute
    <3>3. CASE SlotOf[req[q].hkey] # s
      BY <1>1, <1>3, <3>1, <3>3 DEF Intact, RequestInv, RequestOk, Together
    <3> QED BY <3>2, <3>3
  <2>2. CASE req[q] = NoRequest
    BY <1>1, <2>2 DEF RequestOk
  <2> QED BY <2>1, <2>2 DEF Intact, SyncTypes
<1> QED BY <1>2, <1>4, <1>5, <1>6, <1>7, <1>8 DEF Intact, KeysInv, RequestInv

(* An executor finds no key at the source.                                 *)
LEMMA ExecutorDoneKeeps ==
    ASSUME Intact, NEW s \in Slots, ExecutorDone(s)
    PROVE  Intact'
<1>1. SyncTypes'
  BY DEF Intact, SyncTypes, ExecutorDone, routingVars, controlVars, keyVars
<1>2. (SourceInv /\ RouteInv /\ KeysInv /\ RequestInv /\ NoBatches)'
  BY DEF Intact, ExecutorDone, routingVars, controlVars, keyVars, netVars, SourceInv, RouteInv, Fits,
         KeysInv, KeyOk, RequestInv, RequestOk, Together, NoBatches
<1>3. DrainedInv'
  BY SlotDataAssumption
     DEF Intact, SyncTypes, DrainedInv, ExecutorDone, KeysAt, routingVars, controlVars, keyVars
<1> QED BY <1>1, <1>2, <1>3 DEF Intact

(* A slot that is drained has moved.                                       *)
LEMMA FinishMoveKeeps ==
    ASSUME Intact, NEW s \in Slots, FinishMove(s)
    PROVE  Intact'
<1>1. /\ phase[s] = "moving" /\ drained[s]
      /\ phase'  = [phase EXCEPT ![s] = "moved"]
      /\ source' = [source EXCEPT ![s] = None]
      /\ UNCHANGED <<owner, routes, came, data, last, writes, req, batch, drained>>
  BY DEF FinishMove, Finish, keyVars, netVars
<1>2. SyncTypes'
  BY <1>1 DEF Intact, SyncTypes, Owned, Address, Phased, Phases
<1>3. /\ phase'[s] = "moved" /\ source'[s] = None
      /\ \A t \in Slots \ {s} : phase'[t] = phase[t] /\ source'[t] = source[t]
  BY <1>1 DEF Intact, SyncTypes, Owned, Phased
<1>4. (SourceInv /\ RouteInv)'
  BY <1>1, <1>3 DEF Intact, SourceInv, RouteInv, Fits
<1>5. ASSUME NEW k \in Keys
      PROVE  KeyOk(k)'
  <2>1. CASE SlotOf[k] = s
    <3>1. data[source[s]][k] = 0
      BY <1>1, <2>1 DEF Intact, DrainedInv
    <3>2. /\ data[owner[s]][k] = last[k]
          /\ \A b \in Servers \ {owner[s]} : data[b][k] = 0
      BY <1>1, <2>1, <3>1 DEF Intact, KeysInv, KeyOk
    <3> QED BY <1>1, <1>3, <2>1, <3>2 DEF KeyOk
  <2>2. CASE SlotOf[k] # s
    BY <1>1, <1>3, <2>2, SlotDataAssumption DEF Intact, KeysInv, KeyOk
  <2> QED BY <2>1, <2>2
<1>6. (DrainedInv /\ NoBatches)'
  BY <1>1, <1>3, SlotDataAssumption DEF Intact, DrainedInv, NoBatches
<1>7. ASSUME NEW q \in Proxies
      PROVE  RequestOk(q)'
  <2>1. CASE req[q] \in Request
    BY <1>1, <1>3, <2>1, SlotDataAssumption DEF Request, Intact, RequestInv, RequestOk, Together
  <2>2. CASE req[q] = NoRequest
    BY <1>1, <2>2 DEF RequestOk
  <2> QED BY <2>1, <2>2 DEF Intact, SyncTypes
<1> QED BY <1>2, <1>4, <1>5, <1>6, <1>7 DEF Intact, KeysInv, RequestInv

(* Nobody pulls from where it came.                                        *)
LEMMA SettleMoveKeeps ==
    ASSUME Intact, NEW s \in Slots, SettleMove(s)
    PROVE  Intact'
<1>1. /\ phase[s] = "moved"
      /\ \A p \in Proxies : routes[p][s].from = None
      /\ phase'  = [phase EXCEPT ![s] = "settled"]
      /\ UNCHANGED <<owner, source, routes, came, data, last, writes, req, batch, drained>>
  BY DEF SettleMove, Settle, keyVars, netVars
<1>2. SyncTypes'
  BY <1>1 DEF Intact, SyncTypes, Phased, Phases
<1>3. /\ phase'[s] = "settled"
      /\ \A t \in Slots \ {s} : phase'[t] = phase[t]
      /\ \A t \in Slots : phase'[t] = "moving" <=> phase[t] = "moving"
  BY <1>1 DEF Intact, SyncTypes, Phased
<1>4. (SourceInv /\ RouteInv)'
  BY <1>1, <1>3 DEF Intact, SourceInv, RouteInv, Fits
<1>5. (KeysInv /\ DrainedInv /\ NoBatches)'
  BY <1>1, <1>3, SlotDataAssumption DEF Intact, KeysInv, KeyOk, DrainedInv, NoBatches
<1>6. ASSUME NEW q \in Proxies
      PROVE  RequestOk(q)'
  <2>1. CASE req[q] \in Request
    BY <1>1, <1>3, <2>1, SlotDataAssumption DEF Request, Intact, RequestInv, RequestOk, Together
  <2>2. CASE req[q] = NoRequest
    BY <1>1, <2>2 DEF RequestOk
  <2> QED BY <2>1, <2>2 DEF Intact, SyncTypes
<1> QED BY <1>2, <1>4, <1>5, <1>6 DEF Intact, RequestInv

-----------------------------------------------------------------------------
(* A step that overruns nothing.                                           *)
LEMMA StepIntact ==
    ASSUME Intact, [Next]_vars, Sync, ~ overrun'
    PROVE  Intact'
<1>1. CASE Requests
  <2>1. PICK p \in Proxies :
          \/ \E cmd \in Commands, hkey, key \in Keys : Receive(p, cmd, hkey, key)
          \/ Forward(p) \/ Refuse(p) \/ Serve(p) \/ Lose(p) \/ Pull(p)
    BY <1>1, NothingAsync DEF Requests
  <2>2. CASE Refuse(p) \/ Lose(p)
    BY <2>2, AnswerKeeps DEF Refuse, Lose, netVars
  <2> QED BY <2>1, <2>2, ReceiveKeeps, ForwardKeeps, ServeKeeps, PullKeeps
<1>2. CASE Moves
  <2>1. \/ \E s \in Slots, k \in Keys : MigrateSlot(s, k)
        \/ \E c \in late : LateRestore(c)
    BY <1>2, NothingAsync DEF Moves
  <2> QED BY <2>1, MigrateSlotKeeps, LateRestoreKeeps
<1>3. CASE Control
  BY <1>3, FillSlotsKeeps, BeginMoveKeeps, ExecutorDoneKeeps, FinishMoveKeeps, SettleMoveKeeps DEF Control
<1>4. CASE UNCHANGED vars
  BY <1>4 DEF vars, Intact, SyncTypes, SourceInv, RouteInv, Fits, KeysInv, KeyOk, DrainedInv, RequestInv,
              RequestOk, NoBatches, Together, routingVars, controlVars, keyVars, netVars
<1> QED BY <1>1, <1>2, <1>3, <1>4 DEF Next

(* What was overrun stays so.                                              *)
LEMMA OverrunStays ==
    ASSUME overrun, [Next]_vars
    PROVE  overrun'
<1>1. CASE Requests
  BY <1>1 DEF Requests, Receive, Forward, Refuse, Serve, Lose, Pull, slotsmgrtFails,
              slotsmgrtExecWrapperCommand, netVars, lateVars
<1>2. CASE Moves
  BY <1>2 DEF Moves, MigrateSlot, slotsmgrtFails, LateRestore, MigrateSlotAsync, BatchNext, BatchRestore,
              slotsmgrtAsyncComplete, unlinkSlotsmgrtAsyncCachedClient, netVars, lateVars
<1>3. CASE Control
  BY <1>3 DEF Control, FillSlots, BeginMove, ExecutorDone, FinishMove, SettleMove, netVars, lateVars
<1>4. CASE UNCHANGED vars
  BY <1>4 DEF vars, netVars, lateVars
<1> QED BY <1>1, <1>2, <1>3, <1>4 DEF Next

(* The inductive invariant of the sync method (slots.c, forwardSync): the  *)
(* cluster is intact until a late restore overruns a newer write.          *)
THEOREM SyncInductive == Sync => (Spec => []SyncInv)
<1> SUFFICES ASSUME Sync
             PROVE  Spec => []SyncInv
  OBVIOUS
<1>1. Init => SyncInv
  BY InitIntact DEF SyncInv
<1>2. SyncInv /\ [Next]_vars => SyncInv'
  BY StepIntact, OverrunStays DEF SyncInv
<1> QED BY <1>1, <1>2, PTL DEF Spec

(* No write is lost: the newest value of every key is where it is looked   *)
(* for, whatever moves, fails and is retried.                              *)
THEOREM SyncKeepsNewest == Sync => (Spec => []NewestKept)
<1>1. SyncInv => NewestKept
  BY SlotDataAssumption DEF SyncInv, Intact, KeysInv, KeyOk, SourceInv, NewestKept
<1> QED BY <1>1, SyncInductive, PTL

(* A request in the queue of the owner finds the newest value there: the   *)
(* keys of its tag have left the source before it was sent.                *)
THEOREM SyncServesNewest == Sync => (Spec => []SentFindsNewest)
<1>1. ASSUME Intact, NEW p \in Proxies, req[p].stage = "sent"
      PROVE  data[Route0(p).to][req[p].key] = last[req[p].key]
  <2>1. /\ req[p] \in Request /\ req[p] # NoRequest
        /\ SlotOf[req[p].key] = SlotOf[req[p].hkey]
        /\ Route0(p).to = owner[SlotOf[req[p].key]]
    BY <1>1, ToOwner DEF NoRequest
  <2>2. req[p].key \in Keys /\ req[p].key \in Together(req[p].hkey)
    BY <1>1, <2>1 DEF Request, Together, Intact, RequestInv, RequestOk
  <2> QED BY <1>1, <2>1, <2>2 DEF Intact, RequestInv, RequestOk, KeysInv, KeyOk
<1>2. SyncInv => SentFindsNewest
  BY <1>1 DEF SyncInv, SentFindsNewest
<1> QED BY <1>2, SyncInductive, PTL

(* A slot that has settled has left no key on any other server.            *)
THEOREM SyncLeavesNothing == Sync => (Spec => []NothingLeft)
<1>1. SyncInv => NothingLeft
  BY SlotDataAssumption DEF SyncInv, Intact, SourceInv, KeysInv, KeyOk, NothingLeft, KeysAt
<1> QED BY <1>1, SyncInductive, PTL

-----------------------------------------------------------------------------
(* Types, for both methods and all commands.                               *)

Writers == {p \in Proxies : Writing(p)}

Data == [Servers -> [Keys -> Value]]

LEMMA WritersFinite == IsFiniteSet(Writers) /\ Cardinality(Writers) \in Nat
BY SlotDataAssumption, FS_Subset, FS_CardinalityType DEF Writers

(* A request that goes on is as much of a writer as it was.                *)
LEMMA EnterTypes ==
    ASSUME TypeInv, NEW p \in Proxies, req[p] \in Request,
           NEW stage \in {"begin", "pull", "wrap", "sent"}, Enter(p, stage)
    PROVE  /\ req' \in [Proxies -> Request \cup {NoRequest}]
           /\ \A q \in Proxies \ {p} : req'[q] = req[q]
           /\ req'[p].stage = stage /\ req'[p].hkey = req[p].hkey
           /\ Writers' = Writers
<1>1. req \in [Proxies -> Request \cup {NoRequest}]
  BY DEF TypeInv, TypeOK
<1>2. req' = [req EXCEPT ![p].stage = stage]
  BY DEF Enter
<1>3. /\ req'[p] \in Request /\ req'[p].stage = stage
      /\ req'[p].hkey = req[p].hkey /\ req'[p].cmd = req[p].cmd
  BY <1>1, <1>2 DEF Request
<1>4. \A q \in Proxies \ {p} : req'[q] = req[q]
  BY <1>1, <1>2
<1>5. req' \in [Proxies -> Request \cup {NoRequest}]
  BY <1>1, <1>2, <1>3, <1>4
<1>6. req[p] # NoRequest /\ req'[p] # NoRequest
  BY <1>3 DEF Request, NoRequest
<1>7. Writing(p)' <=> Writing(p)
  BY <1>3, <1>6 DEF Writing
<1>8. \A q \in Proxies \ {p} : Writing(q)' <=> Writing(q)
  BY <1>4 DEF Writing
<1> QED BY <1>3, <1>4, <1>5, <1>7, <1>8 DEF Writers

(* A request that is over is no writer.                                    *)
LEMMA AnswerTypes ==
    ASSUME TypeInv, NEW p \in Proxies, Answer(p)
    PROVE  /\ req' \in [Proxies -> Request \cup {NoRequest}]
           /\ \A q \in Proxies \ {p} : req'[q] = req[q]
           /\ req'[p] = NoRequest
           /\ Writers' = Writers \ {p}
           /\ Cardinality(Writers') = IF p \in Writers THEN Cardinality(Writers) - 1 ELSE Cardinality(Writers)
<1>1. req \in [Proxies -> Request \cup {NoRequest}]
  BY DEF TypeInv, TypeOK
<1>2. /\ req' \in [Proxies -> Request \cup {NoRequest}]
      /\ \A q \in Proxies \ {p} : req'[q] = req[q]
      /\ req'[p] = NoRequest
  BY <1>1 DEF Answer
<1>3. \A q \in Proxies \ {p} : Writing(q)' <=> Writing(q)
  BY <1>2 DEF Writing
<1>4. ~ Writing(p)'
  BY <1>2 DEF Writing
<1>5. Writers' = Writers \ {p}
  BY <1>3, <1>4 DEF Writers
<1> QED BY <1>2, <1>5, WritersFinite, FS_RemoveElement

(* What a server runs for a client is counted, and within the bound.       *)
LEMMA RunTypes ==
    ASSUME TypeInv, NEW p \in Proxies, req[p] \in Request, NEW a, Run(a, req[p]), Answer(p)
    PROVE  /\ data' \in Data /\ last' \in [Keys -> Value] /\ writes' \in Value
           /\ WritesInv'
<1>1. /\ data \in Data /\ last \in [Keys -> Value] /\ writes \in 0 .. MaxWrites /\ MaxWrites \in Nat
      /\ Cardinality(Writers) \in Nat /\ writes + Cardinality(Writers) <= MaxWrites
      /\ req[p].key \in Keys
  BY SlotDataAssumption, WritersFinite DEF TypeInv, TypeOK, Data, Value, WritesInv, Writers, Request
<1>2. Cardinality(Writers') = IF p \in Writers THEN Cardinality(Writers) - 1 ELSE Cardinality(Writers)
  BY AnswerTypes
<1>3. CASE req[p].cmd \in {"set", "script"} /\ writes' = writes + 1
             /\ data' = [data EXCEPT ![a][req[p].key] = writes + 1]
             /\ last' = [last EXCEPT ![req[p].key] = writes + 1]
  <2>1. req[p] # NoRequest
    BY DEF Request, NoRequest
  <2>2. p \in Writers
    BY <1>3, <2>1 DEF Writers, Writing
  <2>3. Cardinality(Writers) # 0
    BY <2>2, WritersFinite, FS_EmptySet
  <2>4. writes + 1 \in Value /\ writes' + Cardinality(Writers') <= MaxWrites
    BY <1>1, <1>2, <1>3, <2>2, <2>3 DEF Value
  <2> DEFINE w == writes + 1
  <2>5. data' = [data EXCEPT ![a][req[p].key] = w] /\ last' = [last EXCEPT ![req[p].key] = w] /\ writes' = w /\ w \in Value
    BY <1>3, <2>4
  <2> HIDE DEF w
  <2> QED BY <1>1, <2>4, <2>5 DEF Data, WritesInv, Writers
<1>4. CASE req[p].cmd = "del" /\ UNCHANGED writes
             /\ data' = [data EXCEPT ![a][req[p].key] = 0] /\ last' = [last EXCEPT ![req[p].key] = 0]
  <2>1. 0 \in Value /\ writes' + Cardinality(Writers') <= MaxWrites
    BY <1>1, <1>2, <1>4 DEF Value
  <2> QED BY <1>1, <1>4, <2>1 DEF Data, WritesInv, Writers, Value
<1>5. CASE UNCHANGED keyVars
  <2>1. writes' + Cardinality(Writers') <= MaxWrites
    BY <1>1, <1>2, <1>5 DEF keyVars
  <2> QED BY <1>1, <1>5, <2>1 DEF Data, WritesInv, Writers, Value, keyVars
<1> QED BY <1>3, <1>4, <1>5 DEF Run

(* Keys handed over, with and without an answer, at once or late.          *)
LEMMA HandTypes ==
    ASSUME TypeInv, NEW a \in Servers, NEW b \in Servers, NEW K \in SUBSET Keys
    PROVE  /\ Values(a, K) \in Restores
           /\ Restored(data, b, Values(a, K)) \in Data
           /\ Removed(Restored(data, b, Values(a, K)), a, K) \in Data
<1>1. data \in Data /\ 0 \in Value
  BY SlotDataAssumption DEF TypeInv, TypeOK, Data, Value
<1> DEFINE L == {l \in K : data[a][l] # 0}
           vals == Values(a, K)
           rest == Restored(data, b, vals)
<1>2. L \in SUBSET Keys /\ vals \in [L -> Value]
  BY <1>1 DEF Values, Data
<1>3. vals \in Restores
  BY <1>2 DEF Restores
<1>4. rest \in Data
  <2>1. DOMAIN vals = L
    BY <1>2
  <2>2. rest = [data EXCEPT ![b] = [k \in Keys |-> IF k \in L THEN vals[k] ELSE data[b][k]]]
    BY <2>1 DEF Restored
  <2> HIDE DEF L, vals, rest
  <2> QED BY <1>1, <1>2, <2>2 DEF Data
<1>5. Removed(rest, a, K) \in Data
  <2> HIDE DEF rest
  <2> QED BY <1>1, <1>4 DEF Removed, Data
<1> QED BY <1>3, <1>4, <1>5

LEMMA FailTypes ==
    ASSUME TypeInv, NEW a \in Servers, NEW b \in Servers, NEW K \in SUBSET Keys, slotsmgrtFails(a, b, K)
    PROVE  /\ data' \in Data
           /\ late' \subseteq [at: Servers, vals: Restores]
           /\ overrun' \in BOOLEAN
           /\ fails' \in 0 .. MaxFails
<1>1. /\ data \in Data /\ late \subseteq [at: Servers, vals: Restores] /\ overrun \in BOOLEAN
      /\ fails \in 0 .. MaxFails /\ MaxFails \in Nat
  BY SlotDataAssumption DEF TypeInv, TypeOK, Data
<1>2. fails' \in 0 .. MaxFails
  BY <1>1 DEF slotsmgrtFails, CanFail, Fail
<1>3. [at |-> b, vals |-> Values(a, K)] \in [at: Servers, vals: Restores]
  BY HandTypes
<1>4. data' \in Data
  BY <1>1, HandTypes DEF slotsmgrtFails
<1>5. late' \subseteq [at: Servers, vals: Restores] /\ overrun' \in BOOLEAN
  BY <1>1, <1>3 DEF slotsmgrtFails, lateVars
<1> QED BY <1>2, <1>4, <1>5

(* Keys are handed over, or that fails.                                    *)
LEMMA HandOverTypes ==
    ASSUME TypeInv, NEW a \in Servers, NEW b \in Servers, NEW K \in SUBSET Keys,
           \/ slotsmgrt(a, b, K) /\ UNCHANGED <<lateVars, fails>>
           \/ slotsmgrtFails(a, b, K)
    PROVE  /\ data' \in Data
           /\ late' \subseteq [at: Servers, vals: Restores]
           /\ overrun' \in BOOLEAN
           /\ fails' \in 0 .. MaxFails
<1>1. CASE slotsmgrt(a, b, K) /\ UNCHANGED <<lateVars, fails>>
  <2>1. data' \in Data
    BY <1>1, HandTypes DEF slotsmgrt
  <2> QED BY <1>1, <2>1 DEF lateVars, TypeInv, TypeOK
<1>2. CASE slotsmgrtFails(a, b, K)
  BY <1>2, FailTypes
<1> QED BY <1>1, <1>2

(* Requests that go on, and those that are over.                           *)
LEMMA RequestTypes ==
    ASSUME TypeInv, NEW p \in Proxies, UNCHANGED routes,
           req' \in [Proxies -> Request \cup {NoRequest}],
           \A q \in Proxies \ {p} : req'[q] = req[q],
           req'[p].stage = "pull" => Route0(p)'.to # None /\ Route0(p)'.from # None
    PROVE  PullInv'
BY DEF TypeInv, PullInv, Route0

LEMMA ReceiveTypes ==
    ASSUME TypeInv, NEW p \in Proxies, NEW cmd \in Commands, NEW hkey \in Keys, NEW key \in Keys,
           Receive(p, cmd, hkey, key)
    PROVE  TypeInv'
<1> DEFINE r == [stage |-> "begin", cmd |-> cmd, hkey |-> hkey, key |-> key]
<1>1. r \in Request /\ r.stage = "begin" /\ r.cmd = cmd /\ r # NoRequest
  BY DEF Request, NoRequest
<1>2. req \in [Proxies -> Request \cup {NoRequest}] /\ req' = [req EXCEPT ![p] = r]
  BY DEF TypeInv, TypeOK, Receive
<1> HIDE DEF r
<1>3. /\ req' \in [Proxies -> Request \cup {NoRequest}]
      /\ \A q \in Proxies \ {p} : req'[q] = req[q]
      /\ req'[p] = r
  BY <1>1, <1>2
<1>4. PullInv'
  BY <1>1, <1>3, RequestTypes DEF Receive, routingVars
<1>5. /\ \A q \in Proxies \ {p} : Writing(q)' <=> Writing(q)
      /\ ~ Writing(p)
      /\ Writing(p)' <=> cmd \in {"set", "script"}
  BY <1>1, <1>3 DEF Writing, Receive
<1>6. WritesInv'
  <2>1. /\ writes \in Nat /\ MaxWrites \in Nat /\ writes' = writes
        /\ writes + Cardinality(Writers) <= MaxWrites
    BY SlotDataAssumption DEF TypeInv, TypeOK, Value, WritesInv, Writers, Receive, keyVars
  <2>2. CASE cmd \in {"set", "script"}
    <3>1. Writers' = Writers \cup {p} /\ p \notin Writers
      BY <1>5, <2>2 DEF Writers
    <3>2. Cardinality(Writers') = Cardinality(Writers) + 1
      BY <3>1, WritersFinite, FS_AddElement
    <3>3. writes + Cardinality(Writers) < MaxWrites
      BY <2>2 DEF Receive, Writers
    <3>4. writes' + Cardinality(Writers') <= MaxWrites
      BY <2>1, <3>2, <3>3, WritersFinite
    <3> QED BY <3>4 DEF WritesInv, Writers
  <2>3. CASE cmd \notin {"set", "script"}
    <3>1. Writers' = Writers
      BY <1>5, <2>3 DEF Writers
    <3> QED BY <2>1, <3>1 DEF WritesInv, Writers
  <2> QED BY <2>2, <2>3
<1>7. TypeOK' /\ owner' \in [Slots -> Servers]
  BY <1>3 DEF TypeInv, TypeOK, Receive, routingVars, controlVars, keyVars, netVars, lateVars
<1> QED BY <1>4, <1>6, <1>7 DEF TypeInv

(* The slot of a request and what its proxy knows of it.                   *)
LEMMA RouteTypes ==
    ASSUME TypeInv, NEW p \in Proxies, req[p].stage # "none"
    PROVE  req[p] \in Request /\ SlotOf[req[p].hkey] \in Slots /\ Route0(p) \in Route
<1>1. req[p] \in Request
  BY DEF TypeInv, TypeOK, NoRequest
<1>2. SlotOf[req[p].hkey] \in Slots
  BY <1>1, SlotDataAssumption DEF Request
<1> QED BY <1>1, <1>2 DEF TypeInv, TypeOK, Routed, Route0

LEMMA ForwardTypes ==
    ASSUME TypeInv, NEW p \in Proxies, Forward(p)
    PROVE  TypeInv'
<1>1. req[p] \in Request
  BY RouteTypes DEF Forward
<1>2. PICK stage \in {"pull", "wrap", "sent"} : Enter(p, stage) /\ (stage = "pull" => Route0(p).from # None)
  BY DEF Forward
<1>3. /\ req' \in [Proxies -> Request \cup {NoRequest}]
      /\ \A q \in Proxies \ {p} : req'[q] = req[q]
      /\ req'[p].stage = stage /\ req'[p].hkey = req[p].hkey
      /\ Writers' = Writers
  BY <1>1, <1>2, EnterTypes
<1>4. PullInv'
  <2>1. UNCHANGED routes
    BY DEF Forward, routingVars
  <2>2. Route0(p)' = Route0(p)
    BY <1>3, <2>1 DEF Route0
  <2>3. req'[p].stage = "pull" => Route0(p)'.to # None /\ Route0(p)'.from # None
    BY <1>2, <1>3, <2>2 DEF Forward
  <2> QED BY <1>3, <2>1, <2>3, RequestTypes
<1>5. WritesInv'
  BY <1>3 DEF TypeInv, WritesInv, Writers, Forward, keyVars
<1>6. TypeOK' /\ owner' \in [Slots -> Servers]
  BY <1>3 DEF TypeInv, TypeOK, Forward, routingVars, controlVars, keyVars, netVars, lateVars
<1> QED BY <1>4, <1>5, <1>6 DEF TypeInv

(* A request is refused or lost.                                           *)
LEMMA AnswersTypes ==
    ASSUME TypeInv, NEW p \in Proxies, Refuse(p) \/ Lose(p)
    PROVE  TypeInv'
<1>1. Answer(p) /\ UNCHANGED <<routingVars, came, keyVars, batch, lateVars, drained>>
  BY DEF Refuse, Lose, netVars
<1>2. /\ req' \in [Proxies -> Request \cup {NoRequest}]
      /\ \A q \in Proxies \ {p} : req'[q] = req[q]
      /\ req'[p] = NoRequest
      /\ Cardinality(Writers') <= Cardinality(Writers) /\ Cardinality(Writers') \in Int
  BY <1>1, AnswerTypes, WritersFinite
<1>3. PullInv'
  BY <1>1, <1>2, RequestTypes DEF routingVars, NoRequest
<1>4. WritesInv'
  <2>1. writes \in Nat /\ MaxWrites \in Nat /\ writes' = writes /\ writes + Cardinality(Writers) <= MaxWrites
    BY <1>1, SlotDataAssumption DEF TypeInv, TypeOK, Value, WritesInv, Writers, keyVars
  <2>2. writes' + Cardinality(Writers') <= MaxWrites
    BY <1>2, <2>1, WritersFinite
  <2> QED BY <2>2 DEF WritesInv, Writers
<1>5. fails' \in 0 .. MaxFails
  BY SlotDataAssumption DEF Refuse, Lose, netVars, CanFail, Fail, TypeInv, TypeOK
<1>6. TypeOK' /\ owner' \in [Slots -> Servers]
  BY <1>1, <1>2, <1>5 DEF TypeInv, TypeOK, routingVars, controlVars, keyVars, lateVars
<1> QED BY <1>3, <1>4, <1>6 DEF TypeInv

(* A server runs a request and answers it.                                 *)
LEMMA RunAnswerTypes ==
    ASSUME TypeInv, NEW p \in Proxies, req[p] \in Request, NEW a, Run(a, req[p]), Answer(p),
           UNCHANGED <<routingVars, came, netVars, drained>>
    PROVE  TypeInv'
<1>1. /\ data' \in Data /\ last' \in [Keys -> Value] /\ writes' \in Value
      /\ WritesInv'
  BY RunTypes
<1>2. /\ req' \in [Proxies -> Request \cup {NoRequest}]
      /\ \A q \in Proxies \ {p} : req'[q] = req[q]
      /\ req'[p] = NoRequest
  BY AnswerTypes
<1>3. PullInv'
  BY <1>2, RequestTypes DEF routingVars, NoRequest
<1>4. TypeOK' /\ owner' \in [Slots -> Servers]
  BY <1>1, <1>2 DEF TypeInv, TypeOK, Data, routingVars, controlVars, netVars, lateVars
<1> QED BY <1>1, <1>3, <1>4 DEF TypeInv

LEMMA PullTypes ==
    ASSUME TypeInv, NEW p \in Proxies, Pull(p)
    PROVE  TypeInv'
<1> DEFINE a == Route0(p).from
           b == Route0(p).to
           K == Handed(req[p].hkey)
<1>1. req[p] \in Request /\ Route0(p) \in Route
  BY RouteTypes DEF Pull
<1>2. a \in Servers /\ b \in Servers
  BY <1>1 DEF Pull, TypeInv, PullInv, Route, Address
<1>3. K \in SUBSET Keys
  BY DEF Handed, Together
<1>4. /\ UNCHANGED <<routingVars, came, last, writes, batch, drained>>
      /\ \/ slotsmgrt(a, b, K) /\ Enter(p, "sent") /\ UNCHANGED <<lateVars, fails>>
         \/ slotsmgrtFails(a, b, K) /\ Answer(p)
  BY DEF Pull
<1> HIDE DEF a, b, K
<1>5. /\ data' \in Data
      /\ late' \subseteq [at: Servers, vals: Restores]
      /\ overrun' \in BOOLEAN
      /\ fails' \in 0 .. MaxFails
  BY <1>2, <1>3, <1>4, HandOverTypes
<1>6. /\ req' \in [Proxies -> Request \cup {NoRequest}]
      /\ \A q \in Proxies \ {p} : req'[q] = req[q]
      /\ req'[p].stage # "pull"
      /\ Cardinality(Writers') <= Cardinality(Writers) /\ Cardinality(Writers') \in Int
  <2>1. CASE Enter(p, "sent")
    BY <1>1, <2>1, EnterTypes, WritersFinite
  <2>2. CASE Answer(p)
    BY <2>2, AnswerTypes, WritersFinite DEF NoRequest
  <2> QED BY <1>4, <2>1, <2>2
<1>7. PullInv'
  BY <1>4, <1>6, RequestTypes DEF routingVars
<1>8. WritesInv'
  <2>1. writes \in Nat /\ MaxWrites \in Nat /\ writes' = writes /\ writes + Cardinality(Writers) <= MaxWrites
    BY <1>4, SlotDataAssumption DEF TypeInv, TypeOK, Value, WritesInv, Writers
  <2>2. writes' + Cardinality(Writers') <= MaxWrites
    BY <1>6, <2>1, WritersFinite
  <2> QED BY <2>2 DEF WritesInv, Writers
<1>9. TypeOK' /\ owner' \in [Slots -> Servers]
  BY <1>4, <1>5, <1>6 DEF TypeInv, TypeOK, Data, routingVars, controlVars
<1> QED BY <1>7, <1>8, <1>9 DEF TypeInv

LEMMA WrapperTypes ==
    ASSUME TypeInv, NEW p \in Proxies, slotsmgrtExecWrapperCommand(p)
    PROVE  TypeInv'
<1>1. req[p] \in Request
  BY RouteTypes DEF slotsmgrtExecWrapperCommand
<1>2. \/ \E stage \in {"begin", "sent"} : Enter(p, stage) /\ UNCHANGED keyVars
      \/ Run(Route0(p).from, req[p]) /\ Answer(p)
  BY DEF slotsmgrtExecWrapperCommand
<1>3. UNCHANGED <<routingVars, came, netVars, drained>>
  BY DEF slotsmgrtExecWrapperCommand
<1>4. ASSUME NEW stage \in {"begin", "sent"}, Enter(p, stage), UNCHANGED keyVars
      PROVE  TypeInv'
  <2>1. /\ req' \in [Proxies -> Request \cup {NoRequest}]
        /\ \A q \in Proxies \ {p} : req'[q] = req[q]
        /\ req'[p].stage = stage
        /\ Writers' = Writers
    BY <1>1, <1>4, EnterTypes
  <2>2. PullInv'
    BY <1>3, <2>1, RequestTypes DEF routingVars
  <2>3. WritesInv'
    BY <1>4, <2>1 DEF TypeInv, WritesInv, Writers, keyVars
  <2>4. TypeOK' /\ owner' \in [Slots -> Servers]
    BY <1>3, <1>4, <2>1 DEF TypeInv, TypeOK, routingVars, controlVars, keyVars, netVars, lateVars
  <2> QED BY <2>2, <2>3, <2>4 DEF TypeInv
<1> QED BY <1>1, <1>2, <1>3, <1>4, RunAnswerTypes

(* Steps between servers leave the requests alone.                         *)
LEMMA QuietTypes ==
    ASSUME TypeInv, UNCHANGED <<routingVars, came, last, writes, req, drained>>,
           data' \in Data, fails' \in 0 .. MaxFails,
           late' \subseteq [at: Servers, vals: Restores], overrun' \in BOOLEAN,
           batch' \in [Servers -> Batch]
    PROVE  TypeInv'
<1>1. PullInv'
  BY DEF TypeInv, PullInv, Route0, routingVars
<1>2. WritesInv'
  BY DEF TypeInv, WritesInv, Writing
<1>3. TypeOK' /\ owner' \in [Slots -> Servers]
  BY DEF TypeInv, TypeOK, Data, routingVars, controlVars
<1> QED BY <1>1, <1>2, <1>3 DEF TypeInv

LEMMA MigrateSlotTypes ==
    ASSUME TypeInv, NEW s \in Slots, NEW k \in Keys, MigrateSlot(s, k)
    PROVE  TypeInv'
<1> DEFINE a == source[s]
           b == owner[s]
           K == Handed(k)
<1>1. a \in Servers /\ b \in Servers /\ K \in SUBSET Keys
  BY DEF MigrateSlot, TypeInv, TypeOK, Owned, Address, Handed, Together
<1>2. \/ slotsmgrt(a, b, K) /\ UNCHANGED <<lateVars, fails>>
      \/ slotsmgrtFails(a, b, K)
  BY DEF MigrateSlot
<1> HIDE DEF a, b, K
<1>3. /\ data' \in Data
      /\ late' \subseteq [at: Servers, vals: Restores]
      /\ overrun' \in BOOLEAN
      /\ fails' \in 0 .. MaxFails
  BY <1>1, <1>2, HandOverTypes
<1> QED BY <1>3, QuietTypes DEF MigrateSlot, TypeInv, TypeOK

LEMMA LateRestoreTypes ==
    ASSUME TypeInv, NEW c \in late, LateRestore(c)
    PROVE  TypeInv'
<1>1. data \in Data /\ c \in [at: Servers, vals: Restores]
  BY DEF TypeInv, TypeOK, Data
<1>2. PICK K \in SUBSET Keys : c.vals \in [K -> Value]
  BY <1>1 DEF Restores
<1>3. data' = [data EXCEPT ![c.at] = [k \in Keys |-> IF k \in K THEN c.vals[k] ELSE data[c.at][k]]]
  BY <1>2 DEF LateRestore, Restored
<1>4. data' \in Data
  BY <1>1, <1>2, <1>3 DEF Data
<1>5. overrun' \in BOOLEAN
  BY DEF LateRestore, TypeInv, TypeOK
<1>6. late' \subseteq [at: Servers, vals: Restores]
  BY DEF LateRestore, TypeInv, TypeOK
<1> QED BY <1>4, <1>5, <1>6, QuietTypes DEF LateRestore, TypeInv, TypeOK

(* Batches.                                                                *)
LEMMA NoBatchType == NoBatch \in Batch
BY DEF NoBatch, Batch, Address

(* What a message is about, and what is left of a sequence of them.        *)
LEMMA WireTypes ==
    ASSUME NEW b \in Batch
    PROVE  /\ b.to \in Address /\ b.keys \in SUBSET Keys /\ b.todo \in SUBSET Keys /\ b.sent \in SUBSET Keys
           /\ b.wire \in Seq(Message)
           /\ b.wire # << >> => Head(b.wire) \in Message /\ Tail(b.wire) \in Seq(Message)
           /\ \A m \in Message, n \in Message : b.wire \o <<m, n>> \in Seq(Message)
<1>1. /\ b.to \in Address /\ b.keys \in SUBSET Keys /\ b.todo \in SUBSET Keys /\ b.sent \in SUBSET Keys
      /\ b.wire \in Seq(Message)
  BY DEF Batch
<1>2. b.wire # << >> => Head(b.wire) \in Message /\ Tail(b.wire) \in Seq(Message)
  BY <1>1
<1>3. ASSUME NEW m \in Message, NEW n \in Message
      PROVE  b.wire \o <<m, n>> \in Seq(Message)
  <2>1. <<m, n>> \in Seq(Message)
    OBVIOUS
  <2> QED BY <1>1, <2>1
<1> QED BY <1>1, <1>2, <1>3

LEMMA BatchNextTypes ==
    ASSUME TypeInv, NEW a \in Servers, NEW k \in Keys, BatchNext(a, k)
    PROVE  TypeInv'
<1> DEFINE n == [k |-> k, v |-> 0]
           m == [k |-> k, v |-> data[a][k]]
           S == IF data[a][k] = 0 THEN batch[a].sent ELSE batch[a].sent \cup {k}
           w == IF data[a][k] = 0 THEN batch[a].wire ELSE batch[a].wire \o <<n, m>>
           b == [batch[a] EXCEPT !.todo = @ \ {k}, !.sent = S, !.wire = w]
<1>1. batch \in [Servers -> Batch] /\ batch[a] \in Batch
  BY DEF TypeInv, TypeOK
<1>2. n \in Message /\ m \in Message
  BY SlotDataAssumption DEF TypeInv, TypeOK, Message, Value
<1>3. batch' = [batch EXCEPT ![a] = b]
  BY <1>1 DEF BatchNext
<1>4. S \in SUBSET Keys /\ w \in Seq(Message)
  <2> HIDE DEF n, m
  <2> QED BY <1>1, <1>2, WireTypes
<1>5. b \in Batch
  <2> HIDE DEF S, w
  <2> QED BY <1>1, <1>4 DEF Batch
<1>6. batch' \in [Servers -> Batch]
  <2> HIDE DEF b
  <2> QED BY <1>1, <1>3, <1>5
<1> QED BY <1>6, QuietTypes DEF BatchNext, lateVars, keyVars, Data, TypeInv, TypeOK

LEMMA BatchRestoreTypes ==
    ASSUME TypeInv, NEW a \in Servers, BatchRestore(a)
    PROVE  TypeInv'
<1> DEFINE h == Head(batch[a].wire)
           w == Tail(batch[a].wire)
<1>1. data \in Data /\ batch \in [Servers -> Batch] /\ batch[a] \in Batch
  BY DEF TypeInv, TypeOK, Data
<1>2. h \in Message /\ w \in Seq(Message)
  BY <1>1, WireTypes DEF BatchRestore
<1>3. /\ data' = [data EXCEPT ![batch[a].to][h.k] = h.v]
      /\ batch' = [batch EXCEPT ![a] = [batch[a] EXCEPT !.wire = w]]
  BY <1>1 DEF BatchRestore
<1> HIDE DEF h, w
<1>4. data' \in Data
  <2>1. h.k \in Keys /\ h.v \in Value
    BY <1>2 DEF Message
  <2> QED BY <1>1, <1>3, <2>1 DEF Data
<1>5. [batch[a] EXCEPT !.wire = w] \in Batch
  BY <1>1, <1>2 DEF Batch
<1>6. batch' \in [Servers -> Batch]
  BY <1>1, <1>3, <1>5
<1> QED BY <1>4, <1>6, QuietTypes DEF BatchRestore, lateVars, TypeInv, TypeOK

LEMMA BatchEndTypes ==
    ASSUME TypeInv, NEW a \in Servers, slotsmgrtAsyncComplete(a) \/ unlinkSlotsmgrtAsyncCachedClient(a)
    PROVE  TypeInv'
<1>1. data \in Data /\ 0 \in Value /\ fails \in 0 .. MaxFails /\ MaxFails \in Nat
  BY SlotDataAssumption DEF TypeInv, TypeOK, Data, Value
<1>2. batch' \in [Servers -> Batch]
  BY NoBatchType DEF slotsmgrtAsyncComplete, unlinkSlotsmgrtAsyncCachedClient, TypeInv, TypeOK
<1>3. data' \in Data
  BY <1>1 DEF slotsmgrtAsyncComplete, unlinkSlotsmgrtAsyncCachedClient, keyVars, Data, Removed
<1>4. fails' \in 0 .. MaxFails
  BY <1>1 DEF slotsmgrtAsyncComplete, unlinkSlotsmgrtAsyncCachedClient, CanFail, Fail
<1>5. UNCHANGED <<routingVars, came, last, writes, req, lateVars, drained>>
  BY DEF slotsmgrtAsyncComplete, unlinkSlotsmgrtAsyncCachedClient, keyVars
<1> QED BY <1>2, <1>3, <1>4, <1>5, QuietTypes DEF lateVars, TypeInv, TypeOK

LEMMA MigrateSlotAsyncTypes ==
    ASSUME TypeInv, NEW s \in Slots, NEW K \in SUBSET Keys, MigrateSlotAsync(s, K)
    PROVE  TypeInv'
<1> DEFINE b == [NoBatch EXCEPT !.to = owner[s], !.keys = K, !.todo = K]
<1>1. b \in Batch
  <2>1. owner[s] \in Address
    BY DEF TypeInv, Address
  <2> QED BY <2>1, NoBatchType DEF Batch
<1>2. batch' = [batch EXCEPT ![source[s]] = b]
  BY DEF MigrateSlotAsync
<1> HIDE DEF b
<1>3. batch' \in [Servers -> Batch]
  BY <1>1, <1>2 DEF TypeInv, TypeOK
<1> QED BY <1>3, QuietTypes DEF MigrateSlotAsync, lateVars, keyVars, Data, TypeInv, TypeOK

(* The control plane.                                                      *)
LEMMA FillSlotsTypes ==
    ASSUME TypeInv, NEW p \in Proxies, FillSlots(p)
    PROVE  TypeInv'
<1>1. PICK r \in [Slots -> Route] : routes' = [routes EXCEPT ![p] = r] /\ UNCHANGED controlVars
  BY DEF FillSlots, Reroute
<1>2. routes' \in Routed /\ \A q \in Proxies \ {p} : routes'[q] = routes[q]
  BY <1>1 DEF TypeInv, TypeOK, Routed
<1>3. ASSUME NEW q \in Proxies, req[q].stage = "pull"
      PROVE  Route0(q)' = Route0(q)
  <2>1. SlotOf[req[q].hkey] \in Slots
    BY <1>3, RouteTypes
  <2>2. routes'[q][SlotOf[req[q].hkey]] = routes[q][SlotOf[req[q].hkey]]
    BY <1>2, <1>3, <2>1 DEF FillSlots, Held
  <2> QED BY <2>2 DEF Route0, FillSlots
<1>4. PullInv'
  BY <1>3 DEF PullInv, TypeInv, FillSlots
<1>5. WritesInv'
  BY DEF TypeInv, WritesInv, Writing, FillSlots, keyVars
<1>6. TypeOK' /\ owner' \in [Slots -> Servers]
  BY <1>1, <1>2 DEF TypeInv, TypeOK, FillSlots, controlVars, keyVars, netVars, lateVars
<1> QED BY <1>4, <1>5, <1>6 DEF TypeInv

LEMMA MoveTypes ==
    ASSUME TypeInv, NEW s \in Slots,
           \/ \E a \in Servers : BeginMove(s, a)
           \/ ExecutorDone(s) \/ FinishMove(s) \/ SettleMove(s)
    PROVE  TypeInv'
<1>1. UNCHANGED <<routes, keyVars, req, netVars>>
  BY DEF BeginMove, Begin, ExecutorDone, FinishMove, Finish, SettleMove, Settle, routingVars
<1>2. /\ owner' \in [Slots -> Servers] /\ owner' \in Owned
      /\ source' \in Owned /\ came' \in Owned /\ phase' \in Phased /\ drained' \in [Slots -> BOOLEAN]
  <2>1. /\ owner \in [Slots -> Servers] /\ source \in [Slots -> Address] /\ came \in [Slots -> Address]
        /\ phase \in [Slots -> Phases] /\ drained \in [Slots -> BOOLEAN]
    BY DEF TypeInv, TypeOK, Owned, Phased
  <2>2. ASSUME NEW a \in Servers, BeginMove(s, a)
        PROVE  /\ owner' \in [Slots -> Servers] /\ owner' \in Owned
               /\ source' \in Owned /\ came' \in Owned /\ phase' \in Phased /\ drained' \in [Slots -> BOOLEAN]
    <3>1. owner[s] \in Address /\ "moving" \in Phases
      BY <2>1 DEF Address, Phases
    <3> QED BY <2>1, <2>2, <3>1 DEF BeginMove, Begin, Owned, Phased, Address
  <2>3. CASE ExecutorDone(s)
    BY <2>1, <2>3 DEF ExecutorDone, routingVars, controlVars, Owned, Phased, Address
  <2>4. CASE FinishMove(s)
    BY <2>1, <2>4 DEF FinishMove, Finish, Owned, Phased, Phases, Address
  <2>5. CASE SettleMove(s)
    BY <2>1, <2>5 DEF SettleMove, Settle, Owned, Phased, Phases, Address
  <2> QED BY <2>2, <2>3, <2>4, <2>5
<1>3. PullInv'
  BY <1>1 DEF TypeInv, PullInv, Route0
<1>4. WritesInv'
  BY <1>1 DEF TypeInv, WritesInv, Writing, keyVars
<1>5. TypeOK'
  BY <1>1, <1>2 DEF TypeInv, TypeOK, keyVars, netVars, lateVars
<1> QED BY <1>2, <1>3, <1>4, <1>5 DEF TypeInv

LEMMA InitTypes ==
    ASSUME Init
    PROVE  TypeInv
<1>1. owner \in [Slots -> Servers]
  BY DEF Init, RoutingInit, Owned, Address
<1>2. TypeOK
  <2>1. 0 \in Value /\ 0 \in 0 .. MaxFails
    BY SlotDataAssumption DEF Value
  <2>2. owner \in Owned /\ source \in Owned /\ came \in Owned /\ phase \in Phased /\ routes \in Routed
    BY <1>1 DEF Init, RoutingInit, Owned, Address, Phased, Phases
  <2>3. batch \in [Servers -> Batch]
    BY NoBatchType DEF Init
  <2> QED BY <2>1, <2>2, <2>3 DEF Init, TypeOK
<1>3. PullInv
  BY DEF Init, PullInv, NoRequest
<1>4. Writers = {}
  BY DEF Init, Writers, Writing
<1>5. WritesInv
  <2>1. Cardinality(Writers) = 0 /\ writes = 0 /\ MaxWrites \in Nat
    BY <1>4, FS_EmptySet, SlotDataAssumption DEF Init
  <2>2. writes + Cardinality(Writers) <= MaxWrites
    BY <2>1
  <2> QED BY <2>2 DEF WritesInv, Writers
<1> QED BY <1>1, <1>2, <1>3, <1>5 DEF TypeInv

LEMMA StepTypes ==
    ASSUME TypeInv, [Next]_vars
    PROVE  TypeInv'
<1>1. ASSUME NEW p \in Proxies, Serve(p) PROVE TypeInv'
  BY <1>1, RouteTypes, RunAnswerTypes DEF Serve
<1>2. CASE Requests
  BY <1>1, <1>2, ReceiveTypes, ForwardTypes, AnswersTypes, PullTypes, WrapperTypes DEF Requests
<1>3. CASE Moves
  BY <1>3, MigrateSlotTypes, MigrateSlotAsyncTypes, BatchNextTypes, BatchRestoreTypes, BatchEndTypes,
     LateRestoreTypes DEF Moves
<1>4. CASE Control
  BY <1>4, FillSlotsTypes, MoveTypes DEF Control
<1>5. CASE UNCHANGED vars
  BY <1>5, QuietTypes DEF vars, keyVars, netVars, lateVars, Data, TypeInv, TypeOK
<1> QED BY <1>2, <1>3, <1>4, <1>5 DEF Next

(* The variables keep their types, with both methods and all commands: no  *)
(* request is without a route where it needs one, no restore is addressed  *)
(* to nobody, and the values of keys are those of writes that were counted *)
(* (forward.go:33-129, slots.c:513-645, slots_async.c).                    *)
THEOREM DataTypes == Spec => []TypeOK
<1>1. Init => TypeInv
  BY InitTypes
<1>2. TypeInv /\ [Next]_vars => TypeInv'
  BY StepTypes
<1>3. TypeInv => TypeOK
  BY DEF TypeInv
<1> QED BY <1>1, <1>2, <1>3, PTL DEF Spec

-----------------------------------------------------------------------------
(* The semi-async method: the keys of a batch are still.                   *)

SemiAsync == Method = "semi-async" /\ "script" \notin Commands

(* What a step does to the keys of the batches that are under way.         *)
Still ==
    \A a \in Servers : batch'[a].keys = batch[a].keys =>
        \A k \in batch[a].keys : data'[a][k] = data[a][k]

LEMMA KeyTypes ==
    ASSUME TypeInv, NEW k \in Keys
    PROVE  /\ SlotOf[k] \in Slots /\ owner[SlotOf[k]] \in Servers
           /\ data \in [Servers -> [Keys -> Value]]
           /\ batch \in [Servers -> Batch] /\ \A a \in Servers : batch[a].keys \subseteq Keys
<1>1. batch \in [Servers -> Batch] /\ \A a \in Servers : batch[a] \in Batch
  BY DEF TypeInv, TypeOK
<1> QED BY <1>1, SlotDataAssumption, WireTypes DEF TypeInv, TypeOK

(* A key gets a value at a server.                                         *)
Written(a, k, v) == data' = [data EXCEPT ![a][k] = v]

(* A write to a key at the owner of its slot is seen by no source.         *)
LEMMA WriteAtOwner ==
    ASSUME TypeInv, StillInv, NEW k \in Keys, NEW v,
           Written(owner[SlotOf[k]], k, v), UNCHANGED <<routingVars, drained>>
    PROVE  /\ \A b \in Servers, l \in Keys : b # owner[SlotOf[k]] \/ l # k => data'[b][l] = data[b][l]
           /\ data'[owner[SlotOf[k]]][k] = v
           /\ DrainedInv'
           /\ \A b \in Servers : \A l \in batch[b].keys : data'[b][l] = data[b][l]
<1>1. /\ SlotOf[k] \in Slots /\ owner[SlotOf[k]] \in Servers
      /\ data \in [Servers -> [Keys -> Value]]
      /\ \A b \in Servers : batch[b].keys \subseteq Keys
  BY KeyTypes
<1>2. /\ \A b \in Servers, l \in Keys : b # owner[SlotOf[k]] \/ l # k => data'[b][l] = data[b][l]
      /\ data'[owner[SlotOf[k]]][k] = v
  BY <1>1 DEF Written
<1>3. phase[SlotOf[k]] = "moving" => source[SlotOf[k]] # owner[SlotOf[k]]
  BY <1>1 DEF StillInv, SourceInv
<1>4. ASSUME NEW l \in Keys, phase[SlotOf[l]] = "moving", drained[SlotOf[l]]
      PROVE  data'[source[SlotOf[l]]][l] = 0
  <2>1. source[SlotOf[l]] \in Servers /\ data[source[SlotOf[l]]][l] = 0
    BY <1>4, KeyTypes DEF StillInv, SourceInv, DrainedInv
  <2> QED BY <1>2, <1>3, <1>4, <2>1
<1>5. DrainedInv'
  BY <1>4 DEF DrainedInv, routingVars, controlVars
<1>6. ASSUME NEW b \in Servers, NEW l \in batch[b].keys
      PROVE  data'[b][l] = data[b][l]
  <2>1. l \in Keys /\ phase[SlotOf[l]] = "moving" /\ source[SlotOf[l]] = b
    BY <1>1 DEF StillInv, BatchOk
  <2> QED BY <1>2, <1>3, <2>1
<1> QED BY <1>2, <1>5, <1>6

(* Requests: the rest of the invariant.                                    *)
LEMMA RequestStill ==
    ASSUME TypeInv, StillInv, NEW p \in Proxies,
           UNCHANGED <<routingVars, came, batch, lateVars>>,
           \A q \in Proxies \ {p} : req'[q] = req[q],
           DrainedInv', WrapOk(p)',
           \A b \in Servers : \A l \in batch[b].keys : data'[b][l] = data[b][l]
    PROVE  StillInv' /\ Still
<1>1. (SourceInv /\ RouteInv)'
  BY DEF StillInv, SourceInv, RouteInv, Fits, routingVars, controlVars
<1>2. \A q \in Proxies : WrapOk(q)'
  BY DEF StillInv, WrapOk, routingVars
<1>3. \A a \in Servers : BatchOk(a)'
  BY DEF StillInv, BatchOk, routingVars, controlVars
<1>4. Still
  BY DEF Still
<1> QED BY <1>1, <1>2, <1>3, <1>4 DEF StillInv, lateVars

(* The same where no data changed.                                         *)
LEMMA RequestOnly ==
    ASSUME TypeInv, StillInv, NEW p \in Proxies,
           UNCHANGED <<routingVars, came, keyVars, batch, lateVars, drained>>,
           \A q \in Proxies \ {p} : req'[q] = req[q], WrapOk(p)'
    PROVE  StillInv' /\ Still
<1>1. DrainedInv'
  BY DEF StillInv, DrainedInv, routingVars, controlVars, keyVars
<1>2. \A b \in Servers : \A l \in batch[b].keys : data'[b][l] = data[b][l]
  BY DEF keyVars
<1> QED BY <1>1, <1>2, RequestStill

LEMMA ReceiveStill ==
    ASSUME TypeInv, StillInv, NEW p \in Proxies, NEW cmd \in Commands, NEW hkey \in Keys, NEW key \in Keys,
           Receive(p, cmd, hkey, key)
    PROVE  StillInv' /\ Still
<1>1. /\ \A q \in Proxies \ {p} : req'[q] = req[q]
      /\ req'[p] = [stage |-> "begin", cmd |-> cmd, hkey |-> hkey, key |-> key]
  BY DEF TypeInv, TypeOK, Receive
<1>2. WrapOk(p)'
  BY <1>1 DEF WrapOk, Receive
<1> QED BY <1>1, <1>2, RequestOnly DEF Receive, netVars

(* A request moves to another stage.                                       *)
LEMMA EnterStill ==
    ASSUME TypeInv, StillInv, NEW p \in Proxies, req[p] \in Request,
           NEW stage \in {"begin", "wrap", "sent"}, Enter(p, stage),
           stage # "begin" => Route0(p).to # None,
           stage = "wrap" => Route0(p).from # None,
           UNCHANGED <<routingVars, came, keyVars, batch, lateVars, drained>>
    PROVE  StillInv' /\ Still
<1>1. req' = [req EXCEPT ![p].stage = stage] /\ req \in [Proxies -> Request \cup {NoRequest}]
  BY DEF Enter, TypeInv, TypeOK
<1>2. /\ \A q \in Proxies \ {p} : req'[q] = req[q]
      /\ req'[p].stage = stage /\ req'[p].hkey = req[p].hkey /\ req'[p].key = req[p].key
  BY <1>1 DEF Request
<1>3. req[p] # NoRequest
  BY DEF Request, NoRequest
<1>4. WrapOk(p)'
  BY <1>2, <1>3 DEF StillInv, WrapOk, Route0, routingVars
<1> QED BY <1>2, <1>4, RequestOnly

LEMMA ForwardStill ==
    ASSUME TypeInv, StillInv, NEW p \in Proxies, Forward(p), SemiAsync
    PROVE  StillInv' /\ Still
<1>1. req[p] \in Request /\ Route0(p).to # None
  BY RouteTypes DEF Forward
<1>2. PICK stage \in {"wrap", "sent"} : Enter(p, stage) /\ (stage = "wrap" => Route0(p).from # None)
  BY DEF Forward, SemiAsync
<1> QED BY <1>1, <1>2, EnterStill DEF Forward, netVars

LEMMA AnswerStill ==
    ASSUME TypeInv, StillInv, NEW p \in Proxies, Refuse(p) \/ Lose(p)
    PROVE  StillInv' /\ Still
<1>1. Answer(p) /\ UNCHANGED <<routingVars, came, keyVars, batch, lateVars, drained>>
  BY DEF Refuse, Lose, netVars
<1>2. (\A q \in Proxies \ {p} : req'[q] = req[q]) /\ req'[p] = NoRequest
  BY <1>1, AnswerTypes
<1>3. WrapOk(p)'
  BY <1>2 DEF WrapOk
<1> QED BY <1>1, <1>2, <1>3, RequestOnly

(* The slot, the route and the source of a request that holds its slot.    *)
LEMMA HeldFacts ==
    ASSUME TypeInv, StillInv, NEW p \in Proxies, req[p].stage \in {"wrap", "sent"}
    PROVE  /\ req[p] \in Request /\ req[p] # NoRequest
           /\ req[p].key \in Keys /\ req[p].hkey \in Keys
           /\ Tag[req[p].key] = Tag[req[p].hkey]
           /\ SlotOf[req[p].hkey] \in Slots /\ SlotOf[req[p].key] = SlotOf[req[p].hkey]
           /\ Route0(p).to = owner[SlotOf[req[p].hkey]]
           /\ req[p].stage = "wrap" =>
                 /\ Route0(p).from \in Servers /\ Route0(p).from = came[SlotOf[req[p].hkey]]
                 /\ phase[SlotOf[req[p].hkey]] = "moving" => Route0(p).from = source[SlotOf[req[p].hkey]]
<1>1. req[p] \in Request /\ SlotOf[req[p].hkey] \in Slots /\ Route0(p) \in Route
  BY RouteTypes
<1>2. req[p] # NoRequest /\ req[p].key \in Keys /\ req[p].hkey \in Keys
  BY <1>1 DEF Request, NoRequest
<1>3. Tag[req[p].key] = Tag[req[p].hkey] /\ SlotOf[req[p].key] = SlotOf[req[p].hkey]
  BY <1>2, SameSlot DEF StillInv, WrapOk
<1>4. Route0(p).to # None /\ (req[p].stage = "wrap" => Route0(p).from # None)
  BY <1>2 DEF StillInv, WrapOk, Route0
<1>5. Fits(Route0(p), SlotOf[req[p].hkey]) /\ Route0(p).from \in {None, came[SlotOf[req[p].hkey]]}
  BY <1>1 DEF StillInv, RouteInv, Route0
<1>6. Route0(p).to = owner[SlotOf[req[p].hkey]]
  BY <1>4, <1>5 DEF Fits, NoRoute
<1>7. ASSUME req[p].stage = "wrap"
      PROVE  /\ Route0(p).from \in Servers /\ Route0(p).from = came[SlotOf[req[p].hkey]]
             /\ phase[SlotOf[req[p].hkey]] = "moving" => Route0(p).from = source[SlotOf[req[p].hkey]]
  BY <1>1, <1>4, <1>5, <1>7 DEF Route, Address, StillInv, SourceInv
<1> QED BY <1>1, <1>2, <1>3, <1>6, <1>7

(* A command changes nothing, or the one key it works on.                  *)
LEMMA RunData ==
    ASSUME NEW a, NEW r, Run(a, r)
    PROVE  \/ UNCHANGED keyVars
           \/ r.cmd \in {"set", "script", "del"} /\ \E v : Written(a, r.key, v)
BY DEF Run, Written

LEMMA ServeStill ==
    ASSUME TypeInv, StillInv, NEW p \in Proxies, Serve(p)
    PROVE  StillInv' /\ Still
<1>1. /\ req[p].key \in Keys /\ SlotOf[req[p].key] = SlotOf[req[p].hkey]
      /\ Route0(p).to = owner[SlotOf[req[p].hkey]]
  BY HeldFacts DEF Serve
<1>2. /\ UNCHANGED <<routingVars, came, batch, lateVars, drained>>
      /\ \A q \in Proxies \ {p} : req'[q] = req[q]
      /\ req'[p] = NoRequest
  BY AnswerTypes DEF Serve, netVars
<1>3. WrapOk(p)'
  BY <1>2 DEF WrapOk
<1>4. CASE UNCHANGED keyVars
  BY <1>2, <1>3, <1>4, RequestOnly
<1>5. ASSUME NEW v, Written(owner[SlotOf[req[p].key]], req[p].key, v)
      PROVE  StillInv' /\ Still
  <2>1. DrainedInv' /\ \A b \in Servers : \A l \in batch[b].keys : data'[b][l] = data[b][l]
    BY <1>1, <1>2, <1>5, WriteAtOwner
  <2> QED BY <1>2, <1>3, <2>1, RequestStill
<1>6. \/ UNCHANGED keyVars
      \/ \E v : Written(owner[SlotOf[req[p].key]], req[p].key, v)
  BY <1>1, RunData DEF Serve
<1> QED BY <1>4, <1>5, <1>6

(* The source runs a command: on keys of a batch no command that writes.   *)
LEMMA WrapperStill ==
    ASSUME TypeInv, StillInv, NEW p \in Proxies, slotsmgrtExecWrapperCommand(p), SemiAsync
    PROVE  StillInv' /\ Still
<1> DEFINE a == Route0(p).from
           s == SlotOf[req[p].hkey]
           k == req[p].key
<1>1. /\ req[p] \in Request /\ k \in Keys /\ req[p].hkey \in Keys /\ Tag[k] = Tag[req[p].hkey]
      /\ s \in Slots /\ SlotOf[k] = s
      /\ a \in Servers /\ a = came[s] /\ (phase[s] = "moving" => a = source[s])
      /\ Route0(p).to = owner[s] /\ owner[s] \in Servers
  BY HeldFacts, KeyTypes DEF slotsmgrtExecWrapperCommand
<1>2. UNCHANGED <<routingVars, came, batch, lateVars, drained>>
  BY DEF slotsmgrtExecWrapperCommand, netVars
<1>3. ASSUME NEW stage \in {"begin", "sent"}, Enter(p, stage), UNCHANGED keyVars
      PROVE  StillInv' /\ Still
  <2>1. Route0(p).to # None
    BY <1>1, SlotDataAssumption
  <2> QED BY <1>1, <1>2, <1>3, <2>1, EnterStill
<1>4. ASSUME Answer(p)
      PROVE  /\ \A q \in Proxies \ {p} : req'[q] = req[q]
             /\ WrapOk(p)'
  BY <1>4, AnswerTypes DEF WrapOk
<1>5. ASSUME Answer(p), UNCHANGED keyVars
      PROVE  StillInv' /\ Still
  BY <1>2, <1>4, <1>5, RequestOnly
<1>6. ASSUME NEW v, Written(a, k, v), Answer(p),
             data[a][req[p].hkey] # 0, ~ Fenced(a, req[p].hkey)
      PROVE  StillInv' /\ Still
  <2>1. data \in [Servers -> [Keys -> Value]] /\ \A b \in Servers : batch[b].keys \subseteq Keys
    BY <1>1, KeyTypes
  <2>2. \A b \in Servers, l \in Keys : b # a \/ l # k => data'[b][l] = data[b][l]
    BY <1>1, <1>6, <2>1 DEF Written
  <2>3. k \notin batch[a].keys
    BY <1>1, <1>6 DEF Fenced
  <2>4. \A b \in Servers : \A l \in batch[b].keys : data'[b][l] = data[b][l]
    BY <2>1, <2>2, <2>3
  <2>5. phase[s] = "moving" => ~ drained[s]
    BY <1>1, <1>6 DEF StillInv, DrainedInv
  <2>6. DrainedInv'
    BY <1>1, <1>2, <2>2, <2>5, SlotDataAssumption DEF StillInv, SourceInv, DrainedInv, routingVars, controlVars
  <2> QED BY <1>2, <1>4, <1>6, <2>4, <2>6, RequestStill
<1>7. \/ \E stage \in {"begin", "sent"} : Enter(p, stage) /\ UNCHANGED keyVars
      \/ /\ Answer(p) /\ Run(a, req[p])
         /\ data[a][req[p].hkey] # 0
         /\ ~ (CMD_WRITE(req[p].cmd) /\ Fenced(a, req[p].hkey))
  BY DEF slotsmgrtExecWrapperCommand
<1>8. ASSUME NEW v, req[p].cmd \in {"set", "script", "del"}
      PROVE  CMD_WRITE(req[p].cmd)
  BY <1>1, <1>8 DEF CMD_WRITE, SemiAsync, Request
<1> HIDE DEF a, k
<1>9. CASE Answer(p) /\ Run(a, req[p]) /\ data[a][req[p].hkey] # 0
             /\ ~ (CMD_WRITE(req[p].cmd) /\ Fenced(a, req[p].hkey))
  <2>1. \/ UNCHANGED keyVars
        \/ req[p].cmd \in {"set", "script", "del"} /\ \E v : Written(a, k, v)
    BY <1>9, RunData DEF k
  <2> QED BY <1>5, <1>6, <1>8, <1>9, <2>1
<1> QED BY <1>3, <1>7, <1>9

-----------------------------------------------------------------------------
(* Batches.                                                                *)

(* A step of a batch: the rest of the invariant.                           *)
LEMMA BatchStill ==
    ASSUME TypeInv, StillInv, NEW a \in Servers,
           UNCHANGED <<routingVars, came, req, lateVars, drained>>,
           \A b \in Servers \ {a} : batch'[b] = batch[b] /\ \A l \in batch[b].keys : data'[b][l] = data[b][l],
           batch'[a].keys = batch[a].keys => \A l \in batch[a].keys : data'[a][l] = data[a][l],
           DrainedInv', BatchOk(a)'
    PROVE  StillInv' /\ Still
<1>1. (SourceInv /\ RouteInv)'
  BY DEF StillInv, SourceInv, RouteInv, Fits, routingVars, controlVars
<1>2. \A q \in Proxies : WrapOk(q)'
  BY DEF StillInv, WrapOk, routingVars
<1>3. \A b \in Servers \ {a} : BatchOk(b)'
  BY DEF StillInv, BatchOk, routingVars, controlVars
<1>4. Still
  BY DEF Still
<1> QED BY <1>1, <1>2, <1>3, <1>4 DEF StillInv, lateVars

LEMMA MigrateSlotAsyncStill ==
    ASSUME TypeInv, StillInv, NEW s \in Slots, NEW K \in SUBSET Keys, MigrateSlotAsync(s, K)
    PROVE  StillInv' /\ Still
<1>0. PICK a \in Servers : a = source[s]
  BY DEF MigrateSlotAsync, StillInv, SourceInv
<1>1. batch \in [Servers -> Batch] /\ phase[s] = "moving"
  BY DEF MigrateSlotAsync, TypeInv, TypeOK
<1>2. batch' = [batch EXCEPT ![a] = [NoBatch EXCEPT !.to = owner[s], !.keys = K, !.todo = K]]
  BY <1>0 DEF MigrateSlotAsync
<1>3. /\ \A b \in Servers \ {a} : batch'[b] = batch[b]
      /\ batch'[a].to = owner[s] /\ batch'[a].keys = K /\ batch'[a].todo = K
      /\ batch'[a].sent = {} /\ batch'[a].wire = << >>
  BY <1>1, <1>2 DEF NoBatch
<1>4. \A k \in K : SlotOf[k] = s /\ data[a][k] # 0
  BY <1>0 DEF MigrateSlotAsync, KeysAt
<1>5. UNCHANGED <<routingVars, came, keyVars, req, lateVars, drained>>
  BY DEF MigrateSlotAsync
<1>6. BatchOk(a)'
  BY <1>0, <1>1, <1>3, <1>4, <1>5 DEF BatchOk, routingVars, controlVars, keyVars
<1>7. DrainedInv'
  BY <1>5 DEF StillInv, DrainedInv, routingVars, controlVars, keyVars
<1>8. \A b \in Servers : \A l \in batch[b].keys : data'[b][l] = data[b][l]
  BY <1>5 DEF keyVars
<1> QED BY <1>3, <1>5, <1>6, <1>7, <1>8, BatchStill

(* Two messages at the end of others.                                      *)
LEMMA TwoMore ==
    ASSUME NEW w \in Seq(Message), NEW x \in Message, NEW y \in Message
    PROVE  /\ w \o <<x, y>> \in Seq(Message)
           /\ Len(w \o <<x, y>>) = Len(w) + 2 /\ Len(w) \in Nat
           /\ DOMAIN w = 1 .. Len(w) /\ DOMAIN (w \o <<x, y>>) = 1 .. Len(w) + 2
           /\ \A i \in 1 .. Len(w) : (w \o <<x, y>>)[i] = w[i]
           /\ (w \o <<x, y>>)[Len(w) + 1] = x
           /\ (w \o <<x, y>>)[Len(w) + 2] = y
<1> DEFINE m == <<x, y>>
<1>1. m \in Seq(Message) /\ Len(m) = 2 /\ m[1] = x /\ m[2] = y
  OBVIOUS
<1>2. Len(w) \in Nat /\ DOMAIN w = 1 .. Len(w)
  BY LenProperties
<1> HIDE DEF m
<1>3. /\ w \o m \in Seq(Message) /\ Len(w \o m) = Len(w) + 2
      /\ \A i \in 1 .. Len(w) + 2 : (w \o m)[i] = IF i <= Len(w) THEN w[i] ELSE m[i - Len(w)]
  <2>1. /\ w \o m \in Seq(Message) /\ Len(w \o m) = Len(w) + Len(m)
        /\ \A i \in 1 .. Len(w) + Len(m) : (w \o m)[i] = IF i <= Len(w) THEN w[i] ELSE m[i - Len(w)]
    BY <1>1, ConcatProperties, Zenon
  <2> QED BY <1>1, <2>1
<1>4. DOMAIN (w \o m) = 1 .. Len(w) + 2
  BY <1>3, LenProperties
<1>5. \A i \in 1 .. Len(w) : (w \o m)[i] = w[i]
  BY <1>2, <1>3
<1>6. (Len(w) + 1) - Len(w) = 1 /\ (Len(w) + 2) - Len(w) = 2
  BY <1>2
<1>7. (w \o m)[Len(w) + 1] = m[1] /\ (w \o m)[Len(w) + 2] = m[2]
  BY <1>2, <1>3, <1>6
<1> QED BY <1>1, <1>2, <1>3, <1>4, <1>5, <1>7 DEF m

LEMMA BatchNextStill ==
    ASSUME TypeInv, StillInv, NEW a \in Servers, NEW k \in Keys, BatchNext(a, k)
    PROVE  StillInv' /\ Still
<1>1. batch \in [Servers -> Batch] /\ batch[a] \in Batch
  BY DEF TypeInv, TypeOK
<1>2. UNCHANGED <<routingVars, came, keyVars, req, lateVars, drained>>
  BY DEF BatchNext
<1>3. k \in batch[a].todo /\ k \in batch[a].keys /\ data[a][k] # 0 /\ k \notin batch[a].sent
  BY DEF BatchNext, StillInv, BatchOk
<1> DEFINE x == [k |-> k, v |-> 0]
           y == [k |-> k, v |-> data[a][k]]
           w == batch[a].wire
<1>4. batch' = [batch EXCEPT ![a].todo = @ \ {k}, ![a].sent = @ \cup {k}, ![a].wire = @ \o <<x, y>>]
  BY <1>3 DEF BatchNext
<1>5. x \in Message /\ y \in Message /\ x.k = k /\ y.k = k /\ w \in Seq(Message)
  <2>1. w \in Seq(Message)
    BY <1>1, WireTypes
  <2>2. x \in Message /\ y \in Message
    BY SlotDataAssumption DEF TypeInv, TypeOK, Message, Value
  <2> QED BY <2>1, <2>2
<1> HIDE DEF x, y
<1>6. /\ \A b \in Servers \ {a} : batch'[b] = batch[b]
      /\ batch'[a].to = batch[a].to /\ batch'[a].keys = batch[a].keys
      /\ batch'[a].todo = batch[a].todo \ {k} /\ batch'[a].sent = batch[a].sent \cup {k}
      /\ batch'[a].wire = w \o <<x, y>>
  BY <1>1, <1>4 DEF Batch
<1>7. ASSUME NEW i \in DOMAIN (w \o <<x, y>>)
      PROVE  (w \o <<x, y>>)[i].k \in batch[a].sent \cup {k}
  <2>1. \A j \in DOMAIN w : w[j].k \in batch[a].sent
    BY DEF StillInv, BatchOk
  <2> HIDE DEF w
  <2>2. i \in DOMAIN w \/ i = Len(w) + 1 \/ i = Len(w) + 2
    BY <1>5, TwoMore
  <2> QED BY <1>5, <2>1, <2>2, TwoMore
<1>8. BatchOk(a)'
  BY <1>2, <1>3, <1>6, <1>7 DEF StillInv, BatchOk, routingVars, controlVars, keyVars
<1>9. DrainedInv'
  BY <1>2 DEF StillInv, DrainedInv, routingVars, controlVars, keyVars
<1>10. \A b \in Servers : \A l \in batch[b].keys : data'[b][l] = data[b][l]
  BY <1>2 DEF keyVars
<1> QED BY <1>2, <1>6, <1>8, <1>9, <1>10, BatchStill

(* A message is about a key of the batch, whose owner is the target.       *)
LEMMA BatchRestoreFacts ==
    ASSUME TypeInv, StillInv, NEW a \in Servers, BatchRestore(a)
    PROVE  /\ batch[a].wire \in Seq(Message) /\ batch[a].wire # << >>
           /\ Head(batch[a].wire) = batch[a].wire[1]
           /\ Head(batch[a].wire) \in Message
           /\ Head(batch[a].wire).k \in batch[a].sent
           /\ owner[SlotOf[Head(batch[a].wire).k]] = batch[a].to
           /\ Written(batch[a].to, Head(batch[a].wire).k, Head(batch[a].wire).v)
           /\ UNCHANGED <<routingVars, came, last, writes, req, lateVars, fails, drained>>
           /\ \A b \in Servers \ {a} : batch'[b] = batch[b]
           /\ batch'[a].to = batch[a].to /\ batch'[a].keys = batch[a].keys
           /\ batch'[a].todo = batch[a].todo /\ batch'[a].sent = batch[a].sent
           /\ batch'[a].wire = Tail(batch[a].wire)
<1>1. batch \in [Servers -> Batch] /\ batch[a] \in Batch
  BY DEF TypeInv, TypeOK
<1>2. /\ batch[a].wire \in Seq(Message) /\ batch[a].wire # << >>
      /\ Head(batch[a].wire) \in Message
  BY <1>1, WireTypes DEF BatchRestore
<1>3. Head(batch[a].wire) = batch[a].wire[1] /\ 1 \in DOMAIN batch[a].wire
  BY <1>2
<1>4. /\ Head(batch[a].wire).k \in batch[a].sent
      /\ owner[SlotOf[Head(batch[a].wire).k]] = batch[a].to
  BY <1>3 DEF StillInv, BatchOk
<1>5. batch' = [batch EXCEPT ![a].wire = Tail(@)]
  BY DEF BatchRestore
<1>6. /\ \A b \in Servers \ {a} : batch'[b] = batch[b]
      /\ batch'[a].to = batch[a].to /\ batch'[a].keys = batch[a].keys
      /\ batch'[a].todo = batch[a].todo /\ batch'[a].sent = batch[a].sent
      /\ batch'[a].wire = Tail(batch[a].wire)
  BY <1>1, <1>5 DEF Batch
<1>7. /\ Written(batch[a].to, Head(batch[a].wire).k, Head(batch[a].wire).v)
      /\ UNCHANGED <<routingVars, came, last, writes, req, lateVars, fails, drained>>
  BY DEF BatchRestore, Written
<1> QED BY <1>2, <1>3, <1>4, <1>6, <1>7

LEMMA BatchRestoreStill ==
    ASSUME TypeInv, StillInv, NEW a \in Servers, BatchRestore(a)
    PROVE  StillInv' /\ Still
<1>1. PICK k, v : /\ k \in Keys
                  /\ Written(owner[SlotOf[k]], k, v)
                  /\ owner[SlotOf[k]] = batch[a].to
  <2>1. Head(batch[a].wire).k \in Keys
    BY BatchRestoreFacts DEF Message
  <2> QED BY <2>1, BatchRestoreFacts
<1>2. /\ batch[a].wire \in Seq(Message) /\ batch[a].wire # << >>
      /\ UNCHANGED <<routingVars, came, req, lateVars, drained>>
      /\ \A b \in Servers \ {a} : batch'[b] = batch[b]
      /\ batch'[a].to = batch[a].to /\ batch'[a].keys = batch[a].keys
      /\ batch'[a].todo = batch[a].todo /\ batch'[a].sent = batch[a].sent
      /\ batch'[a].wire = Tail(batch[a].wire)
  BY BatchRestoreFacts
<1>3. DrainedInv' /\ \A b \in Servers : \A l \in batch[b].keys : data'[b][l] = data[b][l]
  BY <1>1, <1>2, WriteAtOwner
<1>4. \A i \in DOMAIN Tail(batch[a].wire) : Tail(batch[a].wire)[i].k \in batch[a].sent
  <2>1. \A j \in DOMAIN batch[a].wire : batch[a].wire[j].k \in batch[a].sent
    BY DEF StillInv, BatchOk
  <2>2. ASSUME NEW i \in DOMAIN Tail(batch[a].wire)
        PROVE  Tail(batch[a].wire)[i] = batch[a].wire[i + 1] /\ i + 1 \in DOMAIN batch[a].wire
    BY <1>2
  <2> QED BY <2>1, <2>2
<1>5. BatchOk(a)'
  BY <1>2, <1>3, <1>4 DEF StillInv, BatchOk, routingVars, controlVars
<1> QED BY <1>2, <1>3, <1>5, BatchStill

(* The batch is over.                                                      *)
LEMMA BatchEndStill ==
    ASSUME TypeInv, StillInv, NEW a \in Servers, slotsmgrtAsyncComplete(a) \/ unlinkSlotsmgrtAsyncCachedClient(a)
    PROVE  StillInv' /\ Still
<1>1. /\ batch \in [Servers -> Batch] /\ batch[a] \in Batch /\ \A b \in Servers : batch[b].keys \subseteq Keys
      /\ data \in [Servers -> [Keys -> Value]]
  BY WireTypes DEF TypeInv, TypeOK
<1>2. /\ UNCHANGED <<routingVars, came, req, lateVars, drained>>
      /\ \A b \in Servers \ {a} : batch'[b] = batch[b]
      /\ batch'[a] = NoBatch
  BY <1>1 DEF slotsmgrtAsyncComplete, unlinkSlotsmgrtAsyncCachedClient
<1>3. \A b \in Servers, l \in Keys :
        data'[b][l] = data[b][l] \/ (b = a /\ l \in batch[a].keys /\ data'[b][l] = 0)
  <2>1. batch[a].sent \subseteq batch[a].keys
    BY DEF StillInv, BatchOk
  <2> QED BY <1>1, <2>1 DEF slotsmgrtAsyncComplete, unlinkSlotsmgrtAsyncCachedClient, keyVars, Removed
<1>4. \A b \in Servers \ {a} : \A l \in batch[b].keys : data'[b][l] = data[b][l]
  BY <1>1, <1>3
<1>5. batch'[a].keys = batch[a].keys => \A l \in batch[a].keys : data'[a][l] = data[a][l]
  BY <1>2 DEF NoBatch
<1>6. BatchOk(a)'
  BY <1>2 DEF BatchOk, NoBatch
<1>7. DrainedInv'
  <2>1. ASSUME NEW l \in Keys, phase[SlotOf[l]] = "moving", drained[SlotOf[l]]
        PROVE  data'[source[SlotOf[l]]][l] = 0
    <3>1. source[SlotOf[l]] \in Servers /\ data[source[SlotOf[l]]][l] = 0
      BY <2>1, KeyTypes DEF StillInv, SourceInv, DrainedInv
    <3> QED BY <1>3, <3>1
  <2> QED BY <1>2, <2>1 DEF DrainedInv, routingVars, controlVars
<1> QED BY <1>2, <1>4, <1>5, <1>6, <1>7, BatchStill

-----------------------------------------------------------------------------
(* The control plane and the batches.                                      *)

LEMMA FillSlotsStill ==
    ASSUME TypeInv, StillInv, NEW p \in Proxies, FillSlots(p)
    PROVE  StillInv' /\ Still
<1>1. PICK r \in [Slots -> Route] :
        /\ \A s \in Slots : Fits(r[s], s)
        /\ routes' = [routes EXCEPT ![p] = r]
        /\ UNCHANGED controlVars
  BY DEF FillSlots, Reroute
<1>2. \A s \in Slots : /\ routes'[p][s] = r[s]
                       /\ \A q \in Proxies \ {p} : routes'[q][s] = routes[q][s]
  BY <1>1 DEF TypeInv, TypeOK, Routed
<1>3. UNCHANGED <<controlVars, came, keyVars, req, netVars, drained>>
  BY <1>1 DEF FillSlots
<1>4. (SourceInv /\ DrainedInv)'
  BY <1>3 DEF StillInv, controlVars, keyVars, SourceInv, DrainedInv
<1>5. RouteInv'
  <2>1. ASSUME NEW s \in Slots, NEW q \in Proxies
        PROVE  Fits(routes'[q][s], s) /\ routes'[q][s].from \in {None, came[s]}
    <3>1. CASE q = p
      BY <1>1, <1>2, <3>1 DEF FillSlots, StillInv, SourceInv, TypeInv, TypeOK, Phased
    <3>2. CASE q # p
      BY <1>2, <3>2 DEF StillInv, RouteInv
    <3> QED BY <3>1, <3>2
  <2> QED BY <1>3, <2>1 DEF RouteInv, Fits, controlVars
<1>6. ASSUME NEW q \in Proxies
      PROVE  WrapOk(q)'
  <2>1. CASE req[q] \in Request /\ Held(q, SlotOf[req[q].hkey])
    <3>1. SlotOf[req[q].hkey] \in Slots
      BY <2>1, SlotDataAssumption DEF Request
    <3>2. routes'[q][SlotOf[req[q].hkey]] = routes[q][SlotOf[req[q].hkey]]
      BY <1>2, <2>1, <3>1 DEF FillSlots
    <3> QED BY <1>3, <3>2 DEF StillInv, WrapOk
  <2>2. CASE req[q] \in Request /\ ~ Held(q, SlotOf[req[q].hkey])
    BY <1>3, <2>2 DEF Held, StillInv, WrapOk
  <2>3. CASE req[q] = NoRequest
    BY <1>3, <2>3 DEF WrapOk
  <2> QED BY <2>1, <2>2, <2>3 DEF TypeInv, TypeOK
<1>7. \A a \in Servers : BatchOk(a)'
  BY <1>3 DEF StillInv, BatchOk, controlVars, keyVars, netVars
<1>8. Still
  BY <1>3 DEF Still, keyVars
<1> QED BY <1>3, <1>4, <1>5, <1>6, <1>7, <1>8 DEF StillInv, netVars, lateVars

LEMMA BeginMoveStill ==
    ASSUME TypeInv, StillInv, NEW s \in Slots, NEW a \in Servers, BeginMove(s, a)
    PROVE  StillInv' /\ Still
<1>1. /\ phase[s] = "settled" /\ Unrouted(s) /\ a # owner[s]
      /\ phase'  = [phase EXCEPT ![s] = "moving"]
      /\ source' = [source EXCEPT ![s] = owner[s]]
      /\ owner'  = [owner EXCEPT ![s] = a]
      /\ came'   = [came EXCEPT ![s] = owner[s]]
      /\ drained' = [drained EXCEPT ![s] = FALSE]
      /\ UNCHANGED <<routes, data, last, writes, req, batch, late, overrun>>
  BY DEF BeginMove, Begin, keyVars, netVars, lateVars
<1>2. /\ phase'[s] = "moving" /\ source'[s] = owner[s] /\ owner'[s] = a /\ came'[s] = owner[s]
      /\ ~ drained'[s] /\ owner[s] \in Servers
      /\ \A t \in Slots \ {s} : /\ phase'[t] = phase[t] /\ source'[t] = source[t] /\ owner'[t] = owner[t]
                                /\ came'[t] = came[t] /\ drained'[t] = drained[t]
  BY <1>1 DEF TypeInv, TypeOK, Owned, Phased
<1>3. SourceInv'
  BY <1>1, <1>2 DEF StillInv, SourceInv
<1>4. RouteInv'
  BY <1>1, <1>2 DEF StillInv, RouteInv, Fits, Unrouted, NoRoute
<1>5. DrainedInv'
  BY <1>1, <1>2, SlotDataAssumption DEF StillInv, DrainedInv
<1>6. \A q \in Proxies : WrapOk(q)'
  BY <1>1 DEF StillInv, WrapOk
<1>7. ASSUME NEW b \in Servers
      PROVE  BatchOk(b)'
  <2>1. \A k \in batch[b].keys : k \in Keys /\ SlotOf[k] \in Slots \ {s}
    BY <1>1, WireTypes, SlotDataAssumption DEF TypeInv, TypeOK, StillInv, BatchOk
  <2> QED BY <1>1, <1>2, <2>1 DEF StillInv, BatchOk
<1>8. Still
  BY <1>1 DEF Still
<1> QED BY <1>1, <1>3, <1>4, <1>5, <1>6, <1>7, <1>8 DEF StillInv

LEMMA ExecutorDoneStill ==
    ASSUME TypeInv, StillInv, NEW s \in Slots, ExecutorDone(s)
    PROVE  StillInv' /\ Still
<1>1. UNCHANGED <<routingVars, came, keyVars, req, netVars>>
  BY DEF ExecutorDone
<1>2. (SourceInv /\ RouteInv)'
  BY <1>1 DEF StillInv, SourceInv, RouteInv, Fits, routingVars, controlVars
<1>3. DrainedInv'
  BY SlotDataAssumption
     DEF StillInv, TypeInv, TypeOK, DrainedInv, ExecutorDone, KeysAt, routingVars, controlVars, keyVars
<1>4. \A q \in Proxies : WrapOk(q)'
  BY <1>1 DEF StillInv, WrapOk, routingVars
<1>5. \A b \in Servers : BatchOk(b)'
  BY <1>1 DEF StillInv, BatchOk, routingVars, controlVars, keyVars, netVars
<1>6. Still
  BY <1>1 DEF Still, keyVars
<1> QED BY <1>1, <1>2, <1>3, <1>4, <1>5, <1>6 DEF StillInv, netVars, lateVars

(* A slot that is drained has no key in a batch.                           *)
LEMMA FinishMoveStill ==
    ASSUME TypeInv, StillInv, NEW s \in Slots, FinishMove(s)
    PROVE  StillInv' /\ Still
<1>1. /\ phase[s] = "moving" /\ drained[s]
      /\ phase'  = [phase EXCEPT ![s] = "moved"]
      /\ source' = [source EXCEPT ![s] = None]
      /\ UNCHANGED <<owner, routes, came, data, last, writes, req, batch, drained, late, overrun>>
  BY DEF FinishMove, Finish, keyVars, netVars, lateVars
<1>2. /\ phase'[s] = "moved" /\ source'[s] = None
      /\ \A t \in Slots \ {s} : phase'[t] = phase[t] /\ source'[t] = source[t]
  BY <1>1 DEF TypeInv, TypeOK, Owned, Phased
<1>3. (SourceInv /\ RouteInv)'
  BY <1>1, <1>2 DEF StillInv, SourceInv, RouteInv, Fits
<1>4. DrainedInv'
  BY <1>1, <1>2, SlotDataAssumption DEF StillInv, DrainedInv
<1>5. \A q \in Proxies : WrapOk(q)'
  BY <1>1 DEF StillInv, WrapOk
<1>6. ASSUME NEW b \in Servers
      PROVE  BatchOk(b)'
  <2>1. \A k \in batch[b].keys : k \in Keys /\ SlotOf[k] \in Slots
    BY WireTypes, SlotDataAssumption DEF TypeInv, TypeOK
  <2>2. \A k \in batch[b].keys : SlotOf[k] # s
    BY <1>1, <2>1 DEF StillInv, BatchOk, DrainedInv
  <2> QED BY <1>1, <1>2, <2>1, <2>2 DEF StillInv, BatchOk
<1>7. Still
  BY <1>1 DEF Still
<1> QED BY <1>1, <1>3, <1>4, <1>5, <1>6, <1>7 DEF StillInv

LEMMA SettleMoveStill ==
    ASSUME TypeInv, StillInv, NEW s \in Slots, SettleMove(s)
    PROVE  StillInv' /\ Still
<1>1. /\ phase[s] = "moved"
      /\ \A p \in Proxies : routes[p][s].from = None
      /\ phase'  = [phase EXCEPT ![s] = "settled"]
      /\ UNCHANGED <<owner, source, routes, came, data, last, writes, req, batch, drained, late, overrun>>
  BY DEF SettleMove, Settle, keyVars, netVars, lateVars
<1>2. /\ phase'[s] = "settled"
      /\ \A t \in Slots \ {s} : phase'[t] = phase[t]
      /\ \A t \in Slots : phase'[t] = "moving" <=> phase[t] = "moving"
  BY <1>1 DEF TypeInv, TypeOK, Phased
<1>3. (SourceInv /\ RouteInv)'
  BY <1>1, <1>2 DEF StillInv, SourceInv, RouteInv, Fits
<1>4. DrainedInv'
  BY <1>1, <1>2, SlotDataAssumption DEF StillInv, DrainedInv
<1>5. \A q \in Proxies : WrapOk(q)'
  BY <1>1 DEF StillInv, WrapOk
<1>6. ASSUME NEW b \in Servers
      PROVE  BatchOk(b)'
  <2>1. \A k \in batch[b].keys : k \in Keys /\ SlotOf[k] \in Slots
    BY WireTypes, SlotDataAssumption DEF TypeInv, TypeOK
  <2> QED BY <1>1, <1>2, <2>1 DEF StillInv, BatchOk
<1>7. Still
  BY <1>1 DEF Still
<1> QED BY <1>1, <1>3, <1>4, <1>5, <1>6, <1>7 DEF StillInv

LEMMA InitStill ==
    ASSUME Init, TypeInv
    PROVE  StillInv
<1>1. SourceInv /\ RouteInv /\ DrainedInv
  BY SlotDataAssumption DEF Init, RoutingInit, SourceInv, RouteInv, DrainedInv, TypeInv
<1>2. \A p \in Proxies : WrapOk(p)
  BY DEF Init, WrapOk
<1>3. \A a \in Servers : BatchOk(a)
  BY DEF Init, BatchOk, NoBatch
<1> QED BY <1>1, <1>2, <1>3 DEF Init, StillInv

LEMMA StepStill ==
    ASSUME TypeInv, StillInv, [Next]_vars, SemiAsync
    PROVE  StillInv' /\ (Next => Still)
<1>1. CASE Requests
  <2>1. ASSUME NEW p \in Proxies PROVE ~ Pull(p)
    BY DEF Pull, StillInv, WrapOk, NoRequest
  <2> QED BY <1>1, <2>1, ReceiveStill, ForwardStill, AnswerStill, ServeStill, WrapperStill DEF Requests
<1>2. CASE Moves
  <2>1. ASSUME NEW s \in Slots, NEW k \in Keys PROVE ~ MigrateSlot(s, k)
    BY DEF MigrateSlot, SemiAsync
  <2> QED BY <1>2, <2>1, MigrateSlotAsyncStill, BatchNextStill, BatchRestoreStill, BatchEndStill
          DEF Moves, StillInv
<1>3. CASE Control
  BY <1>3, FillSlotsStill, BeginMoveStill, ExecutorDoneStill, FinishMoveStill, SettleMoveStill DEF Control
<1>4. CASE UNCHANGED vars
  <2>1. StillInv'
    BY <1>4 DEF vars, StillInv, SourceInv, RouteInv, Fits, DrainedInv, WrapOk, BatchOk, routingVars, controlVars,
                keyVars, netVars, lateVars
  <2>2. Still
    BY <1>4 DEF vars, Still, keyVars
  <2> QED BY <2>1, <2>2
<1> QED BY <1>1, <1>2, <1>3, <1>4 DEF Next

(* The sync method moves no batches at all.                                *)
LEMMA StepNoBatches ==
    ASSUME NoBatches, [Next]_vars, Sync
    PROVE  NoBatches'
<1>1. \A a \in Servers : batch[a] = NoBatch /\ batch[a].todo = {} /\ batch[a].wire = << >>
  BY DEF NoBatches, NoBatch
<1>2. CASE Requests
  BY <1>2 DEF Requests, Receive, Forward, Refuse, Serve, Lose, Pull, slotsmgrtExecWrapperCommand, netVars, NoBatches
<1>3. CASE Moves
  <2>1. \A s \in Slots, K \in SUBSET Keys : ~ MigrateSlotAsync(s, K)
    BY DEF MigrateSlotAsync, Sync
  <2>2. ASSUME NEW a \in Servers
        PROVE  /\ \A k \in Keys : ~ BatchNext(a, k)
               /\ ~ BatchRestore(a)
               /\ ~ slotsmgrtAsyncComplete(a)
               /\ ~ unlinkSlotsmgrtAsyncCachedClient(a)
    <3>1. batch[a] = NoBatch /\ batch[a].todo = {} /\ batch[a].wire = << >>
      BY <1>1
    <3> QED BY <3>1 DEF BatchNext, BatchRestore, slotsmgrtAsyncComplete, unlinkSlotsmgrtAsyncCachedClient
  <2> QED BY <1>3, <2>1, <2>2 DEF Moves, MigrateSlot, LateRestore, NoBatches
<1>4. CASE Control
  BY <1>4 DEF Control, FillSlots, BeginMove, ExecutorDone, FinishMove, SettleMove, netVars, NoBatches
<1>5. CASE UNCHANGED vars
  BY <1>5 DEF vars, netVars, NoBatches
<1> QED BY <1>2, <1>3, <1>4, <1>5 DEF Next

(* While a batch is on its way nobody changes its keys at the source, with *)
(* deletions and commands on several keys too: the source refuses writes   *)
(* to keys of their tags, a target that sends a batch itself refuses to    *)
(* restore, and routes lead writes to the owner, which the source is not   *)
(* (slots_async.c:694-700).  Scripts are left out, which the source runs.  *)
THEOREM KeysAreStill == "script" \notin Commands => (Spec => MovingKeysAreStill)
<1> SUFFICES ASSUME "script" \notin Commands
             PROVE  Spec => MovingKeysAreStill
  OBVIOUS
<1>1. CASE Method = "semi-async"
  <2>1. Init => TypeInv /\ StillInv
    BY InitTypes, InitStill
  <2>2. TypeInv /\ StillInv /\ [Next]_vars => (TypeInv /\ StillInv)'
    BY <1>1, StepTypes, StepStill DEF SemiAsync
  <2>3. TypeInv /\ StillInv /\ [Next]_vars => [Still]_vars
    BY <1>1, StepStill DEF SemiAsync
  <2>4. Spec => [][Still]_vars
    BY <2>1, <2>2, <2>3, PTL DEF Spec
  <2> QED BY <2>4, PTL DEF Still, MovingKeysAreStill
<1>2. CASE Sync
  <2>1. Init => NoBatches
    BY DEF Init, NoBatches
  <2>2. NoBatches /\ [Next]_vars => NoBatches'
    BY <1>2, StepNoBatches
  <2>3. NoBatches /\ [Next]_vars => [Still]_vars
    BY DEF NoBatches, NoBatch, Still
  <2>4. Spec => [][Still]_vars
    BY <2>1, <2>2, <2>3, PTL DEF Spec
  <2> QED BY <2>4, PTL DEF Still, MovingKeysAreStill
<1> QED BY <1>1, <1>2, SlotDataAssumption DEF Sync

-----------------------------------------------------------------------------
(* The semi-async method: no write is lost, where clients send commands on *)
(* single keys, and delete none or no batch was given up.                  *)
Single == SemiAsync /\ ~ MultiKey
Semi   == Single /\ "del" \notin Commands

(* What is left to show of a step when the keys of batches are still.      *)
Newest ==
    /\ KeysInv
    /\ \A a \in Servers : WireOk(a)
    /\ \A p \in Proxies : GoneOk(p)

(* Where a moving slot comes from, and where the keys of a batch are.      *)
LEMMA MovingFacts ==
    ASSUME TypeInv, SemiInv
    PROVE  /\ \A s \in Slots : /\ owner[s] \in Servers
                               /\ phase[s] = "moving" => source[s] \in Servers /\ source[s] # owner[s]
                               /\ phase[s] # "moving" => source[s] = None
           /\ \A k \in Keys : SlotOf[k] \in Slots
           /\ \A b \in Servers : \A k \in batch[b].keys :
                 /\ k \in Keys /\ phase[SlotOf[k]] = "moving" /\ source[SlotOf[k]] = b
                 /\ owner[SlotOf[k]] = batch[b].to /\ data[b][k] # 0
           /\ \A b \in Servers : batch[b].sent \subseteq batch[b].keys
<1>1. \A b \in Servers : batch[b].keys \subseteq Keys
  BY WireTypes DEF TypeInv, TypeOK
<1> QED BY <1>1, SlotDataAssumption DEF TypeInv, SemiInv, StillInv, SourceInv, BatchOk

(* A step that changes no keys, no batches and no more than a request.     *)
LEMMA RequestNewest ==
    ASSUME SemiInv, NEW p \in Proxies,
           UNCHANGED <<routingVars, keyVars, batch>>,
           \A q \in Proxies \ {p} : req'[q] = req[q], GoneOk(p)'
    PROVE  Newest'
<1>1. KeysInv'
  BY DEF SemiInv, KeysInv, KeyOk, routingVars, controlVars, keyVars
<1>2. \A a \in Servers : WireOk(a)'
  BY DEF SemiInv, WireOk, keyVars
<1>3. \A q \in Proxies : GoneOk(q)'
  BY DEF SemiInv, GoneOk, routingVars, controlVars, keyVars
<1> QED BY <1>1, <1>2, <1>3 DEF Newest

LEMMA ReceiveNewest ==
    ASSUME TypeInv, SemiInv, Single, NEW p \in Proxies, NEW cmd \in Commands, NEW hkey \in Keys, NEW key \in Keys,
           Receive(p, cmd, hkey, key)
    PROVE  Newest'
<1>1. /\ \A q \in Proxies \ {p} : req'[q] = req[q]
      /\ req'[p] = [stage |-> "begin", cmd |-> cmd, hkey |-> hkey, key |-> key]
      /\ hkey = key
  BY DEF TypeInv, TypeOK, Receive, Single
<1>2. GoneOk(p)'
  BY <1>1 DEF GoneOk
<1> QED BY <1>1, <1>2, RequestNewest DEF Receive, netVars

(* A request is sent to the owner of a moving slot only if the source does *)
(* not have its key.                                                       *)
LEMMA EnterNewest ==
    ASSUME TypeInv, SemiInv, NEW p \in Proxies, req[p] \in Request,
           NEW stage \in {"begin", "wrap", "sent"}, Enter(p, stage),
           stage = "sent" /\ phase[SlotOf[req[p].hkey]] = "moving" =>
              data[source[SlotOf[req[p].hkey]]][req[p].hkey] = 0,
           UNCHANGED <<routingVars, keyVars, batch>>
    PROVE  Newest'
<1>1. req' = [req EXCEPT ![p].stage = stage] /\ req \in [Proxies -> Request \cup {NoRequest}]
  BY DEF Enter, TypeInv, TypeOK
<1>2. /\ \A q \in Proxies \ {p} : req'[q] = req[q]
      /\ req'[p].stage = stage /\ req'[p].hkey = req[p].hkey /\ req'[p].key = req[p].key
  BY <1>1 DEF Request
<1>3. req[p] # NoRequest
  BY DEF Request, NoRequest
<1>4. GoneOk(p)'
  BY <1>2, <1>3 DEF SemiInv, GoneOk, routingVars, controlVars, keyVars
<1> QED BY <1>2, <1>4, RequestNewest

LEMMA ForwardNewest ==
    ASSUME TypeInv, SemiInv, Single, NEW p \in Proxies, Forward(p)
    PROVE  Newest'
<1>1. req[p] \in Request /\ Route0(p).to # None /\ SlotOf[req[p].hkey] \in Slots
  BY RouteTypes DEF Forward
<1>2. PICK stage \in {"wrap", "sent"} : Enter(p, stage) /\ (stage = "sent" => Route0(p).from = None)
  BY DEF Forward, Single, SemiAsync
<1>3. phase[SlotOf[req[p].hkey]] = "moving" => Route0(p).from # None
  BY <1>1, MovingFacts, SlotDataAssumption DEF SemiInv, StillInv, RouteInv, Fits, NoRoute, Route0
<1> QED BY <1>1, <1>2, <1>3, EnterNewest DEF Forward, netVars

LEMMA AnswerNewest ==
    ASSUME TypeInv, SemiInv, NEW p \in Proxies, Answer(p), UNCHANGED <<routingVars, keyVars, batch>>
    PROVE  Newest'
<1>1. (\A q \in Proxies \ {p} : req'[q] = req[q]) /\ req'[p] = NoRequest
  BY AnswerTypes
<1>2. GoneOk(p)'
  BY <1>1 DEF GoneOk
<1> QED BY <1>1, <1>2, RequestNewest

(* A write is run where its key is: at the owner if the source has it not, *)
(* and at the source if it has it and does not move it.  A key that is     *)
(* deleted at the source is not at the owner either.                       *)
LEMMA WriteNewest ==
    ASSUME TypeInv, SemiInv, NEW p \in Proxies, NEW k \in Keys, NEW b \in Servers, NEW v,
           v = 0 => CleanInv,
           Written(b, k, v), last' = [last EXCEPT ![k] = v],
           \/ b = owner[SlotOf[k]] /\ (phase[SlotOf[k]] = "moving" => data[source[SlotOf[k]]][k] = 0)
           \/ /\ phase[SlotOf[k]] = "moving" /\ b = source[SlotOf[k]]
              /\ data[b][k] # 0 /\ k \notin batch[b].keys,
           UNCHANGED <<routingVars, batch>>, Answer(p)
    PROVE  Newest'
<1> DEFINE s == SlotOf[k]
<1>1. data \in [Servers -> [Keys -> Value]] /\ last \in [Keys -> Value]
  BY DEF TypeInv, TypeOK
<1>2. /\ \A c \in Servers, l \in Keys : c # b \/ l # k => data'[c][l] = data[c][l]
      /\ \A l \in Keys \ {k} : last'[l] = last[l]
      /\ data'[b][k] = v /\ last'[k] = v
  BY <1>1 DEF Written
<1>3. /\ s \in Slots /\ owner[s] \in Servers
      /\ phase[s] = "moving" => source[s] \in Servers /\ source[s] # owner[s]
      /\ phase[s] # "moving" => source[s] = None
  BY MovingFacts
<1>4. \A c \in Servers : k \notin batch[c].keys
  BY MovingFacts
<1>5. ASSUME NEW l \in Keys
      PROVE  KeyOk(l)'
  <2>1. CASE l # k
    <3>1. last'[l] = last[l] /\ \A c \in Servers : data'[c][l] = data[c][l]
      BY <1>2, <2>1
    <3> QED BY <3>1, MovingFacts DEF SemiInv, KeysInv, KeyOk, routingVars, controlVars
  <2>2. CASE l = k
    <3>1. v = 0 /\ phase[s] = "moving" /\ b = source[s] => data[owner[s]][k] = 0
      BY <1>3, <1>4, MovingFacts DEF CleanInv
    <3>2. v = 0 /\ phase[s] = "moving" /\ b = source[s] => data'[owner[s]][k] = 0
      BY <1>2, <1>3, <3>1
    <3> QED BY <1>2, <1>3, <2>2, <3>2 DEF SemiInv, KeysInv, KeyOk, routingVars, controlVars
  <2> QED BY <2>1, <2>2
<1>6. ASSUME NEW c \in Servers
      PROVE  WireOk(c)'
  <2>1. ASSUME NEW l \in batch[c].sent
        PROVE  data'[c][l] = data[c][l] /\ data'[batch[c].to][l] = data[batch[c].to][l]
    <3>1. l \in Keys /\ l # k /\ batch[c].to \in Servers
      BY <1>4, MovingFacts
    <3> QED BY <1>2, <3>1
  <2> QED BY <2>1 DEF SemiInv, WireOk
<1>7. (\A q \in Proxies \ {p} : req'[q] = req[q]) /\ req'[p] = NoRequest
  BY AnswerTypes
<1>8. ASSUME NEW q \in Proxies
      PROVE  GoneOk(q)'
  <2>1. CASE q = p
    BY <1>7, <2>1 DEF GoneOk
  <2>2. CASE q # p /\ req[q] \in Request
    <3>1. req[q].hkey \in Keys /\ req'[q] = req[q] /\ req[q] # NoRequest
      BY <1>7, <2>2 DEF Request, NoRequest
    <3>2. req[q].key = req[q].hkey
      BY <3>1 DEF SemiInv, GoneOk
    <3>3. ASSUME req[q].stage = "sent", phase[SlotOf[req[q].hkey]] = "moving"
          PROVE  data'[source[SlotOf[req[q].hkey]]][req[q].hkey] = 0
      <4>1. data[source[SlotOf[req[q].hkey]]][req[q].hkey] = 0
        BY <3>1, <3>3 DEF SemiInv, GoneOk
      <4>2. source[SlotOf[req[q].hkey]] \in Servers /\ source[SlotOf[req[q].hkey]] # owner[SlotOf[req[q].hkey]]
        BY <3>1, <3>3, MovingFacts
      <4> QED BY <1>2, <3>1, <3>3, <4>1, <4>2
    <3> QED BY <3>1, <3>2, <3>3 DEF GoneOk, routingVars, controlVars
  <2>3. CASE q # p /\ req[q] = NoRequest
    BY <1>7, <2>3 DEF GoneOk
  <2> QED BY <2>1, <2>2, <2>3 DEF TypeInv, TypeOK
<1> QED BY <1>5, <1>6, <1>8 DEF Newest, KeysInv

(* What a command may write; deletions are left to clean servers.          *)
Writable == {v \in Nat : v = 0 => CleanInv}

(* A command of a client reads, or writes a value no key has had, or       *)
(* deletes.                                                                *)
LEMMA RunSets ==
    ASSUME TypeInv, Single, "del" \in Commands => CleanInv,
           NEW p \in Proxies, req[p] \in Request, NEW b, Run(b, req[p])
    PROVE  \/ UNCHANGED keyVars
           \/ /\ CMD_WRITE(req[p].cmd)
              /\ \E v \in Writable : Written(b, req[p].key, v) /\ last' = [last EXCEPT ![req[p].key] = v]
<1>1. req[p].cmd \in Commands /\ req[p].cmd # "script"
  BY DEF Request, Single, SemiAsync
<1>2. writes + 1 \in Writable
  BY DEF TypeInv, TypeOK, Value, Writable
<1>3. CASE req[p].cmd = "get"
  BY <1>3 DEF Run
<1>4. CASE req[p].cmd = "set"
  BY <1>2, <1>4 DEF Run, Written, CMD_WRITE
<1>5. CASE req[p].cmd = "del"
  <2>1. 0 \in Writable
    BY <1>1, <1>5 DEF Writable
  <2> QED BY <1>5, <2>1 DEF Run, Written, CMD_WRITE
<1> QED BY <1>1, <1>3, <1>4, <1>5 DEF Run

LEMMA ServeNewest ==
    ASSUME TypeInv, SemiInv, Single, "del" \in Commands => CleanInv, NEW p \in Proxies, Serve(p)
    PROVE  Newest'
<1>1. /\ req[p] \in Request /\ req[p] # NoRequest /\ req[p].key \in Keys
      /\ SlotOf[req[p].key] = SlotOf[req[p].hkey]
      /\ Route0(p).to = owner[SlotOf[req[p].hkey]]
  BY HeldFacts DEF Serve, SemiInv
<1>2. /\ req[p].hkey = req[p].key
      /\ phase[SlotOf[req[p].key]] = "moving" => data[source[SlotOf[req[p].key]]][req[p].key] = 0
  BY <1>1 DEF Serve, SemiInv, GoneOk
<1>3. PICK b \in Servers : b = owner[SlotOf[req[p].key]]
  BY <1>1, KeyTypes
<1>4. UNCHANGED <<routingVars, batch>> /\ Answer(p)
  BY DEF Serve, netVars
<1>5. Run(b, req[p])
  BY <1>1, <1>3 DEF Serve
<1>6. CASE UNCHANGED keyVars
  BY <1>4, <1>6, AnswerNewest
<1>7. ASSUME NEW v \in Writable, Written(b, req[p].key, v), last' = [last EXCEPT ![req[p].key] = v]
      PROVE  Newest'
  <2>1. v = 0 => CleanInv
    BY DEF Writable
  <2> QED BY <1>1, <1>2, <1>3, <1>4, <1>7, <2>1, WriteNewest
<1> QED BY <1>1, <1>5, <1>6, <1>7, RunSets

(* The source runs a command on a key it has, and refuses to write one it  *)
(* moves; what it does not have is with the owner.                         *)
LEMMA WrapperNewest ==
    ASSUME TypeInv, SemiInv, Single, "del" \in Commands => CleanInv,
           NEW p \in Proxies, slotsmgrtExecWrapperCommand(p)
    PROVE  Newest'
<1>1. /\ req[p] \in Request /\ req[p] # NoRequest /\ req[p].key \in Keys /\ req[p].hkey \in Keys
      /\ SlotOf[req[p].hkey] \in Slots
      /\ Route0(p).from \in Servers /\ Route0(p).from = came[SlotOf[req[p].hkey]]
      /\ phase[SlotOf[req[p].hkey]] = "moving" => Route0(p).from = source[SlotOf[req[p].hkey]]
  BY HeldFacts DEF slotsmgrtExecWrapperCommand, SemiInv
<1>2. PICK k \in Keys : k = req[p].key /\ k = req[p].hkey
  BY <1>1 DEF SemiInv, GoneOk
<1>3. PICK a \in Servers : a = Route0(p).from
  BY <1>1
<1>4. UNCHANGED <<routingVars, batch>>
  BY DEF slotsmgrtExecWrapperCommand, netVars
<1>5. data[a][k] # 0 => phase[SlotOf[k]] = "moving" /\ a = source[SlotOf[k]]
  <2>1. a # owner[SlotOf[k]] /\ (phase[SlotOf[k]] # "moving" => source[SlotOf[k]] = None)
    BY <1>1, <1>2, <1>3 DEF SemiInv, StillInv, SourceInv
  <2> QED BY <1>1, <1>2, <1>3, <2>1, SlotDataAssumption DEF SemiInv, KeysInv, KeyOk
<1>6. CASE data[a][k] = 0 /\ Enter(p, "sent") /\ UNCHANGED keyVars
  BY <1>1, <1>2, <1>3, <1>4, <1>6, EnterNewest
<1>7. CASE Enter(p, "begin") /\ UNCHANGED keyVars
  BY <1>1, <1>4, <1>7, EnterNewest
<1>8. CASE Answer(p) /\ UNCHANGED keyVars
  BY <1>4, <1>8, AnswerNewest
<1>9. ASSUME data[a][k] # 0, ~ Fenced(a, k), Answer(p),
             NEW v \in Writable, Written(a, k, v), last' = [last EXCEPT ![k] = v]
      PROVE  Newest'
  <2>1. k \notin batch[a].keys
    BY <1>9 DEF Fenced
  <2>2. v = 0 => CleanInv
    BY DEF Writable
  <2> QED BY <1>4, <1>5, <1>9, <2>1, <2>2, WriteNewest
<1>10. \/ data[a][k] = 0 /\ Enter(p, "sent") /\ UNCHANGED keyVars
       \/ Enter(p, "begin") /\ UNCHANGED keyVars
       \/ /\ data[a][k] # 0 /\ Answer(p) /\ Run(a, req[p])
          /\ ~ (CMD_WRITE(req[p].cmd) /\ Fenced(a, k))
  BY <1>2, <1>3 DEF slotsmgrtExecWrapperCommand
<1>11. CASE /\ data[a][k] # 0 /\ Answer(p) /\ Run(a, req[p])
            /\ ~ (CMD_WRITE(req[p].cmd) /\ Fenced(a, k))
  <2>1. \/ UNCHANGED keyVars
        \/ /\ CMD_WRITE(req[p].cmd)
           /\ \E v \in Writable : Written(a, k, v) /\ last' = [last EXCEPT ![k] = v]
    <3>1. \/ UNCHANGED keyVars
          \/ /\ CMD_WRITE(req[p].cmd)
             /\ \E v \in Writable : Written(a, req[p].key, v) /\ last' = [last EXCEPT ![req[p].key] = v]
      BY <1>1, <1>11, RunSets
    <3> QED BY <1>2, <3>1
  <2> QED BY <1>8, <1>9, <1>11, <2>1
<1> QED BY <1>6, <1>7, <1>10, <1>11

(* A step of a batch: the other batches and the requests.                  *)
LEMMA BatchNewest ==
    ASSUME TypeInv, SemiInv, NEW a \in Servers,
           UNCHANGED <<routingVars, req>>,
           \A b \in Servers \ {a} : batch'[b] = batch[b] /\ \A l \in batch[b].keys :
              data'[b][l] = data[b][l] /\ data'[batch[b].to][l] = data[batch[b].to][l],
           \A l \in Keys : phase[SlotOf[l]] = "moving" /\ data[source[SlotOf[l]]][l] = 0 =>
              data'[source[SlotOf[l]]][l] = 0,
           KeysInv', WireOk(a)'
    PROVE  Newest'
<1>1. ASSUME NEW b \in Servers \ {a}
      PROVE  WireOk(b)'
  BY MovingFacts DEF SemiInv, WireOk
<1>2. ASSUME NEW q \in Proxies
      PROVE  GoneOk(q)'
  <2>1. CASE req[q] = NoRequest
    BY <2>1 DEF GoneOk
  <2>2. CASE req[q] \in Request
    <3>1. req[q].hkey \in Keys
      BY <2>2 DEF Request
    <3> QED BY <3>1 DEF SemiInv, GoneOk, routingVars, controlVars
  <2> QED BY <2>1, <2>2 DEF TypeInv, TypeOK
<1> QED BY <1>1, <1>2 DEF Newest

LEMMA MigrateSlotAsyncNewest ==
    ASSUME TypeInv, SemiInv, NEW s \in Slots, NEW K \in SUBSET Keys, MigrateSlotAsync(s, K)
    PROVE  Newest'
<1>0. PICK a \in Servers : a = source[s]
  BY DEF MigrateSlotAsync, SemiInv, StillInv, SourceInv
<1>1. batch \in [Servers -> Batch]
  BY DEF TypeInv, TypeOK
<1>2. batch' = [batch EXCEPT ![a] = [NoBatch EXCEPT !.to = owner[s], !.keys = K, !.todo = K]]
  BY <1>0 DEF MigrateSlotAsync
<1>3. (\A b \in Servers \ {a} : batch'[b] = batch[b]) /\ batch'[a].sent = {}
  BY <1>1, <1>2 DEF NoBatch
<1>4. UNCHANGED <<routingVars, data, last, req>>
  BY DEF MigrateSlotAsync, keyVars
<1>5. WireOk(a)'
  BY <1>3 DEF WireOk
<1>6. KeysInv'
  BY <1>4 DEF SemiInv, KeysInv, KeyOk, routingVars, controlVars
<1> QED BY <1>3, <1>4, <1>5, <1>6, BatchNewest

(* The last message for a key that is sent has its value.                  *)
LEMMA BatchNextNewest ==
    ASSUME TypeInv, SemiInv, NEW a \in Servers, NEW k \in Keys, BatchNext(a, k)
    PROVE  Newest'
<1>1. batch \in [Servers -> Batch] /\ batch[a] \in Batch
  BY DEF TypeInv, TypeOK
<1>2. UNCHANGED <<routingVars, data, last, req>>
  BY DEF BatchNext, keyVars
<1>3. k \in batch[a].keys /\ data[a][k] # 0 /\ k \notin batch[a].sent
  BY DEF BatchNext, SemiInv, StillInv, BatchOk
<1> DEFINE x == [k |-> k, v |-> 0]
           y == [k |-> k, v |-> data[a][k]]
           w == batch[a].wire
           u == w \o <<x, y>>
<1>4. batch' = [batch EXCEPT ![a].todo = @ \ {k}, ![a].sent = @ \cup {k}, ![a].wire = @ \o <<x, y>>]
  BY <1>3 DEF BatchNext
<1>5. x \in Message /\ y \in Message /\ x.k = k /\ y.k = k /\ y.v = data[a][k] /\ w \in Seq(Message)
  <2>1. w \in Seq(Message)
    BY <1>1, WireTypes
  <2>2. x \in Message /\ y \in Message
    BY SlotDataAssumption DEF TypeInv, TypeOK, Message, Value
  <2> QED BY <2>1, <2>2
<1> HIDE DEF x, y
<1>6. /\ \A b \in Servers \ {a} : batch'[b] = batch[b]
      /\ batch'[a].to = batch[a].to /\ batch'[a].sent = batch[a].sent \cup {k}
      /\ batch'[a].wire = u
  BY <1>1, <1>4 DEF Batch
<1>7. \A l \in batch[a].sent :
        \/ /\ data[batch[a].to][l] = data[a][l]
           /\ \A i \in DOMAIN w : w[i].k # l
        \/ \E i \in DOMAIN w : /\ w[i].k = l /\ w[i].v = data[a][l]
                               /\ \A j \in DOMAIN w : j > i => w[j].k # l
  BY DEF SemiInv, WireOk
<1> HIDE DEF w
<1>8. /\ Len(w) \in Nat /\ DOMAIN w = 1 .. Len(w) /\ DOMAIN u = 1 .. Len(w) + 2
      /\ \A i \in 1 .. Len(w) : u[i] = w[i]
      /\ u[Len(w) + 1] = x /\ u[Len(w) + 2] = y
  BY <1>5, TwoMore
<1> HIDE DEF u
<1>9. \A i \in DOMAIN u : (i \in DOMAIN w /\ u[i] = w[i]) \/ (i > Len(w) /\ u[i].k = k)
  <2>1. ASSUME NEW i \in DOMAIN u PROVE i \in DOMAIN w \/ i = Len(w) + 1 \/ i = Len(w) + 2
    BY <1>8
  <2> QED BY <1>5, <1>8, <2>1
<1>10. ASSUME NEW l \in batch[a].sent \cup {k}
       PROVE  \/ /\ data[batch[a].to][l] = data[a][l]
                 /\ \A i \in DOMAIN u : u[i].k # l
              \/ \E i \in DOMAIN u : /\ u[i].k = l /\ u[i].v = data[a][l]
                                     /\ \A j \in DOMAIN u : j > i => u[j].k # l
  <2>1. CASE l = k
    <3>1. Len(w) + 2 \in DOMAIN u /\ \A j \in DOMAIN u : ~ (j > Len(w) + 2)
      BY <1>8
    <3> QED BY <1>5, <1>8, <2>1, <3>1
  <2>2. CASE l # k /\ data[batch[a].to][l] = data[a][l] /\ \A i \in DOMAIN w : w[i].k # l
    BY <1>9, <2>2
  <2>3. ASSUME l # k, NEW i \in DOMAIN w, w[i].k = l /\ w[i].v = data[a][l],
               \A j \in DOMAIN w : j > i => w[j].k # l
        PROVE  \E j \in DOMAIN u : /\ u[j].k = l /\ u[j].v = data[a][l]
                                   /\ \A m \in DOMAIN u : m > j => u[m].k # l
    <3>1. i \in DOMAIN u /\ u[i] = w[i]
      BY <1>8
    <3> QED BY <1>9, <2>3, <3>1
  <2> QED BY <1>7, <2>1, <2>2, <2>3
<1>11. WireOk(a)'
  BY <1>2, <1>6, <1>10 DEF WireOk
<1>12. KeysInv'
  BY <1>2 DEF SemiInv, KeysInv, KeyOk, routingVars, controlVars
<1> QED BY <1>2, <1>6, <1>11, <1>12, BatchNewest

(* The target runs the first message.  The source has the key, so that its *)
(* newest value is not there that the message replaces.                    *)
LEMMA BatchRestoreNewest ==
    ASSUME TypeInv, SemiInv, NEW a \in Servers, BatchRestore(a)
    PROVE  Newest'
<1> DEFINE w == batch[a].wire
           t == Tail(w)
<1>0. StillInv
  BY DEF SemiInv
<1>1. PICK h \in Message : h = Head(batch[a].wire)
  BY <1>0, BatchRestoreFacts
<1>2. /\ w \in Seq(Message) /\ w # << >> /\ h = w[1]
      /\ h.k \in batch[a].sent /\ Written(batch[a].to, h.k, h.v)
      /\ UNCHANGED <<routingVars, last, req, drained>>
      /\ \A b \in Servers \ {a} : batch'[b] = batch[b]
      /\ batch'[a].to = batch[a].to /\ batch'[a].sent = batch[a].sent
      /\ batch'[a].wire = t
  BY <1>0, <1>1, BatchRestoreFacts
<1>3. /\ h.k \in Keys /\ h.k \in batch[a].keys /\ SlotOf[h.k] \in Slots
      /\ owner[SlotOf[h.k]] = batch[a].to /\ batch[a].to \in Servers
      /\ phase[SlotOf[h.k]] = "moving" /\ source[SlotOf[h.k]] = a /\ a # batch[a].to
      /\ data[a][h.k] # 0
  <2>1. h.k \in batch[a].keys
    BY <1>2, MovingFacts
  <2> QED BY <2>1, MovingFacts
<1>4. /\ \A b \in Servers, l \in Keys : b # batch[a].to \/ l # h.k => data'[b][l] = data[b][l]
      /\ data'[batch[a].to][h.k] = h.v
  BY <1>2, <1>3 DEF TypeInv, TypeOK, Written
<1>5. \A l \in Keys : phase[SlotOf[l]] = "moving" => data'[source[SlotOf[l]]][l] = data[source[SlotOf[l]]][l]
  BY <1>3, <1>4, MovingFacts
<1>6. ASSUME NEW l \in Keys
      PROVE  KeyOk(l)'
  <2>1. CASE l # h.k
    <3>1. \A c \in Servers : data'[c][l] = data[c][l]
      BY <1>4, <2>1
    <3> QED BY <1>2, <3>1, MovingFacts DEF SemiInv, KeysInv, KeyOk, routingVars, controlVars
  <2>2. CASE l = h.k
    <3>1. data'[a][l] = last[l] /\ data'[a][l] # 0
      BY <1>3, <1>4, <2>2 DEF SemiInv, KeysInv, KeyOk
    <3>2. \A c \in Servers \ {batch[a].to} : data'[c][l] = data[c][l]
      BY <1>3, <1>4, <2>2
    <3>3. \A c \in Servers \ {batch[a].to, a} : data[c][l] = 0
      BY <1>3, <2>2 DEF SemiInv, KeysInv, KeyOk
    <3>4. /\ owner'[SlotOf[l]] = batch[a].to /\ source'[SlotOf[l]] = a
          /\ phase'[SlotOf[l]] = "moving" /\ last'[l] = last[l]
      BY <1>2, <1>3, <2>2 DEF routingVars, controlVars
    <3> QED BY <3>1, <3>2, <3>3, <3>4 DEF KeyOk
  <2> QED BY <2>1, <2>2
<1>7. ASSUME NEW b \in Servers \ {a}, NEW l \in batch[b].keys
      PROVE  data'[b][l] = data[b][l] /\ data'[batch[b].to][l] = data[batch[b].to][l]
  <2>1. l \in Keys /\ source[SlotOf[l]] = b /\ batch[b].to \in Servers
    BY MovingFacts
  <2> QED BY <1>3, <1>4, <2>1, MovingFacts
<1>8. \A l \in batch[a].sent :
        \/ /\ data[batch[a].to][l] = data[a][l]
           /\ \A i \in DOMAIN w : w[i].k # l
        \/ \E i \in DOMAIN w : /\ w[i].k = l /\ w[i].v = data[a][l]
                               /\ \A j \in DOMAIN w : j > i => w[j].k # l
  BY DEF SemiInv, WireOk
<1>9. /\ DOMAIN w = 1 .. Len(w) /\ Len(w) \in Nat \ {0}
      /\ DOMAIN t = 1 .. Len(w) - 1
      /\ \A i \in DOMAIN t : t[i] = w[i + 1] /\ i + 1 \in DOMAIN w
  BY <1>2
<1> HIDE DEF w, t
<1>10. ASSUME NEW l \in batch[a].sent
       PROVE  \/ /\ data'[batch[a].to][l] = data'[a][l]
                 /\ \A i \in DOMAIN t : t[i].k # l
              \/ \E i \in DOMAIN t : /\ t[i].k = l /\ t[i].v = data'[a][l]
                                     /\ \A j \in DOMAIN t : j > i => t[j].k # l
  <2>0. l \in Keys /\ data'[a][l] = data[a][l]
    BY <1>3, <1>4, MovingFacts
  <2>1. CASE data[batch[a].to][l] = data[a][l] /\ \A i \in DOMAIN w : w[i].k # l
    <3>1. l # h.k
      BY <1>2, <1>9, <2>1
    <3> QED BY <1>3, <1>4, <1>9, <2>0, <2>1, <3>1
  <2>2. ASSUME NEW i \in DOMAIN w, w[i].k = l /\ w[i].v = data[a][l],
               \A j \in DOMAIN w : j > i => w[j].k # l
        PROVE  \/ /\ data'[batch[a].to][l] = data'[a][l]
                  /\ \A m \in DOMAIN t : t[m].k # l
               \/ \E m \in DOMAIN t : /\ t[m].k = l /\ t[m].v = data'[a][l]
                                      /\ \A j \in DOMAIN t : j > m => t[j].k # l
    <3>1. CASE i = 1
      <4>1. h.k = l /\ h.v = data[a][l]
        BY <1>2, <2>2, <3>1
      <4>2. \A m \in DOMAIN t : m + 1 > 1
        BY <1>9
      <4>3. \A m \in DOMAIN t : t[m].k # l
        BY <1>9, <2>2, <3>1, <4>2
      <4> QED BY <1>4, <2>0, <4>1, <4>3
    <3>2. CASE i # 1
      <4>1. i - 1 \in DOMAIN t /\ t[i - 1] = w[i]
        BY <1>9, <3>2
      <4>2. ASSUME NEW j \in DOMAIN t, j > i - 1
            PROVE  t[j].k # l
        <5>1. j + 1 \in DOMAIN w /\ j + 1 > i /\ t[j] = w[j + 1]
          BY <1>9, <4>2
        <5> QED BY <2>2, <5>1
      <4> QED BY <2>0, <2>2, <4>1, <4>2
    <3> QED BY <3>1, <3>2
  <2> QED BY <1>8, <2>1, <2>2
<1>11. WireOk(a)'
  BY <1>2, <1>10 DEF WireOk
<1>12. KeysInv'
  BY <1>6 DEF KeysInv
<1>13. \A l \in Keys : phase[SlotOf[l]] = "moving" /\ data[source[SlotOf[l]]][l] = 0 =>
          data'[source[SlotOf[l]]][l] = 0
  BY <1>5
<1> QED BY <1>2, <1>7, <1>11, <1>12, <1>13, BatchNewest

(* The batch is over.  If all its messages were run, the owner has what    *)
(* the source removes; if it was given up, the source keeps it.            *)
LEMMA BatchEndNewest ==
    ASSUME TypeInv, SemiInv, NEW a \in Servers, slotsmgrtAsyncComplete(a) \/ unlinkSlotsmgrtAsyncCachedClient(a)
    PROVE  Newest'
<1>1. batch \in [Servers -> Batch] /\ data \in [Servers -> [Keys -> Value]]
  BY DEF TypeInv, TypeOK
<1>2. /\ UNCHANGED <<routingVars, last, req>>
      /\ \A b \in Servers \ {a} : batch'[b] = batch[b]
      /\ batch'[a] = NoBatch
  BY <1>1 DEF slotsmgrtAsyncComplete, unlinkSlotsmgrtAsyncCachedClient, keyVars
<1>3. \A b \in Servers, l \in Keys :
        \/ data'[b][l] = data[b][l]
        \/ /\ b = a /\ l \in batch[a].sent /\ data'[b][l] = 0
           /\ data[batch[a].to][l] = data[a][l]
  <2>1. CASE unlinkSlotsmgrtAsyncCachedClient(a)
    BY <2>1 DEF unlinkSlotsmgrtAsyncCachedClient, keyVars
  <2>2. CASE slotsmgrtAsyncComplete(a)
    <3>1. \A l \in batch[a].sent : data[batch[a].to][l] = data[a][l]
      <4>1. batch[a].wire = << >>
        BY <2>2 DEF slotsmgrtAsyncComplete
      <4>2. DOMAIN batch[a].wire = {}
        BY <4>1
      <4> QED BY <4>2 DEF SemiInv, WireOk
    <3>2. data' = Removed(data, a, batch[a].sent)
      BY <2>2 DEF slotsmgrtAsyncComplete
    <3>3. \A b \in Servers, l \in Keys :
            data'[b][l] = IF b = a /\ l \in batch[a].sent THEN 0 ELSE data[b][l]
      BY <1>1, <3>2 DEF Removed
    <3> QED BY <3>1, <3>3
  <2> QED BY <2>1, <2>2
<1>4. ASSUME NEW l \in Keys
      PROVE  KeyOk(l)'
  <2>1. CASE \A b \in Servers : data'[b][l] = data[b][l]
    BY <1>2, <2>1, MovingFacts DEF SemiInv, KeysInv, KeyOk, routingVars, controlVars
  <2>2. CASE \E b \in Servers : data'[b][l] # data[b][l]
    <3>1. /\ l \in batch[a].sent /\ data'[a][l] = 0 /\ data[batch[a].to][l] = data[a][l]
          /\ \A b \in Servers \ {a} : data'[b][l] = data[b][l]
      BY <1>3, <2>2
    <3>2. l \in batch[a].keys
      BY <3>1, MovingFacts
    <3>3. /\ phase[SlotOf[l]] = "moving" /\ source[SlotOf[l]] = a /\ owner[SlotOf[l]] = batch[a].to
          /\ data[a][l] # 0 /\ batch[a].to \in Servers /\ batch[a].to # a
      BY <3>2, MovingFacts
    <3>4. data[a][l] = last[l] /\ \A b \in Servers \ {batch[a].to, a} : data[b][l] = 0
      BY <3>3 DEF SemiInv, KeysInv, KeyOk
    <3>5. /\ owner'[SlotOf[l]] = batch[a].to /\ source'[SlotOf[l]] = a
          /\ phase'[SlotOf[l]] = "moving" /\ last'[l] = last[l]
      BY <1>2, <3>3 DEF routingVars, controlVars
    <3> QED BY <3>1, <3>3, <3>4, <3>5 DEF KeyOk
  <2> QED BY <2>1, <2>2
<1>5. ASSUME NEW b \in Servers \ {a}, NEW l \in batch[b].keys
      PROVE  data'[b][l] = data[b][l] /\ data'[batch[b].to][l] = data[batch[b].to][l]
  <2>1. l \in Keys /\ source[SlotOf[l]] = b /\ batch[b].to \in Servers
    BY MovingFacts
  <2>2. l \notin batch[a].sent
    BY <2>1, MovingFacts
  <2> QED BY <1>3, <2>1, <2>2
<1>6. ASSUME NEW l \in Keys, phase[SlotOf[l]] = "moving", data[source[SlotOf[l]]][l] = 0
      PROVE  data'[source[SlotOf[l]]][l] = 0
  BY <1>3, <1>6, MovingFacts
<1>7. WireOk(a)'
  BY <1>2 DEF WireOk, NoBatch
<1>8. KeysInv'
  BY <1>4 DEF KeysInv
<1> QED BY <1>2, <1>5, <1>6, <1>7, <1>8, BatchNewest

-----------------------------------------------------------------------------
(* The control plane and the newest values.                                *)

(* What the control plane leaves alone.                                    *)
LEMMA ControlNewest ==
    ASSUME TypeInv, SemiInv, UNCHANGED <<data, last, batch, req>>, KeysInv',
           \A p \in Proxies : req[p] \in Request /\ req[p].stage = "sent" /\ phase'[SlotOf[req[p].hkey]] = "moving" =>
              phase[SlotOf[req[p].hkey]] = "moving" /\ source'[SlotOf[req[p].hkey]] = source[SlotOf[req[p].hkey]]
    PROVE  Newest'
<1>1. \A a \in Servers : WireOk(a)'
  BY DEF SemiInv, WireOk
<1>2. ASSUME NEW q \in Proxies
      PROVE  GoneOk(q)'
  <2>1. CASE req[q] = NoRequest
    BY <2>1 DEF GoneOk
  <2>2. CASE req[q] \in Request
    BY <2>2 DEF SemiInv, GoneOk
  <2> QED BY <2>1, <2>2 DEF TypeInv, TypeOK
<1> QED BY <1>1, <1>2 DEF Newest

(* Routes change, or an executor is done.                                  *)
LEMMA QuietNewest ==
    ASSUME TypeInv, SemiInv, UNCHANGED <<controlVars, data, last, batch, req>>
    PROVE  Newest'
<1>1. KeysInv'
  BY DEF SemiInv, KeysInv, KeyOk, controlVars
<1> QED BY <1>1, ControlNewest DEF controlVars

(* Nobody holds a slot that begins to move, whose keys the owner has.      *)
LEMMA BeginMoveNewest ==
    ASSUME TypeInv, SemiInv, NEW s \in Slots, NEW a \in Servers, BeginMove(s, a)
    PROVE  Newest'
<1>1. /\ phase[s] = "settled" /\ Unrouted(s) /\ a # owner[s]
      /\ phase'  = [phase EXCEPT ![s] = "moving"]
      /\ source' = [source EXCEPT ![s] = owner[s]]
      /\ owner'  = [owner EXCEPT ![s] = a]
      /\ UNCHANGED <<data, last, batch, req>>
  BY DEF BeginMove, Begin, keyVars, netVars
<1>2. /\ phase'[s] = "moving" /\ source'[s] = owner[s] /\ owner'[s] = a /\ owner[s] \in Servers
      /\ source[s] = None
      /\ \A t \in Slots \ {s} : phase'[t] = phase[t] /\ source'[t] = source[t] /\ owner'[t] = owner[t]
  BY <1>1, MovingFacts DEF TypeInv, TypeOK, Owned, Phased
<1>3. ASSUME NEW k \in Keys
      PROVE  KeyOk(k)'
  <2>1. CASE SlotOf[k] = s
    <3>1. data[owner[s]][k] = last[k] /\ \A b \in Servers \ {owner[s]} : data[b][k] = 0
      BY <1>1, <1>2, <2>1, SlotDataAssumption DEF SemiInv, KeysInv, KeyOk
    <3> QED BY <1>1, <1>2, <2>1, <3>1 DEF KeyOk
  <2>2. CASE SlotOf[k] # s
    BY <1>1, <1>2, <2>2, MovingFacts DEF SemiInv, KeysInv, KeyOk
  <2> QED BY <2>1, <2>2
<1>4. ASSUME NEW p \in Proxies, req[p] \in Request, req[p].stage = "sent"
      PROVE  SlotOf[req[p].hkey] \in Slots \ {s}
  <2>1. SlotOf[req[p].hkey] \in Slots /\ req[p] # NoRequest
    BY <1>4, SlotDataAssumption DEF Request, NoRequest
  <2>2. routes[p][SlotOf[req[p].hkey]].to # None
    BY <1>4, <2>1 DEF SemiInv, StillInv, WrapOk
  <2> QED BY <1>1, <2>1, <2>2 DEF Unrouted, NoRoute
<1> QED BY <1>1, <1>2, <1>3, <1>4, ControlNewest DEF KeysInv

(* A slot whose move is over was drained.                                  *)
LEMMA FinishMoveNewest ==
    ASSUME TypeInv, SemiInv, NEW s \in Slots, FinishMove(s)
    PROVE  Newest'
<1>1. /\ phase[s] = "moving" /\ drained[s]
      /\ phase'  = [phase EXCEPT ![s] = "moved"]
      /\ source' = [source EXCEPT ![s] = None]
      /\ UNCHANGED <<owner, data, last, batch, req>>
  BY DEF FinishMove, Finish, keyVars, netVars
<1>2. /\ phase'[s] = "moved" /\ source'[s] = None
      /\ \A t \in Slots \ {s} : phase'[t] = phase[t] /\ source'[t] = source[t]
  BY <1>1 DEF TypeInv, TypeOK, Owned, Phased
<1>3. ASSUME NEW k \in Keys
      PROVE  KeyOk(k)'
  <2>1. CASE SlotOf[k] = s
    <3>1. data[source[s]][k] = 0
      BY <1>1, <2>1 DEF SemiInv, StillInv, DrainedInv
    <3>2. data[owner[s]][k] = last[k] /\ \A b \in Servers \ {owner[s]} : data[b][k] = 0
      BY <1>1, <2>1, <3>1 DEF SemiInv, KeysInv, KeyOk
    <3> QED BY <1>1, <1>2, <2>1, <3>2 DEF KeyOk
  <2>2. CASE SlotOf[k] # s
    BY <1>1, <1>2, <2>2, MovingFacts DEF SemiInv, KeysInv, KeyOk
  <2> QED BY <2>1, <2>2
<1>4. ASSUME NEW p \in Proxies, req[p] \in Request
      PROVE  SlotOf[req[p].hkey] \in Slots
  BY <1>4, SlotDataAssumption DEF Request
<1> QED BY <1>1, <1>2, <1>3, <1>4, ControlNewest DEF KeysInv

LEMMA SettleMoveNewest ==
    ASSUME TypeInv, SemiInv, NEW s \in Slots, SettleMove(s)
    PROVE  Newest'
<1>1. /\ phase[s] = "moved"
      /\ phase'  = [phase EXCEPT ![s] = "settled"]
      /\ UNCHANGED <<owner, source, data, last, batch, req>>
  BY DEF SettleMove, Settle, keyVars, netVars
<1>2. \A t \in Slots : phase'[t] = "moving" <=> phase[t] = "moving"
  BY <1>1 DEF TypeInv, TypeOK, Phased
<1>3. KeysInv'
  BY <1>1, <1>2, SlotDataAssumption DEF SemiInv, KeysInv, KeyOk
<1>4. ASSUME NEW p \in Proxies, req[p] \in Request
      PROVE  SlotOf[req[p].hkey] \in Slots
  BY <1>4, SlotDataAssumption DEF Request
<1> QED BY <1>1, <1>2, <1>3, <1>4, ControlNewest

-----------------------------------------------------------------------------
LEMMA InitNewest ==
    ASSUME Init, TypeInv
    PROVE  Newest
<1>1. KeysInv
  BY SlotDataAssumption DEF Init, RoutingInit, KeysInv, KeyOk, TypeInv
<1>2. \A p \in Proxies : GoneOk(p)
  BY DEF Init, GoneOk
<1>3. \A a \in Servers : WireOk(a)
  BY DEF Init, WireOk, NoBatch
<1> QED BY <1>1, <1>2, <1>3 DEF Newest

(* Every step keeps the newest values where they are looked for.           *)
LEMMA StepNewest ==
    ASSUME TypeInv, SemiInv, Single, "del" \in Commands => CleanInv, [Next]_vars
    PROVE  SemiInv'
<1>1. StillInv'
  BY StepStill DEF SemiInv, Single
<1>2. CASE Requests
  <2>1. ASSUME NEW p \in Proxies PROVE ~ Pull(p)
    BY DEF Pull, SemiInv, StillInv, WrapOk, NoRequest
  <2>2. ASSUME NEW p \in Proxies, Refuse(p) \/ Lose(p) PROVE Newest'
    BY <2>2, AnswerNewest DEF Refuse, Lose, netVars
  <2>3. Newest'
    BY <1>2, <2>1, <2>2, ReceiveNewest, ForwardNewest, ServeNewest, WrapperNewest DEF Requests
  <2> QED BY <1>1, <2>3 DEF SemiInv, Newest
<1>3. CASE Moves
  <2>1. ASSUME NEW s \in Slots, NEW k \in Keys PROVE ~ MigrateSlot(s, k)
    BY DEF MigrateSlot, Single, SemiAsync
  <2>2. Newest'
    BY <1>3, <2>1, MigrateSlotAsyncNewest, BatchNextNewest, BatchRestoreNewest, BatchEndNewest
       DEF Moves, SemiInv, StillInv
  <2> QED BY <1>1, <2>2 DEF SemiInv, Newest
<1>4. CASE Control
  <2>1. ASSUME NEW p \in Proxies, FillSlots(p) PROVE Newest'
    BY <2>1, QuietNewest DEF FillSlots, Reroute, keyVars, netVars
  <2>2. ASSUME NEW s \in Slots, ExecutorDone(s) PROVE Newest'
    BY <2>2, QuietNewest DEF ExecutorDone, routingVars, keyVars, netVars
  <2>3. Newest'
    BY <1>4, <2>1, <2>2, BeginMoveNewest, FinishMoveNewest, SettleMoveNewest DEF Control
  <2> QED BY <1>1, <2>3 DEF SemiInv, Newest
<1>5. CASE UNCHANGED vars
  <2>1. Newest'
    BY <1>5, QuietNewest DEF vars, routingVars, keyVars, netVars
  <2> QED BY <1>1, <2>1 DEF SemiInv, Newest
<1> QED BY <1>2, <1>3, <1>4, <1>5 DEF Next

(* The inductive invariant of the semi-async method (slots_async.c,        *)
(* forwardSemiAsync), where clients read and set single keys.              *)
THEOREM SemiInductive == Semi => (Spec => [](TypeInv /\ SemiInv))
<1> SUFFICES ASSUME Semi
             PROVE  Spec => [](TypeInv /\ SemiInv)
  OBVIOUS
<1>1. Init => TypeInv /\ SemiInv
  BY InitTypes, InitStill, InitNewest DEF SemiInv, Newest
<1>2. TypeInv /\ SemiInv /\ [Next]_vars => (TypeInv /\ SemiInv)'
  BY StepTypes, StepNewest DEF Semi
<1> QED BY <1>1, <1>2, PTL DEF Spec

(* What the invariant says of the keys that clients look for.              *)
LEMMA SemiFindsNewest ==
    ASSUME TypeInv, SemiInv
    PROVE  NewestKept /\ SentFindsNewest /\ NothingLeft
<1>1. NewestKept
  BY SlotDataAssumption DEF SemiInv, StillInv, KeysInv, KeyOk, SourceInv, NewestKept
<1>2. ASSUME NEW p \in Proxies, req[p].stage = "sent"
      PROVE  data[Route0(p).to][req[p].key] = last[req[p].key]
  <2>1. /\ req[p] # NoRequest /\ req[p].key \in Keys
        /\ SlotOf[req[p].key] = SlotOf[req[p].hkey]
        /\ Route0(p).to = owner[SlotOf[req[p].key]]
    BY <1>2, HeldFacts DEF SemiInv
  <2>2. phase[SlotOf[req[p].key]] = "moving" => data[source[SlotOf[req[p].key]]][req[p].key] = 0
    BY <1>2, <2>1 DEF SemiInv, GoneOk
  <2> QED BY <2>1, <2>2 DEF SemiInv, KeysInv, KeyOk
<1>3. NothingLeft
  BY SlotDataAssumption DEF SemiInv, StillInv, SourceInv, KeysInv, KeyOk, NothingLeft, KeysAt
<1> QED BY <1>1, <1>2, <1>3 DEF SentFindsNewest

(* No write is lost: a batch that is given up leaves what it sent behind   *)
(* at the target, but the source still has the newest value, and it sends  *)
(* that again (slots_async.c:931-965).                                     *)
THEOREM SemiKeepsNewest == Semi => (Spec => []NewestKept)
BY SemiFindsNewest, SemiInductive, PTL

(* A request that the source has passed on finds the newest value at the   *)
(* owner, however long it waits (forward.go:76-105).                       *)
THEOREM SemiServesNewest == Semi => (Spec => []SentFindsNewest)
BY SemiFindsNewest, SemiInductive, PTL

(* A slot that has settled has left no key on any other server             *)
(* (topom_slots.go:427-445).                                               *)
THEOREM SemiLeavesNothing == Semi => (Spec => []NothingLeft)
BY SemiFindsNewest, SemiInductive, PTL

-----------------------------------------------------------------------------
(* The semi-async method with deletions, as long as no batch is given up.  *)

(* What a step may not do to stay clean: to put a key at the owner that    *)
(* the source has and its batch did not send.                              *)
LEMMA StaysClean ==
    ASSUME CleanInv, UNCHANGED <<phase, source, owner>>,
           \A k \in Keys : /\ phase[SlotOf[k]] = "moving"
                           /\ data'[source[SlotOf[k]]][k] # 0
                           /\ k \notin batch'[source[SlotOf[k]]].sent
                           => /\ data[source[SlotOf[k]]][k] # 0
                              /\ k \notin batch[source[SlotOf[k]]].sent
                              /\ data'[owner[SlotOf[k]]][k] = data[owner[SlotOf[k]]][k]
    PROVE  CleanInv'
BY DEF CleanInv

(* A command is run at the source on a key that it has, or at the owner on *)
(* one that the source has not.                                            *)
LEMMA RunClean ==
    ASSUME TypeInv, SemiInv, CleanInv, Single, NEW p \in Proxies, Serve(p) \/ slotsmgrtExecWrapperCommand(p)
    PROVE  CleanInv'
<1>1. UNCHANGED <<phase, source, owner, batch>>
  BY DEF Serve, slotsmgrtExecWrapperCommand, netVars, routingVars, controlVars
<1>2. CASE UNCHANGED data
  BY <1>1, <1>2, StaysClean
<1>3. ASSUME NEW k \in Keys, NEW b \in Servers, NEW v \in Writable, Written(b, k, v),
             \/ b = owner[SlotOf[k]] /\ (phase[SlotOf[k]] = "moving" => data[source[SlotOf[k]]][k] = 0)
             \/ phase[SlotOf[k]] = "moving" /\ b = source[SlotOf[k]] /\ data[b][k] # 0
      PROVE  CleanInv'
  <2>1. /\ \A c \in Servers, l \in Keys : c # b \/ l # k => data'[c][l] = data[c][l]
    BY <1>3 DEF TypeInv, TypeOK, Written
  <2>2. ASSUME NEW l \in Keys, phase[SlotOf[l]] = "moving", data'[source[SlotOf[l]]][l] # 0
        PROVE  /\ data[source[SlotOf[l]]][l] # 0
               /\ data'[owner[SlotOf[l]]][l] = data[owner[SlotOf[l]]][l]
    <3>1. /\ source[SlotOf[l]] \in Servers /\ owner[SlotOf[l]] \in Servers
          /\ source[SlotOf[l]] # owner[SlotOf[l]]
      BY <2>2, MovingFacts
    <3> QED BY <1>3, <2>1, <2>2, <3>1
  <2> QED BY <1>1, <2>2, StaysClean
<1>4. CASE Serve(p)
  <2>1. /\ req[p] \in Request /\ req[p] # NoRequest /\ req[p].key \in Keys
        /\ SlotOf[req[p].key] = SlotOf[req[p].hkey]
        /\ Route0(p).to = owner[SlotOf[req[p].hkey]]
    BY <1>4, HeldFacts DEF Serve, SemiInv
  <2>2. /\ req[p].hkey = req[p].key
        /\ phase[SlotOf[req[p].key]] = "moving" => data[source[SlotOf[req[p].key]]][req[p].key] = 0
    BY <1>4, <2>1 DEF Serve, SemiInv, GoneOk
  <2>3. PICK b \in Servers : b = owner[SlotOf[req[p].key]]
    BY <2>1, KeyTypes
  <2>4. Run(b, req[p])
    BY <1>4, <2>1, <2>3 DEF Serve
  <2>5. UNCHANGED data \/ \E v \in Writable : Written(b, req[p].key, v)
    BY <2>1, <2>4, RunSets DEF keyVars
  <2> QED BY <1>2, <1>3, <2>1, <2>2, <2>3, <2>5
<1>5. CASE slotsmgrtExecWrapperCommand(p)
  <2>1. /\ req[p] \in Request /\ req[p] # NoRequest /\ req[p].key \in Keys /\ req[p].hkey \in Keys
        /\ Route0(p).from \in Servers /\ Route0(p).from = came[SlotOf[req[p].hkey]]
        /\ SlotOf[req[p].hkey] \in Slots
        /\ phase[SlotOf[req[p].hkey]] = "moving" => Route0(p).from = source[SlotOf[req[p].hkey]]
    BY <1>5, HeldFacts DEF slotsmgrtExecWrapperCommand, SemiInv
  <2>2. PICK k \in Keys : k = req[p].key /\ k = req[p].hkey
    BY <2>1 DEF SemiInv, GoneOk
  <2>3. PICK a \in Servers : a = Route0(p).from
    BY <2>1
  <2>4. data[a][k] # 0 => phase[SlotOf[k]] = "moving" /\ a = source[SlotOf[k]]
    <3>1. a # owner[SlotOf[k]] /\ (phase[SlotOf[k]] # "moving" => source[SlotOf[k]] = None)
      BY <2>1, <2>2, <2>3 DEF SemiInv, StillInv, SourceInv
    <3> QED BY <2>1, <2>2, <2>3, <3>1, SlotDataAssumption DEF SemiInv, KeysInv, KeyOk
  <2>5. UNCHANGED data \/ (data[a][k] # 0 /\ Run(a, req[p]))
    BY <1>5, <2>2, <2>3 DEF slotsmgrtExecWrapperCommand, keyVars
  <2>6. UNCHANGED data \/ (data[a][k] # 0 /\ \E v \in Writable : Written(a, req[p].key, v))
    BY <2>1, <2>5, RunSets DEF keyVars
  <2> QED BY <1>2, <1>3, <2>2, <2>4, <2>6
<1> QED BY <1>4, <1>5

(* A batch puts at the owner what it has sent, and removes that from the   *)
(* source when it is over.                                                 *)
LEMMA BatchClean ==
    ASSUME TypeInv, SemiInv, CleanInv, NEW a \in Servers, NEW s \in Slots, NEW k \in Keys, NEW K \in SUBSET Keys,
           \/ MigrateSlotAsync(s, K) \/ BatchNext(a, k)
           \/ BatchRestore(a) \/ slotsmgrtAsyncComplete(a)
    PROVE  CleanInv'
<1>0. batch \in [Servers -> Batch] /\ data \in [Servers -> [Keys -> Value]]
  BY DEF TypeInv, TypeOK
<1>1. UNCHANGED <<phase, source, owner>>
  BY DEF MigrateSlotAsync, BatchNext, BatchRestore, slotsmgrtAsyncComplete, routingVars, controlVars
<1>2. \A l \in Keys : phase[SlotOf[l]] = "moving" =>
        source[SlotOf[l]] \in Servers /\ owner[SlotOf[l]] \in Servers /\ source[SlotOf[l]] # owner[SlotOf[l]]
  BY MovingFacts
<1>3. CASE MigrateSlotAsync(s, K)
  <2>1. UNCHANGED data /\ \A b \in Servers : batch[b].sent \subseteq batch'[b].sent
    BY <1>0, <1>3 DEF MigrateSlotAsync, NoBatch, keyVars
  <2> QED BY <1>1, <1>2, <2>1, StaysClean
<1>4. CASE BatchNext(a, k)
  <2>1. UNCHANGED data /\ \A b \in Servers : batch[b].sent \subseteq batch'[b].sent
    BY <1>0, <1>4 DEF BatchNext, Batch, keyVars
  <2> QED BY <1>1, <1>2, <2>1, StaysClean
<1>5. CASE BatchRestore(a)
  <2>0. StillInv
    BY DEF SemiInv
  <2>1. PICK h \in Message : h = Head(batch[a].wire)
    BY <1>5, <2>0, BatchRestoreFacts
  <2>2. /\ h.k \in batch[a].sent /\ Written(batch[a].to, h.k, h.v)
        /\ \A b \in Servers : batch'[b].sent = batch[b].sent
    BY <1>5, <2>0, <2>1, BatchRestoreFacts
  <2>3. h.k \in Keys /\ phase[SlotOf[h.k]] = "moving" /\ source[SlotOf[h.k]] = a
        /\ owner[SlotOf[h.k]] = batch[a].to
    BY <2>2, MovingFacts
  <2>4. \A b \in Servers, l \in Keys : b # batch[a].to \/ l # h.k => data'[b][l] = data[b][l]
    BY <1>0, <1>2, <2>2, <2>3 DEF Written
  <2> QED BY <1>1, <1>2, <2>2, <2>3, <2>4, StaysClean
<1>6. CASE slotsmgrtAsyncComplete(a)
  <2>1. \A b \in Servers, l \in Keys :
          data'[b][l] = IF b = a /\ l \in batch[a].sent THEN 0 ELSE data[b][l]
    BY <1>0, <1>6 DEF slotsmgrtAsyncComplete, Removed
  <2>2. \A b \in Servers \ {a} : batch'[b] = batch[b]
    BY <1>0, <1>6 DEF slotsmgrtAsyncComplete
  <2>3. ASSUME NEW l \in Keys, l \in batch[a].sent
        PROVE  phase[SlotOf[l]] = "moving" /\ source[SlotOf[l]] = a
    BY <2>3, MovingFacts
  <2> QED BY <1>1, <1>2, <2>1, <2>2, <2>3, StaysClean
<1> QED BY <1>3, <1>4, <1>5, <1>6

(* No other server has a key of a slot that begins to move, and a slot     *)
(* that does not move is clean.                                            *)
LEMMA ControlClean ==
    ASSUME TypeInv, SemiInv, CleanInv, Control
    PROVE  CleanInv'
<1>1. UNCHANGED <<data, batch>>
  BY DEF Control, FillSlots, BeginMove, ExecutorDone, FinishMove, SettleMove, keyVars, netVars
<1>2. ASSUME NEW p \in Proxies, FillSlots(p) PROVE CleanInv'
  BY <1>1, <1>2, StaysClean DEF FillSlots, Reroute, controlVars
<1>3. ASSUME NEW s \in Slots, ExecutorDone(s) PROVE CleanInv'
  BY <1>1, <1>3, StaysClean DEF ExecutorDone, routingVars, controlVars
<1>4. ASSUME NEW s \in Slots, NEW a \in Servers, BeginMove(s, a) PROVE CleanInv'
  <2>1. /\ phase[s] = "settled" /\ a # owner[s]
        /\ phase'  = [phase EXCEPT ![s] = "moving"]
        /\ source' = [source EXCEPT ![s] = owner[s]]
        /\ owner'  = [owner EXCEPT ![s] = a]
    BY <1>4 DEF BeginMove, Begin
  <2>2. /\ owner'[s] = a /\ source[s] = None
        /\ \A t \in Slots \ {s} : phase'[t] = phase[t] /\ source'[t] = source[t] /\ owner'[t] = owner[t]
    BY <2>1, MovingFacts DEF TypeInv, TypeOK, Owned, Phased
  <2>3. \A k \in Keys : SlotOf[k] = s => data[a][k] = 0
    BY <2>1, <2>2, SlotDataAssumption DEF SemiInv, KeysInv, KeyOk
  <2> QED BY <1>1, <2>2, <2>3, MovingFacts DEF CleanInv
<1>5. ASSUME NEW s \in Slots, FinishMove(s) \/ SettleMove(s) PROVE CleanInv'
  <2>1. /\ UNCHANGED owner
        /\ phase'[s] # "moving"
        /\ \A t \in Slots \ {s} : phase'[t] = phase[t] /\ source'[t] = source[t]
    BY <1>5 DEF FinishMove, Finish, SettleMove, Settle, TypeInv, TypeOK, Owned, Phased
  <2> QED BY <1>1, <2>1, MovingFacts DEF CleanInv
<1> QED BY <1>2, <1>3, <1>4, <1>5 DEF Control

(* No batch is given up: no timeout, no lost connection between servers    *)
(* and no SLOTSMGRT-ASYNC-CANCEL ends one.                                 *)
NoneGivenUp == \A a \in Servers : ~ unlinkSlotsmgrtAsyncCachedClient(a)

(* Every step but the end of a batch that is given up stays clean.         *)
LEMMA StepClean ==
    ASSUME TypeInv, SemiInv, CleanInv, Single, [Next /\ NoneGivenUp]_vars
    PROVE  CleanInv'
<1>1. CASE Requests
  <2>1. ASSUME NEW p \in Proxies PROVE ~ Pull(p)
    BY DEF Pull, SemiInv, StillInv, WrapOk, NoRequest
  <2>2. ASSUME NEW p \in Proxies, NEW cmd \in Commands, NEW hkey \in Keys, NEW key \in Keys,
               Receive(p, cmd, hkey, key)
        PROVE  CleanInv'
    <3>1. UNCHANGED <<phase, source, owner, data, batch>>
      BY <2>2 DEF Receive, routingVars, controlVars, keyVars, netVars
    <3> QED BY <3>1, StaysClean
  <2>3. ASSUME NEW p \in Proxies, Forward(p) \/ Refuse(p) \/ Lose(p) PROVE CleanInv'
    <3>1. UNCHANGED <<phase, source, owner, data, batch>>
      BY <2>3 DEF Forward, Refuse, Lose, routingVars, controlVars, keyVars, netVars
    <3> QED BY <3>1, StaysClean
  <2> QED BY <1>1, <2>1, <2>2, <2>3, RunClean DEF Requests
<1>2. CASE Moves /\ NoneGivenUp
  <2>1. ASSUME NEW s \in Slots, NEW k \in Keys PROVE ~ MigrateSlot(s, k)
    BY DEF MigrateSlot, Single, SemiAsync
  <2>2. ASSUME NEW s \in Slots, NEW K \in SUBSET Keys, MigrateSlotAsync(s, K) PROVE CleanInv'
    <3>1. source[s] \in Servers /\ \E k \in Keys : k \in K
      BY <2>2 DEF MigrateSlotAsync, SemiInv, StillInv, SourceInv
    <3> QED BY <2>2, <3>1, BatchClean
  <2>3. ASSUME NEW a \in Servers, NEW k \in Keys, BatchNext(a, k) PROVE CleanInv'
    BY <2>3, SlotDataAssumption, BatchClean
  <2>4. ASSUME NEW a \in Servers, BatchRestore(a) \/ slotsmgrtAsyncComplete(a) PROVE CleanInv'
    <3>1. CASE Keys = {}
      BY <3>1 DEF CleanInv
    <3>2. ASSUME NEW k \in Keys PROVE CleanInv'
      BY <2>4, SlotDataAssumption, BatchClean
    <3> QED BY <3>1, <3>2
  <2> QED BY <1>2, <2>1, <2>2, <2>3, <2>4 DEF Moves, NoneGivenUp, SemiInv, StillInv
<1>3. CASE Control
  BY <1>3, ControlClean
<1>4. CASE UNCHANGED vars
  <2>1. UNCHANGED <<phase, source, owner, data, batch>>
    BY <1>4 DEF vars, routingVars, controlVars, keyVars, netVars
  <2> QED BY <2>1, StaysClean
<1> QED BY <1>1, <1>2, <1>3, <1>4 DEF Next

(* The inductive invariant of the semi-async method with deletions: while  *)
(* no batch is given up, a key that the source has is not at the owner     *)
(* unless the batch has sent it, and then the source refuses to delete it  *)
(* (slots_async.c:694-700).                                                *)
THEOREM CleanInductive == Single => (Spec /\ [][NoneGivenUp]_vars => [](TypeInv /\ SemiInv /\ CleanInv))
<1> SUFFICES ASSUME Single
             PROVE  Spec /\ [][NoneGivenUp]_vars => [](TypeInv /\ SemiInv /\ CleanInv)
  OBVIOUS
<1>1. Init => TypeInv /\ SemiInv /\ CleanInv
  <2>1. Init => CleanInv
    BY SlotDataAssumption DEF Init, RoutingInit, CleanInv
  <2> QED BY <2>1, InitTypes, InitStill, InitNewest DEF SemiInv, Newest
<1>2. TypeInv /\ SemiInv /\ CleanInv /\ [Next]_vars /\ [NoneGivenUp]_vars => (TypeInv /\ SemiInv /\ CleanInv)'
  <2>1. [Next]_vars /\ [NoneGivenUp]_vars => [Next /\ NoneGivenUp]_vars
    OBVIOUS
  <2> QED BY <2>1, StepTypes, StepNewest, StepClean
<1> QED BY <1>1, <1>2, PTL DEF Spec

(* Neither writes nor deletions of single keys are lost, and no deleted    *)
(* key comes back, unless a batch is given up: what the run "aborted"      *)
(* shows takes a batch that is cut off (slots_async.c:713).                *)
THEOREM CleanKeepsNewest == Single => (Spec /\ [][NoneGivenUp]_vars => [](NewestKept /\ SentFindsNewest /\ NothingLeft))
<1>1. TypeInv /\ SemiInv => NewestKept /\ SentFindsNewest /\ NothingLeft
  BY SemiFindsNewest
<1> QED BY <1>1, CleanInductive, PTL
=============================================================================
