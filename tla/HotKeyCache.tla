----------------------------- MODULE HotKeyCache -----------------------------
(***************************************************************************)
(* The hot key caches of the proxies (pkg/proxy/hot_key_cache.go), the     *)
(* invalidations that writes send from one to the others by way of the     *)
(* dashboard (hot_key_cache_broadcast.go, topom_hot_key_cache.go), and the *)
(* servers behind them.  The keys are in one slot and one database.        *)
(*                                                                         *)
(* A value is the number of the write that made it.  A request is run by a *)
(* server while its slot is open, and fillSlot waits for it, so that it is *)
(* dispatched, run and answered in one step.                               *)
(***************************************************************************)
EXTENDS Naturals, Sequences, FiniteSets, Subsequences

CONSTANTS
    HkProxies, HkKeys,
    HkReqs,         \* requests of clients, each made once
    MaxEntries,     \* config.HotKeyCacheMaxEntries
    QueueSize,      \* config.HotKeyCacheBroadcastQueueSize
    MaxHkFills      \* bound: fills of the slot

ASSUME HotKeyCacheAssumption ==
    /\ HkProxies # {} /\ HkKeys # {}
    /\ MaxEntries \in Nat \ {0} /\ QueueSize \in Nat /\ MaxHkFills \in Nat

VARIABLES
    hkData,         \* the value of every key on the servers
    hkReq,          \* the requests
    hkEntries,      \* HotKeyCache.entries: keys to values and the version of their slot
    hkLru,          \* HotKeyCache.lru, the front first
    hkVersion,      \* HotKeyCache.version
    hkSlotVersion,  \* Router.slotVersions of the slot
    hkSlot,         \* is the slot of the proxy stable, migrating or held
    hkQueue,        \* hotKeyCacheBroadcastReporter.queue
    hkPending,      \* what its loop has merged
    hkCalls,        \* calls of InvalidateHotKeyCache under way
    hkFills,
    hkSeen,         \* per proxy and key: the last write it has invalidated the key for
    hkGap,          \* keys stored although their version had changed since the check
    hkLost          \* was an invalidation dropped or lost

hkCacheVars == <<hkEntries, hkLru>>
hkVars == <<hkData, hkReq, hkCacheVars, hkVersion, hkSlotVersion, hkSlot,
            hkQueue, hkPending, hkCalls, hkFills, hkSeen, hkGap, hkLost>>

None0  == [val |-> 0, sv |-> 0]
NoHkReq == [stage |-> "new", op |-> "get", proxy |-> CHOOSE p \in HkProxies : TRUE,
            key |-> CHOOSE k \in HkKeys : TRUE, val |-> 0, sv |-> 0, cv |-> 0]

Larger(m, n) == IF m < n THEN n ELSE m

HkInit ==
    /\ hkData = [k \in HkKeys |-> 1]
    /\ hkReq = [q \in HkReqs |-> NoHkReq]
    /\ hkEntries = [p \in HkProxies |-> [k \in HkKeys |-> None0]]
    /\ hkLru = [p \in HkProxies |-> << >>]
    /\ hkVersion = [p \in HkProxies |-> 0]
    /\ hkSlotVersion = [p \in HkProxies |-> 1]
    /\ hkSlot = [p \in HkProxies |-> "stable"]
    /\ hkQueue = [p \in HkProxies |-> << >>]
    /\ hkPending = [p \in HkProxies |-> {}]
    /\ hkCalls = {}
    /\ hkFills = 0
    /\ hkSeen = [p \in HkProxies |-> [k \in HkKeys |-> 0]]
    /\ hkGap = [p \in HkProxies |-> {}]
    /\ hkLost = FALSE

-----------------------------------------------------------------------------
(* The cache.                                                              *)

Without(lru, K) == OnlyIn(lru, HkKeys \ K)

(* HotKeyCache.removeElement of some keys.                                 *)
Remove(p, K) ==
    /\ hkEntries' = [hkEntries EXCEPT ![p] = [k \in HkKeys |-> IF k \in K THEN None0 ELSE @[k]]]
    /\ hkLru' = [hkLru EXCEPT ![p] = Without(@, K)]

(* HotKeyCache.store: the entry goes to the front, and entries at the back *)
(* are evicted when there are too many.                                    *)
store(p, k, e) ==
    LET lru  == <<k>> \o Without(hkLru[p], {k})
        kept == SubSeq(lru, 1, IF Len(lru) > MaxEntries THEN MaxEntries ELSE Len(lru))
        gone == {lru[i] : i \in Len(kept) + 1 .. Len(lru)}
    IN  /\ hkLru' = [hkLru EXCEPT ![p] = kept]
        /\ hkEntries' = [hkEntries EXCEPT ![p] =
                            [l \in HkKeys |-> IF l = k THEN e ELSE IF l \in gone THEN None0 ELSE @[l]]]

(* HotKeyCache.get of an entry that has expired.                           *)
Expire(p, k) ==
    /\ hkEntries[p][k] # None0
    /\ Remove(p, {k})
    /\ UNCHANGED <<hkData, hkReq, hkVersion, hkSlotVersion, hkSlot, hkQueue, hkPending, hkCalls,
                   hkFills, hkSeen, hkGap, hkLost>>

-----------------------------------------------------------------------------
(* Requests.                                                               *)

At(q, stage) == hkReq' = [hkReq EXCEPT ![q].stage = stage]

(* handleRequestGet and MGET: a hit is answered from the cache, a miss has *)
(* a token if the slot is stable.                                          *)
Get(q, p, k) ==
    /\ hkReq[q].stage = "new"
    /\ hkSlot[p] = "stable" => hkEntries[p][k] = None0
    /\ hkReq' = [hkReq EXCEPT ![q] = [stage |-> IF hkSlot[p] = "stable" THEN "token" ELSE "plain", op |-> "get",
                                      proxy |-> p, key |-> k, val |-> 0,
                                      sv |-> hkSlotVersion[p], cv |-> hkVersion[p]]]
    /\ UNCHANGED <<hkData, hkCacheVars, hkVersion, hkSlotVersion, hkSlot, hkQueue, hkPending, hkCalls,
                   hkFills, hkSeen, hkGap, hkLost>>

Hit(q, p, k) ==
    /\ hkReq[q].stage = "new"
    /\ hkSlot[p] = "stable" /\ hkEntries[p][k] # None0
    /\ hkReq' = [hkReq EXCEPT ![q] = [NoHkReq EXCEPT !.stage = "done", !.proxy = p, !.key = k]]
    /\ hkLru' = [hkLru EXCEPT ![p] = <<k>> \o Without(@, {k})]
    /\ UNCHANGED <<hkData, hkEntries, hkVersion, hkSlotVersion, hkSlot, hkQueue, hkPending, hkCalls,
                   hkFills, hkSeen, hkGap, hkLost>>

(* Commands that write: "set" names its key, "eval" may write any.         *)
Update(q, p, k, op) ==
    /\ hkReq[q].stage = "new"
    /\ hkReq' = [hkReq EXCEPT ![q] = [NoHkReq EXCEPT !.stage = "sent", !.op = op, !.proxy = p, !.key = k]]
    /\ UNCHANGED <<hkData, hkCacheVars, hkVersion, hkSlotVersion, hkSlot, hkQueue, hkPending, hkCalls,
                   hkFills, hkSeen, hkGap, hkLost>>

(* The server runs the request; the answer to a write may be lost.         *)
RunRequest(q) ==
    LET k == hkReq[q].key
    IN  /\ hkReq[q].stage \in {"token", "plain", "sent"}
        /\ hkSlot[hkReq[q].proxy] \notin {"held", "filling"}
        /\ \/ /\ hkReq[q].op = "get"
              /\ hkReq' = [hkReq EXCEPT ![q].stage = IF @ = "token" THEN "read" ELSE "done", ![q].val = hkData[k]]
              /\ UNCHANGED hkData
           \/ /\ hkReq[q].op # "get"
              /\ hkData' = [hkData EXCEPT ![k] = @ + 1]
              /\ \E op \in {hkReq[q].op, "failed"} :
                    hkReq' = [hkReq EXCEPT ![q].stage = "ran", ![q].val = hkData[k] + 1, ![q].op = op]
    /\ UNCHANGED <<hkCacheVars, hkVersion, hkSlotVersion, hkSlot, hkQueue, hkPending, hkCalls,
                   hkFills, hkSeen, hkGap, hkLost>>

(* Router.hotKeyCacheStore: the versions are compared ...                  *)
hotKeyCacheStore(q) ==
    LET r == hkReq[q]
    IN  /\ r.stage = "read"
        /\ At(q, IF r.sv = hkSlotVersion[r.proxy] /\ r.cv = hkVersion[r.proxy] /\ hkSlot[r.proxy] = "stable"
                 THEN "checked" ELSE "done")
        /\ UNCHANGED <<hkData, hkCacheVars, hkVersion, hkSlotVersion, hkSlot, hkQueue, hkPending, hkCalls,
                       hkFills, hkSeen, hkGap, hkLost>>

(* ... and then the value is stored.                                       *)
StoreChecked(q) ==
    LET r == hkReq[q]
    IN  /\ r.stage = "checked"
        /\ store(r.proxy, r.key, [val |-> r.val, sv |-> r.sv])
        /\ hkGap' = [hkGap EXCEPT ![r.proxy] = IF hkVersion[r.proxy] # r.cv THEN @ \cup {r.key} ELSE @ \ {r.key}]
        /\ At(q, "done")
        /\ UNCHANGED <<hkData, hkVersion, hkSlotVersion, hkSlot, hkQueue, hkPending, hkCalls, hkFills, hkSeen, hkLost>>

-----------------------------------------------------------------------------
(* Invalidation: the version is counted first, then the entry is removed.  *)

Bump(p) == hkVersion' = [hkVersion EXCEPT ![p] = @ + 1]

(* hotKeyCacheInvalidationPlanForRequest: the whole database for scripts.  *)
Plan(q) == IF hkReq[q].op = "eval" THEN HkKeys ELSE {hkReq[q].key}

(* hotKeyCacheInvalidationPlan.apply, called by Request.Coalesce when the  *)
(* write was answered: invalidateKey or invalidateDatabase, ...            *)
InvalidateBump(q) ==
    /\ hkReq[q].stage = "ran"
    /\ Bump(hkReq[q].proxy)
    /\ At(q, "bumped")
    /\ UNCHANGED <<hkData, hkCacheVars, hkSlotVersion, hkSlot, hkQueue, hkPending, hkCalls,
                   hkFills, hkSeen, hkGap, hkLost>>

(* ... and Enqueue for a write that names its key and was answered well,   *)
(* which drops the event when the queue is full.  Then comes the reply.    *)
InvalidateRemove(q) ==
    LET p == hkReq[q].proxy
        e == [key |-> hkReq[q].key, val |-> hkReq[q].val]
    IN  /\ hkReq[q].stage = "bumped"
        /\ Remove(p, Plan(q))
        /\ hkSeen' = [hkSeen EXCEPT ![p][e.key] = Larger(@, e.val)]
        /\ \/ /\ hkReq[q].op = "set" /\ Len(hkQueue[p]) < QueueSize
              /\ hkQueue' = [hkQueue EXCEPT ![p] = Append(@, e)]
              /\ UNCHANGED hkLost
           \/ /\ hkReq[q].op # "set" \/ Len(hkQueue[p]) >= QueueSize
              /\ hkLost' = TRUE
              /\ UNCHANGED hkQueue
        /\ hkGap' = [hkGap EXCEPT ![p] = @ \ Plan(q)]
        /\ At(q, "done")
        /\ UNCHANGED <<hkData, hkVersion, hkSlotVersion, hkSlot, hkPending, hkCalls, hkFills>>

(* Mutant: an event for a key that is pending already replaces all others. *)
mergePending_Replaces(p) ==
    /\ hkQueue[p] # << >>
    /\ hkPending' = [hkPending EXCEPT ![p] = {Head(hkQueue[p])}]
    /\ hkQueue' = [hkQueue EXCEPT ![p] = Tail(@)]
    /\ UNCHANGED <<hkData, hkReq, hkCacheVars, hkVersion, hkSlotVersion, hkSlot, hkCalls,
                   hkFills, hkSeen, hkGap, hkLost>>

(* hotKeyCacheBroadcastReporter.loop: events are merged until the timer    *)
(* fires ...                                                               *)
mergePending(p) ==
    /\ hkQueue[p] # << >>
    /\ hkPending' = [hkPending EXCEPT ![p] = @ \cup {Head(hkQueue[p])}]
    /\ hkQueue' = [hkQueue EXCEPT ![p] = Tail(@)]
    /\ UNCHANGED <<hkData, hkReq, hkCacheVars, hkVersion, hkSlotVersion, hkSlot, hkCalls,
                   hkFills, hkSeen, hkGap, hkLost>>

(* ... and reported to the dashboard, whose HotKeyCacheInvalidate calls    *)
(* the other proxies; or the dashboard does not answer.                    *)
flushPending(p) ==
    /\ hkPending[p] # {}
    /\ hkPending' = [hkPending EXCEPT ![p] = {}]
    /\ \/ /\ hkCalls' = hkCalls \cup [to: HkProxies \ {p}, what: hkPending[p], stage: {"call"}]
          /\ UNCHANGED hkLost
       \/ hkLost' = TRUE /\ UNCHANGED hkCalls
    /\ UNCHANGED <<hkData, hkReq, hkCacheVars, hkVersion, hkSlotVersion, hkSlot, hkQueue, hkFills, hkSeen, hkGap>>

(* HotKeyCache.invalidateRemote, in the same two steps.                    *)
RemoteBump(c) ==
    /\ c.stage = "call"
    /\ Bump(c.to)
    /\ hkCalls' = (hkCalls \ {c}) \cup {[c EXCEPT !.stage = "bumped"]}
    /\ UNCHANGED <<hkData, hkReq, hkCacheVars, hkSlotVersion, hkSlot, hkQueue, hkPending, hkFills, hkSeen, hkGap, hkLost>>

RemoteRemove(c) ==
    /\ c.stage = "bumped"
    /\ Remove(c.to, {c.what.key})
    /\ hkSeen' = [hkSeen EXCEPT ![c.to][c.what.key] = Larger(@, c.what.val)]
    /\ hkGap' = [hkGap EXCEPT ![c.to] = @ \ {c.what.key}]
    /\ hkCalls' = hkCalls \ {c}
    /\ UNCHANGED <<hkData, hkReq, hkVersion, hkSlotVersion, hkSlot, hkQueue, hkPending, hkFills, hkLost>>

LoseCall(c) ==
    /\ c.stage = "call"
    /\ hkCalls' = hkCalls \ {c}
    /\ hkLost' = TRUE
    /\ UNCHANGED <<hkData, hkReq, hkCacheVars, hkVersion, hkSlotVersion, hkSlot, hkQueue, hkPending, hkFills, hkSeen, hkGap>>

-----------------------------------------------------------------------------
(* Router.fillSlot: the slot is held, hotKeyCacheInvalidateSlot counts the *)
(* versions and removes its entries, and the slot is opened again or not.  *)

FillVersions(p) ==
    /\ hkSlot[p] # "filling"
    /\ hkFills < MaxHkFills /\ hkFills' = hkFills + 1
    /\ hkSlot' = [hkSlot EXCEPT ![p] = "filling"]
    /\ hkSlotVersion' = [hkSlotVersion EXCEPT ![p] = @ + 1]
    /\ Bump(p)
    /\ UNCHANGED <<hkData, hkReq, hkCacheVars, hkQueue, hkPending, hkCalls, hkSeen, hkGap, hkLost>>

(* Mutant: the entries of the slot stay.                                   *)
FillRemove_Keeps(p, s) ==
    /\ hkSlot[p] = "filling"
    /\ hkSlot' = [hkSlot EXCEPT ![p] = s]
    /\ UNCHANGED <<hkData, hkReq, hkCacheVars, hkVersion, hkSlotVersion, hkQueue, hkPending, hkCalls,
                   hkFills, hkSeen, hkGap, hkLost>>

FillRemove(p, s) ==
    /\ hkSlot[p] = "filling"
    /\ hkSlot' = [hkSlot EXCEPT ![p] = s]
    /\ Remove(p, HkKeys)
    /\ hkGap' = [hkGap EXCEPT ![p] = {}]
    /\ UNCHANGED <<hkData, hkReq, hkVersion, hkSlotVersion, hkQueue, hkPending, hkCalls, hkFills, hkSeen, hkLost>>

-----------------------------------------------------------------------------
HkNext ==
    \/ \E q \in HkReqs, p \in HkProxies, k \in HkKeys :
          \/ Get(q, p, k) \/ Hit(q, p, k)
          \/ \E op \in {"set", "eval"} : Update(q, p, k, op)
    \/ \E q \in HkReqs : \/ RunRequest(q) \/ hotKeyCacheStore(q) \/ StoreChecked(q)
                         \/ InvalidateBump(q) \/ InvalidateRemove(q)
    \/ \E p \in HkProxies : \/ mergePending(p) \/ flushPending(p)
                            \/ FillVersions(p)
                            \/ \E s \in {"stable", "migrating", "held"} : FillRemove(p, s)
                            \/ \E k \in HkKeys : Expire(p, k)
    \/ \E c \in hkCalls : RemoteBump(c) \/ RemoteRemove(c) \/ LoseCall(c)

HkSpec == HkInit /\ [][HkNext]_hkVars

-----------------------------------------------------------------------------
(* Properties.                                                             *)

(* Types of the variables; the list and the entries are the same keys, no  *)
(* more than there may be.                                                 *)
HkTypeOK ==
    /\ hkData \in [HkKeys -> Nat]
    /\ \A q \in HkReqs : hkReq[q].stage \in {"new", "token", "plain", "sent", "read", "checked", "ran", "bumped", "done"}
    /\ hkSlot \in [HkProxies -> {"stable", "migrating", "held", "filling"}]
    /\ \A p \in HkProxies :
          /\ Len(hkLru[p]) <= MaxEntries
          /\ Len(hkQueue[p]) <= QueueSize
          /\ {hkLru[p][i] : i \in DOMAIN hkLru[p]} = {k \in HkKeys : hkEntries[p][k] # None0}
          /\ \A i, j \in DOMAIN hkLru[p] : hkLru[p][i] = hkLru[p][j] => i = j

Current(p, k) ==
    hkEntries[p][k] # None0 =>
        /\ hkEntries[p][k].val >= hkSeen[p][k]
        /\ hkSlot[p] # "filling" => hkEntries[p][k].sv = hkSlotVersion[p]

(* What a proxy has cached is no older than the last write it has          *)
(* invalidated the key for, its own or one it was told of, and no older    *)
(* than the last fill of the slot, but for one window: the value was       *)
(* stored after an invalidation that came between the comparison of the    *)
(* versions and the store (hot_key_cache.go:353-366).                      *)
StaleOnlyByGap == \A p \in HkProxies, k \in HkKeys : Current(p, k) \/ k \in hkGap[p]

(* Unless an invalidation is dropped or lost on the way, every proxy is    *)
(* told of the last write of every key at any of them                      *)
(* (hot_key_cache_broadcast.go:132-171, topom_hot_key_cache.go:43-101).    *)
BroadcastsReach ==
    <>[](hkLost \/ \A p, o \in HkProxies, k \in HkKeys : hkSeen[p][k] = hkSeen[o][k])

(* The cache stays within its limits, its list is that of its entries, and *)
(* what it holds is not stale but for the window.                          *)
CacheIsSound == HkTypeOK /\ StaleOnlyByGap
=============================================================================
