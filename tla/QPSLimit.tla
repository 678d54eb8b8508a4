------------------------------ MODULE QPSLimit ------------------------------
(***************************************************************************)
(* The limit of commands per second: a token bucket in a proxy             *)
(* (pkg/proxy/qps_limiter.go) and the dashboard that stores the limit and  *)
(* sends it to the proxy (pkg/topom/topom_qps_limit.go).                   *)
(*                                                                         *)
(* Callers of the bucket read the clock before they get its lock.  A       *)
(* second has Ticks ticks and tokens are counted in parts of 1 / Ticks.    *)
(***************************************************************************)
EXTENDS Naturals

CONSTANTS
    QlCallers,      \* sessions that ask for a token
    QlLimits,       \* limits that may be set; 0 for none
    Ticks,          \* ticks of a second
    MaxClock,       \* bound: time
    MaxQlRev        \* bound: revisions

ASSUME QPSLimitAssumption ==
    QlLimits \subseteq Nat /\ Ticks \in Nat \ {0} /\ MaxClock \in Nat /\ MaxQlRev \in Nat

VARIABLES
    qlClock,
    qlBucket,       \* QPSLimiter: revision, limit, tokens, lastRefill
    qlCaller,       \* the time a session has read, or MaxClock + 1 when it does not ask
    qlSet,          \* the SetLimit that waits for the lock
    qlStore,        \* the limit in the store
    qlCache,        \* Topom.cache.proxyQPSLimit; revision MaxQlRev + 1 when it is dirty
    qlOp,           \* UpdateProxyQPSLimit under way: its limit, its stage
    qlLate,         \* calls the dashboard does not wait for any more
    qlReady,        \* has the last update been taken by the proxy
    qlOver,         \* was a limit overwritten by an older one
    qlWindow        \* a window of time: its begin and the commands let through in it

qlVars == <<qlClock, qlBucket, qlCaller, qlSet, qlStore, qlCache, qlOp, qlLate, qlReady, qlOver, qlWindow>>

Never   == MaxClock + 1
NoLimit == [rev |-> 0, limit |-> 0]
Dirty   == [rev |-> MaxQlRev + 1, limit |-> 0]
NoSet   == [now |-> Never, rev |-> 0, limit |-> 0, late |-> FALSE]
NoQlOp  == [stage |-> "none", rev |-> 0, limit |-> 0]

QlInit ==
    /\ qlClock = 0
    /\ qlBucket = [rev |-> 0, limit |-> 0, tokens |-> 0, refill |-> 0]
    /\ qlCaller = [c \in QlCallers |-> Never]
    /\ qlSet = NoSet
    /\ qlStore = NoLimit /\ qlCache = Dirty
    /\ qlOp = NoQlOp
    /\ qlLate = {}
    /\ qlReady = FALSE /\ qlOver = FALSE
    /\ qlWindow = [from |-> 0, passed |-> 0]

Tick ==
    /\ qlClock < MaxClock
    /\ qlClock' = qlClock + 1
    /\ UNCHANGED <<qlBucket, qlCaller, qlSet, qlStore, qlCache, qlOp, qlLate, qlReady, qlOver, qlWindow>>

-----------------------------------------------------------------------------
(* QPSLimiter.                                                             *)

Smaller(m, n) == IF m < n THEN m ELSE n

AskToken(c) ==
    /\ qlCaller[c] = Never
    /\ qlCaller' = [qlCaller EXCEPT ![c] = qlClock]
    /\ UNCHANGED <<qlClock, qlBucket, qlSet, qlStore, qlCache, qlOp, qlLate, qlReady, qlOver, qlWindow>>

(* Mutant: tokens are added for the same time again.                       *)
refillLocked_Again(b, now) ==
    IF now <= b.refill THEN b
    ELSE [b EXCEPT !.tokens = Smaller(@ + (now - b.refill) * b.limit, b.limit * Ticks)]

(* Tokens for the time since the last refill, no more than of a second.  A *)
(* caller whose time has been overtaken adds none.                         *)
refillLocked(b, now) ==
    IF now <= b.refill THEN b
    ELSE [b EXCEPT !.tokens = Smaller(@ + (now - b.refill) * b.limit, b.limit * Ticks), !.refill = now]

Allow(c) ==
    LET b == refillLocked(qlBucket, qlCaller[c])
    IN  /\ qlCaller[c] # Never
        /\ qlCaller' = [qlCaller EXCEPT ![c] = Never]
        /\ \/ qlBucket.limit = 0 /\ UNCHANGED <<qlBucket, qlWindow>>
           \/ /\ qlBucket.limit # 0 /\ b.tokens >= Ticks
              /\ qlBucket' = [b EXCEPT !.tokens = @ - Ticks]
              /\ qlWindow' = [qlWindow EXCEPT !.passed = @ + 1]
           \/ /\ qlBucket.limit # 0 /\ b.tokens < Ticks
              /\ qlBucket' = b
              /\ UNCHANGED qlWindow
        /\ UNCHANGED <<qlClock, qlSet, qlStore, qlCache, qlOp, qlLate, qlReady, qlOver>>

(* The window that RateIsBounded looks at may begin at any refill.         *)
WindowBegins ==
    /\ qlWindow # [from |-> qlBucket.refill, passed |-> 0]
    /\ qlWindow' = [from |-> qlBucket.refill, passed |-> 0]
    /\ UNCHANGED <<qlClock, qlBucket, qlCaller, qlSet, qlStore, qlCache, qlOp, qlLate, qlReady, qlOver>>

setTokens(limit) ==
    IF limit = 0 THEN 0
    ELSE IF qlBucket.limit = 0 THEN limit * Ticks
    ELSE Smaller(qlBucket.tokens, limit * Ticks)

(* SetLimit under the lock, with the time read before it: lastRefill may   *)
(* go back.  Revisions are not compared.                                   *)
SetLimit ==
    /\ qlSet # NoSet
    /\ qlBucket' = [rev |-> qlSet.rev, limit |-> qlSet.limit, tokens |-> setTokens(qlSet.limit), refill |-> qlSet.now]
    /\ qlWindow' = [from |-> qlSet.now, passed |-> 0]
    /\ qlOver' = (qlSet.late /\ qlSet.rev < qlStore.rev)
    /\ qlSet' = NoSet
    /\ qlOp' = IF qlSet.late THEN qlOp ELSE [qlOp EXCEPT !.stage = "taken"]
    /\ UNCHANGED <<qlClock, qlCaller, qlStore, qlCache, qlLate, qlReady>>

-----------------------------------------------------------------------------
(* The dashboard, under Topom.mu.                                          *)

CachedLimit == IF qlCache = Dirty THEN qlStore ELSE qlCache

buildProxyQPSLimit(limit) == [rev |-> CachedLimit.rev + 1, limit |-> limit]

(* The limit is stored first.                                              *)
UpdateProxyQPSLimit(limit) ==
    LET new == buildProxyQPSLimit(limit)
    IN  /\ qlOp = NoQlOp
        /\ CachedLimit.rev < MaxQlRev
        /\ qlReady' = FALSE
        /\ \/ /\ qlStore' = new /\ qlCache' = Dirty
              /\ qlOp' = [stage |-> "send", rev |-> new.rev, limit |-> new.limit]
           \/ /\ qlStore' \in {qlStore, new} /\ qlCache' = CachedLimit
              /\ UNCHANGED qlOp
        /\ UNCHANGED <<qlClock, qlBucket, qlCaller, qlSet, qlLate, qlOver, qlWindow>>

(* SetQPSLimit of the proxy is called; a call that waits too long fails,   *)
(* and is run later or never.                                              *)
syncProxyQPSLimit ==
    /\ qlOp.stage = "send"
    /\ \/ /\ qlSet = NoSet
          /\ qlSet' = [now |-> qlClock, rev |-> qlOp.rev, limit |-> qlOp.limit, late |-> FALSE]
          /\ qlOp' = [qlOp EXCEPT !.stage = "wait"]
          /\ UNCHANGED qlLate
       \/ /\ qlLate' = qlLate \cup {[rev |-> qlOp.rev, limit |-> qlOp.limit]}
          /\ qlOp' = NoQlOp
          /\ UNCHANGED qlSet
    /\ UNCHANGED <<qlClock, qlBucket, qlCaller, qlStore, qlCache, qlReady, qlOver, qlWindow>>

SyncEnds ==
    /\ qlOp.stage = "taken"
    /\ qlOp' = NoQlOp
    /\ qlReady' = TRUE
    /\ UNCHANGED <<qlClock, qlBucket, qlCaller, qlSet, qlStore, qlCache, qlLate, qlOver, qlWindow>>

LateCall ==
    /\ qlSet = NoSet
    /\ \E l \in qlLate :
          /\ qlLate' = qlLate \ {l}
          /\ qlSet' = [now |-> qlClock, rev |-> l.rev, limit |-> l.limit, late |-> TRUE]
    /\ UNCHANGED <<qlClock, qlBucket, qlCaller, qlStore, qlCache, qlOp, qlReady, qlOver, qlWindow>>

(* The proxy restarts with the limit of its file, and reinitProxy sends it *)
(* the stored one before it is started.                                    *)
ProxyRestarts(limit) ==
    /\ qlOp = NoQlOp /\ qlSet = NoSet
    /\ qlCache' = CachedLimit
    /\ LET now == IF CachedLimit.rev > 0 THEN CachedLimit ELSE [rev |-> 0, limit |-> limit]
       IN  qlBucket' = [rev |-> now.rev, limit |-> now.limit, tokens |-> now.limit * Ticks, refill |-> qlClock]
    /\ qlWindow' = [from |-> qlClock, passed |-> 0]
    /\ qlCaller' = [c \in QlCallers |-> Never]
    /\ qlLate' = {}
    /\ qlOver' = FALSE
    /\ UNCHANGED <<qlClock, qlSet, qlStore, qlOp, qlReady>>

-----------------------------------------------------------------------------
QlNext ==
    \/ Tick \/ WindowBegins \/ SetLimit
    \/ \E c \in QlCallers : AskToken(c) \/ Allow(c)
    \/ \E limit \in QlLimits : UpdateProxyQPSLimit(limit) \/ ProxyRestarts(limit)
    \/ syncProxyQPSLimit \/ SyncEnds \/ LateCall

QlSpec == QlInit /\ [][QlNext]_qlVars

-----------------------------------------------------------------------------
(* Properties.                                                             *)

(* Types of the variables; the bucket holds no more than a second's        *)
(* tokens, also after the limit was lowered.                               *)
QlTypeOK ==
    /\ qlBucket.limit \in QlLimits \cup {0} /\ qlBucket.tokens \in 0 .. qlBucket.limit * Ticks
    /\ qlBucket.refill \in 0 .. qlClock
    /\ qlStore.rev \in 0 .. MaxQlRev

(* In the time since any refill under one limit, a proxy lets through no   *)
(* more than the tokens of a second and those of that time, however late   *)
(* sessions that have read the clock come to the bucket                    *)
(* (qps_limiter.go:48-74, 126-149).                                        *)
RateIsBounded ==
    qlBucket.limit # 0 =>
        qlWindow.passed * Ticks <= qlBucket.limit * (Ticks + qlClock - qlWindow.from)

(* An update that was answered "ready" is in force at the proxy, also      *)
(* across restarts of it, unless a call that the dashboard has given up    *)
(* overwrites it (topom_qps_limit.go:42-60, topom_proxy.go:136-141).       *)
ReadyIsInForce ==
    qlReady /\ ~ qlOver /\ qlCache \in {Dirty, qlStore} =>
        qlBucket.rev = qlStore.rev /\ qlBucket.limit = qlStore.limit

(* The limit that was set is in force, and it is kept.                     *)
LimitIsKept == QlTypeOK /\ RateIsBounded /\ ReadyIsInForce
=============================================================================
