------------------------------ MODULE AuthGuard ------------------------------
(***************************************************************************)
(* AUTH with a password for the proxy (pkg/proxy/session_auth.go) and the  *)
(* guard that refuses addresses with too many failures                     *)
(* (pkg/proxy/auth_bruteforce.go).                                         *)
(*                                                                         *)
(* A session reads the clock once, then enters the guard before and after  *)
(* it compares the password: two critical sections with sessions of the    *)
(* same address in between.  0 is the zero time, the clock starts at 1.    *)
(***************************************************************************)
EXTENDS Naturals, FiniteSets

CONSTANTS
    AgSessions, AgIPs,
    AgIP,               \* the address of a session
    MaxTracked,         \* maxTrackedIPs
    MaxFailures,        \* maxFailures
    LockDuration,       \* lockDuration
    MaxAgClock          \* bound: time

ASSUME AuthGuardAssumption ==
    /\ AgIP \in [AgSessions -> AgIPs] /\ IsFiniteSet(AgSessions)
    /\ MaxTracked \in Nat \ {0} /\ MaxFailures \in Nat \ {0} /\ LockDuration \in Nat \ {0}
    /\ MaxAgClock \in Nat \ {0}

VARIABLES
    agClock,
    agRecords,      \* records: those of the addresses that are tracked
    agAuthorized,   \* Session.authorized
    agNow,          \* the time of the AUTH a session is in, 0 for none
    agGuesses       \* wrong passwords compared since an address was last forgotten

agVars == <<agClock, agRecords, agAuthorized, agNow, agGuesses>>

NewRecord == [failures |-> 0, last |-> 0, until |-> 0]
NoRecords == [ip \in {} |-> NewRecord]
Tracked   == DOMAIN agRecords

AgInit ==
    /\ agClock = 1
    /\ agRecords = NoRecords
    /\ agAuthorized = [s \in AgSessions |-> FALSE]
    /\ agNow = [s \in AgSessions |-> 0]
    /\ agGuesses = [ip \in AgIPs |-> 0]

AgTick ==
    /\ agClock < MaxAgClock
    /\ agClock' = agClock + 1
    /\ UNCHANGED <<agRecords, agAuthorized, agNow, agGuesses>>

-----------------------------------------------------------------------------
(* Records.                                                                *)

isLocked(r, now) == r.until # 0 /\ now < r.until

(* A lock that is over, or a failure that is too old.  The times of two    *)
(* callers may be in the wrong order: a difference below 0 is not too old. *)
expired(r, now) ==
    IF r.until # 0 THEN now >= r.until
    ELSE r.last # 0 /\ now >= r.last + LockDuration

Forgotten(recs, ips) == [ip \in DOMAIN recs \ ips |-> recs[ip]]

expireRecordLocked(recs, ip, now) == IF expired(recs[ip], now) THEN Forgotten(recs, {ip}) ELSE recs

cleanupExpiredLocked(recs, now) == Forgotten(recs, {ip \in DOMAIN recs : expired(recs[ip], now)})

(* The records that one of may be dropped for a new address: the oldest    *)
(* that are not locked.                                                    *)
Evictable(recs, now) ==
    LET unlocked == {ip \in DOMAIN recs : ~ isLocked(recs[ip], now)}
    IN  {ip \in unlocked : \A other \in unlocked : recs[ip].last <= recs[other].last}

(* Mutant: the oldest one, locked or not.                                  *)
ensureCapacityLocked_AnyOldest(recs, now) ==
    LET left == cleanupExpiredLocked(recs, now)
    IN  IF Cardinality(DOMAIN left) < MaxTracked THEN {left}
        ELSE {Forgotten(left, {ip}) : ip \in {i \in DOMAIN left : \A o \in DOMAIN left : left[i].last <= left[o].last}}

(* The ways to make room; none when every address is locked.               *)
ensureCapacityLocked(recs, now) ==
    LET left == cleanupExpiredLocked(recs, now)
    IN  IF Cardinality(DOMAIN left) < MaxTracked THEN {left}
        ELSE {Forgotten(left, {ip}) : ip \in Evictable(left, now)}

failed(r, now) ==
    [failures |-> r.failures + 1, last |-> now,
     until |-> IF r.failures + 1 >= MaxFailures THEN now + LockDuration ELSE 0]

(* An address whose records are gone is forgotten: it may guess anew.      *)
Forget(recs) == [ip \in AgIPs |-> IF ip \in Tracked \ DOMAIN recs THEN 0 ELSE agGuesses[ip]]

-----------------------------------------------------------------------------
(* handleLegacyAuth.                                                       *)

(* BeforeAuth: a session that was authorized is not looked at.             *)
BeforeAuth(s) ==
    LET ip == AgIP[s]
    IN  /\ agNow[s] = 0
        /\ \/ /\ agAuthorized[s] \/ ip \notin Tracked
              /\ agNow' = [agNow EXCEPT ![s] = agClock]
              /\ UNCHANGED <<agRecords, agGuesses>>
           \/ /\ ~ agAuthorized[s] /\ ip \in Tracked
              /\ ~ isLocked(agRecords[ip], agClock)
              /\ agRecords' = expireRecordLocked(agRecords, ip, agClock)
              /\ agGuesses' = Forget(agRecords')
              /\ agNow' = [agNow EXCEPT ![s] = agClock]
        /\ UNCHANGED <<agClock, agAuthorized>>

(* RecordAuthFailure, with the time that was read before BeforeAuth.       *)
RecordAuthFailure(s) ==
    LET ip  == AgIP[s]
        now == agNow[s]
    IN  \/ /\ ip \in Tracked
           /\ isLocked(agRecords[ip], now)
           /\ agGuesses' = [agGuesses EXCEPT ![ip] = @ + 1]
           /\ UNCHANGED agRecords
        \/ /\ ip \in Tracked
           /\ ~ isLocked(agRecords[ip], now) /\ ~ expired(agRecords[ip], now)
           /\ agRecords' = [agRecords EXCEPT ![ip] = failed(@, now)]
           /\ agGuesses' = [agGuesses EXCEPT ![ip] = @ + 1]
        \/ /\ ip \in Tracked => expired(agRecords[ip], now)
           /\ LET recs == IF ip \in Tracked THEN Forgotten(agRecords, {ip}) ELSE agRecords
                  room == ensureCapacityLocked(recs, now)
              IN  \/ /\ room = {}
                     /\ agRecords' = cleanupExpiredLocked(recs, now)
                     /\ agGuesses' = Forget(agRecords')
                  \/ \E left \in room :
                        /\ agRecords' = [i \in DOMAIN left \cup {ip} |->
                                            IF i = ip THEN failed(NewRecord, now) ELSE left[i]]
                        /\ agGuesses' = [Forget(left) EXCEPT ![ip] = 1]

AuthFails(s) ==
    /\ agNow[s] # 0
    /\ agAuthorized' = [agAuthorized EXCEPT ![s] = FALSE]
    /\ agNow' = [agNow EXCEPT ![s] = 0]
    /\ IF agAuthorized[s] THEN UNCHANGED <<agRecords, agGuesses>> ELSE RecordAuthFailure(s)
    /\ UNCHANGED agClock

(* RecordAuthSuccess.                                                      *)
AuthSucceeds(s) ==
    /\ agNow[s] # 0
    /\ agAuthorized' = [agAuthorized EXCEPT ![s] = TRUE]
    /\ agNow' = [agNow EXCEPT ![s] = 0]
    /\ agRecords' = Forgotten(agRecords, {AgIP[s]})
    /\ agGuesses' = [agGuesses EXCEPT ![AgIP[s]] = 0]
    /\ UNCHANGED agClock

(* Statistics drop the records that are over.                              *)
GuardStats ==
    /\ agRecords' = cleanupExpiredLocked(agRecords, agClock)
    /\ agGuesses' = Forget(agRecords')
    /\ UNCHANGED <<agClock, agAuthorized, agNow>>

(* The client leaves and another one of that address is accepted.          *)
AgReconnects(s) ==
    /\ agNow[s] = 0 /\ agAuthorized[s]
    /\ agAuthorized' = [agAuthorized EXCEPT ![s] = FALSE]
    /\ UNCHANGED <<agClock, agRecords, agNow, agGuesses>>

AgNext ==
    \/ AgTick \/ GuardStats
    \/ \E s \in AgSessions : BeforeAuth(s) \/ AuthFails(s) \/ AuthSucceeds(s) \/ AgReconnects(s)

AgSpec == AgInit /\ [][AgNext]_agVars

-----------------------------------------------------------------------------
(* Properties.                                                             *)

(* Types of the variables; no more addresses are tracked than the limit    *)
(* (auth_bruteforce.go:181-203).                                           *)
AgTypeOK ==
    /\ agClock \in 1 .. MaxAgClock
    /\ Tracked \subseteq AgIPs /\ Cardinality(Tracked) <= MaxTracked
    /\ \A ip \in Tracked :
          /\ agRecords[ip].failures \in 1 .. MaxFailures
          /\ agRecords[ip].last \in 1 .. agClock
          /\ agRecords[ip].until # 0 <=> agRecords[ip].failures = MaxFailures
    /\ agNow \in [AgSessions -> 0 .. agClock]

(* An address that is locked stays so until its time has come: room for    *)
(* others, statistics and callers with an older time do not unlock it.     *)
(* Only a session of that address that gives the password does             *)
(* (auth_bruteforce.go:145-157, 181-233).                                  *)
LocksLast ==
    [][\A ip \in Tracked :
          isLocked(agRecords[ip], agClock) /\ (ip \in DOMAIN agRecords' => agRecords'[ip] # agRecords[ip]) =>
              \E s \in AgSessions :
                 AgIP[s] = ip /\ agNow[s] # 0 /\ ip \notin DOMAIN agRecords' /\ agAuthorized'[s]]_agVars

(* However many sessions of an address enter at once, it compares no more  *)
(* wrong passwords before it is forgotten than the limit and one for each  *)
(* other session that had entered before the lock                          *)
(* (session_auth.go:44-63, auth_bruteforce.go:80-143).                     *)
GuessesAreBounded ==
    \A ip \in Tracked :
        agGuesses[ip] <= MaxFailures + Cardinality({s \in AgSessions : AgIP[s] = ip}) - 1

(* Guessing is bounded and a lock lasts, within the limit of tracked       *)
(* addresses (auth_bruteforce.go:176-233).                                 *)
GuardHolds == [](AgTypeOK /\ GuessesAreBounded) /\ LocksLast
=============================================================================
