------------------------------ MODULE ProxyACL ------------------------------
(***************************************************************************)
(* The ACL inside of a proxy (pkg/proxy/router.go, session_auth.go,        *)
(* client_list.go, acl.go): SetACL of the dashboard replaces the snapshot, *)
(* marks the sessions and closes the pools of users, while sessions        *)
(* authenticate and send commands through pools of their own identity.     *)
(*                                                                         *)
(* There is one user and one address; a pool is an incarnation of          *)
(* sharedBackendConnPool.  Calls of SetACL take effect in any order, also  *)
(* against their revisions: the dashboard gives a call up after a while,   *)
(* and the proxy compares no revision (acl.go:43, router.go:127).          *)
(***************************************************************************)
EXTENDS Naturals

CONSTANTS
    PaSessions,
    PaCalls,        \* calls of SetACL, each made once
    PaACLs,         \* what SetACL may be given: [rev, on, db]
    MaxPools        \* bound: incarnations of pools

PaDbs   == 0 .. 1       \* databases; the user may be bound to 1
Unbound == 2

(* A revision names one ACL (RevisionsNameOneACL of ACL).                  *)
ASSUME ProxyACLAssumption ==
    /\ PaACLs \subseteq [rev: Nat \ {0}, on: BOOLEAN, db: {1, Unbound}]
    /\ \A a, b \in PaACLs : a.rev = b.rev => a = b
    /\ MaxPools \in Nat \ {0}

VARIABLES
    paSnap,         \* Router.acl.snapshot: revision, enabled, the database of the user
    paCall,         \* SetACL: stage, its argument, sessions to mark
    paId,           \* Session.aclIdentity: revision (0: none), stale, database
    paDb,           \* Session.database
    paAuth,         \* the snapshot handleACLAuth has read (0: no AUTH)
    paCmd,          \* the command of every session
    paPools,        \* Router.userPools, by revision: the pool (0: none)
    paShut,         \* pools that are closed
    paPanic,        \* was a request pushed to a connection that is closed
    paBack          \* history: has a SetACL put an older revision in force

paVars == <<paSnap, paCall, paId, paDb, paAuth, paCmd, paPools, paShut, paPanic, paBack>>

Revs   == {acl.rev : acl \in PaACLs}
NoId   == [rev |-> 0, stale |-> FALSE, db |-> Unbound]
NoAuth == [rev |-> 0, on |-> FALSE, db |-> Unbound]
NoCmd  == [stage |-> "none", db |-> 0, id |-> NoId, pool |-> 0, seen |-> {}]

PaInit ==
    /\ paSnap = NoAuth
    /\ paCall = [c \in PaCalls |-> [stage |-> "new", acl |-> NoAuth, mark |-> {}]]
    /\ paId = [s \in PaSessions |-> NoId]
    /\ paDb = [s \in PaSessions |-> 0]
    /\ paAuth = [s \in PaSessions |-> NoAuth]
    /\ paCmd = [s \in PaSessions |-> NoCmd]
    /\ paPools = [r \in Revs |-> 0]
    /\ paShut = {}
    /\ paPanic = FALSE /\ paBack = FALSE

-----------------------------------------------------------------------------
(* Router.SetACL.                                                          *)

(* The snapshot is replaced under its lock.  Nothing more is done when it  *)
(* was of this revision already.                                           *)
SetACL(c, acl) ==
    /\ paCall[c].stage = "new"
    /\ paSnap' = acl
    /\ LET same == paSnap.rev = acl.rev /\ paSnap.on = acl.on
       IN  paCall' = [paCall EXCEPT ![c] = [stage |-> IF same THEN "done" ELSE "mark", acl |-> acl,
                                            mark |-> IF same THEN {} ELSE PaSessions]]
    /\ paCmd' = [s \in PaSessions |-> [paCmd[s] EXCEPT !.seen = IF paCmd[s].stage = "none" THEN {} ELSE @ \cup {acl.rev}]]
    /\ paBack' = (paBack \/ acl.rev < paSnap.rev)
    /\ UNCHANGED <<paId, paDb, paAuth, paPools, paShut, paPanic>>

(* markACLStale, or clearACLAuthorization, session by session.             *)
markACLStale(c, s) ==
    /\ paCall[c].stage = "mark" /\ s \in paCall[c].mark
    /\ paCall' = [paCall EXCEPT ![c].mark = @ \ {s}]
    /\ paId' = [paId EXCEPT ![s] = IF ~ paCall[c].acl.on THEN NoId
                                   ELSE IF @.rev # 0 /\ @.rev # paCall[c].acl.rev THEN [@ EXCEPT !.stale = TRUE] ELSE @]
    /\ UNCHANGED <<paSnap, paDb, paAuth, paCmd, paPools, paShut, paPanic, paBack>>

(* Under userPools.mu.                                                     *)
closeUserBackendPools(c) ==
    /\ paCall[c].stage = "mark" /\ paCall[c].mark = {}
    /\ paCall' = [paCall EXCEPT ![c].stage = "done"]
    /\ paShut' = paShut \cup ({paPools[r] : r \in Revs} \ {0})
    /\ paPools' = [r \in Revs |-> 0]
    /\ UNCHANGED <<paSnap, paId, paDb, paAuth, paCmd, paPanic, paBack>>

-----------------------------------------------------------------------------
(* Sessions: one command at a time, AUTH among them.                       *)

Idle(s) == paCmd[s].stage = "none" /\ paAuth[s] = NoAuth

(* handleACLAuth reads the snapshot, ...                                   *)
AuthBegins(s) ==
    /\ Idle(s)
    /\ paSnap.on
    /\ paAuth' = [paAuth EXCEPT ![s] = paSnap]
    /\ UNCHANGED <<paSnap, paCall, paId, paDb, paCmd, paPools, paShut, paPanic, paBack>>

(* ... and sets the identity, whatever has become of it; a user that is    *)
(* bound to a database goes there.  Or the password is wrong.              *)
handleACLAuth(s) ==
    /\ paAuth[s] # NoAuth
    /\ \/ /\ paId' = [paId EXCEPT ![s] = [rev |-> paAuth[s].rev, stale |-> FALSE, db |-> paAuth[s].db]]
          /\ paDb' = [paDb EXCEPT ![s] = IF paAuth[s].db # Unbound THEN paAuth[s].db ELSE @]
       \/ paId' \in {paId, [paId EXCEPT ![s] = NoId]} /\ UNCHANGED paDb
    /\ paAuth' = [paAuth EXCEPT ![s] = NoAuth]
    /\ UNCHANGED <<paSnap, paCall, paCmd, paPools, paShut, paPanic, paBack>>

(* loopReader: a command is read with the database of the session.         *)
CommandBegins(s) ==
    /\ Idle(s)
    /\ paCmd' = [paCmd EXCEPT ![s] = [NoCmd EXCEPT !.stage = "read", !.db = paDb[s], !.seen = {paSnap.rev}]]
    /\ UNCHANGED <<paSnap, paCall, paId, paDb, paAuth, paPools, paShut, paPanic, paBack>>

End(s) == paCmd' = [paCmd EXCEPT ![s] = NoCmd]

(* Mutant: only the mark of SetACL counts.                                 *)
isACLAuthorized_Marked(s) ==
    /\ paCmd[s].stage = "read" /\ paSnap.on
    /\ \/ /\ paId[s].rev # 0 /\ ~ paId[s].stale
          /\ paCmd' = [paCmd EXCEPT ![s].stage = "checked"]
          /\ UNCHANGED paId
       \/ /\ paId[s].rev = 0 \/ paId[s].stale
          /\ paId' = [paId EXCEPT ![s] = NoId]
          /\ End(s)
    /\ UNCHANGED <<paSnap, paCall, paDb, paAuth, paPools, paShut, paPanic, paBack>>

isACLAuthorized(s) ==
    LET good == paId[s].rev # 0 /\ ~ paId[s].stale /\ paId[s].rev = paSnap.rev
    IN  /\ paCmd[s].stage = "read" /\ paSnap.on
        /\ \/ good /\ paCmd' = [paCmd EXCEPT ![s].stage = "checked"] /\ UNCHANGED paId
           \/ ~ good /\ paId' = [paId EXCEPT ![s] = NoId] /\ End(s)
        /\ UNCHANGED <<paSnap, paCall, paDb, paAuth, paPools, paShut, paPanic, paBack>>

(* A command without an identity ends: it goes by the pools of the proxy,  *)
(* or is a SELECT, which moves the session to any database.                *)
PlainCommand(s) ==
    /\ \E db \in PaDbs : paDb' = [paDb EXCEPT ![s] = db]
    /\ End(s)

(* The ACL is not enabled, and no identity is looked at: a session that    *)
(* has still one of before, bound to a database, leaves that by SELECT.    *)
NotEnabled(s) ==
    /\ paCmd[s].stage = "read" /\ ~ paSnap.on
    /\ PlainCommand(s)
    /\ UNCHANGED <<paSnap, paCall, paId, paAuth, paPools, paShut, paPanic, paBack>>

(* getACLIdentity, which may be gone by now: as if it were not enabled.    *)
getACLIdentity(s) ==
    /\ paCmd[s].stage = "checked"
    /\ \/ paId[s] = NoId /\ PlainCommand(s)
       \/ /\ paId[s] # NoId /\ paCmd' = [paCmd EXCEPT ![s].stage = "identity", ![s].id = paId[s]]
          /\ UNCHANGED paDb
    /\ UNCHANGED <<paSnap, paCall, paId, paAuth, paPools, paShut, paPanic, paBack>>

(* SELECT of a session that is bound says OK and does nothing.             *)
handleSelect(s, db) ==
    /\ paCmd[s].stage = "identity"
    /\ paDb' = [paDb EXCEPT ![s] = IF paCmd[s].id.db = Unbound /\ db \in PaDbs THEN db ELSE @]
    /\ End(s)
    /\ UNCHANGED <<paSnap, paCall, paId, paAuth, paPools, paShut, paPanic, paBack>>

(* Under userPools.mu.                                                     *)
aclIdentityCurrent(id) == paSnap.on /\ paSnap.rev = id.rev

UsedPools == UNION {{paPools[r] : r \in Revs}, paShut, {paCmd[s].pool : s \in PaSessions}}

(* userBackendPool finds the pool of the identity or makes one.            *)
userBackendPool(s) ==
    LET id == paCmd[s].id
    IN  /\ paCmd[s].stage = "identity"
        /\ \/ /\ ~ aclIdentityCurrent(id)
              /\ End(s) /\ UNCHANGED paPools
           \/ /\ aclIdentityCurrent(id) /\ paPools[id.rev] # 0
              /\ paCmd' = [paCmd EXCEPT ![s].stage = "pool", ![s].pool = paPools[id.rev]]
              /\ UNCHANGED paPools
           \/ /\ aclIdentityCurrent(id) /\ paPools[id.rev] = 0
              /\ \E n \in 1 .. MaxPools :
                    /\ n \notin UsedPools /\ \A m \in 1 .. n - 1 : m \in UsedPools
                    /\ paPools' = [paPools EXCEPT ![id.rev] = n]
                    /\ paCmd' = [paCmd EXCEPT ![s].stage = "pool", ![s].pool = n]
        /\ UNCHANGED <<paSnap, paCall, paId, paDb, paAuth, paShut, paPanic, paBack>>

(* GetOrCreate under the lock of the pool: nothing once it is closed.      *)
GetOrCreate(s) ==
    LET n == paCmd[s].pool
    IN  /\ paCmd[s].stage = "pool"
        /\ \/ n \in paShut /\ End(s)
           \/ n \notin paShut /\ paCmd' = [paCmd EXCEPT ![s].stage = "conn"]
        /\ UNCHANGED <<paSnap, paCall, paId, paDb, paAuth, paPools, paShut, paPanic, paBack>>

(* BackendConn.PushBack after the lock of the slot is released.            *)
PushUser(s) ==
    /\ paCmd[s].stage = "conn"
    /\ paPanic' = (paPanic \/ paCmd[s].pool \in paShut)
    /\ End(s)
    /\ UNCHANGED <<paSnap, paCall, paId, paDb, paAuth, paPools, paShut, paBack>>

-----------------------------------------------------------------------------
PaNext ==
    \/ \E c \in PaCalls : \/ \E acl \in PaACLs : SetACL(c, acl)
                          \/ \E s \in PaSessions : markACLStale(c, s)
                          \/ closeUserBackendPools(c)
    \/ \E s \in PaSessions :
          \/ AuthBegins(s) \/ handleACLAuth(s)
          \/ CommandBegins(s) \/ isACLAuthorized(s) \/ NotEnabled(s) \/ getACLIdentity(s)
          \/ \E db \in 0 .. 2 : handleSelect(s, db)
          \/ userBackendPool(s) \/ GetOrCreate(s) \/ PushUser(s)

PaSpec == PaInit /\ [][PaNext]_paVars

-----------------------------------------------------------------------------
(* Properties.                                                             *)

(* Types of the variables.                                                 *)
PaTypeOK ==
    /\ paSnap \in PaACLs \cup {NoAuth}
    /\ paId \in [PaSessions -> [rev: Revs \cup {0}, stale: BOOLEAN, db: {1, Unbound}]]
    /\ paDb \in [PaSessions -> PaDbs]
    /\ paPools \in [Revs -> 0 .. MaxPools]
    /\ paShut \subseteq 1 .. MaxPools

(* Pools of users are of the revision in force unless a SetACL is under    *)
(* way that will close them, whatever calls overlap and wherever the       *)
(* sessions are that make them (router.go:127-143, 197-242).               *)
PoolsAreCurrent ==
    (\A c \in PaCalls : paCall[c].stage # "mark") =>
        \A r \in Revs : paPools[r] # 0 => paSnap.on /\ r = paSnap.rev

(* A command passes with an identity only if its revision was in force at  *)
(* some time since the command was read, also when AUTH has overtaken or   *)
(* missed the marks of a SetACL (session_auth.go:183-196).                 *)
CommandsAreOfTheirTime ==
    \A s \in PaSessions : paCmd[s].id # NoId => paCmd[s].id.rev \in paCmd[s].seen

(* The command of a user that is bound goes to the database of its         *)
(* binding, wherever SELECT took the session while the ACL was off and     *)
(* whatever identity the marks of SetACL have missed - as long as no call  *)
(* puts an older revision in force again, when a session may pass with an  *)
(* identity it has left by SELECT in between (session_auth.go:101-127,     *)
(* session.go:325-336, 390-402).                                           *)
BoundStaysInDb ==
    paBack \/ \A s \in PaSessions : paCmd[s].id.db # Unbound => paCmd[s].db = paCmd[s].id.db

(* SetACL and the commands of sessions may run at the same time: a pool    *)
(* that is closed is not used any more (router.go:231-242, forward.go:35-  *)
(* 45).                                                                    *)
UserPoolsAreSafe == ~ paPanic

(* A SetACL takes effect whatever it overlaps with: no pool, no command    *)
(* and no database of before outlives it.                                  *)
ACLIsKept == PaTypeOK /\ PoolsAreCurrent /\ CommandsAreOfTheirTime /\ BoundStaysInDb
=============================================================================
