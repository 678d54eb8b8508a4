--------------------------------- MODULE ACL ---------------------------------
(***************************************************************************)
(* The ACL in the dashboard (pkg/topom/topom_acl.go): UpdateACL and        *)
(* SyncACL take users to the servers one after the other, to the store and *)
(* then to the proxies; GroupAddServer and ReinitProxy bring what joins up *)
(* to date.  All of them hold Topom.mu, so that one is under way at a      *)
(* time, and each of them can fail half way or be cut off by a crash.  A   *)
(* SetACL that was given up may still be run by its proxy, at any time; a  *)
(* server runs what it got before the call that failed returns.            *)
(*                                                                         *)
(* What a user may do is a number, 0 for a user that there is not; an ACL  *)
(* is a revision and its users.                                            *)
(***************************************************************************)
EXTENDS Naturals

CONSTANTS
    AcServers,      \* addresses, in their order
    AcProxies,
    AcUsers,        \* names, in their order
    MaxAcDef,       \* bound: definitions of a user
    MaxAcRev,       \* bound: revisions
    MaxAcOps        \* bound: calls

ASSUME ACLAssumption ==
    /\ AcServers \subseteq Nat /\ AcUsers \subseteq Nat /\ AcUsers # {}
    /\ MaxAcDef \in Nat \ {0} /\ MaxAcRev \in Nat \ {0} /\ MaxAcOps \in Nat

VARIABLES
    acStore,        \* the ACL in the store
    acCache,        \* Topom.cache.acl; NilACL when it is dirty
    acServer,       \* the users of every server
    acMember,       \* servers that are in a group
    acProxy,        \* the ACL of every proxy
    acLate,         \* calls of SetACL that were given up
    acOver,         \* history: proxies that run by such a call
    acSync,         \* Topom.aclSync
    acOp,           \* the call under way: what it does, its ACL, servers and proxies to do
    acOps,
    acClean,        \* was the last call one that went through
    acStray         \* users that calls which failed, or went by a stale cache, and servers that were away left

acVars == <<acStore, acCache, acServer, acMember, acProxy, acLate, acOver, acSync, acOp, acOps, acClean, acStray>>

AllUsers == [AcUsers -> 0 .. MaxAcDef]
NoUsers  == [u \in AcUsers |-> 0]
NoACL    == [rev |-> 0, users |-> NoUsers]
NilACL   == [rev |-> 0, users |-> << >>]
NoOp     == [kind |-> "none", acl |-> NoACL, todo |-> {}, proxies |-> {}, failed |-> {}]

AcInit ==
    /\ acStore = NoACL /\ acCache = NilACL
    /\ acServer = [s \in AcServers |-> NoUsers]
    /\ acMember \in SUBSET AcServers
    /\ acProxy = [p \in AcProxies |-> NoACL]
    /\ acLate = {} /\ acOver = {}
    /\ acSync = [rev |-> 0, failed |-> {}]
    /\ acOp = NoOp /\ acOps = 0
    /\ acClean = TRUE
    /\ acStray = {}

(* What newContext finds: the cache is filled from the store.              *)
Cached == IF acCache = NilACL THEN acStore ELSE acCache

shouldSyncACLRuntime(acl) == acl.rev # 0 \/ acl.users # NoUsers

-----------------------------------------------------------------------------
(* Calls begin.                                                            *)

Begin(op) ==
    /\ acOp = NoOp
    /\ acOps < MaxAcOps /\ acOps' = acOps + 1
    /\ acCache' = Cached
    /\ acOp' = op

buildACL(users) == [rev |-> Cached.rev + 1, users |-> users]

UpdateACL(users) ==
    /\ Cached.rev < MaxAcRev
    /\ Begin([NoOp EXCEPT !.kind = "update", !.acl = buildACL(users), !.todo = acMember, !.proxies = AcProxies])
    /\ acClean' = FALSE
    /\ UNCHANGED <<acStore, acServer, acMember, acProxy, acLate, acOver, acSync, acStray>>

SyncACL ==
    /\ Begin([NoOp EXCEPT !.kind = "sync", !.acl = Cached, !.proxies = AcProxies,
                          !.todo = IF shouldSyncACLRuntime(Cached) THEN acMember ELSE {}])
    /\ acClean' = FALSE
    /\ UNCHANGED <<acStore, acServer, acMember, acProxy, acLate, acOver, acSync, acStray>>

GroupAddServer(s) ==
    /\ s \notin acMember
    /\ Begin([NoOp EXCEPT !.kind = "add", !.acl = Cached, !.todo = {s}])
    /\ UNCHANGED <<acStore, acServer, acMember, acProxy, acLate, acOver, acSync, acClean, acStray>>

GroupDelServer(s) ==
    /\ s \in acMember
    /\ acOp = NoOp
    /\ acMember' = acMember \ {s}
    /\ UNCHANGED <<acStore, acCache, acServer, acProxy, acLate, acOver, acSync, acOp, acOps, acClean, acStray>>

-----------------------------------------------------------------------------
(* syncACLToRedisServer.                                                   *)

Least0(S) == CHOOSE s \in S : \A t \in S : s <= t

(* Mutant: users of the ACL there was stay.                                *)
removedACLUsers_None == {}

(* removedACLUsers: users of the ACL there was.  GroupAddServer gives none.*)
removedACLUsers ==
    IF acOp.kind = "add" THEN {}
    ELSE {u \in AcUsers : acCache.users[u] # 0 /\ acOp.acl.users[u] = 0}

(* SETUSER in the order of names, and then DELUSER.                        *)
Commanded == {u \in AcUsers : acOp.acl.users[u] # 0} \cup removedACLUsers
SentBefore(v, u) ==
    \/ v \notin removedACLUsers /\ u \in removedACLUsers
    \/ (v \in removedACLUsers <=> u \in removedACLUsers) /\ v < u

(* The users of the first commands, for any number of them.                *)
Prefixes == {D \in SUBSET Commanded : \A u \in D, v \in Commanded : SentBefore(v, u) => v \in D}

(* A server after the commands for some users.                             *)
After(users, D) == [u \in AcUsers |-> IF u \in D THEN acOp.acl.users[u] ELSE users[u]]

(* Users a server has and the stored ACL has not.                          *)
Strays(server, members, stored) == {su \in members \X AcUsers : server[su[1]][su[2]] # 0 /\ stored[su[2]] = 0}

(* GroupAddServer stores the server in its group after that, and the store *)
(* may fail.                                                               *)
syncACLToRedisServer(s) ==
    /\ acOp.kind \in {"update", "sync", "add"}
    /\ acOp.todo # {} /\ s = Least0(acOp.todo)
    /\ acServer' = [acServer EXCEPT ![s] = IF shouldSyncACLRuntime(acOp.acl) THEN After(@, Commanded) ELSE @]
    /\ acMember' \in {acMember, acMember \cup {s}}
    /\ acStray' = IF acOp.kind = "add" THEN acStray \cup Strays(acServer', {s}, Cached.users) ELSE acStray
    /\ acOp' = [acOp EXCEPT !.todo = @ \ {s}]
    /\ UNCHANGED <<acStore, acCache, acProxy, acLate, acOver, acSync, acOps, acClean>>

(* The connection is lost: some of the commands were run, and the call     *)
(* fails.                                                                  *)
syncACLToRedisFails(s) ==
    /\ acOp.todo # {} /\ s = Least0(acOp.todo)
    /\ shouldSyncACLRuntime(acOp.acl)
    /\ \E D \in Prefixes : acServer' = [acServer EXCEPT ![s] = After(@, D)]
    /\ acStray' = acStray \cup Strays(acServer', AcServers, Cached.users)
    /\ acOp' = NoOp
    /\ UNCHANGED <<acStore, acCache, acMember, acProxy, acLate, acOver, acSync, acOps, acClean>>

-----------------------------------------------------------------------------
(* storeUpdateACL and dirtyACLCache, of UpdateACL only.                    *)

storeUpdateACL ==
    /\ acOp.kind = "update" /\ acOp.todo = {}
    /\ acStore' = acOp.acl
    /\ acCache' = NilACL
    /\ acOp' = [acOp EXCEPT !.kind = "stored"]
    /\ UNCHANGED <<acServer, acMember, acProxy, acLate, acOver, acSync, acOps, acClean, acStray>>

(* The store fails, and may have taken the ACL.  The cache stays.          *)
storeUpdateFails ==
    /\ acOp.kind = "update" /\ acOp.todo = {}
    /\ acStore' \in {acStore, acOp.acl}
    /\ acStray' = acStray \cup Strays(acServer, AcServers, Cached.users)
    /\ acOp' = NoOp
    /\ UNCHANGED <<acCache, acServer, acMember, acProxy, acLate, acOver, acSync, acOps, acClean>>

(* syncACLToProxies: every proxy is called; one that fails is noted, and   *)
(* takes the call later, at once perhaps, or never.                        *)
syncACLToProxy(p) ==
    /\ acOp.kind \in {"stored", "sync"} /\ acOp.todo = {}
    /\ p \in acOp.proxies
    /\ \/ /\ acProxy' = [acProxy EXCEPT ![p] = acOp.acl]
          /\ acOver' = acOver \ {p}
          /\ acOp' = [acOp EXCEPT !.proxies = @ \ {p}]
          /\ UNCHANGED acLate
       \/ /\ acLate' = acLate \cup {[proxy |-> p, acl |-> acOp.acl]}
          /\ acOp' = [acOp EXCEPT !.proxies = @ \ {p}, !.failed = @ \cup {p}]
          /\ UNCHANGED <<acProxy, acOver>>
    /\ UNCHANGED <<acStore, acCache, acServer, acMember, acSync, acOps, acClean, acStray>>

(* A proxy runs a call that was given up: it compares no revision, and     *)
(* nothing orders the calls (acl.go:43, router.go:127-143).                *)
LateSetACL(l) ==
    /\ acProxy' = [acProxy EXCEPT ![l.proxy] = l.acl]
    /\ acLate' = acLate \ {l}
    /\ acOver' = IF l.acl = Cached THEN acOver \ {l.proxy} ELSE acOver \cup {l.proxy}
    /\ UNCHANGED <<acStore, acCache, acServer, acMember, acSync, acOp, acOps, acClean, acStray>>

setACLSyncResult ==
    /\ acOp.kind \in {"stored", "sync"} /\ acOp.todo = {} /\ acOp.proxies = {}
    /\ acSync' = [rev |-> acOp.acl.rev, failed |-> acOp.failed]
    /\ acClean' = (acOp.failed = {})
    /\ acOp' = NoOp
    /\ UNCHANGED <<acStore, acCache, acServer, acMember, acProxy, acLate, acOver, acOps, acStray>>

AddEnds ==
    /\ acOp.kind = "add" /\ acOp.todo = {}
    /\ acOp' = NoOp
    /\ UNCHANGED <<acStore, acCache, acServer, acMember, acProxy, acLate, acOver, acSync, acOps, acClean, acStray>>

-----------------------------------------------------------------------------
(* A proxy that was restarted has no ACL until ReinitProxy sends it one    *)
(* before it starts the proxy.                                             *)
reinitProxy(p) ==
    /\ acOp = NoOp
    /\ acCache' = Cached
    /\ acProxy' = [acProxy EXCEPT ![p] = Cached]
    /\ acOver' = acOver \ {p}
    /\ UNCHANGED <<acStore, acServer, acMember, acLate, acSync, acOp, acOps, acClean, acStray>>

(* The dashboard goes down and another takes over; calls of SetACL that    *)
(* were under way may still be run.                                        *)
Crash ==
    /\ acCache' = NilACL
    /\ acSync' = [rev |-> 0, failed |-> {}]
    /\ acOp' = NoOp
    /\ acStray' = IF acOp.kind = "none" /\ Cached = acStore THEN acStray
                  ELSE acStray \cup Strays(acServer, AcServers, acStore.users)
    /\ acClean' = (acClean /\ acOp.kind \in {"none", "add"} /\ Cached = acStore)
    /\ acLate' = IF acOp.kind \in {"stored", "sync"} /\ acOp.todo = {}
                 THEN acLate \cup [proxy: acOp.proxies, acl: {acOp.acl}] ELSE acLate
    /\ UNCHANGED <<acStore, acServer, acMember, acProxy, acOver, acOps>>

-----------------------------------------------------------------------------
AcNext ==
    \/ \E users \in AllUsers : UpdateACL(users)
    \/ SyncACL
    \/ \E s \in AcServers : \/ GroupAddServer(s) \/ GroupDelServer(s)
                            \/ syncACLToRedisServer(s) \/ syncACLToRedisFails(s)
    \/ storeUpdateACL \/ storeUpdateFails
    \/ \E p \in AcProxies : syncACLToProxy(p) \/ reinitProxy(p)
    \/ \E l \in acLate : LateSetACL(l)
    \/ setACLSyncResult \/ AddEnds \/ Crash

AcSpec == AcInit /\ [][AcNext]_acVars

-----------------------------------------------------------------------------
(* Properties.                                                             *)

IsACL(acl) == acl.rev \in 0 .. MaxAcRev /\ acl.users \in AllUsers

(* Types of the variables; an update under way makes the next revision.    *)
AcTypeOK ==
    /\ acOp.kind = "update" => acOp.acl.rev = acCache.rev + 1
    /\ IsACL(acStore)
    /\ acCache = NilACL \/ IsACL(acCache)
    /\ acServer \in [AcServers -> AllUsers]
    /\ acMember \subseteq AcServers
    /\ \A p \in AcProxies : IsACL(acProxy[p])
    /\ \A l \in acLate : l.proxy \in AcProxies /\ IsACL(l.acl)

(* Once an update or a sync went through, every server and every proxy has *)
(* the users of the ACL the dashboard goes by, and keeps them whatever     *)
(* joins or restarts, until a call begins again: failures of earlier calls *)
(* are made good, but for a proxy that runs a SetACL given up before over  *)
(* the newer one, until it is sent one again (topom_acl.go:68-110,         *)
(* topom_group.go:141, rpc/api.go:45).                                     *)
SyncedIsSame ==
    acClean /\ acOp = NoOp =>
        /\ \A s \in acMember, u \in AcUsers : Cached.users[u] # 0 => acServer[s][u] = Cached.users[u]
        /\ \A p \in AcProxies \ acOver : acProxy[p] = Cached

(* A user that the ACL has not is on a server only when an update that     *)
(* failed put it there, the server was in no group when the user was       *)
(* removed, or the dashboard went down while its cache was behind the      *)
(* store: it removes all others (topom_acl.go:81-84, 343-408).             *)
RemovedUsersGo ==
    acClean /\ acOp = NoOp => Strays(acServer, acMember, Cached.users) \subseteq acStray

(* A revision names one ACL: proxies, the store and the dashboard that     *)
(* have the same revision have the same users, whatever calls failed in    *)
(* between or were run late (topom_acl.go:148-160).                        *)
RevisionsNameOneACL ==
    \A p \in AcProxies :
        /\ acProxy[p].rev = acStore.rev => acProxy[p].users = acStore.users
        /\ acProxy[p].rev <= acStore.rev

(* An ACL that went through is that of all servers and proxies, and its    *)
(* revision says which it is.                                              *)
ServersAgree == AcTypeOK /\ SyncedIsSame /\ RemovedUsersGo /\ RevisionsNameOneACL
=============================================================================
