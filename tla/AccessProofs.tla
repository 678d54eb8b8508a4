----------------------------- MODULE AccessProofs -----------------------------
(***************************************************************************)
(* What a proxy lets through is what it should, for any number of          *)
(* sessions, calls and addresses: the users of the ACL (ProxyACL),         *)
(* commands within the limit (QPSLimit) and a few guesses of the password  *)
(* (AuthGuard).                                                            *)
(***************************************************************************)
EXTENDS ProxyACL, QPSLimit, AuthGuard, Integers, FiniteSetTheorems, TLAPS

-----------------------------------------------------------------------------
(* ProxyACL.                                                               *)

PaSnaps == PaACLs \cup {NoAuth}
PaIds   == [rev: Revs \cup {0}, stale: BOOLEAN, db: {1, Unbound}]
PaCmds == [stage: {"none", "read", "checked", "identity", "pool", "conn"}, db: PaDbs,
           id: PaIds, pool: 0 .. MaxPools, seen: SUBSET (Revs \cup {0})]

PaTypes ==
    /\ paSnap \in PaSnaps
    /\ paCall \in [PaCalls -> [stage: {"new", "mark", "done"}, acl: PaSnaps, mark: SUBSET PaSessions]]
    /\ paId \in [PaSessions -> PaIds]
    /\ paDb \in [PaSessions -> PaDbs]
    /\ paAuth \in [PaSessions -> PaSnaps]
    /\ paCmd \in [PaSessions -> PaCmds]
    /\ paPools \in [Revs -> 0 .. MaxPools]
    /\ paShut \subseteq 1 .. MaxPools
    /\ paBack \in BOOLEAN

(* A session that is bound has left its database, by SELECT while the ACL  *)
(* was off.                                                                *)
Strayed(s) == paId[s].db # Unbound /\ paDb[s] # paId[s].db

(* As long as no older revision comes back, no session is ahead of the     *)
(* snapshot; one that has strayed has an identity that does not pass, and  *)
(* the one whose identity passes has not strayed.                          *)
ForwardOk(s) ==
    LET cmd == paCmd[s]
    IN  /\ paId[s].rev <= paSnap.rev /\ paAuth[s].rev <= paSnap.rev
        /\ Strayed(s) => ~ paSnap.on \/ paId[s].rev < paSnap.rev
        /\ cmd.stage = "checked" => ~ Strayed(s)
        /\ cmd.id.db # Unbound => cmd.db = cmd.id.db

(* A session is in AUTH or in a command, whose database is its own, and    *)
(* from the check of its identity to the end only marks change that one.   *)
SessionOk(s) ==
    LET cmd == paCmd[s]
    IN  /\ cmd.stage \in {"none", "read", "checked"} => cmd.id = NoId
        /\ cmd.stage # "none" => /\ paAuth[s] = NoAuth
                                 /\ cmd.db = paDb[s]
                                 /\ paSnap.rev \in cmd.seen
        /\ cmd.stage = "checked" => paId[s] = NoId \/ paId[s].rev \in cmd.seen
        /\ cmd.stage = "identity" => paId[s].db \in {Unbound, cmd.id.db}
        /\ cmd.id # NoId => cmd.id.rev \in cmd.seen
        /\ paBack \/ ForwardOk(s)

PaInv ==
    /\ PaTypes
    /\ PoolsAreCurrent
    /\ \A s \in PaSessions : SessionOk(s)

(* What the constants of the module are.                                   *)
LEMMA PaConstants ==
    /\ \A acl \in PaSnaps : acl.rev \in Revs \cup {0} /\ acl.on \in BOOLEAN /\ acl.db \in {1, Unbound}
    /\ \A acl \in PaACLs : acl.rev \in Revs /\ acl.rev # 0 /\ acl # NoAuth
    /\ \A acl \in PaSnaps : acl.on => acl \in PaACLs
    /\ NoAuth \in PaSnaps /\ NoAuth.rev = 0
    /\ NoId \in PaIds /\ NoId.db = Unbound /\ NoId.rev = 0
    /\ NoCmd \in PaCmds /\ NoCmd.id = NoId /\ NoCmd.stage = "none"
    /\ 0 \in PaDbs /\ 1 \in PaDbs /\ Unbound # 1
<1>1. \A acl \in PaACLs : acl \in [rev: Nat \ {0}, on: BOOLEAN, db: {1, Unbound}] /\ acl.rev \in Revs
  BY ProxyACLAssumption DEF Revs
<1>2. NoAuth.rev = 0 /\ NoAuth.on = FALSE /\ NoAuth.db = Unbound
  BY DEF NoAuth
<1>3. NoId \in PaIds /\ NoId.db = Unbound /\ NoId.rev = 0
  BY DEF NoId, PaIds
<1>4. 0 \in PaDbs /\ 1 \in PaDbs /\ Unbound # 1
  BY DEF PaDbs, Unbound
<1>5. NoCmd \in PaCmds /\ NoCmd.id = NoId /\ NoCmd.stage = "none"
  BY <1>3, <1>4, ProxyACLAssumption DEF NoCmd, PaCmds
<1>6. /\ \A acl \in PaACLs : acl.rev \in Revs /\ acl.rev # 0 /\ acl # NoAuth
      /\ \A acl \in PaSnaps : acl.on => acl \in PaACLs
      /\ NoAuth \in PaSnaps
  BY <1>1, <1>2 DEF PaSnaps
<1>7. \A acl \in PaSnaps : acl.rev \in Revs \cup {0} /\ acl.on \in BOOLEAN /\ acl.db \in {1, Unbound}
  BY <1>1, <1>2 DEF PaSnaps
<1> QED BY <1>2, <1>3, <1>4, <1>5, <1>6, <1>7

(* A revision names one ACL.                                               *)
LEMMA OneOfARevision == \A a, b \in PaSnaps : a.rev = b.rev => a = b
BY PaConstants, ProxyACLAssumption DEF PaSnaps

(* Revisions are numbers.                                                  *)
LEMMA RevisionsAreNat ==
    ASSUME PaTypes
    PROVE  /\ paSnap.rev \in Nat
           /\ \A acl \in PaACLs : acl.rev \in Nat
           /\ \A s \in PaSessions : paId[s].rev \in Nat /\ paAuth[s].rev \in Nat
<1>1. Revs \cup {0} \subseteq Nat
  BY ProxyACLAssumption DEF Revs
<1>2. \A acl \in PaSnaps : acl.rev \in Revs \cup {0}
  BY PaConstants
<1>3. \A s \in PaSessions : paId[s] \in PaIds /\ paAuth[s] \in PaSnaps
  BY DEF PaTypes
<1>4. \A id \in PaIds : id.rev \in Revs \cup {0}
  BY DEF PaIds
<1> QED BY <1>1, <1>2, <1>3, <1>4 DEF PaTypes, PaSnaps

LEMMA PaInitInv ==
    ASSUME PaInit
    PROVE  PaInv
<1>1. PaTypes
  <2>1. paCall \in [PaCalls -> [stage: {"new", "mark", "done"}, acl: PaSnaps, mark: SUBSET PaSessions]]
    BY PaConstants DEF PaInit
  <2>2. /\ paSnap \in PaSnaps /\ paId \in [PaSessions -> PaIds] /\ paDb \in [PaSessions -> PaDbs]
        /\ paAuth \in [PaSessions -> PaSnaps] /\ paCmd \in [PaSessions -> PaCmds]
    BY PaConstants DEF PaInit
  <2>3. paPools \in [Revs -> 0 .. MaxPools]
    BY ProxyACLAssumption DEF PaInit
  <2>4. paShut \subseteq 1 .. MaxPools /\ paBack \in BOOLEAN
    BY DEF PaInit
  <2> QED BY <2>1, <2>2, <2>3, <2>4 DEF PaTypes
<1>2. PoolsAreCurrent
  BY DEF PaInit, PoolsAreCurrent
<1>3. ASSUME NEW s \in PaSessions
      PROVE  SessionOk(s)
  <2>1. paId[s] = NoId /\ paCmd[s] = NoCmd /\ paAuth[s] = NoAuth /\ paSnap = NoAuth
    BY DEF PaInit
  <2>2. ~ Strayed(s)
    BY <2>1, PaConstants DEF Strayed
  <2>3. ForwardOk(s)
    BY <2>1, <2>2, PaConstants DEF ForwardOk
  <2> QED BY <2>1, <2>3, PaConstants DEF SessionOk
<1> QED BY <1>1, <1>2, <1>3 DEF PaInv

-----------------------------------------------------------------------------
(* Calls of SetACL.                                                        *)

LEMMA SetACLKeepsInv ==
    ASSUME PaInv, NEW c \in PaCalls, NEW acl \in PaACLs, SetACL(c, acl)
    PROVE  PaInv'
<1> DEFINE same == paSnap.rev = acl.rev /\ paSnap.on = acl.on
           new  == [stage |-> IF same THEN "done" ELSE "mark", acl |-> acl, mark |-> IF same THEN {} ELSE PaSessions]
<1>1. ASSUME NEW s \in PaSessions
      PROVE  /\ paCmd'[s] \in PaCmds
             /\ paCmd'[s].stage = paCmd[s].stage /\ paCmd'[s].db = paCmd[s].db /\ paCmd'[s].id = paCmd[s].id
             /\ paCmd[s].stage # "none" => paCmd'[s].seen = paCmd[s].seen \cup {acl.rev}
  <2>1. paCmd[s] \in PaCmds
    BY DEF PaInv, PaTypes, PaCmds
  <2>2. paCmd'[s] = [paCmd[s] EXCEPT !.seen = IF paCmd[s].stage = "none" THEN {} ELSE paCmd[s].seen \cup {acl.rev}]
    BY DEF SetACL
  <2>3. (IF paCmd[s].stage = "none" THEN {} ELSE paCmd[s].seen \cup {acl.rev}) \in SUBSET (Revs \cup {0})
    BY <2>1, PaConstants DEF PaCmds
  <2> QED BY <2>1, <2>2, <2>3 DEF PaCmds
<1>2. /\ paCall' = [paCall EXCEPT ![c] = new] /\ paSnap' = acl /\ UNCHANGED <<paId, paDb, paAuth, paPools, paShut>>
      /\ paBack' = (paBack \/ acl.rev < paSnap.rev)
  BY DEF SetACL
<1>3. PaTypes'
  <2>1. new \in [stage: {"new", "mark", "done"}, acl: PaSnaps, mark: SUBSET PaSessions]
    BY DEF PaSnaps
  <2> HIDE DEF new
  <2>2. paCmd' \in [PaSessions -> PaCmds]
    BY <1>1 DEF SetACL
  <2> QED BY <1>2, <2>1, <2>2 DEF PaInv, PaTypes, PaSnaps, PaCmds
<1>4. PoolsAreCurrent'
  <2>1. CASE same
    <3>1. paCall[c].stage = "new" /\ \A d \in PaCalls : d # c => paCall'[d] = paCall[d]
      BY <1>2 DEF SetACL, PaInv, PaTypes
    <3>2. (\A d \in PaCalls : paCall'[d].stage # "mark") => \A d \in PaCalls : paCall[d].stage # "mark"
      BY <3>1
    <3> QED BY <1>2, <2>1, <3>2 DEF PoolsAreCurrent, PaInv
  <2>2. CASE ~ same
    <3>1. paCall'[c].stage = "mark"
      BY <1>2, <2>2 DEF PaInv, PaTypes
    <3> QED BY <3>1 DEF PoolsAreCurrent
  <2> QED BY <2>1, <2>2
<1>5. \A s \in PaSessions : SessionOk(s)'
  <2>1. SUFFICES ASSUME NEW s \in PaSessions PROVE SessionOk(s)'
    OBVIOUS
  <2>2. SessionOk(s) /\ paCmd[s] \in PaCmds
    BY DEF PaInv, PaTypes, PaCmds
  <2>3. paBack' \/ ForwardOk(s)'
    <3>1. SUFFICES ASSUME ~ paBack, ~ acl.rev < paSnap.rev
                   PROVE  ForwardOk(s)'
      BY <1>2
    <3>2. /\ ForwardOk(s) /\ paSnap \in PaSnaps /\ acl \in PaSnaps
          /\ acl.rev \in Nat /\ paSnap.rev \in Nat /\ paId[s].rev \in Nat /\ paAuth[s].rev \in Nat
      BY <2>2, <3>1, RevisionsAreNat DEF SessionOk, PaInv, PaTypes, PaSnaps
    <3>3. acl = paSnap \/ paSnap.rev < acl.rev
      BY <3>1, <3>2, OneOfARevision
    <3>4. Strayed(s)' <=> Strayed(s)
      BY <1>2 DEF Strayed
    <3> QED BY <1>1, <1>2, <3>2, <3>3, <3>4 DEF ForwardOk
  <2>4. CASE paCmd[s].stage = "none"
    BY <1>1, <1>2, <2>2, <2>3, <2>4 DEF SessionOk
  <2>5. CASE paCmd[s].stage # "none"
    BY <1>1, <1>2, <2>2, <2>3, <2>5 DEF SessionOk
  <2> QED BY <2>4, <2>5
<1> QED BY <1>3, <1>4, <1>5 DEF PaInv

LEMMA MarkKeepsInv ==
    ASSUME PaInv, NEW c \in PaCalls, NEW s \in PaSessions, markACLStale(c, s)
    PROVE  PaInv'
<1>1. /\ paCall' = [paCall EXCEPT ![c].mark = @ \ {s}]
      /\ UNCHANGED <<paSnap, paDb, paAuth, paCmd, paPools, paShut, paBack>>
      /\ paId \in [PaSessions -> PaIds]
  BY DEF markACLStale, PaInv, PaTypes
<1>2. \/ paId' = [paId EXCEPT ![s] = NoId]
      \/ paId[s].rev # 0 /\ paId' = [paId EXCEPT ![s].stale = TRUE]
      \/ paId' = paId
  <2>1. CASE ~ paCall[c].acl.on
    BY <2>1 DEF markACLStale
  <2>2. CASE paCall[c].acl.on /\ paId[s].rev # 0 /\ paId[s].rev # paCall[c].acl.rev
    BY <2>2 DEF markACLStale
  <2>3. CASE paCall[c].acl.on /\ ~ (paId[s].rev # 0 /\ paId[s].rev # paCall[c].acl.rev)
    <3>1. paId' = [paId EXCEPT ![s] = paId[s]]
      BY <2>3 DEF markACLStale
    <3> QED BY <1>1, <3>1
  <2> QED BY <2>1, <2>2, <2>3
<1>3. paId[s] \in PaIds
  BY <1>1
<1>4. \A t \in PaSessions :
        /\ paId'[t] \in PaIds
        /\ paId'[t].db \in {Unbound, paId[t].db}
        /\ paId'[t] = NoId \/ (paId'[t].rev = paId[t].rev /\ (paId[t] = NoId => paId'[t] = NoId))
  <2>1. CASE paId' = [paId EXCEPT ![s] = NoId]
    BY <1>1, <2>1, PaConstants
  <2>2. CASE paId[s].rev # 0 /\ paId' = [paId EXCEPT ![s].stale = TRUE]
    <3>1. LET id == [paId[s] EXCEPT !.stale = TRUE]
          IN  id \in PaIds /\ id.rev = paId[s].rev /\ id.db = paId[s].db
      BY <1>3 DEF PaIds
    <3>2. paId' = [paId EXCEPT ![s] = [paId[s] EXCEPT !.stale = TRUE]]
      BY <1>1, <2>2
    <3> QED BY <1>1, <2>2, <3>1, <3>2, PaConstants
  <2>3. CASE paId' = paId
    BY <1>1, <2>3
  <2> QED BY <1>2, <2>1, <2>2, <2>3
<1>5. PaTypes'
  <2>1. paId' \in [PaSessions -> PaIds]
    BY <1>1, <1>2, <1>4
  <2> QED BY <1>1, <2>1 DEF PaInv, PaTypes
<1>6. PoolsAreCurrent'
  <2>1. \A d \in PaCalls : paCall'[d].stage = paCall[d].stage
    BY <1>1 DEF PaInv, PaTypes
  <2> QED BY <1>1, <2>1 DEF PoolsAreCurrent, PaInv
<1>7. \A t \in PaSessions : SessionOk(t)'
  <2>1. SUFFICES ASSUME NEW t \in PaSessions PROVE SessionOk(t)'
    OBVIOUS
  <2>2. SessionOk(t)
    BY DEF PaInv
  <2>3. ForwardOk(t) => ForwardOk(t)'
    <3>1. Strayed(t)' => Strayed(t) /\ paId'[t].rev = paId[t].rev
      BY <1>1, <1>4, PaConstants DEF Strayed
    <3>2. paId'[t].rev \in {0, paId[t].rev} /\ paSnap.rev \in Nat /\ paId[t].rev \in Nat
      BY <1>1, <1>4, PaConstants, RevisionsAreNat DEF PaInv
    <3> QED BY <1>1, <3>1, <3>2 DEF ForwardOk
  <2> QED BY <1>1, <1>4, <2>2, <2>3 DEF SessionOk
<1> QED BY <1>5, <1>6, <1>7 DEF PaInv

LEMMA ClosePoolsKeepsInv ==
    ASSUME PaInv, NEW c \in PaCalls, closeUserBackendPools(c)
    PROVE  PaInv'
<1>1. /\ paCall' = [paCall EXCEPT ![c].stage = "done"]
      /\ paShut' = paShut \cup ({paPools[r] : r \in Revs} \ {0})
      /\ paPools' = [r \in Revs |-> 0]
      /\ UNCHANGED <<paSnap, paId, paDb, paAuth, paCmd, paBack>>
  BY DEF closeUserBackendPools
<1>2. \A r \in Revs : paPools[r] \in 0 .. MaxPools
  BY DEF PaInv, PaTypes
<1>3. PaTypes'
  BY <1>1, <1>2, ProxyACLAssumption DEF PaInv, PaTypes
<1>4. PoolsAreCurrent'
  BY <1>1 DEF PoolsAreCurrent
<1>5. \A s \in PaSessions : SessionOk(s)'
  BY <1>1 DEF PaInv, SessionOk, ForwardOk, Strayed
<1> QED BY <1>3, <1>4, <1>5 DEF PaInv

-----------------------------------------------------------------------------
(* Sessions.                                                               *)

(* The pools that are there are of the revision in force, and one session  *)
(* has gone on.                                                            *)
LEMMA OneSession ==
    ASSUME PaInv, PaTypes', NEW s \in PaSessions, SessionOk(s)',
           UNCHANGED <<paSnap, paCall, paBack>>,
           \A r \in Revs : paPools'[r] # paPools[r] => paSnap.on /\ r = paSnap.rev,
           \A t \in PaSessions \ {s} :
              paId'[t] = paId[t] /\ paDb'[t] = paDb[t] /\ paAuth'[t] = paAuth[t] /\ paCmd'[t] = paCmd[t]
    PROVE  PaInv'
<1>1. PoolsAreCurrent'
  BY DEF PaInv, PoolsAreCurrent
<1>2. ASSUME NEW t \in PaSessions \ {s}
      PROVE  SessionOk(t)'
  BY DEF PaInv, SessionOk, ForwardOk, Strayed
<1> QED BY <1>1, <1>2 DEF PaInv

(* A command ends: the session has none.  It has strayed, if at all, as it *)
(* had before or while the ACL is off.                                     *)
LEMMA EndKeepsInv ==
    ASSUME PaInv, NEW s \in PaSessions, End(s),
           NEW id \in {paId[s], NoId}, paId' = [paId EXCEPT ![s] = id],
           NEW db \in PaDbs, paDb' = [paDb EXCEPT ![s] = db],
           ~ paSnap.on \/ db = paDb[s] \/ id.db = Unbound,
           UNCHANGED <<paSnap, paCall, paAuth, paPools, paShut, paBack>>
    PROVE  PaInv'
<1>1. paId'[s] = id /\ paDb'[s] = db /\ paCmd'[s] = NoCmd /\ id \in PaIds
  BY PaConstants DEF PaInv, PaTypes, End
<1>2. PaTypes'
  BY <1>1, PaConstants DEF PaInv, PaTypes, End
<1>3. SessionOk(s)'
  <2>1. SUFFICES ASSUME ~ paBack PROVE ForwardOk(s)'
    BY <1>1, PaConstants DEF SessionOk
  <2>2. ForwardOk(s) /\ paSnap.rev \in Nat /\ (id = NoId \/ id = paId[s])
    BY <2>1, RevisionsAreNat DEF PaInv, SessionOk
  <2>3. Strayed(s)' => ~ paSnap.on \/ (paId[s].rev < paSnap.rev /\ id = paId[s])
    BY <1>1, <2>2, PaConstants DEF Strayed, ForwardOk
  <2> QED BY <1>1, <2>2, <2>3, PaConstants DEF ForwardOk
<1>4. \A t \in PaSessions \ {s} :
         paId'[t] = paId[t] /\ paDb'[t] = paDb[t] /\ paAuth'[t] = paAuth[t] /\ paCmd'[t] = paCmd[t]
  BY DEF PaInv, PaTypes, End
<1> QED BY <1>2, <1>3, <1>4, OneSession

(* A command ends and leaves the session as it is.                         *)
LEMMA PlainEnd ==
    ASSUME PaInv, NEW s \in PaSessions, End(s),
           UNCHANGED <<paSnap, paCall, paId, paDb, paAuth, paPools, paShut, paBack>>
    PROVE  PaInv'
<1>1. /\ paId[s] \in PaIds /\ paDb[s] \in PaDbs
      /\ paId' = [paId EXCEPT ![s] = paId[s]] /\ paDb' = [paDb EXCEPT ![s] = paDb[s]]
  BY DEF PaInv, PaTypes
<1> QED BY <1>1, EndKeepsInv

LEMMA AuthKeepsInv ==
    ASSUME PaInv, NEW s \in PaSessions, AuthBegins(s) \/ handleACLAuth(s)
    PROVE  PaInv'
<1>1. SessionOk(s) /\ paCmd[s] \in PaCmds /\ paId[s] \in PaIds /\ paDb[s] \in PaDbs /\ paAuth[s] \in PaSnaps
  BY DEF PaInv, PaTypes
<1>2. CASE AuthBegins(s)
  <2>1. paCmd[s].stage = "none" /\ paAuth' = [paAuth EXCEPT ![s] = paSnap]
        /\ UNCHANGED <<paSnap, paCall, paId, paDb, paCmd, paPools, paShut, paBack>>
    BY <1>2 DEF AuthBegins, Idle
  <2>2. PaTypes'
    BY <2>1 DEF PaInv, PaTypes
  <2>3. SessionOk(s)'
    <3>1. paAuth'[s] = paSnap /\ paSnap.rev \in Nat
      BY <2>1, RevisionsAreNat DEF PaInv, PaTypes
    <3>2. ForwardOk(s) => ForwardOk(s)'
      BY <2>1, <3>1 DEF ForwardOk, Strayed
    <3> QED BY <1>1, <2>1, <3>2 DEF SessionOk
  <2> QED BY <2>1, <2>2, <2>3, OneSession DEF PaInv, PaTypes
<1>3. CASE handleACLAuth(s)
  <2>1. /\ paAuth[s] # NoAuth /\ paAuth' = [paAuth EXCEPT ![s] = NoAuth]
        /\ UNCHANGED <<paSnap, paCall, paCmd, paPools, paShut, paBack>>
    BY <1>3 DEF handleACLAuth
  <2>2. paCmd[s].stage = "none"
    BY <1>1, <2>1 DEF SessionOk
  <2>3. PICK id \in PaIds, db \in PaDbs :
           /\ paId' = [paId EXCEPT ![s] = id] /\ paDb' = [paDb EXCEPT ![s] = db]
           /\ \/ id.db # Unbound => db = id.db
              \/ id = paId[s] /\ db = paDb[s]
           /\ id.rev \in {0, paId[s].rev, paAuth[s].rev}
    <3>1. CASE /\ paId' = [paId EXCEPT ![s] = [rev |-> paAuth[s].rev, stale |-> FALSE, db |-> paAuth[s].db]]
               /\ paDb' = [paDb EXCEPT ![s] = IF paAuth[s].db # Unbound THEN paAuth[s].db ELSE paDb[s]]
      <4> DEFINE id == [rev |-> paAuth[s].rev, stale |-> FALSE, db |-> paAuth[s].db]
                 db == IF paAuth[s].db # Unbound THEN paAuth[s].db ELSE paDb[s]
      <4>1. id \in PaIds /\ id.db = paAuth[s].db /\ id.rev = paAuth[s].rev /\ db \in PaDbs
        BY <1>1, PaConstants DEF PaIds
      <4>2. id.db # Unbound => db = id.db
        OBVIOUS
      <4> HIDE DEF id, db
      <4>3. paId' = [paId EXCEPT ![s] = id] /\ paDb' = [paDb EXCEPT ![s] = db]
        BY <3>1 DEF id, db
      <4> QED BY <4>1, <4>2, <4>3
    <3>2. CASE paId' \in {paId, [paId EXCEPT ![s] = NoId]} /\ UNCHANGED paDb
      <4>1. paDb' = [paDb EXCEPT ![s] = paDb[s]] /\ paId = [paId EXCEPT ![s] = paId[s]]
        BY <3>2 DEF PaInv, PaTypes
      <4> QED BY <1>1, <3>2, <4>1, PaConstants
    <3> QED BY <1>3, <3>1, <3>2 DEF handleACLAuth
  <2>4. PaTypes'
    BY <2>1, <2>3, PaConstants DEF PaInv, PaTypes
  <2>5. paId'[s] = id /\ paDb'[s] = db
    BY <2>3 DEF PaInv, PaTypes
  <2>6. SessionOk(s)'
    <3>1. paSnap.rev \in Nat /\ paAuth'[s].rev = 0 /\ paCmd[s].id = NoId
      BY <1>1, <2>1, <2>2, PaConstants, RevisionsAreNat DEF PaInv, PaTypes, SessionOk
    <3>2. ForwardOk(s) => ForwardOk(s)'
      <4>1. Strayed(s)' => Strayed(s) /\ paId'[s] = paId[s]
        BY <2>3, <2>5 DEF Strayed
      <4> QED BY <2>1, <2>2, <2>3, <2>5, <3>1, <4>1, PaConstants DEF ForwardOk
    <3> QED BY <1>1, <2>1, <2>2, <2>3, <2>5, <3>2 DEF SessionOk
  <2>7. \A t \in PaSessions \ {s} :
           paId'[t] = paId[t] /\ paDb'[t] = paDb[t] /\ paAuth'[t] = paAuth[t] /\ paCmd'[t] = paCmd[t]
    BY <2>1, <2>3 DEF PaInv, PaTypes
  <2> QED BY <2>1, <2>4, <2>6, <2>7, OneSession
<1> QED BY <1>2, <1>3

(* A command goes on with the session as it is.                            *)
LEMMA CommandGoesOn ==
    ASSUME PaInv, NEW s \in PaSessions, NEW cmd \in PaCmds, paCmd' = [paCmd EXCEPT ![s] = cmd],
           UNCHANGED <<paSnap, paCall, paId, paDb, paAuth, paShut, paBack>>,
           paPools' \in [Revs -> 0 .. MaxPools],
           \A r \in Revs : paPools'[r] # paPools[r] => paSnap.on /\ r = paSnap.rev,
           paAuth[s] = NoAuth, cmd.db = paDb[s], paSnap.rev \in cmd.seen,
           cmd.stage \in {"none", "read", "checked"} => cmd.id = NoId,
           cmd.stage = "checked" => paId[s] = NoId \/ paId[s].rev \in cmd.seen,
           cmd.stage = "identity" => paId[s].db \in {Unbound, cmd.id.db},
           cmd.id # NoId => cmd.id.rev \in cmd.seen,
           paBack \/ ((cmd.stage = "checked" => ~ Strayed(s)) /\ (cmd.id.db # Unbound => cmd.db = cmd.id.db))
    PROVE  PaInv'
<1>1. PaTypes'
  BY DEF PaInv, PaTypes
<1>2. paCmd'[s] = cmd /\ SessionOk(s)
  BY DEF PaInv, PaTypes
<1>3. SessionOk(s)'
  BY <1>2 DEF SessionOk, ForwardOk, Strayed
<1>4. \A t \in PaSessions \ {s} :
         paId'[t] = paId[t] /\ paDb'[t] = paDb[t] /\ paAuth'[t] = paAuth[t] /\ paCmd'[t] = paCmd[t]
  BY DEF PaInv, PaTypes
<1> QED BY <1>1, <1>3, <1>4, OneSession

LEMMA CommandKeepsInv ==
    ASSUME PaInv, NEW s \in PaSessions,
           \/ CommandBegins(s) \/ isACLAuthorized(s) \/ NotEnabled(s) \/ getACLIdentity(s)
           \/ \E db \in 0 .. 2 : handleSelect(s, db)
    PROVE  PaInv'
<1>1. /\ SessionOk(s) /\ paCmd[s] \in PaCmds /\ paId[s] \in PaIds /\ paDb[s] \in PaDbs /\ paAuth[s] \in PaSnaps
      /\ paSnap.rev \in Revs \cup {0} /\ paPools \in [Revs -> 0 .. MaxPools]
  BY PaConstants DEF PaInv, PaTypes
<1>2. CASE CommandBegins(s)
  <2> DEFINE cmd == [NoCmd EXCEPT !.stage = "read", !.db = paDb[s], !.seen = {paSnap.rev}]
  <2>1. cmd \in PaCmds /\ cmd.stage = "read" /\ cmd.id = NoId /\ cmd.db = paDb[s] /\ cmd.seen = {paSnap.rev}
    BY <1>1, PaConstants DEF PaCmds
  <2> HIDE DEF cmd
  <2>2. /\ paCmd' = [paCmd EXCEPT ![s] = cmd] /\ paAuth[s] = NoAuth
        /\ UNCHANGED <<paSnap, paCall, paId, paDb, paAuth, paPools, paShut, paBack>>
    BY <1>2 DEF CommandBegins, Idle, cmd
  <2> QED BY <1>1, <2>1, <2>2, CommandGoesOn, PaConstants
<1>3. CASE isACLAuthorized(s)
  <2> DEFINE good == paId[s].rev # 0 /\ ~ paId[s].stale /\ paId[s].rev = paSnap.rev
             cmd  == [paCmd[s] EXCEPT !.stage = "checked"]
  <2>1. paCmd[s].stage = "read" /\ UNCHANGED <<paSnap, paCall, paDb, paAuth, paPools, paShut, paBack>>
    BY <1>3 DEF isACLAuthorized
  <2>2. CASE good /\ paCmd' = [paCmd EXCEPT ![s].stage = "checked"] /\ UNCHANGED paId
    <3>1. /\ cmd \in PaCmds /\ cmd.stage = "checked" /\ cmd.id = paCmd[s].id /\ cmd.db = paCmd[s].db
          /\ cmd.seen = paCmd[s].seen
      BY <1>1 DEF PaCmds
    <3>2. paCmd' = [paCmd EXCEPT ![s] = cmd]
      BY <2>2 DEF PaInv, PaTypes
    <3>3. /\ paAuth[s] = NoAuth /\ paCmd[s].db = paDb[s] /\ paSnap.rev \in paCmd[s].seen
          /\ paCmd[s].id = NoId /\ paId[s].rev = paSnap.rev
      BY <1>1, <2>1, <2>2 DEF SessionOk
    <3> HIDE DEF cmd, good
    <3>4. /\ cmd.db = paDb[s] /\ paSnap.rev \in cmd.seen /\ paId[s].rev \in cmd.seen
          /\ cmd.id = NoId /\ cmd.id.db = Unbound
      BY <3>1, <3>3, PaConstants
    <3>5. paBack \/ ~ Strayed(s)
      <4>1. paSnap.on /\ paSnap.rev \in Nat
        BY <1>3, RevisionsAreNat DEF isACLAuthorized, PaInv
      <4> QED BY <1>1, <3>3, <4>1 DEF SessionOk, ForwardOk
    <3> QED BY <1>1, <2>1, <2>2, <3>1, <3>2, <3>3, <3>4, <3>5, CommandGoesOn
  <2>3. CASE ~ good /\ paId' = [paId EXCEPT ![s] = NoId] /\ End(s)
    <3>1. paDb' = [paDb EXCEPT ![s] = paDb[s]]
      BY <2>1 DEF PaInv, PaTypes
    <3> QED BY <1>1, <2>1, <2>3, <3>1, EndKeepsInv, PaConstants
  <2> QED BY <1>3, <2>2, <2>3 DEF isACLAuthorized
<1>4. CASE NotEnabled(s)
  <2>1. PICK db \in PaDbs : paDb' = [paDb EXCEPT ![s] = db]
    BY <1>4 DEF NotEnabled, PlainCommand
  <2>2. /\ End(s) /\ ~ paSnap.on /\ paId' = [paId EXCEPT ![s] = paId[s]]
        /\ UNCHANGED <<paSnap, paCall, paAuth, paPools, paShut, paBack>>
    BY <1>4 DEF NotEnabled, PlainCommand, PaInv, PaTypes
  <2> QED BY <2>1, <2>2, EndKeepsInv
<1>5. CASE getACLIdentity(s)
  <2> DEFINE cmd == [paCmd[s] EXCEPT !.stage = "identity", !.id = paId[s]]
  <2>1. paCmd[s].stage = "checked" /\ UNCHANGED <<paSnap, paCall, paId, paAuth, paPools, paShut, paBack>>
    BY <1>5 DEF getACLIdentity
  <2>2. CASE paId[s] = NoId /\ PlainCommand(s)
    <3>1. PICK db \in PaDbs : paDb' = [paDb EXCEPT ![s] = db]
      BY <2>2 DEF PlainCommand
    <3>2. End(s) /\ paId' = [paId EXCEPT ![s] = paId[s]] /\ paId[s].db = Unbound
      BY <2>1, <2>2, PaConstants DEF PlainCommand, PaInv, PaTypes
    <3> QED BY <2>1, <3>1, <3>2, EndKeepsInv
  <2>3. CASE /\ paId[s] # NoId /\ paCmd' = [paCmd EXCEPT ![s].stage = "identity", ![s].id = paId[s]]
             /\ UNCHANGED paDb
    <3>1. /\ cmd \in PaCmds /\ cmd.stage = "identity" /\ cmd.id = paId[s] /\ cmd.db = paCmd[s].db
          /\ cmd.seen = paCmd[s].seen
      BY <1>1 DEF PaCmds
    <3>2. paCmd' = [paCmd EXCEPT ![s] = cmd]
      BY <1>1, <2>3 DEF PaInv, PaTypes, PaCmds
    <3>3. /\ paAuth[s] = NoAuth /\ paCmd[s].db = paDb[s] /\ paSnap.rev \in paCmd[s].seen
          /\ paId[s].rev \in paCmd[s].seen
          /\ paBack \/ (paId[s].db # Unbound => paDb[s] = paId[s].db)
      BY <1>1, <2>1, <2>3 DEF SessionOk, ForwardOk, Strayed
    <3> HIDE DEF cmd
    <3> QED BY <1>1, <2>1, <2>3, <3>1, <3>2, <3>3, CommandGoesOn
  <2> QED BY <1>5, <2>2, <2>3 DEF getACLIdentity
<1>6. ASSUME NEW db \in 0 .. 2, handleSelect(s, db)
      PROVE  PaInv'
  <2> DEFINE to == IF paCmd[s].id.db = Unbound /\ db \in PaDbs THEN db ELSE paDb[s]
  <2>1. /\ paCmd[s].stage = "identity" /\ End(s)
        /\ UNCHANGED <<paSnap, paCall, paId, paAuth, paPools, paShut, paBack>>
    BY <1>6 DEF handleSelect
  <2>2. paDb' = [paDb EXCEPT ![s] = to] /\ to \in PaDbs
    BY <1>1, <1>6 DEF handleSelect
  <2>3. to = paDb[s] \/ paId[s].db = Unbound
    BY <1>1, <2>1 DEF SessionOk
  <2>4. paId' = [paId EXCEPT ![s] = paId[s]]
    BY <2>1 DEF PaInv, PaTypes
  <2> HIDE DEF to
  <2> QED BY <1>1, <2>1, <2>2, <2>3, <2>4, EndKeepsInv
<1> QED BY <1>2, <1>3, <1>4, <1>5, <1>6

LEMMA PoolKeepsInv ==
    ASSUME PaInv, NEW s \in PaSessions, userBackendPool(s) \/ GetOrCreate(s) \/ PushUser(s)
    PROVE  PaInv'
<1>1. /\ SessionOk(s) /\ paCmd[s] \in PaCmds /\ paId[s] \in PaIds /\ paDb[s] \in PaDbs
      /\ paPools \in [Revs -> 0 .. MaxPools] /\ paSnap \in PaSnaps
  BY DEF PaInv, PaTypes
<1>2. ASSUME NEW stage \in {"pool", "conn"}, NEW n \in 0 .. MaxPools, paCmd[s].stage \in {"identity", "pool"},
             paCmd' = [paCmd EXCEPT ![s].stage = stage, ![s].pool = n],
             UNCHANGED <<paSnap, paCall, paId, paDb, paAuth, paShut, paBack>>,
             paPools' \in [Revs -> 0 .. MaxPools],
             \A r \in Revs : paPools'[r] # paPools[r] => paSnap.on /\ r = paSnap.rev
      PROVE  PaInv'
  <2> DEFINE cmd == [paCmd[s] EXCEPT !.stage = stage, !.pool = n]
  <2>1. /\ cmd \in PaCmds /\ cmd.stage = stage /\ cmd.id = paCmd[s].id /\ cmd.db = paCmd[s].db
        /\ cmd.seen = paCmd[s].seen
    BY <1>1 DEF PaCmds
  <2>2. paCmd' = [paCmd EXCEPT ![s] = cmd]
    BY <1>1, <1>2 DEF PaInv, PaTypes, PaCmds
  <2>3. /\ paAuth[s] = NoAuth /\ paCmd[s].db = paDb[s] /\ paSnap.rev \in paCmd[s].seen
        /\ paCmd[s].id # NoId => paCmd[s].id.rev \in paCmd[s].seen
        /\ paBack \/ (paCmd[s].id.db # Unbound => paCmd[s].db = paCmd[s].id.db)
    BY <1>1, <1>2 DEF SessionOk, ForwardOk
  <2> HIDE DEF cmd
  <2>4. /\ cmd.stage \notin {"none", "read", "checked", "identity"} /\ cmd.db = paDb[s] /\ paSnap.rev \in cmd.seen
        /\ cmd.id # NoId => cmd.id.rev \in cmd.seen
        /\ paBack \/ (cmd.id.db # Unbound => cmd.db = cmd.id.db)
    BY <1>2, <2>1, <2>3
  <2> QED BY <1>2, <2>1, <2>2, <2>3, <2>4, CommandGoesOn
<1>3. CASE userBackendPool(s)
  <2>1. paCmd[s].stage = "identity" /\ UNCHANGED <<paSnap, paCall, paId, paDb, paAuth, paShut, paBack>>
    BY <1>3 DEF userBackendPool
  <2>2. CASE End(s) /\ UNCHANGED paPools
    BY <2>1, <2>2, PlainEnd
  <2>3. ASSUME aclIdentityCurrent(paCmd[s].id)
        PROVE  paSnap.on /\ paSnap.rev = paCmd[s].id.rev /\ paSnap.rev \in Revs
    BY <1>1, <2>3, PaConstants DEF aclIdentityCurrent
  <2>4. CASE /\ aclIdentityCurrent(paCmd[s].id)
             /\ paCmd' = [paCmd EXCEPT ![s].stage = "pool", ![s].pool = paPools[paCmd[s].id.rev]]
             /\ UNCHANGED paPools
    <3>1. paPools[paCmd[s].id.rev] \in 0 .. MaxPools
      BY <1>1, <2>3, <2>4
    <3> QED BY <1>1, <1>2, <2>1, <2>4, <3>1
  <2>5. ASSUME aclIdentityCurrent(paCmd[s].id), NEW n \in 1 .. MaxPools,
               paPools' = [paPools EXCEPT ![paCmd[s].id.rev] = n],
               paCmd' = [paCmd EXCEPT ![s].stage = "pool", ![s].pool = n]
        PROVE  PaInv'
    <3>1. paPools' \in [Revs -> 0 .. MaxPools] /\ n \in 0 .. MaxPools
      <4>1. n \in 0 .. MaxPools
        BY ProxyACLAssumption
      <4> QED BY <1>1, <2>5, <4>1
    <3>2. \A r \in Revs : paPools'[r] # paPools[r] => paSnap.on /\ r = paSnap.rev
      BY <1>1, <2>3, <2>5
    <3> QED BY <1>2, <2>1, <2>5, <3>1, <3>2
  <2> QED BY <1>3, <2>2, <2>4, <2>5 DEF userBackendPool
<1>4. CASE GetOrCreate(s)
  <2>1. paCmd[s].stage = "pool" /\ UNCHANGED <<paSnap, paCall, paId, paDb, paAuth, paPools, paShut, paBack>>
    BY <1>4 DEF GetOrCreate
  <2>2. CASE End(s)
    BY <2>1, <2>2, PlainEnd
  <2>3. CASE paCmd' = [paCmd EXCEPT ![s].stage = "conn"]
    <3>1. paCmd[s].pool \in 0 .. MaxPools
      BY <1>1 DEF PaCmds
    <3>2. [paCmd[s] EXCEPT !.stage = "conn"] = [paCmd[s] EXCEPT !.stage = "conn", !.pool = paCmd[s].pool]
      BY <1>1 DEF PaCmds
    <3>3. paCmd' = [paCmd EXCEPT ![s].stage = "conn", ![s].pool = paCmd[s].pool]
      BY <1>1, <2>3, <3>2 DEF PaInv, PaTypes
    <3> QED BY <1>1, <1>2, <2>1, <3>1, <3>3
  <2> QED BY <1>4, <2>2, <2>3 DEF GetOrCreate
<1>5. CASE PushUser(s)
  BY <1>5, PlainEnd DEF PushUser
<1> QED BY <1>3, <1>4, <1>5

LEMMA PaStepKeepsInv ==
    ASSUME PaInv, [PaNext]_paVars
    PROVE  PaInv'
<1>1. ASSUME NEW c \in PaCalls,
             \/ \E acl \in PaACLs : SetACL(c, acl)
             \/ \E s \in PaSessions : markACLStale(c, s)
             \/ closeUserBackendPools(c)
      PROVE  PaInv'
  BY <1>1, SetACLKeepsInv, MarkKeepsInv, ClosePoolsKeepsInv
<1>2. ASSUME NEW s \in PaSessions,
             \/ AuthBegins(s) \/ handleACLAuth(s)
             \/ CommandBegins(s) \/ isACLAuthorized(s) \/ NotEnabled(s) \/ getACLIdentity(s)
             \/ \E db \in 0 .. 2 : handleSelect(s, db)
             \/ userBackendPool(s) \/ GetOrCreate(s) \/ PushUser(s)
      PROVE  PaInv'
  BY <1>2, AuthKeepsInv, CommandKeepsInv, PoolKeepsInv
<1>3. CASE UNCHANGED paVars
  BY <1>3 DEF paVars, PaInv, PaTypes, PoolsAreCurrent, SessionOk, ForwardOk, Strayed
<1> QED BY <1>1, <1>2, <1>3 DEF PaNext

(* An ACL takes effect, for any sessions, users' databases and calls of    *)
(* SetACL that overlap: pools and commands of before do not outlive it,    *)
(* and a bound user stays in its database as long as no older revision is  *)
(* put in force again (router.go, session.go, session_auth.go,             *)
(* client_list.go).                                                        *)
THEOREM ACLTheorem == PaSpec => []ACLIsKept
<1>1. PaInit => PaInv
  BY PaInitInv
<1>2. PaInv /\ [PaNext]_paVars => PaInv'
  BY PaStepKeepsInv
<1>3. PaInv => ACLIsKept
  <2>1. SUFFICES ASSUME PaInv PROVE ACLIsKept
    OBVIOUS
  <2>2. PaTypeOK
    BY <2>1 DEF PaInv, PaTypes, PaTypeOK, PaSnaps, PaIds
  <2>3. CommandsAreOfTheirTime /\ BoundStaysInDb
    BY <2>1 DEF PaInv, SessionOk, ForwardOk, CommandsAreOfTheirTime, BoundStaysInDb
  <2> QED BY <2>1, <2>2, <2>3 DEF ACLIsKept, PaInv
<1> QED BY <1>1, <1>2, <1>3, PTL DEF PaSpec

-----------------------------------------------------------------------------
(* QPSLimit.                                                               *)

QlRates == [rev: 0 .. MaxQlRev, limit: QlLimits \cup {0}]

QlTypes ==
    /\ qlClock \in 0 .. MaxClock
    /\ qlBucket \in [rev: 0 .. MaxQlRev, limit: QlLimits \cup {0}, tokens: Nat, refill: Nat]
    /\ qlCaller \in [QlCallers -> Nat]
    /\ qlSet \in [now: Nat, rev: 0 .. MaxQlRev, limit: QlLimits \cup {0}, late: BOOLEAN]
    /\ qlStore \in QlRates
    /\ qlCache = Dirty \/ qlCache \in QlRates
    /\ qlOp \in [stage: {"none", "send", "wait", "taken"}, rev: 0 .. MaxQlRev, limit: QlLimits \cup {0}]
    /\ qlLate \subseteq QlRates
    /\ qlReady \in BOOLEAN /\ qlOver \in BOOLEAN
    /\ qlWindow \in [from: Nat, passed: Nat]

(* Times that were read are not ahead of the clock.                        *)
QlTimes ==
    /\ qlBucket.refill <= qlClock
    /\ \A c \in QlCallers : qlCaller[c] # Never => qlCaller[c] <= qlClock
    /\ qlSet # NoSet => qlSet.now <= qlClock
    /\ qlWindow.from <= qlBucket.refill

(* What a window of time lets through is paid with the tokens of a second  *)
(* and of the time since it began.                                         *)
QlPaid ==
    /\ qlBucket.tokens <= qlBucket.limit * Ticks
    /\ qlBucket.limit # 0 =>
          qlBucket.tokens + qlWindow.passed * Ticks
             <= qlBucket.limit * (Ticks + (qlBucket.refill - qlWindow.from))

(* The dashboard has gone on since a call it does not wait for any more,   *)
(* or the call brings the limit that it believes in.                       *)
GivenUp(call) ==
    call.rev < CachedLimit.rev \/ (call.rev = CachedLimit.rev /\ call.limit = CachedLimit.limit)

InForce == qlBucket.rev = qlStore.rev /\ qlBucket.limit = qlStore.limit

QlForce ==
    /\ qlOp = NoQlOp \/ qlOp.stage # "none"
    /\ qlOp.stage # "none" => qlCache = Dirty /\ qlStore.rev = qlOp.rev /\ qlStore.limit = qlOp.limit /\ qlOp.rev > 0
    /\ qlSet # NoSet => IF qlSet.late THEN GivenUp(qlSet)
                        ELSE qlOp.stage = "wait" /\ qlSet.rev = qlOp.rev /\ qlSet.limit = qlOp.limit
    /\ \A call \in qlLate : GivenUp(call)
    /\ qlReady => qlStore.rev > 0
    /\ (qlReady /\ qlCache \in {Dirty, qlStore}) \/ qlOp.stage = "taken" => qlOver \/ InForce

QlInv == QlTypes /\ QlTimes /\ QlPaid /\ QlForce

QlBuckets == [rev: 0 .. MaxQlRev, limit: QlLimits \cup {0}, tokens: Nat, refill: Nat]

LEMMA Scaled ==
    ASSUME NEW a \in Nat, NEW x \in Int, NEW y \in Int
    PROVE  /\ a * (x + y) = a * x + a * y
           /\ x <= y => a * x <= a * y
           /\ a * x \in Int
<1>1. a * (x + y) = a * x + a * y /\ a * x \in Int /\ a * y \in Int
  OBVIOUS
<1>2. ASSUME x <= y PROVE a * x <= a * y
  <2>1. a * (y - x) >= 0
    BY <1>2
  <2>2. a * y = a * x + a * (y - x)
    OBVIOUS
  <2> QED BY <1>1, <2>1, <2>2
<1> QED BY <1>1, <1>2

(* Limits are numbers.                                                     *)
LEMMA QlConstants ==
    /\ \A limit \in QlLimits \cup {0} : limit \in Nat /\ limit * Ticks \in Nat
    /\ Ticks \in Nat /\ Ticks > 0 /\ MaxClock \in Nat /\ MaxQlRev \in Nat
    /\ Never \in Nat /\ \A t \in 0 .. MaxClock : t # Never
    /\ \A rate \in QlRates : rate.rev \in Nat /\ rate.rev <= MaxQlRev /\ rate # Dirty
<1>1. \A rate \in QlRates : rate.rev # Dirty.rev
  BY QPSLimitAssumption DEF QlRates, Dirty
<1> QED BY <1>1, QPSLimitAssumption DEF QlRates, Never

LEMMA QlInitInv ==
    ASSUME QlInit
    PROVE  QlInv
<1>1. QlTypes
  <2>1. 0 \in 0 .. MaxClock /\ 0 \in 0 .. MaxQlRev /\ Never \in Nat /\ 0 \in QlLimits \cup {0}
    BY QlConstants
  <2> QED BY <2>1 DEF QlInit, QlTypes, QlRates, NoLimit, NoSet, NoQlOp
<1>2. QlTimes /\ QlPaid
  BY QlConstants DEF QlInit, QlTimes, QlPaid
<1>3. QlForce
  BY DEF QlInit, QlForce, NoQlOp
<1> QED BY <1>1, <1>2, <1>3 DEF QlInv

-----------------------------------------------------------------------------
(* The bucket.                                                             *)

(* A refill adds the tokens of the time since the last one at most.        *)
LEMMA RefillPaid ==
    ASSUME QlInv, NEW now \in Nat, now <= qlClock
    PROVE  LET b == refillLocked(qlBucket, now)
           IN  /\ b \in QlBuckets /\ b.rev = qlBucket.rev /\ b.limit = qlBucket.limit
               /\ b.refill <= qlClock /\ qlWindow.from <= b.refill
               /\ b.tokens <= b.limit * Ticks
               /\ b.limit # 0 => b.tokens + qlWindow.passed * Ticks <= b.limit * (Ticks + (b.refill - qlWindow.from))
<1> DEFINE b == refillLocked(qlBucket, now)
           limit == qlBucket.limit
           full == limit * Ticks
           more == qlBucket.tokens + (now - qlBucket.refill) * limit
<1>1. /\ qlBucket \in QlBuckets /\ limit \in Nat /\ Ticks \in Nat /\ full \in Nat
      /\ qlBucket.tokens \in Nat /\ qlBucket.refill \in Nat
      /\ qlWindow.from \in Nat /\ qlWindow.passed \in Nat /\ qlClock \in Nat
      /\ qlWindow.from <= qlBucket.refill /\ qlBucket.refill <= qlClock
  BY QlConstants DEF QlInv, QlTypes, QlTimes, QlBuckets
<1>2. CASE now <= qlBucket.refill
  <2>1. b = qlBucket
    BY <1>2 DEF refillLocked
  <2> QED BY <1>1, <2>1 DEF QlInv, QlPaid
<1>3. CASE ~ (now <= qlBucket.refill)
  <2>1. b = [qlBucket EXCEPT !.tokens = Smaller(more, full), !.refill = now]
    BY <1>3 DEF refillLocked
  <2>2. (now - qlBucket.refill) * limit \in Nat /\ (now - qlBucket.refill) * limit = limit * (now - qlBucket.refill)
    BY <1>1, <1>3
  <2>3. more \in Nat
    BY <1>1, <2>2
  <2>4. Smaller(more, full) \in Nat /\ Smaller(more, full) <= full /\ Smaller(more, full) <= more
    BY <1>1, <2>3 DEF Smaller
  <2>5. /\ b \in QlBuckets /\ b.rev = qlBucket.rev /\ b.limit = limit
        /\ b.tokens = Smaller(more, full) /\ b.refill = now
    BY <1>1, <2>1, <2>4 DEF QlBuckets
  <2>6. ASSUME limit # 0
        PROVE  b.tokens + qlWindow.passed * Ticks <= limit * (Ticks + (now - qlWindow.from))
    <3>1. qlBucket.tokens + qlWindow.passed * Ticks <= limit * (Ticks + (qlBucket.refill - qlWindow.from))
      BY <2>6 DEF QlInv, QlPaid
    <3>2. limit * (Ticks + (now - qlWindow.from))
             = limit * (Ticks + (qlBucket.refill - qlWindow.from)) + limit * (now - qlBucket.refill)
      <4> DEFINE x == Ticks + (qlBucket.refill - qlWindow.from)
                 y == now - qlBucket.refill
      <4>1. x \in Int /\ y \in Int /\ Ticks + (now - qlWindow.from) = x + y
        BY <1>1
      <4> HIDE DEF x, y
      <4>2. limit * (x + y) = limit * x + limit * y
        BY <1>1, <4>1, Scaled
      <4> QED BY <4>1, <4>2 DEF x, y
    <3>3. qlWindow.passed * Ticks \in Nat /\ limit * (Ticks + (qlBucket.refill - qlWindow.from)) \in Int
      BY <1>1
    <3> DEFINE paid == qlWindow.passed * Ticks
               due == limit * (Ticks + (qlBucket.refill - qlWindow.from))
               add == limit * (now - qlBucket.refill)
    <3>4. /\ paid \in Nat /\ due \in Int /\ add \in Nat /\ b.tokens \in Nat
          /\ b.tokens <= qlBucket.tokens + add /\ qlBucket.tokens + paid <= due
      BY <2>2, <2>4, <2>5, <3>1, <3>3
    <3> HIDE DEF paid, due, add, b
    <3>5. b.tokens + paid <= due + add
      BY <1>1, <3>4
    <3> QED BY <3>2, <3>5 DEF paid, due, add
  <2> HIDE DEF b
  <2>7. /\ b \in QlBuckets /\ b.rev = qlBucket.rev /\ b.limit = qlBucket.limit
        /\ b.refill <= qlClock /\ qlWindow.from <= b.refill
        /\ b.tokens <= b.limit * Ticks
        /\ b.limit # 0 => b.tokens + qlWindow.passed * Ticks <= b.limit * (Ticks + (b.refill - qlWindow.from))
    BY <1>1, <1>3, <2>4, <2>5, <2>6
  <2> QED BY <2>7 DEF b
<1> QED BY <1>2, <1>3

(* The limit of the bucket and what the dashboard knows of it stay.        *)
LEMMA SameForce ==
    ASSUME QlInv, qlBucket'.rev = qlBucket.rev, qlBucket'.limit = qlBucket.limit,
           UNCHANGED <<qlSet, qlStore, qlCache, qlOp, qlLate, qlReady, qlOver>>
    PROVE  QlForce'
BY DEF QlInv, QlForce, GivenUp, CachedLimit, InForce

LEMMA TimeKeepsInv ==
    ASSUME QlInv, Tick \/ WindowBegins \/ \E c \in QlCallers : AskToken(c)
    PROVE  QlInv'
<1>1. /\ UNCHANGED <<qlBucket, qlSet, qlStore, qlCache, qlOp, qlLate, qlReady, qlOver>>
  BY DEF Tick, WindowBegins, AskToken
<1>2. QlForce'
  BY <1>1, SameForce
<1>3. qlBucket \in QlBuckets /\ qlClock \in 0 .. MaxClock
  BY DEF QlInv, QlTypes, QlBuckets
<1>4. CASE Tick
  <2>1. qlClock' = qlClock + 1 /\ qlClock' \in 0 .. MaxClock /\ UNCHANGED <<qlCaller, qlWindow>>
    BY <1>3, <1>4, QlConstants DEF Tick
  <2>2. QlTypes' /\ QlPaid'
    BY <1>1, <2>1 DEF QlInv, QlTypes, QlPaid
  <2>3. QlTimes'
    BY <1>1, <1>3, <2>1 DEF QlInv, QlTypes, QlTimes, QlBuckets
  <2> QED BY <1>2, <2>2, <2>3 DEF QlInv
<1>5. CASE WindowBegins
  <2>1. qlWindow' = [from |-> qlBucket.refill, passed |-> 0] /\ UNCHANGED <<qlClock, qlCaller>>
    BY <1>5 DEF WindowBegins
  <2>2. /\ qlBucket.refill \in Nat /\ qlBucket.limit \in Nat /\ qlBucket.tokens \in Nat /\ Ticks \in Nat
        /\ qlBucket.tokens <= qlBucket.limit * Ticks /\ qlBucket.limit * Ticks \in Nat
    BY <1>3, QlConstants DEF QlBuckets, QlInv, QlPaid
  <2>3. QlTypes' /\ QlTimes'
    BY <1>1, <2>1, <2>2 DEF QlInv, QlTypes, QlTimes
  <2>4. qlWindow'.from = qlBucket.refill /\ qlWindow'.passed = 0
    BY <2>1
  <2>5. QlPaid'
    <3>1. Ticks + (qlBucket.refill - qlBucket.refill) = Ticks /\ 0 * Ticks = 0
      BY <2>2
    <3> QED BY <1>1, <2>2, <2>4, <3>1 DEF QlPaid
  <2> QED BY <1>2, <2>3, <2>5 DEF QlInv
<1>6. ASSUME NEW c \in QlCallers, AskToken(c)
      PROVE  QlInv'
  <2>1. qlCaller' = [qlCaller EXCEPT ![c] = qlClock] /\ UNCHANGED <<qlClock, qlWindow>>
    BY <1>6 DEF AskToken
  <2>2. QlTypes' /\ QlTimes' /\ QlPaid'
    BY <1>1, <1>3, <2>1 DEF QlInv, QlTypes, QlTimes, QlPaid
  <2> QED BY <1>2, <2>2 DEF QlInv
<1> QED BY <1>4, <1>5, <1>6

LEMMA AllowKeepsInv ==
    ASSUME QlInv, NEW c \in QlCallers, Allow(c)
    PROVE  QlInv'
<1> DEFINE b == refillLocked(qlBucket, qlCaller[c])
<1>1. /\ qlCaller[c] # Never /\ qlCaller[c] \in Nat /\ qlCaller[c] <= qlClock
      /\ qlCaller' = [qlCaller EXCEPT ![c] = Never]
      /\ UNCHANGED <<qlClock, qlSet, qlStore, qlCache, qlOp, qlLate, qlReady, qlOver>>
  BY DEF Allow, QlInv, QlTypes, QlTimes
<1>2. /\ b \in QlBuckets /\ b.rev = qlBucket.rev /\ b.limit = qlBucket.limit
      /\ b.refill <= qlClock /\ qlWindow.from <= b.refill
      /\ b.tokens <= b.limit * Ticks
      /\ b.limit # 0 => b.tokens + qlWindow.passed * Ticks <= b.limit * (Ticks + (b.refill - qlWindow.from))
  BY <1>1, RefillPaid
<1>3. qlCaller' \in [QlCallers -> Nat] /\ \A d \in QlCallers : qlCaller'[d] # Never => qlCaller'[d] <= qlClock'
  BY <1>1, QlConstants DEF QlInv, QlTypes, QlTimes
<1>4. CASE UNCHANGED <<qlBucket, qlWindow>>
  <2>1. QlTypes' /\ QlTimes' /\ QlPaid'
    BY <1>1, <1>3, <1>4 DEF QlInv, QlTypes, QlTimes, QlPaid
  <2> QED BY <1>1, <1>4, <2>1, SameForce DEF QlInv
<1> HIDE DEF b
<1>5. CASE /\ qlBucket.limit # 0 /\ b.tokens >= Ticks
           /\ qlBucket' = [b EXCEPT !.tokens = @ - Ticks]
           /\ qlWindow' = [qlWindow EXCEPT !.passed = @ + 1]
  <2>1. /\ qlWindow \in [from: Nat, passed: Nat] /\ Ticks \in Nat
        /\ b.tokens \in Nat /\ b.tokens - Ticks \in Nat /\ qlWindow.passed \in Nat
    BY <1>2, <1>5, QlConstants DEF QlInv, QlTypes, QlBuckets
  <2>2. /\ qlBucket' \in QlBuckets /\ qlBucket'.rev = b.rev /\ qlBucket'.limit = b.limit
        /\ qlBucket'.tokens = b.tokens - Ticks /\ qlBucket'.refill = b.refill
    BY <1>2, <1>5, <2>1 DEF QlBuckets
  <2>3. qlWindow' \in [from: Nat, passed: Nat] /\ qlWindow'.from = qlWindow.from /\ qlWindow'.passed = qlWindow.passed + 1
    BY <1>5, <2>1
  <2>4. QlTypes'
    BY <1>1, <1>3, <2>2, <2>3 DEF QlInv, QlTypes, QlBuckets
  <2>5. QlTimes'
    BY <1>1, <1>2, <1>3, <2>2, <2>3 DEF QlInv, QlTimes
  <2>6. (qlWindow.passed + 1) * Ticks = qlWindow.passed * Ticks + Ticks /\ qlWindow.passed * Ticks \in Nat
    BY <2>1
  <2>7. /\ b.tokens - Ticks <= b.limit * Ticks
        /\ b.tokens - Ticks + (qlWindow.passed + 1) * Ticks = b.tokens + qlWindow.passed * Ticks
    <3>1. b.limit * Ticks \in Nat
      BY <1>2, QlConstants DEF QlBuckets
    <3> QED BY <1>2, <2>1, <2>6, <3>1
  <2>8. QlPaid'
    BY <1>2, <1>5, <2>2, <2>3, <2>7 DEF QlPaid
  <2> QED BY <1>1, <1>2, <2>2, <2>4, <2>5, <2>8, SameForce DEF QlInv
<1>6. CASE qlBucket' = b /\ UNCHANGED qlWindow
  <2>1. QlTypes' /\ QlTimes' /\ QlPaid'
    BY <1>1, <1>2, <1>3, <1>6 DEF QlInv, QlTypes, QlTimes, QlPaid, QlBuckets
  <2> QED BY <1>1, <1>2, <1>6, <2>1, SameForce DEF QlInv
<1> QED BY <1>4, <1>5, <1>6 DEF Allow, b

(* What the limit of a bucket that is set anew may hold.                   *)
LEMMA NewBucket ==
    ASSUME QlInv, NEW rev \in 0 .. MaxQlRev, NEW limit \in QlLimits \cup {0}, NEW tokens \in Nat,
           tokens <= limit * Ticks, NEW now \in Nat, now <= qlClock,
           qlBucket' = [rev |-> rev, limit |-> limit, tokens |-> tokens, refill |-> now],
           qlWindow' = [from |-> now, passed |-> 0], UNCHANGED qlClock
    PROVE  /\ qlBucket' \in QlBuckets /\ qlBucket'.rev = rev /\ qlBucket'.limit = limit
           /\ qlWindow' \in [from: Nat, passed: Nat]
           /\ qlBucket'.refill <= qlClock' /\ qlWindow'.from <= qlBucket'.refill
           /\ QlPaid'
<1>1. /\ qlBucket' \in QlBuckets /\ qlBucket'.rev = rev /\ qlBucket'.limit = limit
      /\ qlBucket'.tokens = tokens /\ qlBucket'.refill = now
      /\ qlWindow' \in [from: Nat, passed: Nat] /\ qlWindow'.from = now /\ qlWindow'.passed = 0
  BY DEF QlBuckets
<1>2. limit \in Nat /\ limit * Ticks \in Nat /\ Ticks \in Nat
  BY QlConstants
<1>3. Ticks + (now - now) = Ticks /\ 0 * Ticks = 0
  BY <1>2
<1>4. QlPaid'
  BY <1>1, <1>2, <1>3 DEF QlPaid
<1> QED BY <1>1, <1>4

LEMMA SetLimitKeepsInv ==
    ASSUME QlInv, SetLimit
    PROVE  QlInv'
<1>1. /\ qlSet # NoSet /\ qlSet' = NoSet
      /\ UNCHANGED <<qlClock, qlCaller, qlStore, qlCache, qlLate, qlReady>>
      /\ qlSet \in [now: Nat, rev: 0 .. MaxQlRev, limit: QlLimits \cup {0}, late: BOOLEAN]
      /\ qlSet.now <= qlClock
  BY DEF SetLimit, QlInv, QlTypes, QlTimes
<1>2. setTokens(qlSet.limit) \in Nat /\ setTokens(qlSet.limit) <= qlSet.limit * Ticks
  <2>1. qlSet.limit * Ticks \in Nat /\ qlBucket.tokens \in Nat
    BY <1>1, QlConstants DEF QlInv, QlTypes
  <2> HIDE DEF setTokens
  <2>2. ASSUME qlSet.limit = 0 PROVE 0 <= qlSet.limit * Ticks
    BY <2>1
  <2> QED BY <2>1, <2>2 DEF setTokens, Smaller
<1>3. /\ qlBucket' \in QlBuckets /\ qlBucket'.rev = qlSet.rev /\ qlBucket'.limit = qlSet.limit
      /\ qlWindow' \in [from: Nat, passed: Nat]
      /\ qlBucket'.refill <= qlClock' /\ qlWindow'.from <= qlBucket'.refill
      /\ QlPaid'
  <2>1. /\ qlBucket' = [rev |-> qlSet.rev, limit |-> qlSet.limit, tokens |-> setTokens(qlSet.limit), refill |-> qlSet.now]
        /\ qlWindow' = [from |-> qlSet.now, passed |-> 0]
    BY DEF SetLimit
  <2> QED BY <1>1, <1>2, <2>1, NewBucket
<1>4. /\ qlOver' = (qlSet.late /\ qlSet.rev < qlStore.rev)
      /\ qlOp' = IF qlSet.late THEN qlOp ELSE [qlOp EXCEPT !.stage = "taken"]
  BY DEF SetLimit
<1>5. qlSet' \in [now: Nat, rev: 0 .. MaxQlRev, limit: QlLimits \cup {0}, late: BOOLEAN]
  <2>1. 0 \in 0 .. MaxQlRev /\ Never \in Nat
    BY QlConstants
  <2> QED BY <1>1, <2>1 DEF NoSet
<1>6. /\ qlOp' \in [stage: {"none", "send", "wait", "taken"}, rev: 0 .. MaxQlRev, limit: QlLimits \cup {0}]
      /\ qlOp'.rev = qlOp.rev /\ qlOp'.limit = qlOp.limit
      /\ qlSet.late => qlOp' = qlOp
      /\ ~ qlSet.late => qlOp'.stage = "taken"
  BY <1>4 DEF QlInv, QlTypes
<1>7. QlTypes'
  BY <1>1, <1>3, <1>4, <1>5, <1>6 DEF QlInv, QlTypes, QlBuckets
<1>8. QlTimes'
  BY <1>1, <1>3 DEF QlInv, QlTimes
<1>9. QlForce'
  <2>1. /\ qlSet.rev \in Nat /\ qlStore.rev \in Nat
        /\ qlCache \in {Dirty, qlStore} => CachedLimit = qlStore
    BY <1>1, QlConstants DEF QlInv, QlTypes, QlRates, CachedLimit
  <2>2. CASE qlSet.late
    <3>1. GivenUp(qlSet) /\ qlOp' = qlOp
      BY <1>1, <1>6, <2>2 DEF QlInv, QlForce
    <3>2. qlCache \in {Dirty, qlStore} => qlOver' \/ InForce'
      BY <1>1, <1>3, <1>4, <2>1, <2>2, <3>1 DEF GivenUp, InForce
    <3> QED BY <1>1, <3>1, <3>2 DEF QlInv, QlForce, GivenUp, CachedLimit
  <2>3. CASE ~ qlSet.late
    <3>1. qlOp.stage = "wait" /\ qlSet.rev = qlOp.rev /\ qlSet.limit = qlOp.limit
      BY <1>1, <2>3 DEF QlInv, QlForce
    <3>2. InForce'
      BY <1>1, <1>3, <3>1 DEF QlInv, QlForce, InForce
    <3> QED BY <1>1, <1>6, <2>3, <3>1, <3>2 DEF QlInv, QlForce, GivenUp, CachedLimit
  <2> QED BY <2>2, <2>3
<1> QED BY <1>3, <1>7, <1>8, <1>9 DEF QlInv

-----------------------------------------------------------------------------
(* The dashboard and the proxy.                                            *)

(* The clock, the bucket, its callers and the window are left alone.       *)
LEMMA BucketStays ==
    ASSUME QlInv, UNCHANGED <<qlClock, qlBucket, qlCaller, qlWindow>>, qlSet' # NoSet => qlSet'.now <= qlClock
    PROVE  QlTimes' /\ QlPaid'
BY DEF QlInv, QlTimes, QlPaid

LEMMA CachedIsRate ==
    ASSUME QlTypes
    PROVE  CachedLimit \in QlRates /\ CachedLimit.rev \in Nat /\ CachedLimit # Dirty
BY QlConstants DEF QlTypes, CachedLimit

LEMMA UpdateKeepsInv ==
    ASSUME QlInv, NEW limit \in QlLimits, UpdateProxyQPSLimit(limit)
    PROVE  QlInv'
<1> DEFINE new == buildProxyQPSLimit(limit)
<1>1. /\ qlOp = NoQlOp /\ CachedLimit.rev < MaxQlRev /\ qlReady' = FALSE
      /\ UNCHANGED <<qlClock, qlBucket, qlCaller, qlSet, qlLate, qlOver, qlWindow>>
  BY DEF UpdateProxyQPSLimit
<1>2. CachedLimit \in QlRates /\ CachedLimit.rev \in Nat /\ CachedLimit # Dirty
  BY CachedIsRate DEF QlInv
<1>3. new \in QlRates /\ new.rev = CachedLimit.rev + 1 /\ new.limit = limit
  <2>1. CachedLimit.rev + 1 \in 0 .. MaxQlRev
    BY <1>1, <1>2, QlConstants
  <2> QED BY <2>1 DEF buildProxyQPSLimit, QlRates
<1>4. qlOp.stage = "none"
  BY <1>1 DEF NoQlOp
<1>5. QlTimes' /\ QlPaid'
  BY <1>1, BucketStays DEF QlInv, QlTimes
<1> HIDE DEF new
<1>6. qlSet = NoSet \/ (qlSet.late /\ GivenUp(qlSet))
  BY <1>4 DEF QlInv, QlForce
<1>7. CASE /\ qlStore' = new /\ qlCache' = Dirty
           /\ qlOp' = [stage |-> "send", rev |-> new.rev, limit |-> new.limit]
  <2>1. QlTypes'
    BY <1>1, <1>3, <1>7 DEF QlInv, QlTypes, QlRates
  <2>2. qlOp'.stage = "send" /\ qlOp'.rev = new.rev /\ qlOp'.limit = new.limit
    BY <1>7
  <2>3. CachedLimit' = new
    BY <1>7 DEF CachedLimit
  <2>4. \A call : GivenUp(call) /\ call.rev \in Nat => GivenUp(call)'
    BY <1>2, <1>3, <2>3 DEF GivenUp
  <2>5. /\ \A call \in qlLate' : GivenUp(call)'
        /\ qlSet # NoSet => GivenUp(qlSet)'
    BY <1>1, <1>6, <2>4, QlConstants DEF QlInv, QlTypes, QlForce, QlRates
  <2>6. qlSet' # NoSet => qlSet'.late /\ GivenUp(qlSet)'
    BY <1>1, <1>6, <2>5 DEF GivenUp, CachedLimit
  <2>7. QlForce'
    BY <1>1, <1>2, <1>3, <1>7, <2>2, <2>5, <2>6 DEF QlForce
  <2> QED BY <1>5, <2>1, <2>7 DEF QlInv
<1>8. CASE qlStore' \in {qlStore, new} /\ qlCache' = CachedLimit /\ UNCHANGED qlOp
  <2>1. QlTypes'
    BY <1>1, <1>2, <1>3, <1>8 DEF QlInv, QlTypes
  <2>2. CachedLimit' = CachedLimit
    BY <1>2, <1>8 DEF CachedLimit
  <2>3. QlForce'
    BY <1>1, <1>4, <1>6, <1>8, <2>2 DEF QlInv, QlForce, GivenUp
  <2> QED BY <1>5, <2>1, <2>3 DEF QlInv
<1> QED BY <1>7, <1>8 DEF UpdateProxyQPSLimit, new

LEMMA SyncKeepsInv ==
    ASSUME QlInv, syncProxyQPSLimit \/ SyncEnds \/ LateCall
    PROVE  QlInv'
<1>1. /\ qlClock \in 0 .. MaxClock /\ qlClock \in Nat /\ qlClock # Never
      /\ NoQlOp \in [stage: {"none", "send", "wait", "taken"}, rev: 0 .. MaxQlRev, limit: QlLimits \cup {0}]
      /\ NoQlOp.stage = "none"
      /\ qlOp \in [stage: {"none", "send", "wait", "taken"}, rev: 0 .. MaxQlRev, limit: QlLimits \cup {0}]
  <2>1. 0 \in 0 .. MaxQlRev
    BY QlConstants
  <2> QED BY <2>1, QlConstants DEF QlInv, QlTypes, NoQlOp
<1>2. UNCHANGED <<qlClock, qlBucket, qlCaller, qlStore, qlCache, qlOver, qlWindow>>
  BY DEF syncProxyQPSLimit, SyncEnds, LateCall
<1>3. CachedLimit' = CachedLimit /\ (InForce' <=> InForce)
  BY <1>2 DEF CachedLimit, InForce
<1>4. CASE syncProxyQPSLimit
  <2>1. qlOp.stage = "send" /\ UNCHANGED qlReady
    BY <1>4 DEF syncProxyQPSLimit
  <2>2. qlCache = Dirty /\ CachedLimit = qlStore /\ qlStore.rev = qlOp.rev /\ qlStore.limit = qlOp.limit /\ qlOp.rev > 0
    BY <2>1 DEF QlInv, QlForce, CachedLimit
  <2>3. CASE /\ qlSet = NoSet
             /\ qlSet' = [now |-> qlClock, rev |-> qlOp.rev, limit |-> qlOp.limit, late |-> FALSE]
             /\ qlOp' = [qlOp EXCEPT !.stage = "wait"]
             /\ UNCHANGED qlLate
    <3>1. /\ qlSet' \in [now: Nat, rev: 0 .. MaxQlRev, limit: QlLimits \cup {0}, late: BOOLEAN]
          /\ qlSet'.now = qlClock /\ qlSet'.rev = qlOp.rev /\ qlSet'.limit = qlOp.limit /\ ~ qlSet'.late
      BY <1>1, <2>3
    <3>2. /\ qlOp' \in [stage: {"none", "send", "wait", "taken"}, rev: 0 .. MaxQlRev, limit: QlLimits \cup {0}]
          /\ qlOp'.stage = "wait" /\ qlOp'.rev = qlOp.rev /\ qlOp'.limit = qlOp.limit
      BY <1>1, <2>3
    <3>3. QlTypes'
      BY <1>2, <2>1, <2>3, <3>1, <3>2 DEF QlInv, QlTypes
    <3>4. QlTimes' /\ QlPaid'
      BY <1>1, <1>2, <3>1, BucketStays
    <3>5. QlForce'
      BY <1>2, <1>3, <2>1, <2>2, <2>3, <3>1, <3>2 DEF QlInv, QlForce, GivenUp
    <3> QED BY <3>3, <3>4, <3>5 DEF QlInv
  <2>4. CASE /\ qlLate' = qlLate \cup {[rev |-> qlOp.rev, limit |-> qlOp.limit]}
             /\ qlOp' = NoQlOp
             /\ UNCHANGED qlSet
    <3> DEFINE call == [rev |-> qlOp.rev, limit |-> qlOp.limit]
    <3>1. call \in QlRates /\ call.rev = CachedLimit.rev /\ call.limit = CachedLimit.limit
      BY <1>1, <2>2 DEF QlRates
    <3>2. QlTypes'
      BY <1>1, <1>2, <2>1, <2>4, <3>1 DEF QlInv, QlTypes
    <3>3. QlTimes' /\ QlPaid'
      BY <1>2, <2>4, BucketStays DEF QlInv, QlTimes
    <3> HIDE DEF call
    <3>4. qlLate' = qlLate \cup {call}
      BY <2>4 DEF call
    <3>5. \A x \in qlLate' : GivenUp(x)'
      BY <1>3, <3>1, <3>4 DEF QlInv, QlForce, GivenUp
    <3>6. qlSet = NoSet \/ qlSet.late
      BY <2>1 DEF QlInv, QlForce
    <3>7. qlSet' # NoSet => qlSet'.late /\ GivenUp(qlSet)'
      BY <1>3, <2>4, <3>6 DEF QlInv, QlForce, GivenUp
    <3>8. QlForce'
      BY <1>1, <1>2, <1>3, <2>1, <2>4, <3>5, <3>7 DEF QlInv, QlForce
    <3> QED BY <3>2, <3>3, <3>8 DEF QlInv
  <2> QED BY <1>4, <2>3, <2>4 DEF syncProxyQPSLimit
<1>5. CASE SyncEnds
  <2>1. qlOp.stage = "taken" /\ qlOp' = NoQlOp /\ qlReady' = TRUE /\ UNCHANGED <<qlSet, qlLate>>
    BY <1>5 DEF SyncEnds
  <2>2. QlTypes'
    BY <1>1, <1>2, <2>1 DEF QlInv, QlTypes
  <2>3. QlTimes' /\ QlPaid'
    BY <1>2, <2>1, BucketStays DEF QlInv, QlTimes
  <2>4. qlSet = NoSet \/ qlSet.late
    BY <2>1 DEF QlInv, QlForce
  <2>5. qlSet' # NoSet => qlSet'.late /\ GivenUp(qlSet)'
    BY <1>3, <2>1, <2>4 DEF QlInv, QlForce, GivenUp
  <2>6. \A x \in qlLate' : GivenUp(x)'
    BY <1>3, <2>1 DEF QlInv, QlForce, GivenUp
  <2>7. QlForce'
    BY <1>1, <1>2, <1>3, <2>1, <2>5, <2>6 DEF QlInv, QlForce
  <2> QED BY <2>2, <2>3, <2>7 DEF QlInv
<1>6. CASE LateCall
  <2>1. PICK l \in qlLate :
           /\ qlLate' = qlLate \ {l}
           /\ qlSet' = [now |-> qlClock, rev |-> l.rev, limit |-> l.limit, late |-> TRUE]
    BY <1>6 DEF LateCall
  <2>2. l \in QlRates /\ GivenUp(l) /\ UNCHANGED <<qlOp, qlReady>>
    BY <1>6 DEF QlInv, QlTypes, QlForce, LateCall
  <2>3. /\ qlSet' \in [now: Nat, rev: 0 .. MaxQlRev, limit: QlLimits \cup {0}, late: BOOLEAN]
        /\ qlSet'.now = qlClock /\ qlSet'.rev = l.rev /\ qlSet'.limit = l.limit /\ qlSet'.late
    BY <1>1, <2>1, <2>2 DEF QlRates
  <2>4. QlTypes'
    BY <1>2, <2>1, <2>2, <2>3 DEF QlInv, QlTypes
  <2>5. QlTimes' /\ QlPaid'
    BY <1>1, <1>2, <2>3, BucketStays
  <2>6. GivenUp(qlSet)' /\ \A x \in qlLate' : GivenUp(x)'
    BY <1>3, <2>1, <2>2, <2>3 DEF QlInv, QlForce, GivenUp
  <2>7. QlForce'
    BY <1>2, <1>3, <2>2, <2>3, <2>6 DEF QlInv, QlForce
  <2> QED BY <2>4, <2>5, <2>7 DEF QlInv
<1> QED BY <1>4, <1>5, <1>6

LEMMA RestartKeepsInv ==
    ASSUME QlInv, NEW limit \in QlLimits, ProxyRestarts(limit)
    PROVE  QlInv'
<1> DEFINE now == IF CachedLimit.rev > 0 THEN CachedLimit ELSE [rev |-> 0, limit |-> limit]
<1>1. /\ qlOp = NoQlOp /\ qlSet = NoSet /\ qlCache' = CachedLimit
      /\ qlCaller' = [c \in QlCallers |-> Never] /\ qlLate' = {} /\ qlOver' = FALSE
      /\ qlBucket' = [rev |-> now.rev, limit |-> now.limit, tokens |-> now.limit * Ticks, refill |-> qlClock]
      /\ qlWindow' = [from |-> qlClock, passed |-> 0]
      /\ UNCHANGED <<qlClock, qlSet, qlStore, qlOp, qlReady>>
  BY DEF ProxyRestarts
<1>2. CachedLimit \in QlRates /\ CachedLimit.rev \in Nat /\ CachedLimit # Dirty
  BY CachedIsRate DEF QlInv
<1>3. now \in QlRates /\ (CachedLimit.rev > 0 => now = CachedLimit)
  BY <1>2, QlConstants DEF QlRates
<1> HIDE DEF now
<1>4. /\ qlClock \in Nat /\ qlClock <= qlClock /\ now.limit * Ticks \in Nat /\ now.limit * Ticks <= now.limit * Ticks
      /\ now.rev \in 0 .. MaxQlRev /\ now.limit \in QlLimits \cup {0}
  BY <1>3, QlConstants DEF QlRates, QlInv, QlTypes
<1>5. /\ qlBucket' \in QlBuckets /\ qlBucket'.rev = now.rev /\ qlBucket'.limit = now.limit
      /\ qlWindow' \in [from: Nat, passed: Nat]
      /\ qlBucket'.refill <= qlClock' /\ qlWindow'.from <= qlBucket'.refill
      /\ QlPaid'
  BY <1>1, <1>4, NewBucket
<1>6. QlTypes'
  BY <1>1, <1>2, <1>5, QlConstants DEF QlInv, QlTypes, QlBuckets
<1>7. QlTimes'
  BY <1>1, <1>5 DEF QlTimes
<1>8. qlOp.stage = "none"
  BY <1>1 DEF NoQlOp
<1>9. ASSUME qlReady, qlCache' \in {Dirty, qlStore'}
      PROVE  InForce'
  <2>1. CachedLimit = qlStore /\ qlStore.rev > 0
    BY <1>1, <1>2, <1>9 DEF QlInv, QlForce
  <2> QED BY <1>1, <1>3, <1>5, <2>1 DEF InForce
<1>10. QlForce'
  BY <1>1, <1>8, <1>9 DEF QlInv, QlForce
<1> QED BY <1>5, <1>6, <1>7, <1>10 DEF QlInv

LEMMA QlStepKeepsInv ==
    ASSUME QlInv, [QlNext]_qlVars
    PROVE  QlInv'
<1>1. CASE UNCHANGED qlVars
  BY <1>1 DEF qlVars, QlInv, QlTypes, QlTimes, QlPaid, QlForce, GivenUp, CachedLimit, InForce
<1> QED BY <1>1, TimeKeepsInv, AllowKeepsInv, SetLimitKeepsInv, UpdateKeepsInv, SyncKeepsInv, RestartKeepsInv DEF QlNext

LEMMA QlInvKeepsLimit ==
    ASSUME QlInv
    PROVE  LimitIsKept
<1>1. /\ qlBucket \in QlBuckets /\ qlBucket.limit \in Nat /\ Ticks \in Nat /\ qlBucket.limit * Ticks \in Nat
      /\ qlBucket.tokens \in Nat /\ qlBucket.refill \in Nat /\ qlClock \in Nat
      /\ qlWindow.from \in Nat /\ qlWindow.passed \in Nat
      /\ qlBucket.refill <= qlClock /\ qlWindow.from <= qlBucket.refill
  BY QlConstants DEF QlInv, QlTypes, QlTimes, QlBuckets
<1>2. QlTypeOK
  BY <1>1, QlConstants DEF QlInv, QlTypes, QlPaid, QlTypeOK, QlBuckets, QlRates
<1>3. RateIsBounded
  <2>1. SUFFICES ASSUME qlBucket.limit # 0
                 PROVE  qlWindow.passed * Ticks <= qlBucket.limit * (Ticks + qlClock - qlWindow.from)
    BY DEF RateIsBounded
  <2> DEFINE x == Ticks + (qlBucket.refill - qlWindow.from)
             y == Ticks + qlClock - qlWindow.from
             paid == qlWindow.passed * Ticks
  <2>2. x \in Int /\ y \in Int /\ x <= y /\ paid \in Nat
    BY <1>1
  <2>3. qlBucket.tokens + paid <= qlBucket.limit * x
    BY <2>1 DEF QlInv, QlPaid
  <2> HIDE DEF x, y, paid
  <2>4. qlBucket.limit * x <= qlBucket.limit * y /\ qlBucket.limit * x \in Int /\ qlBucket.limit * y \in Int
    BY <1>1, <2>2, Scaled
  <2>5. paid <= qlBucket.limit * y
    BY <1>1, <2>2, <2>3, <2>4
  <2> QED BY <2>5 DEF paid, y
<1>4. ReadyIsInForce
  BY DEF QlInv, QlForce, ReadyIsInForce, InForce
<1> QED BY <1>2, <1>3, <1>4 DEF LimitIsKept

(* The limit is kept, for any limits, number of sessions and length of a   *)
(* second: in any time a proxy lets through no more than the tokens of a   *)
(* second and of that time, and an update that was answered "ready" is in  *)
(* force until a call that was given up overwrites it                      *)
(* (qps_limiter.go, topom_qps_limit.go).                                   *)
THEOREM LimitTheorem == QlSpec => []LimitIsKept
<1>1. QlInit => QlInv
  BY QlInitInv
<1>2. QlInv /\ [QlNext]_qlVars => QlInv'
  BY QlStepKeepsInv
<1>3. QlInv => LimitIsKept
  BY QlInvKeepsLimit
<1> QED BY <1>1, <1>2, <1>3, PTL DEF QlSpec

-----------------------------------------------------------------------------
(* AuthGuard.                                                              *)

AgRecord == [failures: 1 .. MaxFailures, last: Nat \ {0}, until: Nat]

(* Records the guard may have at a time.                                   *)
RecordsOk(recs, clock) ==
    /\ DOMAIN recs \subseteq AgIPs
    /\ IsFiniteSet(DOMAIN recs) /\ Cardinality(DOMAIN recs) <= MaxTracked
    /\ \A ip \in DOMAIN recs :
          /\ recs[ip] \in AgRecord /\ recs[ip].last <= clock
          /\ recs[ip].until # 0 <=> recs[ip].failures = MaxFailures

SessionsOf(ip) == {s \in AgSessions : AgIP[s] = ip}

(* The sessions of an address whose AUTH may yet be a wrong guess.         *)
Entered(ip) == {s \in SessionsOf(ip) : agNow[s] # 0 /\ ~ agAuthorized[s]}

(* Before the lock every guess was a failure; since then one fewer session *)
(* is inside for each of them.                                             *)
GuessesOk(ip) ==
    IF agRecords[ip].until = 0 THEN agGuesses[ip] = agRecords[ip].failures
    ELSE agGuesses[ip] + Cardinality(Entered(ip)) < MaxFailures + Cardinality(SessionsOf(ip))

AgTypes ==
    /\ agClock \in Nat \ {0} /\ agClock <= MaxAgClock
    /\ agAuthorized \in [AgSessions -> BOOLEAN]
    /\ agNow \in [AgSessions -> 0 .. agClock]
    /\ agGuesses \in [AgIPs -> Nat]

(* The inductive invariant of AuthGuard.                                   *)
AgInv ==
    /\ AgTypes
    /\ RecordsOk(agRecords, agClock)
    /\ \A ip \in Tracked : GuessesOk(ip)

LEMMA AgConstants ==
    /\ AgIP \in [AgSessions -> AgIPs] /\ IsFiniteSet(AgSessions)
    /\ MaxTracked \in Nat /\ MaxTracked > 0
    /\ MaxFailures \in Nat /\ MaxFailures > 0
    /\ LockDuration \in Nat /\ LockDuration > 0
    /\ MaxAgClock \in Nat /\ MaxAgClock > 0
BY AuthGuardAssumption

LEMMA SessionsAreFinite ==
    ASSUME NEW ip
    PROVE  /\ IsFiniteSet(SessionsOf(ip)) /\ Cardinality(SessionsOf(ip)) \in Nat
           /\ IsFiniteSet(Entered(ip)) /\ Cardinality(Entered(ip)) \in Nat
           /\ IsFiniteSet(Entered(ip)') /\ Cardinality(Entered(ip)') \in Nat
<1>1. SessionsOf(ip) \in SUBSET AgSessions
  BY DEF SessionsOf
<1>2. IsFiniteSet(SessionsOf(ip))
  BY <1>1, AgConstants, FS_Subset
<1>3. Entered(ip) \in SUBSET SessionsOf(ip) /\ Entered(ip)' \in SUBSET SessionsOf(ip)
  BY DEF Entered, SessionsOf
<1>4. IsFiniteSet(Entered(ip)) /\ IsFiniteSet(Entered(ip)')
  BY <1>2, <1>3, FS_Subset
<1> QED BY <1>2, <1>4, FS_CardinalityType

(* What is left is as it was.                                              *)
LEMMA ForgottenIs ==
    ASSUME NEW recs, NEW ips
    PROVE  /\ DOMAIN Forgotten(recs, ips) = DOMAIN recs \ ips
           /\ \A ip \in DOMAIN recs \ ips : Forgotten(recs, ips)[ip] = recs[ip]
BY DEF Forgotten

LEMMA ForgottenOk ==
    ASSUME NEW recs, NEW ips, NEW clock \in Nat, RecordsOk(recs, clock)
    PROVE  RecordsOk(Forgotten(recs, ips), clock)
<1> DEFINE left == Forgotten(recs, ips)
<1>0. DOMAIN left = DOMAIN recs \ ips /\ \A ip \in DOMAIN recs \ ips : left[ip] = recs[ip]
  BY ForgottenIs
<1> HIDE DEF left
<1>1. DOMAIN left \in SUBSET DOMAIN recs
  BY <1>0
<1>2. /\ IsFiniteSet(DOMAIN left)
      /\ Cardinality(DOMAIN left) <= Cardinality(DOMAIN recs)
      /\ Cardinality(DOMAIN left) \in Nat /\ Cardinality(DOMAIN recs) \in Nat
  BY <1>1, FS_Subset, FS_CardinalityType DEF RecordsOk
<1>3. Cardinality(DOMAIN left) <= MaxTracked
  BY <1>2, AgConstants DEF RecordsOk
<1>4. RecordsOk(left, clock)
  BY <1>0, <1>1, <1>2, <1>3 DEF RecordsOk
<1> QED BY <1>4 DEF left

(* An address whose record, count and sessions inside stay.                *)
LEMMA GuessesStay ==
    ASSUME AgInv, NEW ip \in Tracked,
           agRecords'[ip] = agRecords[ip], agGuesses'[ip] = agGuesses[ip],
           Entered(ip)' \subseteq Entered(ip)
    PROVE  GuessesOk(ip)'
<1>1. /\ Cardinality(Entered(ip)') <= Cardinality(Entered(ip))
      /\ Cardinality(Entered(ip)') \in Nat /\ Cardinality(Entered(ip)) \in Nat
      /\ Cardinality(SessionsOf(ip)) \in Nat
  BY SessionsAreFinite, FS_Subset
<1>2. SessionsOf(ip)' = SessionsOf(ip) /\ GuessesOk(ip) /\ agGuesses[ip] \in Nat
  BY DEF SessionsOf, AgInv, AgTypes, RecordsOk, Tracked
<1> QED BY <1>1, <1>2, AgConstants DEF GuessesOk

(* Records that are dropped: those that are left keep their count.         *)
LEMMA DropKeepsInv ==
    ASSUME AgInv, AgTypes', agClock' = agClock, NEW ips, agRecords' = Forgotten(agRecords, ips),
           \A ip \in Tracked \ ips : agGuesses'[ip] = agGuesses[ip] /\ Entered(ip)' \subseteq Entered(ip)
    PROVE  AgInv'
<1>1. RecordsOk(agRecords', agClock')
  BY ForgottenOk DEF AgInv, AgTypes
<1>2. Tracked' = Tracked \ ips /\ \A ip \in Tracked' : agRecords'[ip] = agRecords[ip]
  BY DEF Tracked, Forgotten
<1>3. \A ip \in Tracked' : GuessesOk(ip)'
  BY <1>2, GuessesStay
<1> QED BY <1>1, <1>3 DEF AgInv, RecordsOk

(* Those who are forgotten may guess anew, the others keep their count.    *)
LEMMA ForgetIs ==
    ASSUME AgInv, NEW recs
    PROVE  /\ Forget(recs) \in [AgIPs -> Nat]
           /\ \A ip \in AgIPs : ip \notin Tracked \/ ip \in DOMAIN recs => Forget(recs)[ip] = agGuesses[ip]
BY DEF Forget, AgInv, AgTypes

LEMMA AgInitInv ==
    ASSUME AgInit
    PROVE  AgInv
<1>1. DOMAIN agRecords = {} /\ Tracked = {}
  BY DEF AgInit, NoRecords, Tracked
<1>2. RecordsOk(agRecords, agClock)
  BY <1>1, FS_EmptySet, AgConstants DEF RecordsOk
<1>3. AgTypes
  BY AgConstants DEF AgInit, AgTypes
<1> QED BY <1>1, <1>2, <1>3 DEF AgInv

LEMMA TickKeepsInv ==
    ASSUME AgInv, AgTick
    PROVE  AgInv'
<1>1. agClock' \in Nat \ {0} /\ agClock' <= MaxAgClock /\ agClock <= agClock' /\ agClock \in Nat
  BY AgConstants DEF AgInv, AgTypes, AgTick
<1>2. AgTypes'
  <2>1. \A n \in 0 .. agClock : n \in 0 .. agClock'
    BY <1>1
  <2>2. agNow' \in [AgSessions -> 0 .. agClock']
    BY <2>1 DEF AgInv, AgTypes, AgTick
  <2> QED BY <1>1, <2>2 DEF AgInv, AgTypes, AgTick
<1>3. agRecords' = agRecords /\ Tracked' = Tracked
  BY DEF AgTick, Tracked
<1>4. RecordsOk(agRecords, agClock')
  <2>1. \A ip \in Tracked : agRecords[ip] \in AgRecord /\ agRecords[ip].last <= agClock
    BY DEF AgInv, RecordsOk, Tracked
  <2>2. \A ip \in Tracked : agRecords[ip].last <= agClock'
    BY <1>1, <2>1 DEF AgRecord
  <2> QED BY <2>2 DEF AgInv, RecordsOk, Tracked
<1>5. \A ip \in Tracked : GuessesOk(ip)'
  BY GuessesStay DEF AgTick, Entered, SessionsOf
<1> QED BY <1>2, <1>3, <1>4, <1>5 DEF AgInv

LEMMA StatsKeepInv ==
    ASSUME AgInv, GuardStats
    PROVE  AgInv'
<1>1. PICK ips : agRecords' = Forgotten(agRecords, ips)
  BY DEF GuardStats, cleanupExpiredLocked
<1>2. agGuesses' = Forget(agRecords') /\ UNCHANGED <<agClock, agAuthorized, agNow>>
  BY DEF GuardStats
<1>3. AgTypes'
  BY <1>2, ForgetIs DEF AgInv, AgTypes
<1>4. \A ip \in Tracked \ ips : ip \in DOMAIN agRecords' /\ ip \in AgIPs
  BY <1>1 DEF Forgotten, Tracked, AgInv, RecordsOk
<1>5. \A ip \in Tracked \ ips : agGuesses'[ip] = agGuesses[ip] /\ Entered(ip)' \subseteq Entered(ip)
  BY <1>2, <1>4, ForgetIs DEF Entered, SessionsOf
<1> QED BY <1>1, <1>2, <1>3, <1>5, DropKeepsInv

LEMMA BeforeAuthKeepsInv ==
    ASSUME AgInv, NEW s \in AgSessions, BeforeAuth(s)
    PROVE  AgInv'
<1>1. /\ agNow[s] = 0 /\ agNow' = [agNow EXCEPT ![s] = agClock]
      /\ UNCHANGED <<agClock, agAuthorized>> /\ AgIP[s] \in AgIPs
  BY AgConstants DEF BeforeAuth
<1>2. agNow' \in [AgSessions -> 0 .. agClock']
  <2>1. agClock \in 0 .. agClock
    BY DEF AgInv, AgTypes
  <2> QED BY <1>1, <2>1 DEF AgInv, AgTypes
<1>3. \A ip : ip # AgIP[s] \/ agAuthorized[s] => Entered(ip)' \subseteq Entered(ip)
  BY <1>1 DEF Entered, SessionsOf, AgInv, AgTypes
<1>4. CASE (agAuthorized[s] \/ AgIP[s] \notin Tracked) /\ UNCHANGED <<agRecords, agGuesses>>
  <2>1. \A ip \in Tracked : Entered(ip)' \subseteq Entered(ip)
    BY <1>3, <1>4
  <2>2. \A ip \in Tracked : GuessesOk(ip)'
    BY <1>4, <2>1, GuessesStay
  <2>3. AgTypes' /\ Tracked' = Tracked
    BY <1>1, <1>2, <1>4 DEF AgInv, AgTypes, Tracked
  <2> QED BY <1>1, <1>4, <2>2, <2>3 DEF AgInv
<1>5. CASE /\ AgIP[s] \in Tracked /\ ~ isLocked(agRecords[AgIP[s]], agClock)
           /\ agRecords' = expireRecordLocked(agRecords, AgIP[s], agClock)
           /\ agGuesses' = Forget(agRecords')
  <2>1. AgTypes'
    BY <1>1, <1>2, <1>5, ForgetIs DEF AgInv, AgTypes
  <2>2. CASE agRecords' = Forgotten(agRecords, {AgIP[s]})
    <3>1. \A ip \in Tracked \ {AgIP[s]} : ip \in DOMAIN agRecords' /\ ip \in AgIPs
      BY <2>2 DEF Forgotten, Tracked, AgInv, RecordsOk
    <3>2. \A ip \in Tracked \ {AgIP[s]} : agGuesses'[ip] = agGuesses[ip] /\ Entered(ip)' \subseteq Entered(ip)
      BY <1>3, <1>5, <3>1, ForgetIs
    <3> QED BY <1>1, <2>1, <2>2, <3>2, DropKeepsInv
  <2>3. CASE agRecords' = agRecords /\ ~ expired(agRecords[AgIP[s]], agClock)
    <3>1. /\ Tracked' = Tracked
          /\ \A ip \in Tracked : agRecords'[ip] = agRecords[ip] /\ agGuesses'[ip] = agGuesses[ip]
      BY <1>5, <2>3, ForgetIs DEF Tracked, AgInv, RecordsOk
    <3>2. agRecords[AgIP[s]].until = 0
      <4>1. agRecords[AgIP[s]].until \in Nat /\ agClock \in Nat
        BY <1>5 DEF AgInv, AgTypes, RecordsOk, AgRecord, Tracked
      <4> QED BY <1>5, <2>3, <4>1 DEF isLocked, expired
    <3>3. GuessesOk(AgIP[s])'
      BY <1>1, <1>5, <3>1, <3>2 DEF GuessesOk, AgInv
    <3>4. \A ip \in Tracked \ {AgIP[s]} : GuessesOk(ip)'
      BY <1>3, <3>1, GuessesStay
    <3> QED BY <1>1, <2>1, <2>3, <3>1, <3>3, <3>4 DEF AgInv
  <2> QED BY <1>5, <2>2, <2>3 DEF expireRecordLocked
<1> QED BY <1>4, <1>5 DEF BeforeAuth

LEMMA SuccessKeepsInv ==
    ASSUME AgInv, NEW s \in AgSessions, AuthSucceeds(s)
    PROVE  AgInv'
<1>1. /\ agAuthorized' = [agAuthorized EXCEPT ![s] = TRUE] /\ agNow' = [agNow EXCEPT ![s] = 0]
      /\ agRecords' = Forgotten(agRecords, {AgIP[s]})
      /\ agGuesses' = [agGuesses EXCEPT ![AgIP[s]] = 0] /\ agClock' = agClock
  BY DEF AuthSucceeds
<1>2. AgTypes'
  <2>1. 0 \in 0 .. agClock
    BY DEF AgInv, AgTypes
  <2> QED BY <1>1, <2>1 DEF AgInv, AgTypes
<1>3. \A ip : Entered(ip)' \subseteq Entered(ip)
  BY <1>1 DEF Entered, SessionsOf, AgInv, AgTypes
<1>4. \A ip \in Tracked \ {AgIP[s]} : agGuesses'[ip] = agGuesses[ip]
  BY <1>1 DEF AgInv, AgTypes, RecordsOk, Tracked
<1> QED BY <1>1, <1>2, <1>3, <1>4, DropKeepsInv

LEMMA ReconnectKeepsInv ==
    ASSUME AgInv, NEW s \in AgSessions, AgReconnects(s)
    PROVE  AgInv'
<1>1. /\ agNow[s] = 0 /\ agAuthorized' = [agAuthorized EXCEPT ![s] = FALSE]
      /\ UNCHANGED <<agClock, agRecords, agNow, agGuesses>>
  BY DEF AgReconnects
<1>2. AgTypes' /\ Tracked' = Tracked
  BY <1>1 DEF AgInv, AgTypes, Tracked
<1>3. \A ip : Entered(ip)' \subseteq Entered(ip)
  BY <1>1 DEF Entered, SessionsOf, AgInv, AgTypes
<1> QED BY <1>1, <1>2, <1>3, GuessesStay DEF AgInv

(* What is left of the records: some of them, as they were, and all those  *)
(* that are locked.                                                        *)
LeftOf(left, recs, now) ==
    /\ DOMAIN left \subseteq DOMAIN recs
    /\ \A ip \in DOMAIN left : left[ip] = recs[ip]
    /\ \A ip \in DOMAIN recs : isLocked(recs[ip], now) => ip \in DOMAIN left

(* A record is not both locked and over.                                   *)
LEMMA LockedIsNotExpired ==
    ASSUME NEW r \in AgRecord, NEW now \in Nat
    PROVE  /\ isLocked(r, now) => ~ expired(r, now)
           /\ ~ isLocked(r, now) /\ ~ expired(r, now) => r.until = 0
BY DEF AgRecord, isLocked, expired

LEMMA CleanupIs ==
    ASSUME NEW recs, NEW clock \in Nat, RecordsOk(recs, clock), NEW now \in Nat
    PROVE  /\ RecordsOk(cleanupExpiredLocked(recs, now), clock)
           /\ LeftOf(cleanupExpiredLocked(recs, now), recs, now)
<1> DEFINE over == {ip \in DOMAIN recs : expired(recs[ip], now)}
           left == Forgotten(recs, over)
<1>1. RecordsOk(left, clock)
  BY ForgottenOk
<1>2. \A ip \in over : ip \in DOMAIN recs /\ ~ isLocked(recs[ip], now)
  BY LockedIsNotExpired DEF RecordsOk
<1> HIDE DEF over
<1>3. DOMAIN left = DOMAIN recs \ over /\ \A ip \in DOMAIN recs \ over : left[ip] = recs[ip]
  BY ForgottenIs
<1> HIDE DEF left
<1>4. LeftOf(left, recs, now)
  BY <1>2, <1>3 DEF LeftOf
<1> QED BY <1>1, <1>4 DEF cleanupExpiredLocked, left, over

LEMMA RoomIs ==
    ASSUME NEW recs, NEW clock \in Nat, RecordsOk(recs, clock), NEW now \in Nat,
           NEW left \in ensureCapacityLocked(recs, now)
    PROVE  /\ RecordsOk(left, clock) /\ Cardinality(DOMAIN left) < MaxTracked
           /\ LeftOf(left, recs, now)
<1> DEFINE kept == cleanupExpiredLocked(recs, now)
<1>1. RecordsOk(kept, clock) /\ LeftOf(kept, recs, now)
  BY CleanupIs
<1>2. \/ Cardinality(DOMAIN kept) < MaxTracked /\ left = kept
      \/ \E ip \in Evictable(kept, now) : left = Forgotten(kept, {ip})
  BY DEF ensureCapacityLocked
<1> HIDE DEF kept
<1>3. CASE Cardinality(DOMAIN kept) < MaxTracked /\ left = kept
  BY <1>1, <1>3
<1>4. ASSUME NEW ip \in Evictable(kept, now), left = Forgotten(kept, {ip})
      PROVE  /\ RecordsOk(left, clock) /\ Cardinality(DOMAIN left) < MaxTracked
             /\ LeftOf(left, recs, now)
  <2>1. RecordsOk(left, clock)
    BY <1>1, <1>4, ForgottenOk
  <2>2. DOMAIN left = DOMAIN kept \ {ip} /\ \A i \in DOMAIN kept \ {ip} : left[i] = kept[i]
    BY <1>4 DEF Forgotten
  <2>3. ip \in DOMAIN kept /\ ~ isLocked(kept[ip], now)
    BY <1>4 DEF Evictable
  <2>4. /\ Cardinality(DOMAIN left) = Cardinality(DOMAIN kept) - 1
        /\ Cardinality(DOMAIN kept) \in Nat /\ Cardinality(DOMAIN kept) <= MaxTracked
    BY <1>1, <2>2, <2>3, FS_RemoveElement, FS_CardinalityType DEF RecordsOk
  <2>5. Cardinality(DOMAIN left) < MaxTracked
    BY <2>4, AgConstants
  <2>6. LeftOf(left, recs, now)
    BY <1>1, <2>2, <2>3 DEF LeftOf
  <2> QED BY <2>1, <2>5, <2>6
<1> QED BY <1>2, <1>3, <1>4

(* The sessions that may yet guess, once one of them has failed.           *)
LEMMA OneFewer ==
    ASSUME AgInv, NEW s \in AgSessions, agNow[s] # 0, ~ agAuthorized[s],
           agNow' = [agNow EXCEPT ![s] = 0], agAuthorized' = [agAuthorized EXCEPT ![s] = FALSE]
    PROVE  /\ Cardinality(Entered(AgIP[s])') = Cardinality(Entered(AgIP[s])) - 1
           /\ Cardinality(Entered(AgIP[s])') <= Cardinality(SessionsOf(AgIP[s])) - 1
<1>1. s \in Entered(AgIP[s]) /\ s \in SessionsOf(AgIP[s])
  BY DEF Entered, SessionsOf
<1>2. Entered(AgIP[s])' = Entered(AgIP[s]) \ {s}
  BY DEF Entered, SessionsOf, AgInv, AgTypes
<1>3. Entered(AgIP[s])' \in SUBSET (SessionsOf(AgIP[s]) \ {s})
  BY <1>2 DEF Entered, SessionsOf
<1>4. /\ IsFiniteSet(SessionsOf(AgIP[s]) \ {s})
      /\ Cardinality(SessionsOf(AgIP[s]) \ {s}) = Cardinality(SessionsOf(AgIP[s])) - 1
      /\ Cardinality(Entered(AgIP[s]) \ {s}) = Cardinality(Entered(AgIP[s])) - 1
  BY <1>1, SessionsAreFinite, FS_RemoveElement
<1>5. Cardinality(Entered(AgIP[s])') <= Cardinality(SessionsOf(AgIP[s]) \ {s})
  BY <1>3, <1>4, FS_Subset
<1> QED BY <1>2, <1>4, <1>5

LEMMA FailedIs ==
    ASSUME NEW n \in 0 .. MaxFailures - 1, NEW r, r.failures = n, NEW now \in Nat \ {0}
    PROVE  /\ failed(r, now) \in AgRecord /\ failed(r, now).last = now
           /\ failed(r, now).failures = n + 1
           /\ failed(r, now).until # 0 <=> n + 1 = MaxFailures
<1>1. n + 1 \in 1 .. MaxFailures /\ (n + 1 >= MaxFailures <=> n + 1 = MaxFailures)
      /\ now + LockDuration \in Nat /\ now + LockDuration # 0
  BY AgConstants
<1> QED BY <1>1 DEF failed, AgRecord

LEMMA FailsKeepsInv ==
    ASSUME AgInv, NEW s \in AgSessions, AuthFails(s)
    PROVE  AgInv'
<1> DEFINE ip == AgIP[s]
           now == agNow[s]
<1>1. /\ agNow[s] # 0 /\ agNow' = [agNow EXCEPT ![s] = 0]
      /\ agAuthorized' = [agAuthorized EXCEPT ![s] = FALSE] /\ agClock' = agClock
      /\ ip \in AgIPs /\ agClock \in Nat /\ now \in Nat \ {0} /\ now <= agClock
  <2>1. now \in 0 .. agClock /\ agClock \in Nat /\ ip \in AgIPs
    BY AgConstants DEF AgInv, AgTypes
  <2>2. now \in Nat /\ now <= agClock
    BY <2>1
  <2> QED BY <2>1, <2>2 DEF AuthFails
<1>2. /\ agNow' \in [AgSessions -> 0 .. agClock'] /\ agAuthorized' \in [AgSessions -> BOOLEAN]
      /\ agClock' \in Nat \ {0} /\ agClock' <= MaxAgClock
  <2>1. 0 \in 0 .. agClock
    BY <1>1
  <2> QED BY <1>1, <2>1 DEF AgInv, AgTypes
<1>3. \A i : Entered(i)' \subseteq Entered(i)
  BY <1>1 DEF Entered, SessionsOf, AgInv, AgTypes
<1>4. \A i \in Tracked : i \in AgIPs /\ agRecords[i] \in AgRecord /\ agGuesses[i] \in Nat
  BY DEF AgInv, AgTypes, RecordsOk, Tracked
<1>5. CASE agAuthorized[s]
  <2>1. UNCHANGED <<agRecords, agGuesses>>
    BY <1>5 DEF AuthFails
  <2>2. AgTypes' /\ Tracked' = Tracked
    BY <1>2, <2>1 DEF AgInv, AgTypes, Tracked
  <2> QED BY <1>1, <1>3, <2>1, <2>2, GuessesStay DEF AgInv
<1>6. CASE ~ agAuthorized[s] /\ RecordAuthFailure(s)
  <2>1. /\ Cardinality(Entered(ip)') = Cardinality(Entered(ip)) - 1
        /\ Cardinality(Entered(ip)') <= Cardinality(SessionsOf(ip)) - 1
        /\ Cardinality(Entered(ip)) \in Nat /\ Cardinality(SessionsOf(ip)) \in Nat
        /\ Cardinality(Entered(ip)') \in Nat /\ SessionsOf(ip)' = SessionsOf(ip)
    <3>1. SessionsOf(ip)' = SessionsOf(ip)
      BY DEF SessionsOf
    <3> QED BY <1>1, <1>6, <3>1, OneFewer, SessionsAreFinite
  <2> HIDE DEF ip, now
  <2>2. CASE /\ ip \in Tracked /\ isLocked(agRecords[ip], now)
             /\ agGuesses' = [agGuesses EXCEPT ![ip] = @ + 1] /\ UNCHANGED agRecords
    <3>1. AgTypes' /\ Tracked' = Tracked
      BY <1>1, <1>2, <2>2 DEF AgInv, AgTypes, Tracked
    <3>2. \A i \in Tracked \ {ip} : GuessesOk(i)'
      <4>1. \A i \in Tracked \ {ip} : agGuesses'[i] = agGuesses[i]
        BY <1>4, <2>2 DEF AgInv, AgTypes
      <4> QED BY <1>3, <2>2, <4>1, GuessesStay
    <3>3. GuessesOk(ip)'
      <4>1. agGuesses'[ip] = agGuesses[ip] + 1 /\ agGuesses[ip] \in Nat /\ agRecords[ip].until # 0
        BY <1>1, <1>4, <2>2 DEF AgInv, AgTypes, isLocked
      <4>2. agGuesses[ip] + Cardinality(Entered(ip)) < MaxFailures + Cardinality(SessionsOf(ip))
        BY <2>2, <4>1 DEF AgInv, GuessesOk
      <4>3. agGuesses'[ip] + Cardinality(Entered(ip)') < MaxFailures + Cardinality(SessionsOf(ip))
        BY <2>1, <4>1, <4>2, AgConstants
      <4> QED BY <2>1, <2>2, <4>1, <4>3 DEF GuessesOk
    <3> QED BY <1>1, <2>2, <3>1, <3>2, <3>3 DEF AgInv
  <2>3. CASE /\ ip \in Tracked /\ ~ isLocked(agRecords[ip], now) /\ ~ expired(agRecords[ip], now)
             /\ agRecords' = [agRecords EXCEPT ![ip] = failed(@, now)]
             /\ agGuesses' = [agGuesses EXCEPT ![ip] = @ + 1]
    <3>1. AgTypes' /\ Tracked' = Tracked /\ DOMAIN agRecords' = DOMAIN agRecords
      BY <1>1, <1>2, <2>3 DEF AgInv, AgTypes, Tracked
    <3>2. \A i \in Tracked \ {ip} : agRecords'[i] = agRecords[i] /\ agGuesses'[i] = agGuesses[i]
      BY <1>4, <2>3 DEF AgInv, AgTypes, Tracked
    <3>3. agRecords'[ip] = failed(agRecords[ip], now) /\ agGuesses'[ip] = agGuesses[ip] + 1
      BY <1>1, <2>3 DEF AgInv, AgTypes, Tracked
    <3>4. agRecords[ip].until = 0 /\ agRecords[ip].failures \in 0 .. MaxFailures - 1
      <4>1. agRecords[ip].until = 0
        BY <1>1, <1>4, <2>3, LockedIsNotExpired
      <4>2. agRecords[ip].failures \in 1 .. MaxFailures /\ agRecords[ip].failures # MaxFailures
        BY <2>3, <4>1 DEF AgInv, RecordsOk, AgRecord, Tracked
      <4> QED BY <4>1, <4>2, AgConstants
    <3>5. /\ agRecords'[ip] \in AgRecord /\ agRecords'[ip].last = now
          /\ agRecords'[ip].failures = agRecords[ip].failures + 1
          /\ agRecords'[ip].until # 0 <=> agRecords'[ip].failures = MaxFailures
      BY <1>1, <3>3, <3>4, FailedIs
    <3>6. RecordsOk(agRecords', agClock')
      BY <1>1, <3>1, <3>2, <3>5 DEF AgInv, RecordsOk, Tracked
    <3>7. \A i \in Tracked \ {ip} : GuessesOk(i)'
      BY <1>3, <3>2, GuessesStay
    <3>8. GuessesOk(ip)'
      <4>1. agGuesses'[ip] = agRecords'[ip].failures /\ agRecords'[ip].failures \in Nat
        BY <2>3, <3>3, <3>4, <3>5 DEF AgInv, GuessesOk
      <4>2. agRecords'[ip].until # 0 =>
               agGuesses'[ip] + Cardinality(Entered(ip)') < MaxFailures + Cardinality(SessionsOf(ip))
        BY <2>1, <3>5, <4>1, AgConstants
      <4> QED BY <2>1, <4>1, <4>2 DEF GuessesOk
    <3> QED BY <1>1, <3>1, <3>6, <3>7, <3>8 DEF AgInv
  <2>4. CASE \/ RecordAuthFailure(s) /\ ip \notin Tracked
             \/ RecordAuthFailure(s) /\ ip \in Tracked /\ expired(agRecords[ip], now)
    <3> DEFINE recs == IF ip \in Tracked THEN Forgotten(agRecords, {ip}) ELSE agRecords
               gone == cleanupExpiredLocked(recs, now)
    <3>1. ip \in Tracked /\ expired(agRecords[ip], now) => ~ isLocked(agRecords[ip], now)
      BY <1>1, <1>4, LockedIsNotExpired
    <3>2. \/ agRecords' = gone /\ agGuesses' = Forget(agRecords')
          \/ \E left \in ensureCapacityLocked(recs, now) :
                /\ agRecords' = [i \in DOMAIN left \cup {ip} |-> IF i = ip THEN failed(NewRecord, now) ELSE left[i]]
                /\ agGuesses' = [Forget(left) EXCEPT ![ip] = 1]
      BY <2>4, <3>1 DEF RecordAuthFailure, ip, now
    <3>3. /\ RecordsOk(recs, agClock)
          /\ \A i \in DOMAIN recs : i \in Tracked \ {ip} /\ recs[i] = agRecords[i]
      <4>1. RecordsOk(recs, agClock)
        BY <1>1, ForgottenOk DEF AgInv
      <4> QED BY <4>1 DEF Forgotten, Tracked
    <3> HIDE DEF recs
    <3>4. CASE agRecords' = gone /\ agGuesses' = Forget(agRecords')
      <4>1. RecordsOk(gone, agClock) /\ LeftOf(gone, recs, now)
        BY <1>1, <3>3, CleanupIs
      <4>2. AgTypes'
        BY <1>2, <3>4, ForgetIs DEF AgTypes
      <4> HIDE DEF gone
      <4>3. \A i \in DOMAIN gone : i \in Tracked /\ gone[i] = agRecords[i]
        BY <3>3, <4>1 DEF LeftOf
      <4>4. \A i \in DOMAIN gone : agGuesses'[i] = agGuesses[i]
        BY <1>4, <3>4, <4>3, ForgetIs
      <4>5. \A i \in Tracked' : GuessesOk(i)'
        BY <1>3, <3>4, <4>3, <4>4, GuessesStay DEF Tracked
      <4> QED BY <1>1, <3>4, <4>1, <4>2, <4>5 DEF AgInv
    <3>5. ASSUME NEW left \in ensureCapacityLocked(recs, now),
                 agRecords' = [i \in DOMAIN left \cup {ip} |-> IF i = ip THEN failed(NewRecord, now) ELSE left[i]],
                 agGuesses' = [Forget(left) EXCEPT ![ip] = 1]
          PROVE  AgInv'
      <4>1. RecordsOk(left, agClock) /\ LeftOf(left, recs, now) /\ Cardinality(DOMAIN left) < MaxTracked
        BY <1>1, <3>3, RoomIs
      <4>2. AgTypes'
        <5>1. agGuesses' \in [AgIPs -> Nat]
          BY <1>1, <3>5, ForgetIs
        <5> QED BY <1>2, <5>1 DEF AgTypes
      <4>3. \A i \in DOMAIN left : i \in Tracked /\ left[i] = agRecords[i] /\ i # ip
        BY <3>3, <4>1 DEF LeftOf
      <4>4. /\ DOMAIN agRecords' = DOMAIN left \cup {ip} /\ agRecords'[ip] = failed(NewRecord, now)
            /\ \A i \in DOMAIN left : agRecords'[i] = agRecords[i]
        BY <3>5, <4>3
      <4>5. agGuesses'[ip] = 1 /\ \A i \in DOMAIN left : agGuesses'[i] = agGuesses[i]
        BY <1>1, <1>4, <3>5, <4>3, ForgetIs
      <4>6. /\ agRecords'[ip] \in AgRecord /\ agRecords'[ip].last = now /\ agRecords'[ip].failures = 1
            /\ agRecords'[ip].until # 0 <=> agRecords'[ip].failures = MaxFailures
        <5>1. 0 \in 0 .. MaxFailures - 1 /\ NewRecord.failures = 0
          BY AgConstants DEF NewRecord
        <5> QED BY <1>1, <4>4, <5>1, FailedIs
      <4>7. IsFiniteSet(DOMAIN agRecords') /\ Cardinality(DOMAIN agRecords') <= MaxTracked
        <5>1. /\ IsFiniteSet(DOMAIN left) /\ Cardinality(DOMAIN left) \in Nat
          BY <4>1, FS_CardinalityType DEF RecordsOk
        <5>2. /\ IsFiniteSet(DOMAIN left \cup {ip})
              /\ Cardinality(DOMAIN left \cup {ip}) = IF ip \in DOMAIN left THEN Cardinality(DOMAIN left) ELSE Cardinality(DOMAIN left) + 1
          BY <5>1, FS_AddElement
        <5> QED BY <4>1, <4>4, <5>1, <5>2, AgConstants
      <4>8. RecordsOk(agRecords', agClock')
        <5>1. DOMAIN agRecords' \subseteq AgIPs
          BY <1>1, <4>1, <4>4 DEF RecordsOk
        <5>2. ASSUME NEW i \in DOMAIN agRecords'
              PROVE  /\ agRecords'[i] \in AgRecord /\ agRecords'[i].last <= agClock'
                     /\ agRecords'[i].until # 0 <=> agRecords'[i].failures = MaxFailures
          <6>1. CASE i = ip
            BY <1>1, <4>6, <6>1
          <6>2. CASE i # ip
            BY <1>1, <4>1, <4>3, <4>4, <6>2 DEF RecordsOk
          <6> QED BY <6>1, <6>2
        <5> QED BY <4>7, <5>1, <5>2 DEF RecordsOk
      <4>9. \A i \in DOMAIN left : GuessesOk(i)'
        BY <1>3, <4>3, <4>4, <4>5, GuessesStay
      <4>10. GuessesOk(ip)'
        <5>1. agRecords'[ip].until # 0 =>
                 agGuesses'[ip] + Cardinality(Entered(ip)') < MaxFailures + Cardinality(SessionsOf(ip))
          BY <2>1, <4>5, <4>6, AgConstants
        <5> QED BY <2>1, <4>5, <4>6, <5>1 DEF GuessesOk
      <4> QED BY <4>2, <4>4, <4>8, <4>9, <4>10 DEF AgInv, Tracked
    <3> QED BY <3>2, <3>4, <3>5
  <2> QED BY <1>6, <2>2, <2>3, <2>4 DEF RecordAuthFailure, ip, now
<1> QED BY <1>5, <1>6 DEF AuthFails

LEMMA AgStepKeepsInv ==
    ASSUME AgInv, [AgNext]_agVars
    PROVE  AgInv'
<1>1. CASE AgNext
  BY <1>1, TickKeepsInv, StatsKeepInv, BeforeAuthKeepsInv, FailsKeepsInv, SuccessKeepsInv, ReconnectKeepsInv DEF AgNext
<1>2. CASE UNCHANGED agVars
  BY <1>2 DEF agVars, AgInv, AgTypes, Tracked, GuessesOk, Entered, SessionsOf
<1> QED BY <1>1, <1>2

LEMMA AgInvIsBounded ==
    ASSUME AgInv
    PROVE  AgTypeOK /\ GuessesAreBounded
<1>1. \A ip \in Tracked : agRecords[ip] \in AgRecord /\ agRecords[ip].last <= agClock
  BY DEF AgInv, RecordsOk, Tracked
<1>2. agClock \in Nat \ {0} /\ agClock <= MaxAgClock /\ \A n \in Nat \ {0} : n <= agClock => n \in 1 .. agClock
  BY DEF AgInv, AgTypes
<1>3. AgTypeOK
  <2>1. agClock \in 1 .. MaxAgClock
    BY <1>2, AgConstants
  <2>2. \A ip \in Tracked : agRecords[ip].last \in 1 .. agClock /\ agRecords[ip].failures \in 1 .. MaxFailures
    BY <1>1, <1>2 DEF AgRecord
  <2> QED BY <2>1, <2>2 DEF AgTypeOK, AgInv, AgTypes, RecordsOk, Tracked
<1>4. ASSUME NEW ip \in Tracked
      PROVE  agGuesses[ip] <= MaxFailures + Cardinality({s \in AgSessions : AgIP[s] = ip}) - 1
  <2>1. /\ Cardinality(SessionsOf(ip)) \in Nat /\ Cardinality(Entered(ip)) \in Nat /\ agGuesses[ip] \in Nat
    BY SessionsAreFinite DEF AgInv, AgTypes, RecordsOk, Tracked
  <2>2. GuessesOk(ip) /\ agRecords[ip].failures \in 1 .. MaxFailures
        /\ (agRecords[ip].until = 0 => agRecords[ip].failures # MaxFailures)
    BY DEF AgInv, RecordsOk, AgRecord, Tracked
  <2>3. agGuesses[ip] <= MaxFailures + Cardinality(SessionsOf(ip)) - 1
    BY <2>1, <2>2, AgConstants DEF GuessesOk
  <2> QED BY <2>3 DEF SessionsOf
<1> QED BY <1>3, <1>4 DEF GuessesAreBounded

(* What a step of LocksLast must not do.                                   *)
LockKept(ip) == ip \in DOMAIN agRecords' /\ agRecords'[ip] = agRecords[ip]

LEMMA FailureKeepsLocks ==
    ASSUME AgInv, NEW s \in AgSessions, agNow[s] # 0, RecordAuthFailure(s),
           NEW l \in Tracked, isLocked(agRecords[l], agClock)
    PROVE  LockKept(l)
<1> DEFINE ip == AgIP[s]
           now == agNow[s]
           recs == IF ip \in Tracked THEN Forgotten(agRecords, {ip}) ELSE agRecords
           gone == cleanupExpiredLocked(recs, now)
<1>1. agClock \in Nat /\ now \in Nat /\ now <= agClock
  <2>1. now \in 0 .. agClock /\ agClock \in Nat
    BY DEF AgInv, AgTypes
  <2> QED BY <2>1
<1>2. agRecords[l] \in AgRecord /\ isLocked(agRecords[l], now) /\ ~ expired(agRecords[l], now)
  <2>1. agRecords[l] \in AgRecord
    BY DEF AgInv, RecordsOk, Tracked
  <2>2. isLocked(agRecords[l], now)
    BY <1>1, <2>1 DEF isLocked, AgRecord
  <2> QED BY <1>1, <2>1, <2>2, LockedIsNotExpired
<1>3. CASE ip = l
  BY <1>2, <1>3 DEF RecordAuthFailure, LockKept, Tracked
<1>4. CASE ip # l
  <2>1. CASE agRecords' = agRecords
    BY <2>1 DEF LockKept, Tracked
  <2>2. CASE ip \in Tracked /\ agRecords' = [agRecords EXCEPT ![ip] = failed(@, now)]
    BY <1>4, <2>2 DEF LockKept, Tracked
  <2>3. l \in DOMAIN recs /\ recs[l] = agRecords[l] /\ RecordsOk(recs, agClock)
    <3>1. RecordsOk(recs, agClock)
      BY <1>1, ForgottenOk DEF AgInv
    <3> QED BY <1>4, <3>1 DEF Forgotten, Tracked
  <2>4. \/ agRecords' = agRecords
        \/ ip \in Tracked /\ agRecords' = [agRecords EXCEPT ![ip] = failed(@, now)]
        \/ agRecords' = gone
        \/ \E left \in ensureCapacityLocked(recs, now) :
              agRecords' = [i \in DOMAIN left \cup {ip} |-> IF i = ip THEN failed(NewRecord, now) ELSE left[i]]
    BY DEF RecordAuthFailure
  <2> HIDE DEF recs
  <2>5. CASE agRecords' = gone
    <3>1. LeftOf(gone, recs, now)
      BY <1>1, <2>3, CleanupIs
    <3> QED BY <1>2, <2>3, <2>5, <3>1 DEF LeftOf, LockKept
  <2>6. ASSUME NEW left \in ensureCapacityLocked(recs, now),
               agRecords' = [i \in DOMAIN left \cup {ip} |-> IF i = ip THEN failed(NewRecord, now) ELSE left[i]]
        PROVE  LockKept(l)
    <3>1. LeftOf(left, recs, now)
      BY <1>1, <2>3, RoomIs
    <3>2. l \in DOMAIN left /\ left[l] = agRecords[l]
      BY <1>2, <2>3, <3>1 DEF LeftOf
    <3> QED BY <1>4, <2>6, <3>2 DEF LockKept
  <2> QED BY <2>1, <2>2, <2>4, <2>5, <2>6
<1> QED BY <1>3, <1>4

LEMMA StepKeepsLocks ==
    ASSUME AgInv, AgNext, NEW ip \in Tracked, isLocked(agRecords[ip], agClock)
    PROVE  \/ LockKept(ip)
           \/ \E s \in AgSessions : AgIP[s] = ip /\ agNow[s] # 0 /\ ip \notin DOMAIN agRecords' /\ agAuthorized'[s]
<1>1. agRecords[ip] \in AgRecord /\ agClock \in Nat
  BY DEF AgInv, AgTypes, RecordsOk, Tracked
<1>2. ~ expired(agRecords[ip], agClock)
  BY <1>1, LockedIsNotExpired
<1>3. CASE UNCHANGED agRecords
  BY <1>3 DEF LockKept, Tracked
<1>4. CASE GuardStats
  <2>1. LeftOf(agRecords', agRecords, agClock)
    BY <1>1, <1>4, CleanupIs DEF GuardStats, AgInv
  <2> QED BY <2>1 DEF LeftOf, LockKept, Tracked
<1>5. ASSUME NEW s \in AgSessions, BeforeAuth(s), agRecords' # agRecords
      PROVE  LockKept(ip)
  <2>1. AgIP[s] \in Tracked /\ ~ isLocked(agRecords[AgIP[s]], agClock) /\ agRecords' = Forgotten(agRecords, {AgIP[s]})
    BY <1>5 DEF BeforeAuth, expireRecordLocked
  <2> QED BY <2>1 DEF Forgotten, LockKept, Tracked
<1>6. ASSUME NEW s \in AgSessions, AuthFails(s), agRecords' # agRecords
      PROVE  LockKept(ip)
  BY <1>6, FailureKeepsLocks DEF AuthFails
<1>7. ASSUME NEW s \in AgSessions, AuthSucceeds(s), AgIP[s] # ip
      PROVE  LockKept(ip)
  <2>1. agRecords' = Forgotten(agRecords, {AgIP[s]})
    BY <1>7 DEF AuthSucceeds
  <2> QED BY <1>7, <2>1 DEF Forgotten, LockKept, Tracked
<1>8. ASSUME NEW s \in AgSessions, AuthSucceeds(s), AgIP[s] = ip
      PROVE  agNow[s] # 0 /\ ip \notin DOMAIN agRecords' /\ agAuthorized'[s]
  <2>1. agRecords' = Forgotten(agRecords, {AgIP[s]}) /\ agNow[s] # 0 /\ agAuthorized' = [agAuthorized EXCEPT ![s] = TRUE]
    BY <1>8 DEF AuthSucceeds
  <2> QED BY <1>8, <2>1 DEF Forgotten, AgInv, AgTypes
<1>9. \/ UNCHANGED agRecords \/ GuardStats
      \/ \E s \in AgSessions : BeforeAuth(s) \/ AuthFails(s) \/ AuthSucceeds(s)
  BY DEF AgNext, AgTick, AgReconnects
<1> QED BY <1>3, <1>4, <1>5, <1>6, <1>7, <1>8, <1>9

(* The guard holds, for any number of sessions, addresses and records and  *)
(* any limits: an address compares no more wrong passwords than the limit  *)
(* and one for each other of its sessions, however they interleave, and a  *)
(* lock lasts until its time or the password (auth_bruteforce.go:80-233).  *)
THEOREM GuardTheorem == AgSpec => GuardHolds
<1>1. AgInit => AgInv
  BY AgInitInv
<1>2. AgInv /\ [AgNext]_agVars => AgInv'
  BY AgStepKeepsInv
<1>3. AgInv => AgTypeOK /\ GuessesAreBounded
  BY AgInvIsBounded
<1>4. AgInv /\ [AgNext]_agVars =>
         [\A ip \in Tracked :
            isLocked(agRecords[ip], agClock) /\ (ip \in DOMAIN agRecords' => agRecords'[ip] # agRecords[ip]) =>
              \E s \in AgSessions :
                 AgIP[s] = ip /\ agNow[s] # 0 /\ ip \notin DOMAIN agRecords' /\ agAuthorized'[s]]_agVars
  BY StepKeepsLocks DEF LockKept
<1> QED BY <1>1, <1>2, <1>3, <1>4, PTL DEF AgSpec, GuardHolds, LocksLast
=============================================================================
