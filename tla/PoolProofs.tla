----------------------------- MODULE PoolProofs -----------------------------
(***************************************************************************)
(* Connections that are shared are safe to share, for any number of them   *)
(* and of goroutines: the clients of the dashboard (ClientPool) and the    *)
(* connections of a proxy to its backends (BackendConn).                   *)
(***************************************************************************)
EXTENDS ClientPool, BackendConn, SubsequenceProofs

-----------------------------------------------------------------------------
(* ClientPool.                                                             *)

CpCmds    == [by: CpUsers, do: BOOLEAN]
CpClients == [open: BOOLEAN, cmds: Seq(CpCmds), recv: Nat, flushed: BOOLEAN, owed: Nat,
              db: CpDbs, connDb: CpDbs, old: BOOLEAN]

(* What is owed are the replies not received; only the replies of a        *)
(* pipeline that was flushed are, and the last one ends the pipeline.      *)
ClientOk(cl) ==
    /\ cl \in CpClients
    /\ cl.recv + cl.owed = Len(cl.cmds)
    /\ cl.owed = 0 => cl.cmds = << >> /\ ~ cl.flushed
    /\ ~ cl.flushed => cl.recv = 0
    /\ cl.open => cl.db = cl.connDb

CmdsBy(cl, u) == \A i \in 1 .. Len(cl.cmds) : cl.cmds[i].by = u

CpTypes ==
    /\ DOMAIN cpClient = Clients /\ \A c \in Clients : ClientOk(cpClient[c])
    /\ cpPool \in Seq(Clients)
    /\ cpClosed \in BOOLEAN
    /\ cpUser \in [CpUsers -> [at: {"idle", "dial", "busy", "failed"}, client: 0 .. MaxClients]]
    /\ DOMAIN cpReply = CpUsers

(* A client has one place.                                                 *)
CpPlaces ==
    /\ Distinct(cpPool)
    /\ \A u \in CpUsers : cpUser[u].client \notin Elements(cpPool)
    /\ \A u \in CpUsers : cpUser[u].client # 0 <=> cpUser[u].at \in {"busy", "failed"}
    /\ \A u, v \in CpUsers : u # v /\ cpUser[u].client # 0 => cpUser[u].client # cpUser[v].client

(* A goroutine that has met no error finds its own commands only.          *)
CpOwn ==
    \A u \in CpUsers :
        /\ cpUser[u].at = "busy" => CmdsBy(cpClient[cpUser[u].client], u)
        /\ cpReply[u] # NoReply => cpReply[u].by = u

(* Clients of the pool are open, and those that are open have a place.     *)
CpLeaks ==
    /\ cpClosed => cpPool = << >>
    /\ \A c \in Elements(cpPool) : cpClient[c].open
    /\ \A c \in Clients : cpClient[c].open => c \in Elements(cpPool) \/ \E u \in CpUsers : cpUser[u].client = c

(* The inductive invariant of ClientPool.                                  *)
CpInv == CpTypes /\ CpPlaces /\ CpOwn /\ CpLeaks

LEMMA CpConstants ==
    /\ MaxClients \in Nat /\ MaxClients > 0 /\ 0 \in CpDbs /\ CpDbs \subseteq Nat
    /\ \A c : c \in Clients <=> c \in 0 .. MaxClients /\ c # 0
BY ClientPoolAssumption DEF Clients

LEMMA PooledIs ==
    ASSUME CpTypes
    PROVE  Pooled = Elements(cpPool) /\ DOMAIN cpPool = 1 .. Len(cpPool) /\ Len(cpPool) \in Nat
           /\ \A c \in Pooled : c \in Clients
BY LenProperties, ElementOfSeq DEF CpTypes, Pooled, Elements

LEMMA UnopenedOk ==
    /\ ClientOk(Unopened) /\ ~ Unopened.open
    /\ ClientOk([Unopened EXCEPT !.open = TRUE])
    /\ \A u : CmdsBy([Unopened EXCEPT !.open = TRUE], u)
<1>1. << >> \in Seq(CpCmds) /\ Len(<< >>) = 0 /\ 0 \in CpDbs
  BY EmptySeq, CpConstants
<1>2. Unopened \in CpClients /\ [Unopened EXCEPT !.open = TRUE] \in CpClients
  BY <1>1 DEF Unopened, CpClients
<1> QED BY <1>1, <1>2 DEF Unopened, ClientOk, CmdsBy

LEMMA CpInitInv ==
    ASSUME CpInit
    PROVE  CpInv
<1>1. cpPool \in Seq(Clients) /\ Len(cpPool) = 0 /\ Elements(cpPool) = {} /\ Distinct(cpPool)
  <2>1. cpPool \in Seq(Clients) /\ Len(cpPool) = 0
    BY EmptySeq DEF CpInit
  <2> QED BY <2>1 DEF Elements, Distinct
<1>2. \A u \in CpUsers : cpUser[u].at = "idle" /\ cpUser[u].client = 0 /\ cpReply[u] = NoReply
  BY DEF CpInit, NoUse
<1>3. CpTypes
  <2>1. cpUser \in [CpUsers -> [at: {"idle", "dial", "busy", "failed"}, client: 0 .. MaxClients]]
    <3>1. 0 \in 0 .. MaxClients
      BY CpConstants
    <3> QED BY <3>1 DEF CpInit, NoUse
  <2> QED BY <1>1, <2>1, UnopenedOk DEF CpInit, CpTypes
<1>4. CpPlaces /\ CpOwn
  BY <1>1, <1>2 DEF CpPlaces, CpOwn
<1>5. CpLeaks
  BY <1>1, UnopenedOk DEF CpInit, CpLeaks
<1> QED BY <1>3, <1>4, <1>5 DEF CpInv

(* Clients that are closed: those of the pool that it gives up.            *)
LEMMA ClosingKeepsInv ==
    ASSUME CpInv, NEW K, K \subseteq Elements(cpPool),
           cpPool' \in Seq(Clients), Distinct(cpPool'), Elements(cpPool') = Elements(cpPool) \ K,
           cpClient' = [c \in Clients |-> IF c \in K THEN Unopened ELSE cpClient[c]],
           cpClosed' \in BOOLEAN, cpClosed' => cpPool' = << >>,
           UNCHANGED <<cpUser, cpReply>>
    PROVE  CpInv'
<1>1. CpTypes'
  BY UnopenedOk DEF CpInv, CpTypes
<1>2. CpPlaces'
  BY DEF CpInv, CpPlaces
<1>3. \A u \in CpUsers : cpUser[u].at = "busy" =>
         cpUser[u].client \in Clients /\ cpClient'[cpUser[u].client] = cpClient[cpUser[u].client]
  BY CpConstants DEF CpInv, CpTypes, CpPlaces
<1>4. CpOwn'
  BY <1>3 DEF CpInv, CpOwn
<1>5. CpLeaks'
  <2>1. \A c \in Elements(cpPool) : c \in Clients
    BY PooledIs DEF CpInv
  <2> QED BY <2>1, UnopenedOk DEF CpInv, CpLeaks
<1> QED BY <1>1, <1>2, <1>4, <1>5 DEF CpInv

LEMMA CleanupKeepsInv ==
    ASSUME CpInv, Cleanup
    PROVE  CpInv'
<1> DEFINE R == {c \in Pooled : isRecyclable(c)}
           K == {c \in Pooled : ~ isRecyclable(c)}
<1>1. CpTypes /\ Pooled = Elements(cpPool) /\ \A c \in Pooled : c \in Clients
  BY PooledIs DEF CpInv
<1>2. cpPool' = OnlyIn(cpPool, R) /\ cpPool \in Seq(Clients) /\ Distinct(cpPool)
  BY DEF Cleanup, CpInv, CpTypes, CpPlaces
<1>3. cpPool' \in Seq(Clients) /\ Distinct(cpPool') /\ Elements(cpPool') = Elements(cpPool) \cap R
  BY <1>2, OnlyInIs
<1>4. Elements(cpPool') = Elements(cpPool) \ K /\ K \subseteq Elements(cpPool)
  BY <1>1, <1>3
<1>5. /\ cpClient' = [c \in Clients |-> IF c \in K THEN Unopened ELSE cpClient[c]]
      /\ cpClosed' = FALSE /\ UNCHANGED <<cpUser, cpReply>>
  BY DEF Cleanup, CpInv, CpTypes
<1> HIDE DEF K, R
<1> QED BY <1>3, <1>4, <1>5, ClosingKeepsInv

LEMMA EmptyPool ==
    /\ << >> \in Seq(Clients) /\ Distinct(<< >>) /\ Elements(<< >>) = {}
<1>1. << >> \in Seq(Clients) /\ Len(<< >>) = 0
  BY EmptySeq
<1> QED BY <1>1 DEF Distinct, Elements

LEMMA PoolCloseKeepsInv ==
    ASSUME CpInv, PoolClose
    PROVE  CpInv'
<1> DEFINE K == Elements(cpPool)
<1>1. Pooled = K
  BY PooledIs DEF CpInv
<1>2. /\ cpClient' = [c \in Clients |-> IF c \in K THEN Unopened ELSE cpClient[c]]
      /\ cpClosed' = TRUE /\ cpPool' = << >> /\ UNCHANGED <<cpUser, cpReply>>
  BY <1>1 DEF PoolClose
<1>3. Elements(cpPool') = Elements(cpPool) \ K /\ cpPool' \in Seq(Clients) /\ Distinct(cpPool')
  BY <1>2, EmptyPool
<1> HIDE DEF K
<1>4. K \subseteq Elements(cpPool)
  BY DEF K
<1> QED BY <1>2, <1>3, <1>4, ClosingKeepsInv

(* The rest of the pool after a place.                                     *)
LEMMA GetKeepsInv ==
    ASSUME CpInv, NEW u \in CpUsers, GetClient(u)
    PROVE  CpInv'
<1>1. /\ CpTypes /\ Pooled = Elements(cpPool) /\ DOMAIN cpPool = 1 .. Len(cpPool) /\ Len(cpPool) \in Nat
      /\ \A c \in Pooled : c \in Clients
  BY PooledIs DEF CpInv
<1>2. cpUser[u].at = "idle" /\ cpUser[u].client = 0 /\ ~ cpClosed /\ cpClosed' = cpClosed
  BY DEF GetClient, NoUse
<1>3. cpReply' = [cpReply EXCEPT ![u] = NoReply]
  BY DEF GetClient
<1>4. \A v \in CpUsers : cpUser[v].at = "busy" =>
         v # u /\ cpUser[v].client \in Clients /\ cpUser[v].client \notin Elements(cpPool)
  BY <1>2, CpConstants DEF CpInv, CpTypes, CpPlaces
<1>5. \A v \in CpUsers : cpReply'[v] # NoReply => cpReply'[v].by = v
  BY <1>3 DEF CpInv, CpTypes, CpOwn
<1>6. ASSUME NEW n \in DOMAIN cpPool, isRecyclable(cpPool[n]), getClientFromCache(u, n)
      PROVE  CpInv'
  <2> DEFINE x == cpPool[n]
             K == {cpPool[i] : i \in 1 .. n - 1}
  <2>1. cpPool \in Seq(Clients) /\ Distinct(cpPool) /\ n \in 1 .. Len(cpPool) /\ n \in Nat
    BY <1>1, <1>6 DEF CpInv, CpTypes, CpPlaces
  <2>2. /\ cpPool' \in Seq(Clients) /\ Distinct(cpPool') /\ Elements(cpPool') = Elements(cpPool) \ (K \cup {x})
    BY <1>6, <2>1, RestIs DEF getClientFromCache
  <2>3. x \in Elements(cpPool) /\ x \notin K /\ x \in Clients /\ x # 0 /\ K \subseteq Elements(cpPool)
    <3>1. \A i \in 1 .. n - 1 : i \in 1 .. Len(cpPool) /\ i # n
      BY <1>1, <2>1
    <3>2. x \in Elements(cpPool) /\ K \subseteq Elements(cpPool)
      BY <2>1, <3>1 DEF Elements
    <3>3. x \notin K
      BY <2>1, <3>1 DEF Distinct
    <3> QED BY <1>1, <3>2, <3>3, CpConstants
  <2>4. cpClient' = [c \in Clients |-> IF c \in K THEN Unopened ELSE cpClient[c]]
    BY <1>6 DEF getClientFromCache
  <2>5. cpUser' = [cpUser EXCEPT ![u] = [at |-> "busy", client |-> x]]
    BY <1>6 DEF getClientFromCache
  <2>6. CmdsBy(cpClient[x], u) /\ cpClient'[x] = cpClient[x]
    <3>1. cpClient[x].cmds = << >> /\ Len(<< >>) = 0
      BY <1>1, <1>6, <2>3, EmptySeq DEF CpTypes, ClientOk, isRecyclable
    <3> QED BY <2>3, <2>4, <3>1 DEF CmdsBy
  <2> HIDE DEF x, K
  <2>7. /\ cpUser' \in [CpUsers -> [at: {"idle", "dial", "busy", "failed"}, client: 0 .. MaxClients]]
        /\ cpUser'[u].at = "busy" /\ cpUser'[u].client = x
        /\ \A v \in CpUsers : v # u => cpUser'[v] = cpUser[v]
    BY <1>1, <2>3, <2>5, CpConstants DEF CpTypes
  <2>8. CpTypes'
    BY <1>1, <1>2, <1>3, <2>2, <2>4, <2>7, UnopenedOk DEF CpTypes
  <2>9. CpPlaces'
    BY <2>2, <2>3, <2>7 DEF CpInv, CpPlaces
  <2>10. CpOwn'
    <3>1. \A v \in CpUsers : cpUser[v].at = "busy" => cpClient'[cpUser[v].client] = cpClient[cpUser[v].client]
      BY <1>4, <2>3, <2>4
    <3> QED BY <1>5, <2>6, <2>7, <3>1 DEF CpInv, CpOwn
  <2>11. CpLeaks'
    <3>1. ASSUME NEW c \in Clients, cpClient'[c].open
          PROVE  c \in Elements(cpPool') \/ \E v \in CpUsers : cpUser'[v].client = c
      <4>1. c \notin K /\ cpClient[c].open
        BY <2>4, <3>1, UnopenedOk
      <4>2. CASE c \in Elements(cpPool)
        BY <2>2, <2>7, <4>1, <4>2
      <4>3. CASE c \notin Elements(cpPool)
        <5>1. PICK v \in CpUsers : cpUser[v].client = c
          BY <4>1, <4>3 DEF CpInv, CpLeaks
        <5>2. v # u
          BY <1>2, <5>1, CpConstants
        <5> QED BY <2>7, <5>1, <5>2
      <4> QED BY <4>2, <4>3
    <3>2. \A c \in Elements(cpPool') : cpClient'[c].open
      BY <1>1, <2>2, <2>4 DEF CpInv, CpLeaks
    <3> QED BY <1>2, <3>1, <3>2 DEF CpLeaks
  <2> QED BY <2>8, <2>9, <2>10, <2>11 DEF CpInv
<1>7. CASE /\ cpUser' = [cpUser EXCEPT ![u].at = "dial"] /\ cpPool' = << >>
           /\ cpClient' = [c \in Clients |-> IF c \in Pooled THEN Unopened ELSE cpClient[c]]
  <2>1. cpPool' \in Seq(Clients) /\ Distinct(cpPool') /\ Elements(cpPool') = {}
    BY <1>7, EmptyPool
  <2>2. /\ cpUser' \in [CpUsers -> [at: {"idle", "dial", "busy", "failed"}, client: 0 .. MaxClients]]
        /\ cpUser'[u].at = "dial" /\ cpUser'[u].client = 0
        /\ \A v \in CpUsers : v # u => cpUser'[v] = cpUser[v]
    BY <1>1, <1>2, <1>7 DEF CpTypes
  <2>3. CpTypes'
    BY <1>1, <1>2, <1>3, <1>7, <2>1, <2>2, UnopenedOk DEF CpTypes
  <2>4. CpPlaces'
    BY <1>2, <2>1, <2>2 DEF CpInv, CpPlaces
  <2>5. CpOwn'
    <3>1. \A v \in CpUsers : cpUser[v].at = "busy" => cpClient'[cpUser[v].client] = cpClient[cpUser[v].client]
      BY <1>1, <1>4, <1>7
    <3> QED BY <1>5, <2>2, <3>1 DEF CpInv, CpOwn
  <2>6. CpLeaks'
    <3>1. ASSUME NEW c \in Clients, cpClient'[c].open
          PROVE  \E v \in CpUsers : cpUser'[v].client = c
      <4>1. c \notin Pooled /\ cpClient[c].open
        BY <1>7, <3>1, UnopenedOk
      <4>2. PICK v \in CpUsers : cpUser[v].client = c
        BY <1>1, <4>1 DEF CpInv, CpLeaks
      <4>3. v # u
        BY <1>2, <4>2, CpConstants
      <4> QED BY <2>2, <4>2, <4>3
    <3> QED BY <1>2, <2>1, <3>1 DEF CpLeaks
  <2> QED BY <2>3, <2>4, <2>5, <2>6 DEF CpInv
<1> QED BY <1>6, <1>7 DEF GetClient

LEMMA NewKeepsInv ==
    ASSUME CpInv, NEW u \in CpUsers, NewClient(u)
    PROVE  CpInv'
<1>1. /\ cpUser[u].at = "dial" /\ cpUser[u].client = 0 /\ UNCHANGED <<cpPool, cpClosed, cpReply>> /\ CpTypes
  BY DEF NewClient, CpInv, CpPlaces
<1>2. ASSUME NEW c \in Clients, ~ cpClient[c].open, \A v \in CpUsers : cpUser[v].client # c,
             cpClient' = [cpClient EXCEPT ![c] = [Unopened EXCEPT !.open = TRUE]],
             cpUser' = [cpUser EXCEPT ![u] = [at |-> "busy", client |-> c]],
             c \notin Elements(cpPool)
      PROVE  CpInv'
  <2>1. /\ cpUser' \in [CpUsers -> [at: {"idle", "dial", "busy", "failed"}, client: 0 .. MaxClients]]
        /\ cpUser'[u].at = "busy" /\ cpUser'[u].client = c
        /\ \A v \in CpUsers : v # u => cpUser'[v] = cpUser[v]
        /\ c # 0
    BY <1>1, <1>2, CpConstants DEF CpTypes
  <2>2. /\ DOMAIN cpClient' = Clients /\ cpClient'[c] = [Unopened EXCEPT !.open = TRUE]
        /\ \A d \in Clients : d # c => cpClient'[d] = cpClient[d]
    BY <1>1, <1>2 DEF CpTypes
  <2>3. CpTypes'
    BY <1>1, <2>1, <2>2, UnopenedOk DEF CpTypes
  <2>4. CpPlaces'
    BY <1>1, <1>2, <2>1 DEF CpInv, CpPlaces
  <2>5. \A v \in CpUsers : v # u /\ cpUser[v].at = "busy" => cpClient'[cpUser[v].client] = cpClient[cpUser[v].client]
    BY <1>1, <1>2, <2>2, CpConstants DEF CpInv, CpTypes, CpPlaces
  <2>6. CpOwn'
    <3>1. CmdsBy(cpClient'[c], u)
      BY <2>2, UnopenedOk
    <3>2. \A v \in CpUsers : cpUser'[v].at = "busy" => CmdsBy(cpClient'[cpUser'[v].client], v)
      BY <2>1, <2>5, <3>1 DEF CpInv, CpOwn
    <3> QED BY <1>1, <3>2 DEF CpInv, CpOwn
  <2>7. CpLeaks'
    <3>1. ASSUME NEW d \in Clients, cpClient'[d].open
          PROVE  d \in Elements(cpPool) \/ \E v \in CpUsers : cpUser'[v].client = d
      <4>1. CASE d = c
        BY <2>1, <4>1
      <4>2. CASE d # c
        <5>1. cpClient[d].open /\ d # 0
          BY <2>2, <3>1, <4>2, CpConstants
        <5>2. d \in Elements(cpPool) \/ \E v \in CpUsers : cpUser[v].client = d
          BY <5>1 DEF CpInv, CpLeaks
        <5> QED BY <1>1, <2>1, <5>1, <5>2
      <4> QED BY <4>1, <4>2
    <3>2. \A d \in Elements(cpPool) : d \in Clients /\ d # c
      BY <1>1, <1>2, PooledIs
    <3> QED BY <1>1, <2>2, <3>1, <3>2 DEF CpInv, CpLeaks
  <2> QED BY <2>3, <2>4, <2>6, <2>7 DEF CpInv
<1>3. CASE cpUser' = [cpUser EXCEPT ![u] = NoUse] /\ UNCHANGED cpClient
  <2>1. /\ cpUser' \in [CpUsers -> [at: {"idle", "dial", "busy", "failed"}, client: 0 .. MaxClients]]
        /\ cpUser'[u].at = "idle" /\ cpUser'[u].client = 0
        /\ \A v \in CpUsers : v # u => cpUser'[v] = cpUser[v]
    <3>1. 0 \in 0 .. MaxClients
      BY CpConstants
    <3> QED BY <1>1, <1>3, <3>1 DEF CpTypes, NoUse
  <2>2. CpTypes' /\ CpPlaces' /\ CpOwn'
    BY <1>1, <1>3, <2>1 DEF CpInv, CpTypes, CpPlaces, CpOwn
  <2>3. CpLeaks'
    BY <1>1, <1>3, <2>1, CpConstants DEF CpInv, CpLeaks
  <2> QED BY <2>2, <2>3 DEF CpInv
<1>4. \A c \in Clients : c \in Elements(cpPool) => cpClient[c].open
  BY DEF CpInv, CpLeaks
<1> QED BY <1>2, <1>3, <1>4 DEF NewClient

LEMMA PutKeepsInv ==
    ASSUME CpInv, NEW u \in CpUsers, PutClient(u)
    PROVE  CpInv'
<1> DEFINE c == cpUser[u].client
<1>1. /\ CpTypes /\ c \in Clients /\ c # 0 /\ c \notin Elements(cpPool)
      /\ cpPool \in Seq(Clients) /\ Distinct(cpPool)
      /\ \A v \in CpUsers : v # u => cpUser[v].client # c
  BY CpConstants DEF CpInv, CpTypes, CpPlaces, PutClient
<1>2. cpUser' = [cpUser EXCEPT ![u] = NoUse] /\ UNCHANGED <<cpClosed, cpReply>>
  BY DEF PutClient
<1>3. /\ cpUser' \in [CpUsers -> [at: {"idle", "dial", "busy", "failed"}, client: 0 .. MaxClients]]
      /\ cpUser'[u].at = "idle" /\ cpUser'[u].client = 0
      /\ \A v \in CpUsers : v # u => cpUser'[v] = cpUser[v]
  <2>1. 0 \in 0 .. MaxClients
    BY CpConstants
  <2> QED BY <1>1, <1>2, <2>1 DEF CpTypes, NoUse
<1>4. \A d \in Elements(cpPool) : d \in Clients /\ d # c
  BY <1>1, PooledIs
<1>5. CASE kept(c) /\ cpPool' = <<c>> \o cpPool /\ UNCHANGED cpClient
  <2>1. cpPool' \in Seq(Clients) /\ Distinct(cpPool') /\ Elements(cpPool') = Elements(cpPool) \cup {c}
    BY <1>1, <1>5, PrependIs
  <2>2. cpClient[c].open /\ ~ cpClosed
    BY <1>5 DEF kept, isRecyclable
  <2> HIDE DEF c
  <2>3. CpTypes'
    BY <1>1, <1>2, <1>3, <1>5, <2>1 DEF CpTypes
  <2>4. 0 \notin Elements(cpPool')
    BY <1>1, <1>4, <2>1, CpConstants
  <2>5. CpPlaces'
    BY <1>1, <1>3, <2>1, <2>4 DEF CpInv, CpPlaces
  <2>6. CpOwn'
    BY <1>2, <1>3, <1>5 DEF CpInv, CpOwn
  <2>7. CpLeaks'
    <3>1. \A d \in Clients : cpClient[d].open => d \in Elements(cpPool') \/ \E v \in CpUsers : cpUser'[v].client = d
      BY <1>3, <2>1 DEF CpInv, CpLeaks, c
    <3> QED BY <1>2, <1>5, <2>1, <2>2, <3>1 DEF CpInv, CpLeaks
  <2> QED BY <2>3, <2>5, <2>6, <2>7 DEF CpInv
<1>6. CASE cpClient' = [cpClient EXCEPT ![c] = Unopened] /\ UNCHANGED cpPool
  <2>1. /\ DOMAIN cpClient' = Clients /\ cpClient'[c] = Unopened
        /\ \A d \in Clients : d # c => cpClient'[d] = cpClient[d]
    BY <1>1, <1>6 DEF CpTypes
  <2> HIDE DEF c
  <2>2. CpTypes'
    BY <1>1, <1>2, <1>3, <1>6, <2>1, UnopenedOk DEF CpTypes
  <2>3. 0 \notin Elements(cpPool)
    BY <1>4, CpConstants
  <2>4. CpPlaces'
    BY <1>1, <1>3, <1>6, <2>3 DEF CpInv, CpPlaces
  <2>5. CpOwn'
    <3>1. \A v \in CpUsers : v # u /\ cpUser[v].at = "busy" => cpClient'[cpUser[v].client] = cpClient[cpUser[v].client]
      BY <1>1, <2>1, CpConstants DEF CpInv, CpTypes, CpPlaces
    <3> QED BY <1>2, <1>3, <3>1 DEF CpInv, CpOwn
  <2>6. CpLeaks'
    <3>1. ASSUME NEW d \in Clients, cpClient'[d].open
          PROVE  d \in Elements(cpPool) \/ \E v \in CpUsers : cpUser'[v].client = d
      <4>1. d # c /\ cpClient[d].open
        BY <2>1, <3>1, UnopenedOk
      <4>2. d \in Elements(cpPool) \/ \E v \in CpUsers : cpUser[v].client = d
        BY <4>1 DEF CpInv, CpLeaks
      <4> QED BY <1>3, <4>1, <4>2 DEF c
    <3>2. \A d \in Elements(cpPool) : cpClient'[d].open
      BY <1>4, <2>1 DEF CpInv, CpLeaks
    <3> QED BY <1>2, <1>6, <3>1, <3>2 DEF CpInv, CpLeaks
  <2> QED BY <2>2, <2>4, <2>5, <2>6 DEF CpInv
<1> QED BY <1>5, <1>6 DEF PutClient

LEMMA AgeKeepsInv ==
    ASSUME CpInv, Age
    PROVE  CpInv'
<1>1. PICK c \in Pooled : cpClient' = [cpClient EXCEPT ![c].old = TRUE]
  BY DEF Age
<1>2. CpTypes /\ c \in Clients /\ c \in Elements(cpPool) /\ UNCHANGED <<cpPool, cpClosed, cpUser, cpReply>>
  BY PooledIs DEF Age, CpInv
<1>3. /\ DOMAIN cpClient' = Clients /\ cpClient'[c] = [cpClient[c] EXCEPT !.old = TRUE]
      /\ \A d \in Clients : d # c => cpClient'[d] = cpClient[d]
  BY <1>1, <1>2 DEF CpTypes
<1>4. ClientOk(cpClient'[c]) /\ cpClient'[c].open = cpClient[c].open
  <2>1. cpClient'[c] \in CpClients
    BY <1>2, <1>3 DEF CpTypes, ClientOk, CpClients
  <2> QED BY <1>2, <1>3, <2>1 DEF CpTypes, ClientOk, CpClients
<1>5. CpTypes' /\ CpPlaces'
  BY <1>2, <1>3, <1>4 DEF CpInv, CpTypes, CpPlaces
<1>6. CpOwn'
  BY <1>2, <1>3, CpConstants DEF CpInv, CpTypes, CpPlaces, CpOwn
<1>7. CpLeaks'
  <2>1. \A d \in Elements(cpPool) : d \in Clients
    BY <1>2, PooledIs
  <2> QED BY <1>2, <1>3, <1>4, <2>1 DEF CpInv, CpLeaks
<1> QED BY <1>5, <1>6, <1>7 DEF CpInv

(* A command changes the client of its goroutine only, which keeps it.     *)
LEMMA CommandKeepsInv ==
    ASSUME CpInv, NEW u \in CpUsers, cpUser[u].at = "busy", NEW cl, ClientOk(cl), CmdsBy(cl, u),
           cpClient' = [cpClient EXCEPT ![cpUser[u].client] = cl],
           \/ cpUser' = cpUser
           \/ cpUser' = [cpUser EXCEPT ![u].at = "failed"],
           \/ cpReply' = cpReply
           \/ \E r : r.by = u /\ cpReply' = [cpReply EXCEPT ![u] = r],
           UNCHANGED <<cpPool, cpClosed>>
    PROVE  CpInv'
<1> DEFINE c == cpUser[u].client
<1>1. /\ CpTypes /\ c \in Clients /\ c # 0 /\ c \notin Elements(cpPool)
      /\ \A v \in CpUsers : v # u => cpUser[v].client # c
  BY CpConstants DEF CpInv, CpTypes, CpPlaces
<1>2. /\ cpUser' \in [CpUsers -> [at: {"idle", "dial", "busy", "failed"}, client: 0 .. MaxClients]]
      /\ cpUser'[u].at \in {"busy", "failed"} /\ cpUser'[u].client = c
      /\ \A v \in CpUsers : v # u => cpUser'[v] = cpUser[v]
  BY <1>1 DEF CpTypes
<1>3. /\ DOMAIN cpClient' = Clients /\ cpClient'[c] = cl
      /\ \A d \in Clients : d # c => cpClient'[d] = cpClient[d]
  BY <1>1 DEF CpTypes
<1>4. /\ DOMAIN cpReply' = CpUsers
      /\ \A v \in CpUsers : cpReply'[v] # NoReply => cpReply'[v].by = v
  BY <1>1 DEF CpInv, CpTypes, CpOwn
<1> HIDE DEF c
<1>5. CpTypes'
  BY <1>1, <1>2, <1>3, <1>4 DEF CpTypes
<1>6. CpPlaces'
  <2>1. \A v \in CpUsers : cpUser'[v].client = cpUser[v].client
    BY <1>2 DEF c
  <2>2. cpUser[u].client # 0
    BY <1>1 DEF c
  <2> QED BY <1>2, <2>1, <2>2 DEF CpInv, CpPlaces
<1>7. CpOwn'
  <2>1. \A v \in CpUsers : v # u /\ cpUser[v].at = "busy" => cpClient'[cpUser[v].client] = cpClient[cpUser[v].client]
    BY <1>1, <1>3, CpConstants DEF CpInv, CpTypes, CpPlaces
  <2>2. \A v \in CpUsers : cpUser'[v].at = "busy" => CmdsBy(cpClient'[cpUser'[v].client], v)
    BY <1>2, <1>3, <2>1 DEF CpInv, CpOwn
  <2> QED BY <1>4, <2>2 DEF CpOwn
<1>8. CpLeaks'
  <2>1. \A d \in Elements(cpPool) : d \in Clients /\ d # c
    BY <1>1, PooledIs
  <2>2. \A v \in CpUsers : cpUser'[v].client = cpUser[v].client
    BY <1>2 DEF c
  <2>3. ASSUME NEW d \in Clients, cpClient'[d].open
        PROVE  d \in Elements(cpPool) \/ \E v \in CpUsers : cpUser'[v].client = d
    <3>1. CASE d = c
      BY <1>2, <3>1
    <3>2. CASE d # c
      BY <1>3, <2>2, <2>3, <3>2 DEF CpInv, CpLeaks
    <3> QED BY <3>1, <3>2
  <2> QED BY <1>3, <2>1, <2>3 DEF CpInv, CpLeaks
<1> QED BY <1>5, <1>6, <1>7, <1>8 DEF CpInv

LEMMA BusyIs ==
    ASSUME CpInv, NEW u \in CpUsers, Busy(u)
    PROVE  /\ cpUser[u].at = "busy" /\ Has(u).open /\ ClientOk(Has(u)) /\ CmdsBy(Has(u), u)
           /\ Has(u) = cpClient[cpUser[u].client]
BY CpConstants DEF CpInv, CpTypes, CpPlaces, CpOwn, Busy, Has

LEMMA BrokenOk ==
    ASSUME NEW u, ClientOk(Has(u)), CmdsBy(Has(u), u)
    PROVE  ClientOk(Broken(u)) /\ CmdsBy(Broken(u), u)
<1>1. Broken(u) \in CpClients
  BY DEF Broken, ClientOk, CpClients
<1> QED BY <1>1 DEF Broken, ClientOk, CmdsBy, CpClients

(* A command is queued, and the pipeline perhaps flushed.                  *)
LEMMA QueuedOk ==
    ASSUME NEW u \in CpUsers, NEW do \in BOOLEAN, NEW f \in BOOLEAN,
           ClientOk(Has(u)), CmdsBy(Has(u), u), ~ Has(u).flushed
    PROVE  LET q == [Queued(u, do) EXCEPT !.flushed = f]
           IN  /\ ClientOk(q) /\ CmdsBy(q, u) /\ q.flushed = f /\ q.recv = 0
               /\ q.owed = Len(q.cmds) /\ q.owed > 0
<1> DEFINE cl == Has(u)
           x == [by |-> u, do |-> do]
           q == [Queued(u, do) EXCEPT !.flushed = f]
<1>1. cl.cmds \in Seq(CpCmds) /\ x \in CpCmds /\ x.by = u /\ cl.owed \in Nat /\ cl.recv = 0 /\ Len(cl.cmds) \in Nat
  BY LenProperties DEF ClientOk, CpClients, CpCmds
<1>2. /\ Append(cl.cmds, x) \in Seq(CpCmds) /\ Len(Append(cl.cmds, x)) = Len(cl.cmds) + 1
      /\ Append(cl.cmds, x)[Len(cl.cmds) + 1] = x
      /\ \A i \in 1 .. Len(cl.cmds) : Append(cl.cmds, x)[i] = cl.cmds[i]
  BY <1>1, AppendProperties
<1>3. q = [Queued(u, do) EXCEPT !.flushed = f] /\ Queued(u, do) = [cl EXCEPT !.cmds = Append(@, x), !.owed = @ + 1]
  BY DEF Queued
<1> HIDE DEF x, q
<1>4. /\ q \in CpClients /\ q.cmds = Append(cl.cmds, x) /\ q.owed = cl.owed + 1 /\ q.flushed = f
      /\ q.recv = cl.recv /\ q.open = cl.open /\ q.db = cl.db /\ q.connDb = cl.connDb
  <2> DEFINE y == Queued(u, do)
             cmds == Append(cl.cmds, x)
  <2>1. y = [cl EXCEPT !.cmds = cmds, !.owed = cl.owed + 1] /\ cmds \in Seq(CpCmds) /\ cl.owed + 1 \in Nat
    BY <1>1, <1>2, <1>3
  <2>2. q = [y EXCEPT !.flushed = f] /\ cl \in CpClients
    BY <1>3 DEF ClientOk
  <2> HIDE DEF y, cmds, cl
  <2>3. /\ y \in CpClients /\ y.cmds = cmds /\ y.owed = cl.owed + 1
        /\ y.recv = cl.recv /\ y.open = cl.open /\ y.db = cl.db /\ y.connDb = cl.connDb
    BY <2>1, <2>2 DEF CpClients
  <2>4. /\ q \in CpClients /\ q.cmds = y.cmds /\ q.owed = y.owed /\ q.flushed = f
        /\ q.recv = y.recv /\ q.open = y.open /\ q.db = y.db /\ q.connDb = y.connDb
    BY <2>2, <2>3 DEF CpClients
  <2> QED BY <2>3, <2>4 DEF cmds
<1>5. cl.owed = Len(cl.cmds)
  BY <1>1 DEF ClientOk
<1>6. ClientOk(q) /\ q.owed = Len(q.cmds) /\ q.owed > 0 /\ q.recv = 0
  BY <1>1, <1>2, <1>4, <1>5 DEF ClientOk
<1>7. CmdsBy(q, u)
  <2>1. \A i \in 1 .. Len(cl.cmds) + 1 : i \in 1 .. Len(cl.cmds) \/ i = Len(cl.cmds) + 1
    BY <1>1
  <2> QED BY <1>1, <1>2, <1>4, <2>1 DEF CmdsBy
<1> QED BY <1>4, <1>6, <1>7 DEF q

(* Some replies are received.                                              *)
LEMMA ReceivedOk ==
    ASSUME NEW u, NEW cl, ClientOk(cl), CmdsBy(cl, u), cl.flushed, NEW n \in 1 .. cl.owed
    PROVE  ClientOk(Received(cl, n)) /\ CmdsBy(Received(cl, n), u)
<1>1. /\ cl.owed \in Nat /\ cl.recv \in Nat /\ n \in Nat /\ n >= 1 /\ n <= cl.owed /\ Len(cl.cmds) \in Nat
      /\ cl.recv + cl.owed = Len(cl.cmds)
  BY LenProperties DEF ClientOk, CpClients
<1>2. << >> \in Seq(CpCmds) /\ Len(<< >>) = 0
  BY EmptySeq
<1> DEFINE r == Received(cl, n)
<1>3. CASE cl.recv + n = Len(cl.cmds)
  <2>1. cl.owed - n = 0 /\ cl.owed - n \in Nat
    BY <1>1, <1>3
  <2>2. r = [cl EXCEPT !.cmds = << >>, !.recv = 0, !.flushed = FALSE, !.owed = @ - n]
    BY <1>3 DEF Received
  <2> HIDE DEF r
  <2>3. /\ r \in CpClients /\ r.cmds = << >> /\ r.recv = 0 /\ r.flushed = FALSE /\ r.owed = 0
        /\ r.open = cl.open /\ r.db = cl.db /\ r.connDb = cl.connDb
    BY <1>2, <2>1, <2>2 DEF ClientOk, CpClients
  <2>4. ClientOk(r) /\ CmdsBy(r, u)
    BY <1>2, <2>3 DEF ClientOk, CmdsBy
  <2> QED BY <2>4 DEF r
<1>4. CASE cl.recv + n # Len(cl.cmds)
  <2>1. cl.owed - n \in Nat /\ cl.owed - n # 0 /\ cl.recv + n \in Nat /\ (cl.recv + n) + (cl.owed - n) = Len(cl.cmds)
    BY <1>1, <1>4
  <2>2. r = [cl EXCEPT !.recv = @ + n, !.owed = @ - n]
    BY <1>4 DEF Received
  <2> HIDE DEF r
  <2>3. /\ r \in CpClients /\ r.cmds = cl.cmds /\ r.recv = cl.recv + n /\ r.flushed = cl.flushed /\ r.owed = cl.owed - n
        /\ r.open = cl.open /\ r.db = cl.db /\ r.connDb = cl.connDb
    BY <1>2, <2>1, <2>2 DEF ClientOk, CpClients
  <2>4. ClientOk(r) /\ CmdsBy(r, u)
    BY <2>1, <2>3 DEF ClientOk, CmdsBy
  <2> QED BY <2>4 DEF r
<1> QED BY <1>3, <1>4

LEMMA SendKeepsInv ==
    ASSUME CpInv, NEW u \in CpUsers, ClientSend(u)
    PROVE  CpInv'
<1>1. /\ cpUser[u].at = "busy" /\ ClientOk(Has(u)) /\ CmdsBy(Has(u), u) /\ ~ Has(u).flushed
  BY BusyIs DEF ClientSend
<1> DEFINE q == [Queued(u, FALSE) EXCEPT !.flushed = FALSE]
<1>2. ClientOk(q) /\ CmdsBy(q, u)
  BY <1>1, QueuedOk
<1>3. q = Queued(u, FALSE)
  <2>1. Has(u) \in CpClients /\ Has(u).flushed = FALSE
    BY <1>1 DEF ClientOk, CpClients
  <2> QED BY <2>1 DEF Queued, CpClients
<1> HIDE DEF q
<1>4. cpClient' = [cpClient EXCEPT ![cpUser[u].client] = q] /\ UNCHANGED <<cpUser, cpReply, cpPool, cpClosed>>
  BY <1>3 DEF ClientSend, Set, Goes
<1> QED BY <1>1, <1>2, <1>4, CommandKeepsInv

LEMMA FlushKeepsInv ==
    ASSUME CpInv, NEW u \in CpUsers, Flush(u)
    PROVE  CpInv'
<1>1. cpUser[u].at = "busy" /\ ClientOk(Has(u)) /\ CmdsBy(Has(u), u) /\ Has(u).cmds # << >>
  BY BusyIs DEF Flush
<1>2. CASE Set(u, [Has(u) EXCEPT !.flushed = TRUE]) /\ Goes(u)
  <2> DEFINE cl == [Has(u) EXCEPT !.flushed = TRUE]
  <2>1. cl \in CpClients
    BY <1>1 DEF ClientOk, CpClients
  <2>2. ClientOk(cl) /\ CmdsBy(cl, u)
    BY <1>1, <2>1 DEF ClientOk, CmdsBy, CpClients
  <2>3. cpClient' = [cpClient EXCEPT ![cpUser[u].client] = cl] /\ UNCHANGED <<cpUser, cpReply, cpPool, cpClosed>>
    BY <1>2 DEF Set, Goes, Flush
  <2> HIDE DEF cl
  <2> QED BY <1>1, <2>2, <2>3, CommandKeepsInv
<1>3. CASE Set(u, Broken(u)) /\ Stops(u)
  <2>1. /\ cpClient' = [cpClient EXCEPT ![cpUser[u].client] = Broken(u)]
        /\ cpUser' = [cpUser EXCEPT ![u].at = "failed"] /\ UNCHANGED <<cpReply, cpPool, cpClosed>>
    BY <1>3 DEF Set, Stops, Flush
  <2> QED BY <1>1, <2>1, BrokenOk, CommandKeepsInv
<1> QED BY <1>2, <1>3 DEF Flush

LEMMA ReceiveKeepsInv ==
    ASSUME CpInv, NEW u \in CpUsers, Receive(u)
    PROVE  CpInv'
<1>1. cpUser[u].at = "busy" /\ ClientOk(Has(u)) /\ CmdsBy(Has(u), u) /\ Has(u).flushed
  BY BusyIs DEF Receive
<1>2. 1 \in 1 .. Has(u).owed /\ Has(u).recv + 1 \in 1 .. Len(Has(u).cmds)
  <2>1. Has(u).owed \in Nat /\ Has(u).recv \in Nat /\ Has(u).owed # 0 /\ Has(u).recv + Has(u).owed = Len(Has(u).cmds)
    BY <1>1 DEF ClientOk, CpClients
  <2> QED BY <2>1
<1>3. ClientOk(Received(Has(u), 1)) /\ CmdsBy(Received(Has(u), 1), u)
  BY <1>1, <1>2, ReceivedOk
<1>4. Has(u).cmds[Has(u).recv + 1].by = u
  BY <1>1, <1>2 DEF CmdsBy
<1>5. cpClient' = [cpClient EXCEPT ![cpUser[u].client] = Received(Has(u), 1)] /\ UNCHANGED <<cpPool, cpClosed>>
  BY DEF Receive, Set
<1>6. CASE Goes(u) /\ cpReply' = [cpReply EXCEPT ![u] = Has(u).cmds[Has(u).recv + 1]]
  <2>1. cpUser' = cpUser
    BY <1>6 DEF Goes
  <2> QED BY <1>1, <1>3, <1>4, <1>5, <1>6, <2>1, CommandKeepsInv
<1>7. CASE Stops(u) /\ UNCHANGED cpReply
  <2>1. cpUser' = [cpUser EXCEPT ![u].at = "failed"]
    BY <1>7 DEF Stops
  <2> QED BY <1>1, <1>3, <1>5, <1>7, <2>1, CommandKeepsInv
<1> QED BY <1>6, <1>7 DEF Receive

LEMMA DoKeepsInv ==
    ASSUME CpInv, NEW u \in CpUsers, Do(u)
    PROVE  CpInv'
<1> DEFINE q == [Queued(u, TRUE) EXCEPT !.flushed = TRUE]
<1>1. cpUser[u].at = "busy" /\ ClientOk(Has(u)) /\ CmdsBy(Has(u), u) /\ UNCHANGED <<cpPool, cpClosed>>
  BY BusyIs DEF Do
<1>2. \/ Stops(u) /\ UNCHANGED <<cpClient, cpReply>>
      \/ /\ ~ Has(u).flushed
         /\ Set(u, Received(q, Len(q.cmds))) /\ Goes(u)
         /\ cpReply' = [cpReply EXCEPT ![u] = q.cmds[Len(q.cmds)]]
      \/ /\ ~ Has(u).flushed
         /\ \E n \in DOMAIN q.cmds : Set(u, Received(q, n))
         /\ Stops(u) /\ UNCHANGED cpReply
      \/ Set(u, Broken(u)) /\ Stops(u) /\ UNCHANGED cpReply
  BY DEF Do
<1>3. ASSUME ~ Has(u).flushed
      PROVE  /\ ClientOk(q) /\ CmdsBy(q, u) /\ q.flushed /\ q.owed = Len(q.cmds) /\ q.owed > 0
             /\ q.cmds \in Seq(CpCmds) /\ DOMAIN q.cmds = 1 .. q.owed /\ Len(q.cmds) \in 1 .. q.owed
  <2>1. ClientOk(q) /\ CmdsBy(q, u) /\ q.flushed = TRUE /\ q.owed = Len(q.cmds) /\ q.owed > 0
    BY <1>1, <1>3, QueuedOk
  <2> HIDE DEF q
  <2>2. q.cmds \in Seq(CpCmds)
    BY <2>1 DEF ClientOk, CpClients
  <2>3. Len(q.cmds) \in Nat /\ DOMAIN q.cmds = 1 .. Len(q.cmds)
    BY <2>2, LenProperties
  <2> QED BY <2>1, <2>2, <2>3
<1> HIDE DEF q
<1>4. Goes(u) => cpUser' = cpUser
  BY DEF Goes
<1>5. Stops(u) => cpUser' = [cpUser EXCEPT ![u].at = "failed"]
  BY DEF Stops
<1>6. CASE Stops(u) /\ UNCHANGED <<cpClient, cpReply>>
  <2>1. /\ cpUser' = [cpUser EXCEPT ![u].at = "failed"] /\ UNCHANGED <<cpClient, cpReply, cpPool, cpClosed>>
        /\ DOMAIN cpUser = CpUsers
    BY <1>1, <1>5, <1>6 DEF CpInv, CpTypes
  <2>2. \A v \in CpUsers : /\ cpUser'[v].client = cpUser[v].client
                           /\ cpUser'[v].at = IF v = u THEN "failed" ELSE cpUser[v].at
    BY <2>1 DEF CpInv, CpTypes
  <2>3. CpTypes'
    <3>1. cpUser' \in [CpUsers -> [at: {"idle", "dial", "busy", "failed"}, client: 0 .. MaxClients]]
      BY <2>1 DEF CpInv, CpTypes
    <3> QED BY <2>1, <3>1 DEF CpInv, CpTypes
  <2>4. CpPlaces' /\ CpOwn' /\ CpLeaks'
    BY <1>1, <2>1, <2>2 DEF CpInv, CpPlaces, CpOwn, CpLeaks
  <2> QED BY <2>3, <2>4 DEF CpInv
<1>7. CASE /\ ~ Has(u).flushed
           /\ Set(u, Received(q, Len(q.cmds))) /\ Goes(u)
           /\ cpReply' = [cpReply EXCEPT ![u] = q.cmds[Len(q.cmds)]]
  <2>1. ClientOk(Received(q, Len(q.cmds))) /\ CmdsBy(Received(q, Len(q.cmds)), u)
    BY <1>3, <1>7, ReceivedOk
  <2>2. q.cmds[Len(q.cmds)].by = u
    BY <1>3, <1>7 DEF CmdsBy
  <2>3. cpClient' = [cpClient EXCEPT ![cpUser[u].client] = Received(q, Len(q.cmds))]
    BY <1>7 DEF Set
  <2> QED BY <1>1, <1>4, <1>7, <2>1, <2>2, <2>3, CommandKeepsInv
<1>8. ASSUME ~ Has(u).flushed, NEW n \in DOMAIN q.cmds, Set(u, Received(q, n)), Stops(u), UNCHANGED cpReply
      PROVE  CpInv'
  <2>1. ClientOk(Received(q, n)) /\ CmdsBy(Received(q, n), u)
    BY <1>3, <1>8, ReceivedOk
  <2>2. cpClient' = [cpClient EXCEPT ![cpUser[u].client] = Received(q, n)]
    BY <1>8 DEF Set
  <2> QED BY <1>1, <1>5, <1>8, <2>1, <2>2, CommandKeepsInv
<1>9. CASE Set(u, Broken(u)) /\ Stops(u) /\ UNCHANGED cpReply
  <2>1. cpClient' = [cpClient EXCEPT ![cpUser[u].client] = Broken(u)]
    BY <1>9 DEF Set
  <2> QED BY <1>1, <1>5, <1>9, <2>1, BrokenOk, CommandKeepsInv
<1> QED BY <1>2, <1>6, <1>7, <1>8, <1>9

LEMMA SelectKeepsInv ==
    ASSUME CpInv, NEW u \in CpUsers, NEW d \in CpDbs, Select(u, d)
    PROVE  CpInv'
<1>1. cpUser[u].at = "busy" /\ ClientOk(Has(u)) /\ CmdsBy(Has(u), u)
  BY BusyIs DEF Select
<1>2. CASE Set(u, [Has(u) EXCEPT !.db = d, !.connDb = d]) /\ Goes(u)
  <2> DEFINE cl == [Has(u) EXCEPT !.db = d, !.connDb = d]
  <2>1. cl \in CpClients
    BY <1>1 DEF ClientOk, CpClients
  <2>2. ClientOk(cl) /\ CmdsBy(cl, u)
    BY <1>1, <2>1 DEF ClientOk, CmdsBy, CpClients
  <2>3. cpClient' = [cpClient EXCEPT ![cpUser[u].client] = cl] /\ UNCHANGED <<cpUser, cpReply, cpPool, cpClosed>>
    BY <1>2 DEF Set, Goes, Select
  <2> HIDE DEF cl
  <2> QED BY <1>1, <2>2, <2>3, CommandKeepsInv
<1>3. CASE Set(u, Broken(u)) /\ Stops(u)
  <2>1. /\ cpClient' = [cpClient EXCEPT ![cpUser[u].client] = Broken(u)]
        /\ cpUser' = [cpUser EXCEPT ![u].at = "failed"] /\ UNCHANGED <<cpReply, cpPool, cpClosed>>
    BY <1>3 DEF Set, Stops, Select
  <2> QED BY <1>1, <2>1, BrokenOk, CommandKeepsInv
<1> QED BY <1>2, <1>3 DEF Select

LEMMA CpStepKeepsInv ==
    ASSUME CpInv, [CpNext]_cpVars
    PROVE  CpInv'
<1>1. CASE UNCHANGED cpVars
  BY <1>1 DEF cpVars, CpInv, CpTypes, CpPlaces, CpOwn, CpLeaks
<1>2. CASE CpNext
  BY <1>2, GetKeepsInv, NewKeepsInv, PutKeepsInv, SendKeepsInv, FlushKeepsInv, ReceiveKeepsInv, DoKeepsInv,
     SelectKeepsInv, CleanupKeepsInv, PoolCloseKeepsInv, AgeKeepsInv DEF CpNext
<1> QED BY <1>1, <1>2

LEMMA CpInvIsClean ==
    ASSUME CpInv
    PROVE  ClientsAreClean
<1>1. Pooled = Elements(cpPool) /\ DOMAIN cpPool = 1 .. Len(cpPool)
  BY PooledIs DEF CpInv
<1>2. CpTypeOK
  BY <1>1 DEF CpInv, CpTypes, CpPlaces, CpTypeOK, Distinct
<1>3. RepliesAreOwn /\ InTheirDb /\ NoneLeaks
  BY <1>1 DEF CpInv, CpTypes, ClientOk, CpOwn, CpLeaks, RepliesAreOwn, InTheirDb, NoneLeaks
<1> QED BY <1>2, <1>3 DEF ClientsAreClean

(* Clients are clean, for any number of goroutines, clients, databases and *)
(* commands: a client is in one place, a goroutine is given the replies to *)
(* its own commands, whatever others left unread, the database is the one  *)
(* that was selected, and no client is lost (client.go:102-256, 506-588).  *)
THEOREM ClientsTheorem == CpSpec => []ClientsAreClean
<1>1. CpInit => CpInv
  BY CpInitInv
<1>2. CpInv /\ [CpNext]_cpVars => CpInv'
  BY CpStepKeepsInv
<1>3. CpInv => ClientsAreClean
  BY CpInvIsClean
<1> QED BY <1>1, <1>2, <1>3, PTL DEF CpSpec

-----------------------------------------------------------------------------
(* BackendConn.                                                            *)

BcRequests == [at: {"new", "chosen", "pushed", "done", "seen"}, kind: {"none", "slot", "addr", "ping", "info"},
               conn: 0 .. MaxConns, ok: BOOLEAN]
BcRounds   == [q: Seq(Reqs), open: BOOLEAN, up: BOOLEAN]
BcPools    == [conn: 0 .. MaxConns, refcnt: 0 .. Cardinality(PoolSlots)]
BcSlots    == [hold: BOOLEAN, refs: SUBSET Reqs, conn: 0 .. MaxConns]

BcTypes ==
    /\ bcReq \in [Reqs -> BcRequests]
    /\ bcInput \in [Conns -> Seq(Reqs)]
    /\ bcReaders \in [Conns -> Seq(BcRounds)]
    /\ bcRun \in [Conns -> {"none", "dial", "loop", "drain", "delay", "exit"}]
    /\ bcFails \in [Conns -> 0 .. FreeRetries + 1]
    /\ bcState \in [Conns -> {"zero", "connected", "stale"}]
    /\ bcClosed \in [Conns -> BOOLEAN]
    /\ bcPool \in BcPools
    /\ bcSlot \in [PoolSlots -> BcSlots]
    /\ bcMu \in {{}} \cup {{s} : s \in PoolSlots}
    /\ bcFaults \in 0 .. MaxFaults /\ bcFills \in 0 .. MaxFills
    /\ bcPanic = FALSE

(* Where requests of a connection are: in its input (0) or with the reader *)
(* of a round.                                                             *)
Queue(c, x) == IF x = 0 THEN bcInput[c] ELSE bcReaders[c][x].q

(* Requests that wait are pushed and not answered, and each is in one      *)
(* place only.                                                             *)
BcPlaces ==
    \A c \in Conns : \A x \in 0 .. Round(c) :
        /\ Distinct(Queue(c, x))
        /\ \A r \in Elements(Queue(c, x)) : bcReq[r].at = "pushed" /\ bcReq[r].conn = c
        /\ \A y \in 0 .. Round(c) : x # y => Elements(Queue(c, x)) \cap Elements(Queue(c, y)) = {}

(* A request of a slot that is not answered holds a slot that holds the    *)
(* connection; one of Router.mu goes to the connection of the pool.        *)
BcHolds ==
    \A r \in Reqs :
        /\ bcReq[r].kind = "slot" => bcReq[r].at \in {"chosen", "pushed", "done"}
        /\ bcReq[r].kind = "slot" /\ bcReq[r].at # "done" =>
              \E s \in PoolSlots : r \in bcSlot[s].refs /\ bcSlot[s].conn = bcReq[r].conn
        /\ bcReq[r].at \in {"chosen", "pushed"} => bcReq[r].conn # 0 /\ bcReq[r].kind # "none"
        /\ bcReq[r].at = "done" => bcReq[r].conn # 0
        /\ bcReq[r].at = "chosen" /\ bcReq[r].kind # "slot" => bcReq[r].conn = bcPool.conn /\ bcMu = {}

Holders == {s \in PoolSlots : bcSlot[s].conn # 0}

(* The connection of the pool is that of every slot with a backend, and it *)
(* is counted once for each.                                               *)
BcCounts ==
    /\ bcPool.refcnt = Cardinality(Holders)
    /\ bcPool.conn = 0 <=> Holders = {}
    /\ \A s \in Holders : bcSlot[s].conn = bcPool.conn

(* A connection that runs.                                                 *)
BcRuns ==
    /\ bcPool.conn # 0 => ~ bcClosed[bcPool.conn] /\ bcRun[bcPool.conn] # "none"
    /\ \A c \in Conns : /\ bcRun[c] = "none" => ~ bcClosed[c]
                        /\ bcRun[c] = "loop" => Round(c) > 0
                        /\ bcState[c] # "zero" => bcRun[c] = "loop"

(* The inductive invariant of BackendConn.                                 *)
BcInv == BcTypes /\ BcPlaces /\ BcHolds /\ BcCounts /\ BcRuns

LEMMA EmptyIs == Distinct(<< >>) /\ Elements(<< >>) = {}
BY DEF Distinct, Elements

LEMMA TailIs ==
    ASSUME NEW T, NEW s \in Seq(T), Distinct(s), s # << >>
    PROVE  /\ Tail(s) \in Seq(T) /\ Distinct(Tail(s)) /\ Head(s) \in T
           /\ Head(s) \in Elements(s) /\ Elements(Tail(s)) = Elements(s) \ {Head(s)}
<1>1. Len(s) \in Nat /\ Len(s) >= 1 /\ Head(s) = s[1]
  OBVIOUS
<1>2. Tail(s) \in Seq(T) /\ Len(Tail(s)) = Len(s) - 1 /\ \A i \in 1 .. Len(s) - 1 : Tail(s)[i] = s[i + 1]
  BY <1>1
<1>3. 1 \in 1 .. Len(s) /\ \A i \in 1 .. Len(s) - 1 : i + 1 \in 1 .. Len(s) /\ i + 1 # 1
  BY <1>1
<1>4. Head(s) \in T /\ Head(s) \in Elements(s)
  BY <1>1, <1>3 DEF Elements
<1>5. Distinct(Tail(s))
  BY <1>1, <1>2, <1>3 DEF Distinct
<1>6. ASSUME NEW e \in Elements(Tail(s)) PROVE e \in Elements(s) \ {Head(s)}
  <2>1. PICK i \in 1 .. Len(s) - 1 : e = s[i + 1]
    BY <1>2 DEF Elements
  <2> QED BY <1>1, <1>3, <2>1 DEF Elements, Distinct
<1>7. ASSUME NEW e \in Elements(s) \ {Head(s)} PROVE e \in Elements(Tail(s))
  <2>1. PICK i \in 1 .. Len(s) : e = s[i] /\ i # 1
    BY <1>1 DEF Elements
  <2>2. i - 1 \in 1 .. Len(s) - 1 /\ (i - 1) + 1 = i
    BY <1>1, <2>1
  <2>3. Tail(s)[i - 1] = e
    BY <1>2, <2>1, <2>2
  <2> QED BY <1>2, <2>2, <2>3 DEF Elements
<1> QED BY <1>2, <1>4, <1>5, <1>6, <1>7

LEMMA BcConstants ==
    /\ MaxConns \in Nat /\ MaxConns >= 1 /\ IsFiniteSet(PoolSlots) /\ Cardinality(PoolSlots) \in Nat
    /\ Conns \subseteq 0 .. MaxConns /\ (\A c \in Conns : c # 0) /\ \A c \in 0 .. MaxConns : c # 0 => c \in Conns
<1>1. MaxConns \in Nat /\ MaxConns >= 1 /\ IsFiniteSet(PoolSlots)
  BY BackendConnAssumption
<1> QED BY <1>1, FS_CardinalityType DEF Conns

LEMMA RoundType ==
    ASSUME BcTypes, NEW c \in Conns
    PROVE  /\ Round(c) \in Nat /\ 0 \in 0 .. Round(c)
           /\ \A x \in 0 .. Round(c) : Queue(c, x) \in Seq(Reqs)
           /\ \A x \in 0 .. Round(c) : x # 0 => x \in 1 .. Round(c) /\ bcReaders[c][x] \in BcRounds
<1>1. bcReaders[c] \in Seq(BcRounds) /\ bcInput[c] \in Seq(Reqs)
  BY DEF BcTypes
<1>2. Round(c) \in Nat
  BY <1>1 DEF Round
<1>3. \A x \in 0 .. Round(c) : x # 0 => x \in 1 .. Round(c) /\ bcReaders[c][x] \in BcRounds
  BY <1>1, <1>2 DEF Round
<1>4. \A x \in 0 .. Round(c) : Queue(c, x) \in Seq(Reqs)
  BY <1>1, <1>3 DEF Queue, BcRounds
<1> QED BY <1>2, <1>3, <1>4

LEMMA BcInitInv ==
    ASSUME BcInit
    PROVE  BcInv
<1>1. 1 \in Conns /\ 1 \in 0 .. MaxConns /\ 0 \in 0 .. MaxConns /\ 0 \in 0 .. FreeRetries + 1 /\ 0 \in 0 .. MaxFaults /\ 0 \in 0 .. MaxFills
  BY BackendConnAssumption DEF Conns
<1>2. NoReq \in BcRequests /\ NoReq.at = "new" /\ NoReq.kind = "none"
  BY <1>1 DEF NoReq, BcRequests
<1>3. bcPool \in BcPools /\ bcPool.conn = 1 /\ bcPool.refcnt = Cardinality(PoolSlots)
  <2>1. Cardinality(PoolSlots) \in 0 .. Cardinality(PoolSlots)
    BY BcConstants
  <2> QED BY <1>1, <2>1 DEF BcInit, BcPools
<1>4. << >> \in Seq(Reqs) /\ << >> \in Seq(BcRounds)
  OBVIOUS
<1>5. bcSlot \in [PoolSlots -> BcSlots] /\ \A s \in PoolSlots : bcSlot[s].conn = 1
  BY <1>1 DEF BcInit, BcSlots
<1>6. BcTypes
  BY <1>1, <1>2, <1>3, <1>4, <1>5 DEF BcInit, BcTypes
<1>7. \A c \in Conns : Round(c) = 0
  BY DEF BcInit, Round
<1>8. \A c \in Conns : \A x \in 0 .. Round(c) : x = 0
  BY <1>7
<1>9. BcPlaces
  <2>1. \A c \in Conns : \A x \in 0 .. Round(c) : Queue(c, x) = << >>
    BY <1>8 DEF Queue, BcInit
  <2> QED BY <2>1, EmptyIs DEF BcPlaces
<1>10. BcHolds
  BY <1>2 DEF BcInit, BcHolds
<1>11. BcCounts
  <2>1. Holders = PoolSlots
    BY <1>5 DEF Holders
  <2> QED BY <1>3, <1>5, <2>1, BackendConnAssumption DEF BcCounts
<1>12. BcRuns
  BY <1>1, <1>3 DEF BcRuns, BcInit
<1> QED BY <1>6, <1>9, <1>10, <1>11, <1>12 DEF BcInv

-----------------------------------------------------------------------------
(* A request that waits is in one place, so that it is answered once.      *)
LEMMA Elsewhere ==
    ASSUME BcInv, NEW c \in Conns, NEW x \in 0 .. Round(c), NEW r \in Elements(Queue(c, x)),
           NEW d \in Conns, NEW y \in 0 .. Round(d), r \in Elements(Queue(d, y))
    PROVE  d = c /\ y = x
<1>1. bcReq[r].conn = c /\ bcReq[r].conn = d
  BY DEF BcInv, BcPlaces
<1> QED BY <1>1 DEF BcInv, BcPlaces

LEMMA WaitingIs ==
    ASSUME BcInv, NEW c \in Conns, NEW x \in 0 .. Round(c)
    PROVE  /\ Elements(Queue(c, x)) \in SUBSET Reqs /\ Distinct(Queue(c, x)) /\ Queue(c, x) \in Seq(Reqs)
           /\ \A r \in Elements(Queue(c, x)) : bcReq[r].at = "pushed" /\ bcReq[r].conn = c
<1>1. Queue(c, x) \in Seq(Reqs)
  BY RoundType DEF BcInv
<1>2. \A i \in 1 .. Len(Queue(c, x)) : Queue(c, x)[i] \in Reqs
  BY <1>1
<1> QED BY <1>1, <1>2 DEF BcInv, BcPlaces, Elements

Answered(R) == \E ok \in BOOLEAN : setResponse(R, ok)

(* What setResponse does to requests that wait.                            *)
LEMMA AnswerIs ==
    ASSUME BcInv, NEW R \in SUBSET Reqs, Answered(R), \A r \in R : bcReq[r].at = "pushed"
    PROVE  /\ bcReq' \in [Reqs -> BcRequests] /\ bcSlot' \in [PoolSlots -> BcSlots] /\ bcPanic' = FALSE
           /\ \A r \in Reqs : /\ bcReq'[r].kind = bcReq[r].kind /\ bcReq'[r].conn = bcReq[r].conn
                              /\ bcReq'[r].at = IF r \in R THEN "done" ELSE bcReq[r].at
           /\ \A s \in PoolSlots : bcSlot'[s].conn = bcSlot[s].conn /\ bcSlot'[s].refs = bcSlot[s].refs \ R
<1> PICK ok \in BOOLEAN : setResponse(R, ok)
  BY DEF Answered
<1>1. bcReq \in [Reqs -> BcRequests] /\ bcSlot \in [PoolSlots -> BcSlots] /\ bcPanic = FALSE
  BY DEF BcInv, BcTypes
<1>2. ASSUME NEW r \in Reqs
      PROVE  /\ bcReq'[r] \in BcRequests /\ bcReq'[r].kind = bcReq[r].kind /\ bcReq'[r].conn = bcReq[r].conn
             /\ bcReq'[r].at = IF r \in R THEN "done" ELSE bcReq[r].at
  <2> DEFINE new == [bcReq[r] EXCEPT !.at = "done", !.ok = ok]
  <2>1. bcReq[r] \in BcRequests
    BY <1>1
  <2>2. new \in BcRequests /\ new.kind = bcReq[r].kind /\ new.conn = bcReq[r].conn /\ new.at = "done"
    BY <2>1 DEF BcRequests
  <2>3. bcReq'[r] = IF r \in R THEN new ELSE bcReq[r]
    BY DEF setResponse
  <2> HIDE DEF new
  <2> QED BY <2>1, <2>2, <2>3
<1>3. ASSUME NEW s \in PoolSlots
      PROVE  bcSlot'[s] \in BcSlots /\ bcSlot'[s].conn = bcSlot[s].conn /\ bcSlot'[s].refs = bcSlot[s].refs \ R
  <2> DEFINE new == [bcSlot[s] EXCEPT !.refs = @ \ R]
  <2>1. bcSlot[s] \in BcSlots
    BY <1>1
  <2>2. new \in BcSlots /\ new.conn = bcSlot[s].conn /\ new.refs = bcSlot[s].refs \ R
    BY <2>1 DEF BcSlots
  <2>3. bcSlot'[s] = new
    BY DEF setResponse
  <2> HIDE DEF new
  <2> QED BY <2>2, <2>3
<1>4. DOMAIN bcReq' = Reqs /\ DOMAIN bcSlot' = PoolSlots /\ bcReq' = [r \in Reqs |-> bcReq'[r]] /\ bcSlot' = [s \in PoolSlots |-> bcSlot'[s]]
  BY DEF setResponse
<1>5. bcPanic' = FALSE
  BY <1>1 DEF setResponse
<1> QED BY <1>2, <1>3, <1>4, <1>5

(* Requests are answered and leave the place they waited in.               *)
Leaves(R) ==
    \A c \in Conns :
        /\ Round(c)' = Round(c)
        /\ \A x \in 0 .. Round(c) : Distinct(Queue(c, x)') /\ Elements(Queue(c, x)') \subseteq Elements(Queue(c, x)) \ R

LEMMA AnswerKeeps ==
    ASSUME BcInv, NEW R \in SUBSET Reqs, Answered(R), \A r \in R : bcReq[r].at = "pushed",
           Leaves(R), UNCHANGED <<bcPool, bcMu>>
    PROVE  /\ bcReq' \in [Reqs -> BcRequests] /\ bcSlot' \in [PoolSlots -> BcSlots] /\ bcPanic' = FALSE
           /\ BcPlaces' /\ BcHolds' /\ BcCounts'
<1>1. /\ bcReq' \in [Reqs -> BcRequests] /\ bcSlot' \in [PoolSlots -> BcSlots] /\ bcPanic' = FALSE
      /\ \A r \in Reqs : /\ bcReq'[r].kind = bcReq[r].kind /\ bcReq'[r].conn = bcReq[r].conn
                         /\ bcReq'[r].at = IF r \in R THEN "done" ELSE bcReq[r].at
      /\ \A s \in PoolSlots : bcSlot'[s].conn = bcSlot[s].conn /\ bcSlot'[s].refs = bcSlot[s].refs \ R
  BY AnswerIs
<1>2. BcPlaces'
  <2> SUFFICES ASSUME NEW c \in Conns, NEW x \in 0 .. Round(c)'
               PROVE  /\ Distinct(Queue(c, x)')
                      /\ \A r \in Elements(Queue(c, x)') : bcReq'[r].at = "pushed" /\ bcReq'[r].conn = c
                      /\ \A y \in 0 .. Round(c)' : x # y => Elements(Queue(c, x)') \cap Elements(Queue(c, y)') = {}
    BY DEF BcPlaces, Distinct, Elements
  <2>1. Round(c)' = Round(c) /\ x \in 0 .. Round(c)
    BY DEF Leaves
  <2>2. Distinct(Queue(c, x)') /\ \A y \in 0 .. Round(c) : Elements(Queue(c, y)') \subseteq Elements(Queue(c, y)) \ R
    BY <2>1 DEF Leaves
  <2>3. \A r \in Elements(Queue(c, x)) : r \in Reqs /\ bcReq[r].at = "pushed" /\ bcReq[r].conn = c
    BY <2>1, WaitingIs
  <2>4. \A y \in 0 .. Round(c) : x # y => Elements(Queue(c, x)) \cap Elements(Queue(c, y)) = {}
    BY <2>1 DEF BcInv, BcPlaces
  <2> QED BY <1>1, <2>1, <2>2, <2>3, <2>4
<1>3. BcHolds'
  BY <1>1 DEF BcInv, BcHolds
<1>4. BcCounts'
  <2>1. Holders' = Holders
    BY <1>1 DEF Holders
  <2> QED BY <1>1, <2>1 DEF BcInv, BcCounts, Holders
<1> QED BY <1>1, <1>2, <1>3, <1>4

(* The first of a queue is answered.                                       *)
Pops(c, x) ==
    \A d \in Conns :
        /\ Round(d)' = Round(d)
        /\ \A y \in 0 .. Round(d) : Queue(d, y)' = IF d = c /\ y = x THEN Tail(Queue(c, x)) ELSE Queue(d, y)

LEMMA PopKeeps ==
    ASSUME BcInv, NEW c \in Conns, NEW x \in 0 .. Round(c), Queue(c, x) # << >>, NEW r, r = Head(Queue(c, x)),
           Answered({r}), Pops(c, x), UNCHANGED <<bcPool, bcMu>>
    PROVE  /\ bcReq' \in [Reqs -> BcRequests] /\ bcSlot' \in [PoolSlots -> BcSlots] /\ bcPanic' = FALSE
           /\ BcPlaces' /\ BcHolds' /\ BcCounts'
<1>1. /\ r \in Elements(Queue(c, x)) /\ Distinct(Tail(Queue(c, x)))
      /\ Elements(Tail(Queue(c, x))) = Elements(Queue(c, x)) \ {r}
  BY WaitingIs, TailIs
<1>2. {r} \in SUBSET Reqs /\ bcReq[r].at = "pushed"
  BY <1>1, WaitingIs
<1>3. Leaves({r})
  <2> SUFFICES ASSUME NEW d \in Conns
               PROVE  /\ Round(d)' = Round(d)
                      /\ \A y \in 0 .. Round(d) : Distinct(Queue(d, y)') /\ Elements(Queue(d, y)') \subseteq Elements(Queue(d, y)) \ {r}
    BY DEF Leaves
  <2>1. ASSUME NEW y \in 0 .. Round(d)
        PROVE  Distinct(Queue(d, y)') /\ Elements(Queue(d, y)') \subseteq Elements(Queue(d, y)) \ {r}
    <3>1. CASE d = c /\ y = x
      BY <1>1, <3>1 DEF Pops
    <3>2. CASE ~ (d = c /\ y = x)
      <4>1. Queue(d, y)' = Queue(d, y)
        BY <3>2 DEF Pops
      <4>2. r \notin Elements(Queue(d, y))
        BY <1>1, <3>2, Elsewhere
      <4> QED BY <4>1, <4>2, WaitingIs
    <3> QED BY <3>1, <3>2
  <2> QED BY <2>1 DEF Pops
<1> QED BY <1>2, <1>3, AnswerKeeps

-----------------------------------------------------------------------------
(* Requests come.                                                          *)

LEMMA PoolIs ==
    ASSUME BcInv
    PROVE  /\ bcPool \in BcPools /\ bcPool.conn \in 0 .. MaxConns /\ (bcPool.conn # 0 => bcPool.conn \in Conns)
           /\ \A s \in PoolSlots : bcSlot[s] \in BcSlots /\ bcSlot[s].conn \in {0, bcPool.conn}
<1>1. bcPool \in BcPools /\ bcPool.conn \in 0 .. MaxConns /\ \A s \in PoolSlots : bcSlot[s] \in BcSlots
  BY DEF BcInv, BcTypes, BcPools
<1> QED BY <1>1, BcConstants DEF BcInv, BcCounts, Holders

(* The places after a step that leaves the rounds.                         *)
LEMMA PlacesAre ==
    ASSUME \A c \in Conns : Round(c)' = Round(c),
           \A c \in Conns : \A x \in 0 .. Round(c) :
               /\ Distinct(Queue(c, x)')
               /\ \A r \in Elements(Queue(c, x)') : bcReq'[r].at = "pushed" /\ bcReq'[r].conn = c
               /\ \A y \in 0 .. Round(c) : x # y => Elements(Queue(c, x)') \cap Elements(Queue(c, y)') = {}
    PROVE  BcPlaces'
<1> SUFFICES ASSUME NEW c \in Conns, NEW x \in 0 .. Round(c)'
             PROVE  /\ Distinct(Queue(c, x)')
                    /\ \A r \in Elements(Queue(c, x)') : bcReq'[r].at = "pushed" /\ bcReq'[r].conn = c
                    /\ \A y \in 0 .. Round(c)' : x # y => Elements(Queue(c, x)') \cap Elements(Queue(c, y)') = {}
  BY DEF BcPlaces, Distinct, Elements
<1>1. Round(c)' = Round(c) /\ x \in 0 .. Round(c)
  OBVIOUS
<1> QED BY <1>1

LEMMA ChooseIs ==
    ASSUME BcInv, NEW r \in Reqs, bcReq[r] = NoReq, NEW kind \in {"slot", "addr", "ping", "info"},
           NEW c \in Conns, Choose(r, kind, c), UNCHANGED <<bcInput, bcReaders>>
    PROVE  /\ bcReq' \in [Reqs -> BcRequests]
           /\ bcReq'[r].at = "chosen" /\ bcReq'[r].kind = kind /\ bcReq'[r].conn = c
           /\ \A q \in Reqs : q # r => bcReq'[q] = bcReq[q]
           /\ BcPlaces'
<1> DEFINE new == [NoReq EXCEPT !.at = "chosen", !.kind = kind, !.conn = c]
<1>1. BcTypes /\ BcPlaces /\ c \in 0 .. MaxConns
  BY BcConstants DEF BcInv
<1>2. new \in BcRequests /\ new.at = "chosen" /\ new.kind = kind /\ new.conn = c
  BY <1>1 DEF NoReq, BcRequests
<1>3. bcReq' = [bcReq EXCEPT ![r] = new]
  BY DEF Choose
<1> HIDE DEF new
<1>4. bcReq' \in [Reqs -> BcRequests] /\ bcReq'[r] = new /\ \A q \in Reqs : q # r => bcReq'[q] = bcReq[q]
  BY <1>1, <1>2, <1>3 DEF BcTypes
<1>5. BcPlaces'
  <2>1. \A d \in Conns : Round(d)' = Round(d) /\ \A x \in 0 .. Round(d) : Queue(d, x)' = Queue(d, x)
    BY DEF Round, Queue
  <2>2. \A d \in Conns : \A x \in 0 .. Round(d) : r \notin Elements(Queue(d, x)) /\ Elements(Queue(d, x)) \subseteq Reqs
    BY WaitingIs DEF NoReq
  <2>3. ASSUME NEW d \in Conns, NEW x \in 0 .. Round(d)
        PROVE  /\ Distinct(Queue(d, x)')
               /\ \A q \in Elements(Queue(d, x)') : bcReq'[q].at = "pushed" /\ bcReq'[q].conn = d
               /\ \A y \in 0 .. Round(d) : x # y => Elements(Queue(d, x)') \cap Elements(Queue(d, y)') = {}
    <3>1. \A y \in 0 .. Round(d) : Queue(d, y)' = Queue(d, y)
      BY <2>1
    <3>2. \A q \in Elements(Queue(d, x)) : bcReq'[q] = bcReq[q]
      BY <1>4, <2>2
    <3> QED BY <1>1, <3>1, <3>2 DEF BcPlaces
  <2>4. \A d \in Conns : Round(d)' = Round(d)
    BY <2>1
  <2> QED BY <2>3, <2>4, PlacesAre
<1> QED BY <1>2, <1>4, <1>5

LEMMA ForwardKeepsBc ==
    ASSUME BcInv, NEW r \in Reqs, NEW s \in PoolSlots, SlotForward(r, s)
    PROVE  BcInv'
<1> DEFINE c == bcSlot[s].conn
           new == [bcSlot[s] EXCEPT !.refs = @ \cup {r}]
<1>1. BcTypes /\ BcPlaces /\ BcHolds /\ BcCounts /\ BcRuns
  BY DEF BcInv
<1>2. bcSlot[s] \in BcSlots /\ c = bcPool.conn /\ c \in Conns
  BY PoolIs DEF SlotForward
<1>3. UNCHANGED <<bcInput, bcReaders, bcRun, bcFails, bcState, bcClosed, bcPool, bcMu, bcFills, bcFaults, bcPanic>>
  BY DEF SlotForward, bcConnVars
<1>4. /\ bcReq' \in [Reqs -> BcRequests]
      /\ bcReq'[r].at = "chosen" /\ bcReq'[r].kind = "slot" /\ bcReq'[r].conn = c
      /\ \A q \in Reqs : q # r => bcReq'[q] = bcReq[q]
      /\ BcPlaces'
  BY <1>2, <1>3, ChooseIs DEF SlotForward
<1>5. new \in BcSlots /\ new.conn = c /\ new.refs = bcSlot[s].refs \cup {r}
  BY <1>2 DEF BcSlots
<1>6. bcSlot' = [bcSlot EXCEPT ![s] = new]
  BY DEF SlotForward
<1> HIDE DEF new
<1>7. /\ bcSlot' \in [PoolSlots -> BcSlots] /\ r \in bcSlot'[s].refs
      /\ \A t \in PoolSlots : bcSlot'[t].conn = bcSlot[t].conn /\ bcSlot[t].refs \subseteq bcSlot'[t].refs
  BY <1>1, <1>5, <1>6 DEF BcTypes
<1> HIDE DEF c
<1>8. BcTypes'
  BY <1>1, <1>3, <1>4, <1>7 DEF BcTypes
<1>9. BcHolds'
  <2>1. c # 0
    BY <1>2, BcConstants
  <2> SUFFICES ASSUME NEW q \in Reqs
               PROVE /\ bcReq'[q].kind = "slot" => bcReq'[q].at \in {"chosen", "pushed", "done"}
                     /\ bcReq'[q].kind = "slot" /\ bcReq'[q].at # "done" =>
                          \E t \in PoolSlots : q \in bcSlot'[t].refs /\ bcSlot'[t].conn = bcReq'[q].conn
                     /\ bcReq'[q].at \in {"chosen", "pushed"} => bcReq'[q].conn # 0 /\ bcReq'[q].kind # "none"
                     /\ bcReq'[q].at = "done" => bcReq'[q].conn # 0
                     /\ bcReq'[q].at = "chosen" /\ bcReq'[q].kind # "slot" => bcReq'[q].conn = bcPool.conn /\ bcMu = {}
    BY <1>3 DEF BcHolds
  <2>2. CASE q = r
    BY <1>4, <1>7, <2>1, <2>2 DEF c
  <2>3. CASE q # r
    BY <1>1, <1>4, <1>7, <2>3 DEF BcHolds
  <2> QED BY <2>2, <2>3
<1>10. BcCounts' /\ BcRuns'
  <2>1. Holders' = Holders
    BY <1>7 DEF Holders
  <2> QED BY <1>1, <1>3, <1>7, <2>1 DEF BcCounts, BcRuns, Holders, Round
<1> QED BY <1>4, <1>8, <1>9, <1>10 DEF BcInv

LEMMA ProbeKeepsBc ==
    ASSUME BcInv, NEW r \in Probes, dispatchAddr(r) \/ KeepAlive(r)
    PROVE  BcInv'
<1> DEFINE c == bcPool.conn
<1>1. BcTypes /\ BcPlaces /\ BcHolds /\ BcCounts /\ BcRuns /\ r \in Reqs
  BY BackendConnAssumption DEF BcInv
<1>2. /\ c \in Conns /\ c # 0 /\ bcMu = {}
      /\ UNCHANGED <<bcInput, bcReaders, bcRun, bcFails, bcState, bcClosed, bcPool, bcSlot, bcMu, bcFills, bcFaults, bcPanic>>
  BY PoolIs DEF dispatchAddr, KeepAlive, bcConnVars
<1>3. PICK kind \in {"addr", "ping", "info"} : bcReq[r] = NoReq /\ Choose(r, kind, c)
  BY DEF dispatchAddr, KeepAlive
<1>4. /\ bcReq' \in [Reqs -> BcRequests]
      /\ bcReq'[r].at = "chosen" /\ bcReq'[r].kind = kind /\ bcReq'[r].conn = c
      /\ \A q \in Reqs : q # r => bcReq'[q] = bcReq[q]
      /\ BcPlaces'
  BY <1>1, <1>2, <1>3, ChooseIs
<1>5. BcTypes'
  BY <1>1, <1>2, <1>4 DEF BcTypes
<1>6. BcHolds'
  <2> SUFFICES ASSUME NEW q \in Reqs
               PROVE /\ bcReq'[q].kind = "slot" => bcReq'[q].at \in {"chosen", "pushed", "done"}
                     /\ bcReq'[q].kind = "slot" /\ bcReq'[q].at # "done" =>
                          \E t \in PoolSlots : q \in bcSlot[t].refs /\ bcSlot[t].conn = bcReq'[q].conn
                     /\ bcReq'[q].at \in {"chosen", "pushed"} => bcReq'[q].conn # 0 /\ bcReq'[q].kind # "none"
                     /\ bcReq'[q].at = "done" => bcReq'[q].conn # 0
                     /\ bcReq'[q].at = "chosen" /\ bcReq'[q].kind # "slot" => bcReq'[q].conn = bcPool.conn /\ bcMu = {}
    BY <1>2 DEF BcHolds
  <2>1. CASE q = r
    BY <1>2, <1>4, <2>1
  <2>2. CASE q # r
    BY <1>1, <1>4, <2>2 DEF BcHolds
  <2> QED BY <2>1, <2>2
<1>7. BcCounts' /\ BcRuns'
  BY <1>1, <1>2 DEF BcCounts, BcRuns, Holders, Round
<1> QED BY <1>4, <1>5, <1>6, <1>7 DEF BcInv

(* A connection that requests are on their way to is open.                 *)
LEMMA ChosenIsOpen ==
    ASSUME BcInv, NEW r \in Reqs, bcReq[r].at = "chosen"
    PROVE  bcReq[r].conn \in Conns /\ bcReq[r].conn = bcPool.conn /\ ~ bcClosed[bcReq[r].conn]
<1>1. bcReq[r].conn # 0 /\ bcReq[r].conn = bcPool.conn
  BY PoolIs DEF BcInv, BcHolds
<1> QED BY <1>1, PoolIs DEF BcInv, BcRuns

LEMMA PushKeepsBc ==
    ASSUME BcInv, NEW r \in Reqs, PushBack(r)
    PROVE  BcInv'
<1> DEFINE c == bcReq[r].conn
           new == [bcReq[r] EXCEPT !.at = "pushed"]
<1>1. BcTypes /\ BcPlaces /\ BcHolds /\ BcCounts /\ BcRuns
  BY DEF BcInv
<1>2. c \in Conns /\ ~ bcClosed[c] /\ bcReq[r] \in BcRequests /\ bcReq[r].at = "chosen"
  BY <1>1, ChosenIsOpen DEF PushBack, BcTypes
<1>3. /\ bcInput' = [bcInput EXCEPT ![c] = Append(bcInput[c], r)] /\ bcReq' = [bcReq EXCEPT ![r] = new]
      /\ UNCHANGED <<bcReaders, bcRun, bcFails, bcState, bcClosed, bcPool, bcSlot, bcMu, bcFills, bcFaults, bcPanic>>
  <2>1. bcInput \in [Conns -> Seq(Reqs)] /\ bcReq \in [Reqs -> BcRequests]
    BY <1>1 DEF BcTypes
  <2> QED BY <1>2, <2>1 DEF PushBack
<1>4. new \in BcRequests /\ new.at = "pushed" /\ new.kind = bcReq[r].kind /\ new.conn = c
  BY <1>2 DEF BcRequests
<1> HIDE DEF new
<1>5. bcReq' \in [Reqs -> BcRequests] /\ bcReq'[r] = new /\ \A q \in Reqs : q # r => bcReq'[q] = bcReq[q]
  BY <1>1, <1>3, <1>4 DEF BcTypes
<1>6. /\ \A d \in Conns : \A x \in 0 .. Round(d) : r \notin Elements(Queue(d, x)) /\ Elements(Queue(d, x)) \subseteq Reqs
      /\ 0 \in 0 .. Round(c) /\ Queue(c, 0) = bcInput[c]
  BY <1>1, <1>2, WaitingIs, RoundType DEF Queue
<1>7. Append(bcInput[c], r) \in Seq(Reqs) /\ Distinct(Append(bcInput[c], r)) /\ Elements(Append(bcInput[c], r)) = Elements(bcInput[c]) \cup {r}
  <2>1. bcInput[c] \in Seq(Reqs) /\ Distinct(bcInput[c]) /\ r \notin Elements(bcInput[c])
    BY <1>2, <1>6, WaitingIs
  <2> QED BY <2>1, AppendIs
<1> DEFINE app == Append(bcInput[c], r)
<1> HIDE DEF app
<1>8. bcInput' \in [Conns -> Seq(Reqs)] /\ \A d \in Conns : bcInput'[d] = IF d = c THEN app ELSE bcInput[d]
  BY <1>1, <1>2, <1>3, <1>7 DEF BcTypes, app
<1>9. \A d \in Conns : /\ Round(d)' = Round(d)
                       /\ \A x \in 0 .. Round(d) : Queue(d, x)' = IF d = c /\ x = 0 THEN app ELSE Queue(d, x)
  BY <1>3, <1>8 DEF Round, Queue
<1> HIDE DEF c
<1>10. BcPlaces'
  <2> SUFFICES ASSUME NEW d \in Conns, NEW x \in 0 .. Round(d)
               PROVE  /\ Distinct(Queue(d, x)')
                      /\ \A q \in Elements(Queue(d, x)') : bcReq'[q].at = "pushed" /\ bcReq'[q].conn = d
                      /\ \A y \in 0 .. Round(d) : x # y => Elements(Queue(d, x)') \cap Elements(Queue(d, y)') = {}
    <3>1. \A d \in Conns : Round(d)' = Round(d)
      BY <1>9
    <3> QED BY <3>1, PlacesAre
  <2>1. \A y \in 0 .. Round(d) : Elements(Queue(d, y)') = IF d = c /\ y = 0 THEN Elements(Queue(d, y)) \cup {r} ELSE Elements(Queue(d, y))
    BY <1>6, <1>7, <1>9 DEF app
  <2>2. Distinct(Queue(d, x)')
    BY <1>7, <1>9, WaitingIs DEF app
  <2>3. /\ \A q \in Elements(Queue(d, x)) : q # r /\ q \in Reqs /\ bcReq[q].at = "pushed" /\ bcReq[q].conn = d
        /\ \A y \in 0 .. Round(d) : r \notin Elements(Queue(d, y))
    BY <1>6, WaitingIs
  <2>4. \A y \in 0 .. Round(d) : x # y => Elements(Queue(d, x)) \cap Elements(Queue(d, y)) = {}
    BY <1>1 DEF BcPlaces
  <2>5. \A q \in Elements(Queue(d, x)') : bcReq'[q].at = "pushed" /\ bcReq'[q].conn = d
    BY <1>4, <1>5, <2>1, <2>3
  <2>6. ASSUME NEW y \in 0 .. Round(d), x # y PROVE Elements(Queue(d, x)') \cap Elements(Queue(d, y)') = {}
    BY <2>1, <2>3, <2>4, <2>6
  <2> QED BY <2>2, <2>5, <2>6
<1>11. BcTypes'
  BY <1>1, <1>3, <1>5, <1>8 DEF BcTypes
<1>12. BcHolds'
  BY <1>1, <1>2, <1>3, <1>4, <1>5 DEF BcHolds, c
<1>13. BcCounts' /\ BcRuns'
  BY <1>1, <1>3 DEF BcCounts, BcRuns, Holders, Round
<1> QED BY <1>10, <1>11, <1>12, <1>13 DEF BcInv

-----------------------------------------------------------------------------
(* run and loopWriter.                                                     *)

(* The reader of a round becomes new.                                      *)
Renews(c, i, new) == bcReaders' = [bcReaders EXCEPT ![c] = [bcReaders[c] EXCEPT ![i] = new]]

LEMMA RoundsAre ==
    ASSUME BcTypes, NEW c \in Conns, NEW i \in 1 .. Round(c), NEW new \in BcRounds, Renews(c, i, new)
    PROVE  /\ bcReaders' \in [Conns -> Seq(BcRounds)]
           /\ \A d \in Conns : Round(d)' = Round(d)
           /\ \A d \in Conns : \A y \in 1 .. Round(d) : bcReaders'[d][y] = IF d = c /\ y = i THEN new ELSE bcReaders[d][y]
<1> DEFINE rs == [bcReaders[c] EXCEPT ![i] = new]
<1>1. bcReaders[c] \in Seq(BcRounds) /\ DOMAIN bcReaders[c] = 1 .. Round(c) /\ Round(c) \in Nat
  BY DEF BcTypes, Round
<1>2. rs \in Seq(BcRounds) /\ Len(rs) = Round(c) /\ \A y \in 1 .. Round(c) : rs[y] = IF y = i THEN new ELSE bcReaders[c][y]
  BY <1>1 DEF Round
<1> HIDE DEF rs
<1>3. bcReaders' \in [Conns -> Seq(BcRounds)] /\ \A d \in Conns : bcReaders'[d] = IF d = c THEN rs ELSE bcReaders[d]
  BY <1>2 DEF BcTypes, Renews, rs
<1> QED BY <1>2, <1>3 DEF Round

LEMMA ConnectKeepsBc ==
    ASSUME BcInv, NEW c \in Conns, Connect(c)
    PROVE  BcInv'
<1> DEFINE new == [q |-> << >>, open |-> TRUE, up |-> TRUE]
           rs  == Append(bcReaders[c], new)
<1>1. BcTypes /\ BcPlaces /\ BcHolds /\ BcCounts /\ BcRuns
  BY DEF BcInv
<1>2. new \in BcRounds /\ new.q = << >>
  BY DEF BcRounds
<1>3. /\ bcRun[c] = "dial" /\ bcRun' = [bcRun EXCEPT ![c] = "loop"]
      /\ bcReaders' = [bcReaders EXCEPT ![c] = rs]
      /\ bcState' = [bcState EXCEPT ![c] = "connected"] /\ bcFails' = [bcFails EXCEPT ![c] = 0]
      /\ UNCHANGED <<bcReq, bcInput, bcClosed, bcPool, bcSlot, bcMu, bcFills, bcFaults, bcPanic>>
  BY <1>1 DEF Connect, BcTypes
<1> HIDE DEF new
<1>4. PICK n \in Nat : n = Round(c)
  BY <1>1, RoundType
<1>5. /\ rs \in Seq(BcRounds) /\ Len(rs) = n + 1 /\ rs[n + 1] = new
      /\ \A y \in 1 .. n : rs[y] = bcReaders[c][y]
  <2>1. bcReaders[c] \in Seq(BcRounds) /\ Len(bcReaders[c]) = n
    BY <1>1, <1>4 DEF BcTypes, Round
  <2> QED BY <1>2, <2>1
<1> HIDE DEF rs
<1>6. bcReaders' \in [Conns -> Seq(BcRounds)] /\ \A d \in Conns : bcReaders'[d] = IF d = c THEN rs ELSE bcReaders[d]
  BY <1>1, <1>3, <1>5 DEF BcTypes
<1>7. \A d \in Conns : Round(d)' = IF d = c THEN n + 1 ELSE Round(d)
  BY <1>5, <1>6 DEF Round
<1>8. \A d \in Conns : \A x \in 0 .. Round(d)' :
         IF d = c /\ x = n + 1 THEN Queue(d, x)' = << >> ELSE x \in 0 .. Round(d) /\ Queue(d, x)' = Queue(d, x)
  <2> SUFFICES ASSUME NEW d \in Conns, NEW x \in 0 .. Round(d)'
               PROVE  IF d = c /\ x = n + 1 THEN Queue(d, x)' = << >> ELSE x \in 0 .. Round(d) /\ Queue(d, x)' = Queue(d, x)
    OBVIOUS
  <2>1. CASE d = c /\ x = n + 1
    BY <1>2, <1>5, <1>6, <2>1 DEF Queue
  <2>2. CASE ~ (d = c /\ x = n + 1)
    <3>1. x \in 0 .. Round(d)
      BY <1>4, <1>7, <2>2
    <3>2. x # 0 => bcReaders'[d][x] = bcReaders[d][x]
      BY <1>1, <1>4, <1>5, <1>6, <3>1, RoundType
    <3> QED BY <1>3, <2>2, <3>1, <3>2 DEF Queue
  <2> QED BY <2>1, <2>2
<1>9. BcPlaces'
  <2> SUFFICES ASSUME NEW d \in Conns, NEW x \in 0 .. Round(d)'
               PROVE  /\ Distinct(Queue(d, x)')
                      /\ \A r \in Elements(Queue(d, x)') : bcReq'[r].at = "pushed" /\ bcReq'[r].conn = d
                      /\ \A y \in 0 .. Round(d)' : x # y => Elements(Queue(d, x)') \cap Elements(Queue(d, y)') = {}
    BY DEF BcPlaces, Distinct, Elements
  <2>1. CASE d = c /\ x = n + 1
    BY <1>8, <2>1, EmptyIs
  <2>2. CASE ~ (d = c /\ x = n + 1)
    <3>1. x \in 0 .. Round(d) /\ Queue(d, x)' = Queue(d, x)
      BY <1>8, <2>2
    <3>2. /\ Distinct(Queue(d, x)) /\ \A r \in Elements(Queue(d, x)) : bcReq[r].at = "pushed" /\ bcReq[r].conn = d
          /\ \A y \in 0 .. Round(d) : x # y => Elements(Queue(d, x)) \cap Elements(Queue(d, y)) = {}
      BY <1>1, <3>1 DEF BcPlaces
    <3>3. ASSUME NEW y \in 0 .. Round(d)', x # y PROVE Elements(Queue(d, x)') \cap Elements(Queue(d, y)') = {}
      <4>1. Elements(Queue(d, y)') = {} \/ (y \in 0 .. Round(d) /\ Queue(d, y)' = Queue(d, y))
        BY <1>8, EmptyIs
      <4> QED BY <3>1, <3>2, <3>3, <4>1
    <3> QED BY <1>3, <3>1, <3>2, <3>3
  <2> QED BY <2>1, <2>2
<1>10. BcTypes'
  <2>1. 0 \in 0 .. FreeRetries + 1
    BY BackendConnAssumption
  <2> QED BY <1>1, <1>3, <1>6, <2>1 DEF BcTypes
<1>11. BcHolds' /\ BcCounts'
  BY <1>1, <1>3 DEF BcHolds, BcCounts, Holders
<1>12. BcRuns'
  <2>1. n + 1 > 0
    OBVIOUS
  <2>2. \A d \in Conns : /\ bcRun'[d] = IF d = c THEN "loop" ELSE bcRun[d]
                         /\ bcState'[d] = IF d = c THEN "connected" ELSE bcState[d]
    BY <1>1, <1>3 DEF BcTypes
  <2> QED BY <1>1, <1>3, <1>7, <2>1, <2>2, PoolIs DEF BcRuns
<1> QED BY <1>9, <1>10, <1>11, <1>12 DEF BcInv

(* Steps that leave the requests where they are.                           *)
LEMMA PlacesStay ==
    ASSUME BcInv, bcInput' = bcInput, \A d \in Conns : Round(d)' = Round(d),
           \A d \in Conns : \A y \in 1 .. Round(d) : bcReaders'[d][y].q = bcReaders[d][y].q,
           \A r \in Reqs : bcReq[r].at = "pushed" => bcReq'[r] = bcReq[r]
    PROVE  BcPlaces'
<1> SUFFICES ASSUME NEW d \in Conns, NEW x \in 0 .. Round(d)
             PROVE  /\ Distinct(Queue(d, x)')
                    /\ \A q \in Elements(Queue(d, x)') : bcReq'[q].at = "pushed" /\ bcReq'[q].conn = d
                    /\ \A y \in 0 .. Round(d) : x # y => Elements(Queue(d, x)') \cap Elements(Queue(d, y)') = {}
  BY PlacesAre
<1>1. ASSUME NEW y \in 0 .. Round(d) PROVE Queue(d, y)' = Queue(d, y)
  <2>1. CASE y = 0
    BY <2>1 DEF Queue
  <2>2. CASE y # 0
    <3>1. y \in 1 .. Round(d)
      BY <2>2, RoundType DEF BcInv
    <3> QED BY <2>2, <3>1 DEF Queue
  <2> QED BY <2>1, <2>2
<1>2. \A q \in Elements(Queue(d, x)) : bcReq'[q] = bcReq[q] /\ bcReq[q].at = "pushed" /\ bcReq[q].conn = d
  BY WaitingIs
<1>3. Distinct(Queue(d, x)) /\ \A y \in 0 .. Round(d) : x # y => Elements(Queue(d, x)) \cap Elements(Queue(d, y)) = {}
  BY DEF BcInv, BcPlaces
<1> QED BY <1>1, <1>2, <1>3

LEMMA QuietKeepsBc ==
    ASSUME BcInv, NEW c \in Conns, ConnectFails(c) \/ DelayEnds(c)
    PROVE  BcInv'
<1>1. BcTypes /\ BcPlaces /\ BcHolds /\ BcCounts /\ BcRuns
  BY DEF BcInv
<1>2. /\ UNCHANGED <<bcReq, bcInput, bcReaders, bcFails, bcState, bcClosed, bcPool, bcSlot, bcMu, bcFills, bcPanic>>
      /\ bcFaults' \in 0 .. MaxFaults
  <2>1. bcFaults < MaxFaults => bcFaults + 1 \in 0 .. MaxFaults
    BY <1>1, BackendConnAssumption DEF BcTypes
  <2> QED BY <1>1, <2>1 DEF ConnectFails, DelayEnds, CanFault, BcTypes
<1>3. bcRun[c] \in {"dial", "delay"} /\ \E n \in {"dial", "drain", "exit"} : bcRun' = [bcRun EXCEPT ![c] = n]
  BY DEF ConnectFails, DelayEnds
<1>4. BcTypes'
  BY <1>1, <1>2, <1>3 DEF BcTypes
<1>5. BcPlaces'
  BY <1>2, PlacesStay DEF Round
<1>6. BcHolds' /\ BcCounts'
  BY <1>1, <1>2 DEF BcHolds, BcCounts, Holders
<1>7. BcRuns'
  <2>1. \A d \in Conns : bcRun'[d] = bcRun[d] \/ (bcRun[d] \in {"dial", "delay"} /\ bcRun'[d] \in {"dial", "drain", "exit"})
    BY <1>1, <1>3 DEF BcTypes
  <2> QED BY <1>1, <1>2, <2>1, PoolIs DEF BcRuns, Round
<1> QED BY <1>4, <1>5, <1>6, <1>7 DEF BcInv

(* The first of the input is taken.                                        *)
LEMMA InputPops ==
    ASSUME BcInv, NEW c \in Conns, bcInput[c] # << >>, bcInput' = [bcInput EXCEPT ![c] = Tail(bcInput[c])],
           \A d \in Conns : Round(d)' = Round(d),
           \A d \in Conns : \A y \in 1 .. Round(d) : bcReaders'[d][y].q = bcReaders[d][y].q
    PROVE  /\ Pops(c, 0) /\ bcInput' \in [Conns -> Seq(Reqs)]
           /\ Queue(c, 0) = bcInput[c] /\ 0 \in 0 .. Round(c) /\ Head(bcInput[c]) \in Reqs
<1>1. bcInput \in [Conns -> Seq(Reqs)] /\ bcInput[c] \in Seq(Reqs) /\ BcTypes
  BY DEF BcInv, BcTypes
<1>2. Tail(bcInput[c]) \in Seq(Reqs) /\ Head(bcInput[c]) \in Reqs
  BY <1>1
<1>3. bcInput' \in [Conns -> Seq(Reqs)] /\ \A d \in Conns : bcInput'[d] = IF d = c THEN Tail(bcInput[c]) ELSE bcInput[d]
  BY <1>1, <1>2
<1>4. Queue(c, 0) = bcInput[c]
  BY DEF Queue
<1>5. ASSUME NEW d \in Conns, NEW y \in 0 .. Round(d)
      PROVE  Queue(d, y)' = IF d = c /\ y = 0 THEN Tail(Queue(c, 0)) ELSE Queue(d, y)
  <2>1. CASE y = 0
    BY <1>3, <1>4, <2>1 DEF Queue
  <2>2. CASE y # 0
    <3>1. y \in 1 .. Round(d)
      BY <1>1, <2>2, RoundType
    <3> QED BY <2>2, <3>1 DEF Queue
  <2> QED BY <2>1, <2>2
<1> QED BY <1>1, <1>2, <1>3, <1>4, <1>5, RoundType DEF Pops

LEMMA OneAnswered ==
    ASSUME NEW r, setResponse({r}, TRUE) \/ setResponse({r}, FALSE)
    PROVE  Answered({r})
<1>1. TRUE \in BOOLEAN /\ FALSE \in BOOLEAN
  OBVIOUS
<1> QED BY <1>1 DEF Answered

(* loopWriter and delayBeforeRetry answer what they do not send.           *)
LEMMA TurnDownKeepsBc ==
    ASSUME BcInv, NEW c \in Conns, bcInput[c] # << >>, bcInput' = [bcInput EXCEPT ![c] = Tail(bcInput[c])],
           setResponse({Head(bcInput[c])}, FALSE),
           UNCHANGED <<bcReaders, bcRun, bcFails, bcState, bcClosed, bcPool, bcMu, bcFills, bcFaults>>
    PROVE  BcInv'
<1>1. BcTypes /\ BcPlaces /\ BcHolds /\ BcCounts /\ BcRuns
  BY DEF BcInv
<1>2. \A d \in Conns : Round(d)' = Round(d)
  BY DEF Round
<1>3. /\ Pops(c, 0) /\ bcInput' \in [Conns -> Seq(Reqs)]
      /\ Queue(c, 0) = bcInput[c] /\ 0 \in 0 .. Round(c) /\ Head(bcInput[c]) \in Reqs
  BY <1>2, InputPops
<1>4. PICK r : r = Head(bcInput[c])
  OBVIOUS
<1>5. Answered({r})
  BY <1>4, OneAnswered
<1>6. /\ bcReq' \in [Reqs -> BcRequests] /\ bcSlot' \in [PoolSlots -> BcSlots] /\ bcPanic' = FALSE
      /\ BcPlaces' /\ BcHolds' /\ BcCounts'
  BY <1>3, <1>4, <1>5, PopKeeps
<1>7. BcTypes'
  BY <1>1, <1>3, <1>6 DEF BcTypes
<1>8. BcRuns'
  BY <1>1, <1>2 DEF BcRuns
<1> QED BY <1>6, <1>7, <1>8 DEF BcInv

(* loopWriter returns.                                                     *)
LEMMA LeaveIs ==
    ASSUME BcInv, NEW c \in Conns, bcRun[c] = "loop", NEW next \in {"drain", "exit"}, LeaveLoop(c, next),
           UNCHANGED <<bcPool, bcClosed>>
    PROVE  /\ bcReaders' \in [Conns -> Seq(BcRounds)] /\ \A d \in Conns : Round(d)' = Round(d)
           /\ \A d \in Conns : \A y \in 1 .. Round(d) : bcReaders'[d][y].q = bcReaders[d][y].q
           /\ bcRun' \in [Conns -> {"none", "dial", "loop", "drain", "delay", "exit"}]
           /\ bcState' \in [Conns -> {"zero", "connected", "stale"}]
           /\ BcRuns'
<1>1. BcTypes /\ BcRuns
  BY DEF BcInv
<1>2. PICK n : n = Round(c)
  OBVIOUS
<1>3. n \in 1 .. Round(c) /\ bcReaders[c][n] \in BcRounds
  <2>1. n \in Nat /\ n > 0
    BY <1>1, <1>2, RoundType DEF BcRuns
  <2>2. n \in 0 .. Round(c) /\ n # 0
    BY <1>2, <2>1
  <2> QED BY <1>1, <2>2, RoundType
<1> DEFINE new == [bcReaders[c][n] EXCEPT !.open = FALSE]
<1>4. new \in BcRounds /\ new.q = bcReaders[c][n].q
  BY <1>3 DEF BcRounds
<1>5. /\ Renews(c, n, new)
      /\ bcRun' = [bcRun EXCEPT ![c] = next] /\ bcState' = [bcState EXCEPT ![c] = "zero"]
  BY <1>2 DEF LeaveLoop, Renews
<1> HIDE DEF new
<1>6. /\ bcReaders' \in [Conns -> Seq(BcRounds)]
      /\ \A d \in Conns : Round(d)' = Round(d)
      /\ \A d \in Conns : \A y \in 1 .. Round(d) : bcReaders'[d][y] = IF d = c /\ y = n THEN new ELSE bcReaders[d][y]
  BY <1>1, <1>3, <1>4, <1>5, RoundsAre
<1>7. /\ bcRun' \in [Conns -> {"none", "dial", "loop", "drain", "delay", "exit"}]
      /\ bcState' \in [Conns -> {"zero", "connected", "stale"}]
      /\ \A d \in Conns : /\ bcRun'[d] = IF d = c THEN next ELSE bcRun[d]
                          /\ bcState'[d] = IF d = c THEN "zero" ELSE bcState[d]
  BY <1>1, <1>5 DEF BcTypes
<1>8. BcRuns'
  BY <1>1, <1>6, <1>7, PoolIs DEF BcRuns
<1> QED BY <1>4, <1>6, <1>7, <1>8

LEMMA FaultIs ==
    ASSUME BcInv, bcFaults' = bcFaults \/ (CanFault /\ bcFaults' = bcFaults + 1)
    PROVE  bcFaults' \in 0 .. MaxFaults
<1>1. bcFaults \in 0 .. MaxFaults /\ MaxFaults \in Nat
  BY BackendConnAssumption DEF BcInv, BcTypes
<1> QED BY <1>1 DEF CanFault

LEMMA WriteFailsKeepsBc ==
    ASSUME BcInv, NEW c \in Conns, WriteFails(c)
    PROVE  BcInv'
<1>1. BcTypes /\ BcPlaces /\ BcHolds /\ BcCounts /\ BcRuns
  BY DEF BcInv
<1>2. /\ bcRun[c] = "loop" /\ bcInput[c] # << >> /\ LeaveLoop(c, "drain")
      /\ bcInput' = [bcInput EXCEPT ![c] = Tail(bcInput[c])]
      /\ setResponse({Head(bcInput[c])}, FALSE)
      /\ UNCHANGED <<bcFails, bcClosed, bcPool, bcMu, bcFills>>
  BY <1>1 DEF WriteFails, BcTypes
<1>3. bcFaults' \in 0 .. MaxFaults
  BY FaultIs DEF WriteFails
<1>4. /\ bcReaders' \in [Conns -> Seq(BcRounds)] /\ \A d \in Conns : Round(d)' = Round(d)
      /\ \A d \in Conns : \A y \in 1 .. Round(d) : bcReaders'[d][y].q = bcReaders[d][y].q
      /\ bcRun' \in [Conns -> {"none", "dial", "loop", "drain", "delay", "exit"}]
      /\ bcState' \in [Conns -> {"zero", "connected", "stale"}]
      /\ BcRuns'
  BY <1>2, LeaveIs
<1>5. /\ Pops(c, 0) /\ bcInput' \in [Conns -> Seq(Reqs)]
      /\ Queue(c, 0) = bcInput[c] /\ 0 \in 0 .. Round(c) /\ Head(bcInput[c]) \in Reqs
  BY <1>2, <1>4, InputPops
<1>6. PICK r : r = Head(bcInput[c])
  OBVIOUS
<1>7. Answered({r})
  BY <1>2, <1>6, OneAnswered
<1>8. /\ bcReq' \in [Reqs -> BcRequests] /\ bcSlot' \in [PoolSlots -> BcSlots] /\ bcPanic' = FALSE
      /\ BcPlaces' /\ BcHolds' /\ BcCounts'
  BY <1>2, <1>5, <1>6, <1>7, PopKeeps
<1>9. BcTypes'
  BY <1>1, <1>2, <1>3, <1>4, <1>5, <1>8 DEF BcTypes
<1> QED BY <1>4, <1>8, <1>9 DEF BcInv

LEMMA WriterEndsKeepsBc ==
    ASSUME BcInv, NEW c \in Conns, WriterEnds(c)
    PROVE  BcInv'
<1>1. BcTypes /\ BcPlaces /\ BcHolds /\ BcCounts /\ BcRuns
  BY DEF BcInv
<1>2. /\ bcRun[c] = "loop" /\ LeaveLoop(c, "exit")
      /\ UNCHANGED <<bcReq, bcInput, bcFails, bcClosed, bcPool, bcSlot, bcMu, bcFills, bcFaults, bcPanic>>
  BY DEF WriterEnds
<1>3. /\ bcReaders' \in [Conns -> Seq(BcRounds)] /\ \A d \in Conns : Round(d)' = Round(d)
      /\ \A d \in Conns : \A y \in 1 .. Round(d) : bcReaders'[d][y].q = bcReaders[d][y].q
      /\ bcRun' \in [Conns -> {"none", "dial", "loop", "drain", "delay", "exit"}]
      /\ bcState' \in [Conns -> {"zero", "connected", "stale"}]
      /\ BcRuns'
  BY <1>2, LeaveIs
<1>4. BcPlaces'
  BY <1>2, <1>3, PlacesStay
<1>5. BcTypes'
  BY <1>1, <1>2, <1>3 DEF BcTypes
<1>6. BcHolds' /\ BcCounts'
  BY <1>1, <1>2 DEF BcHolds, BcCounts, Holders
<1> QED BY <1>3, <1>4, <1>5, <1>6 DEF BcInv

(* A request goes from the input to the reader of the round.               *)
Sends(c) == bcReaders' = [bcReaders EXCEPT ![c][Round(c)].q = Append(@, Head(bcInput[c]))]

LEMMA SendKeepsBc ==
    ASSUME BcInv, NEW c \in Conns, bcRun[c] = "loop", bcInput[c] # << >>,
           Sends(c), bcInput' = [bcInput EXCEPT ![c] = Tail(bcInput[c])],
           UNCHANGED <<bcReq, bcRun, bcFails, bcState, bcClosed, bcPool, bcSlot, bcMu, bcFills, bcFaults, bcPanic>>
    PROVE  BcInv'
<1>1. BcTypes /\ BcPlaces /\ BcHolds /\ BcCounts /\ BcRuns
  BY DEF BcInv
<1>2. PICK n : n = Round(c)
  OBVIOUS
<1>3. n \in 1 .. Round(c) /\ n \in 0 .. Round(c) /\ n # 0 /\ bcReaders[c][n] \in BcRounds
  <2>1. n \in Nat /\ n > 0
    BY <1>1, <1>2, RoundType DEF BcRuns
  <2>2. n \in 0 .. Round(c) /\ n # 0
    BY <1>2, <2>1
  <2> QED BY <1>1, <2>2, RoundType
<1>4. PICK r : r = Head(bcInput[c])
  OBVIOUS
<1> DEFINE old == bcReaders[c][n].q
           app == Append(old, r)
           new == [bcReaders[c][n] EXCEPT !.q = app]
           inp == Tail(bcInput[c])
<1>5. Queue(c, 0) = bcInput[c] /\ Queue(c, n) = old /\ 0 \in 0 .. Round(c)
  BY <1>1, <1>3, RoundType DEF Queue
<1>6. /\ inp \in Seq(Reqs) /\ Distinct(inp) /\ r \in Reqs /\ r \in Elements(bcInput[c])
      /\ Elements(inp) = Elements(bcInput[c]) \ {r}
  <2>1. bcInput[c] \in Seq(Reqs) /\ Distinct(bcInput[c])
    BY <1>5, WaitingIs
  <2> QED BY <1>4, <2>1, TailIs
<1>7. \A d \in Conns : \A y \in 0 .. Round(d) : r \in Elements(Queue(d, y)) => d = c /\ y = 0
  BY <1>5, <1>6, Elsewhere
<1>8. app \in Seq(Reqs) /\ Distinct(app) /\ Elements(app) = Elements(old) \cup {r}
  <2>1. old \in Seq(Reqs) /\ Distinct(old) /\ r \notin Elements(old)
    BY <1>3, <1>5, <1>7, WaitingIs
  <2> QED BY <1>6, <2>1, AppendIs
<1> HIDE DEF app
<1>9. new \in BcRounds /\ new.q = app
  BY <1>3, <1>8 DEF BcRounds
<1>10. Renews(c, n, new)
  BY <1>2, <1>4 DEF app, Renews, Sends
<1> HIDE DEF new, inp, old
<1>11. /\ bcReaders' \in [Conns -> Seq(BcRounds)]
       /\ \A d \in Conns : Round(d)' = Round(d)
       /\ \A d \in Conns : \A y \in 1 .. Round(d) : bcReaders'[d][y] = IF d = c /\ y = n THEN new ELSE bcReaders[d][y]
  BY <1>1, <1>3, <1>9, <1>10, RoundsAre
<1>12. bcInput' \in [Conns -> Seq(Reqs)] /\ \A d \in Conns : bcInput'[d] = IF d = c THEN inp ELSE bcInput[d]
  BY <1>1, <1>6 DEF BcTypes, inp
<1>13. ASSUME NEW d \in Conns, NEW y \in 0 .. Round(d)
       PROVE  Queue(d, y)' = IF d = c /\ y = 0 THEN inp ELSE IF d = c /\ y = n THEN app ELSE Queue(d, y)
  <2>1. CASE y = 0
    BY <1>3, <1>12, <2>1 DEF Queue
  <2>2. CASE y # 0
    <3>1. y \in 1 .. Round(d)
      BY <1>1, <2>2, RoundType
    <3>2. Queue(d, y)' = bcReaders'[d][y].q /\ Queue(d, y) = bcReaders[d][y].q
      BY <2>2 DEF Queue
    <3>3. bcReaders'[d][y] = IF d = c /\ y = n THEN new ELSE bcReaders[d][y]
      BY <1>11, <3>1
    <3> QED BY <1>9, <2>2, <3>2, <3>3
  <2> QED BY <2>1, <2>2
<1>14. BcPlaces'
  <2> SUFFICES ASSUME NEW d \in Conns, NEW x \in 0 .. Round(d)
               PROVE  /\ Distinct(Queue(d, x)')
                      /\ \A q \in Elements(Queue(d, x)') : bcReq'[q].at = "pushed" /\ bcReq'[q].conn = d
                      /\ \A y \in 0 .. Round(d) : x # y => Elements(Queue(d, x)') \cap Elements(Queue(d, y)') = {}
    BY <1>11, PlacesAre
  <2>1. \A y \in 0 .. Round(d) :
           Elements(Queue(d, y)') = IF d = c /\ y = 0 THEN Elements(Queue(d, y)) \ {r}
                                    ELSE IF d = c /\ y = n THEN Elements(Queue(d, y)) \cup {r} ELSE Elements(Queue(d, y))
    BY <1>5, <1>6, <1>8, <1>13
  <2>2. Distinct(Queue(d, x)')
    BY <1>6, <1>8, <1>13, WaitingIs
  <2>3. \A q \in Elements(Queue(d, x)) : bcReq[q].at = "pushed" /\ bcReq[q].conn = d
    BY WaitingIs
  <2>4. bcReq[r].at = "pushed" /\ bcReq[r].conn = c
    BY <1>5, <1>6, WaitingIs
  <2>5. \A y \in 0 .. Round(d) : x # y => Elements(Queue(d, x)) \cap Elements(Queue(d, y)) = {}
    BY <1>1 DEF BcPlaces
  <2>6. \A q \in Elements(Queue(d, x)') : bcReq'[q].at = "pushed" /\ bcReq'[q].conn = d
    BY <2>1, <2>3, <2>4
  <2>7. ASSUME NEW y \in 0 .. Round(d), x # y PROVE Elements(Queue(d, x)') \cap Elements(Queue(d, y)') = {}
    <3>1. \A z \in 0 .. Round(d) : r \in Elements(Queue(d, z)') => d = c /\ z = n
      BY <1>3, <1>7, <2>1
    <3>2. \A z \in 0 .. Round(d) : Elements(Queue(d, z)') \subseteq Elements(Queue(d, z)) \cup {r}
      BY <2>1
    <3>3. Elements(Queue(d, x)) \cap Elements(Queue(d, y)) = {}
      BY <2>5, <2>7
    <3> QED BY <2>7, <3>1, <3>2, <3>3
  <2> QED BY <2>2, <2>6, <2>7
<1>15. BcTypes'
  BY <1>1, <1>11, <1>12 DEF BcTypes
<1>16. BcHolds' /\ BcCounts'
  BY <1>1 DEF BcHolds, BcCounts, Holders
<1>17. BcRuns'
  BY <1>1, <1>11 DEF BcRuns
<1> QED BY <1>14, <1>15, <1>16, <1>17 DEF BcInv

LEMMA DrainKeepsBc ==
    ASSUME BcInv, NEW c \in Conns, Drain(c)
    PROVE  BcInv'
<1>1. BcTypes /\ BcPlaces /\ BcHolds /\ BcCounts /\ BcRuns
  BY DEF BcInv
<1>2. PICK R : R = InRange(bcInput[c])
  OBVIOUS
<1>3. /\ bcRun[c] = "drain" /\ bcInput' = [bcInput EXCEPT ![c] = << >>] /\ bcRun' = [bcRun EXCEPT ![c] = "delay"]
      /\ bcFails' = [bcFails EXCEPT ![c] = IF bcFails[c] > FreeRetries THEN bcFails[c] ELSE bcFails[c] + 1]
      /\ setResponse(R, FALSE)
      /\ UNCHANGED <<bcReaders, bcState, bcClosed, bcPool, bcMu, bcFills, bcFaults>>
  BY <1>1, <1>2 DEF Drain, BcTypes
<1>4. R = Elements(Queue(c, 0)) /\ 0 \in 0 .. Round(c)
  BY <1>1, <1>2, RoundType DEF InRange, Elements, Queue
<1>5. R \in SUBSET Reqs /\ \A r \in R : bcReq[r].at = "pushed"
  BY <1>4, WaitingIs
<1>6. Answered(R)
  <2>1. FALSE \in BOOLEAN
    OBVIOUS
  <2> QED BY <1>3, <2>1 DEF Answered
<1>7. bcInput' \in [Conns -> Seq(Reqs)] /\ \A d \in Conns : bcInput'[d] = IF d = c THEN << >> ELSE bcInput[d]
  BY <1>1, <1>3 DEF BcTypes
<1>8. Leaves(R)
  <2> SUFFICES ASSUME NEW d \in Conns
               PROVE  /\ Round(d)' = Round(d)
                      /\ \A y \in 0 .. Round(d) : Distinct(Queue(d, y)') /\ Elements(Queue(d, y)') \subseteq Elements(Queue(d, y)) \ R
    BY DEF Leaves
  <2>1. ASSUME NEW y \in 0 .. Round(d)
        PROVE  Distinct(Queue(d, y)') /\ Elements(Queue(d, y)') \subseteq Elements(Queue(d, y)) \ R
    <3>1. CASE d = c /\ y = 0
      <4>1. Queue(d, y)' = << >>
        BY <1>7, <3>1 DEF Queue
      <4> QED BY <4>1, EmptyIs
    <3>2. CASE ~ (d = c /\ y = 0)
      <4>1. Queue(d, y)' = Queue(d, y)
        BY <1>3, <1>7, <3>2 DEF Queue
      <4>2. \A r \in R : r \notin Elements(Queue(d, y))
        BY <1>4, <3>2, Elsewhere
      <4> QED BY <4>1, <4>2, WaitingIs
    <3> QED BY <3>1, <3>2
  <2> QED BY <1>3, <2>1 DEF Round
<1>9. /\ bcReq' \in [Reqs -> BcRequests] /\ bcSlot' \in [PoolSlots -> BcSlots] /\ bcPanic' = FALSE
      /\ BcPlaces' /\ BcHolds' /\ BcCounts'
  BY <1>3, <1>5, <1>6, <1>8, AnswerKeeps
<1>10. BcTypes'
  <2>1. bcFails[c] \in 0 .. FreeRetries + 1 /\ FreeRetries \in Nat
    BY <1>1, BackendConnAssumption DEF BcTypes
  <2>2. (IF bcFails[c] > FreeRetries THEN bcFails[c] ELSE bcFails[c] + 1) \in 0 .. FreeRetries + 1
    BY <2>1
  <2>3. bcFails' \in [Conns -> 0 .. FreeRetries + 1]
    BY <1>1, <1>3, <2>2 DEF BcTypes
  <2> QED BY <1>1, <1>3, <1>7, <1>9, <2>3 DEF BcTypes
<1>11. BcRuns'
  <2>1. \A d \in Conns : bcRun'[d] = IF d = c THEN "delay" ELSE bcRun[d]
    BY <1>1, <1>3 DEF BcTypes
  <2> QED BY <1>1, <1>3, <2>1, PoolIs DEF BcRuns, Round
<1> QED BY <1>9, <1>10, <1>11 DEF BcInv

LEMMA WriterKeepsBc ==
    ASSUME BcInv, NEW c \in Conns, Writer(c)
    PROVE  BcInv'
<1>1. BcTypes
  BY DEF BcInv
<1>2. CASE Write(c)
  <2>1. /\ bcRun[c] = "loop" /\ bcInput[c] # << >> /\ bcInput' = [bcInput EXCEPT ![c] = Tail(bcInput[c])]
        /\ UNCHANGED <<bcRun, bcFails, bcState, bcClosed, bcPool, bcMu, bcFills, bcFaults>>
    BY <1>1, <1>2 DEF Write, BcTypes
  <2>2. CASE Sends(c) /\ UNCHANGED <<bcReq, bcSlot, bcPanic>>
    BY <2>1, <2>2, SendKeepsBc
  <2>3. CASE setResponse({Head(bcInput[c])}, FALSE) /\ UNCHANGED bcReaders
    BY <2>1, <2>3, TurnDownKeepsBc
  <2> QED BY <1>2, <2>2, <2>3 DEF Write, Sends
<1>3. CASE DelayAnswer(c)
  <2>1. /\ bcInput[c] # << >> /\ bcInput' = [bcInput EXCEPT ![c] = Tail(bcInput[c])] /\ setResponse({Head(bcInput[c])}, FALSE)
        /\ UNCHANGED <<bcReaders, bcRun, bcFails, bcState, bcClosed, bcPool, bcMu, bcFills, bcFaults>>
    BY <1>1, <1>3 DEF DelayAnswer, BcTypes
  <2> QED BY <2>1, TurnDownKeepsBc
<1>4. CASE Connect(c)
  BY <1>4, ConnectKeepsBc
<1>5. CASE ConnectFails(c) \/ DelayEnds(c)
  BY <1>5, QuietKeepsBc
<1>6. CASE WriteFails(c)
  BY <1>6, WriteFailsKeepsBc
<1>7. CASE WriterEnds(c)
  BY <1>7, WriterEndsKeepsBc
<1>8. CASE Drain(c)
  BY <1>8, DrainKeepsBc
<1> QED BY <1>2, <1>3, <1>4, <1>5, <1>6, <1>7, <1>8 DEF Writer

-----------------------------------------------------------------------------
(* loopReader.                                                             *)

(* The first task of a round is answered.                                  *)
LEMMA TaskPops ==
    ASSUME BcInv, NEW c \in Conns, NEW i \in 1 .. Round(c), bcReaders[c][i].q # << >>,
           NEW new \in BcRounds, new.q = Tail(bcReaders[c][i].q), Renews(c, i, new),
           NEW r, r = Head(bcReaders[c][i].q), Answered({r}), UNCHANGED <<bcInput, bcPool, bcMu>>
    PROVE  /\ bcReaders' \in [Conns -> Seq(BcRounds)] /\ \A d \in Conns : Round(d)' = Round(d)
           /\ bcReq' \in [Reqs -> BcRequests] /\ bcSlot' \in [PoolSlots -> BcSlots] /\ bcPanic' = FALSE
           /\ BcPlaces' /\ BcHolds' /\ BcCounts'
<1>1. BcTypes
  BY DEF BcInv
<1>2. /\ bcReaders' \in [Conns -> Seq(BcRounds)]
      /\ \A d \in Conns : Round(d)' = Round(d)
      /\ \A d \in Conns : \A y \in 1 .. Round(d) : bcReaders'[d][y] = IF d = c /\ y = i THEN new ELSE bcReaders[d][y]
  BY <1>1, RoundsAre
<1>3. i # 0 /\ i \in 0 .. Round(c) /\ Queue(c, i) = bcReaders[c][i].q
  BY <1>1, RoundType DEF Queue
<1>4. ASSUME NEW d \in Conns, NEW y \in 0 .. Round(d)
      PROVE  Queue(d, y)' = IF d = c /\ y = i THEN Tail(Queue(c, i)) ELSE Queue(d, y)
  <2>1. CASE y = 0
    BY <1>3, <2>1 DEF Queue
  <2>2. CASE y # 0
    <3>1. y \in 1 .. Round(d)
      BY <1>1, <2>2, RoundType
    <3>2. Queue(d, y)' = bcReaders'[d][y].q /\ Queue(d, y) = bcReaders[d][y].q
      BY <2>2 DEF Queue
    <3> QED BY <1>2, <1>3, <3>1, <3>2
  <2> QED BY <2>1, <2>2
<1>5. Pops(c, i)
  BY <1>2, <1>4 DEF Pops
<1>6. /\ bcReq' \in [Reqs -> BcRequests] /\ bcSlot' \in [PoolSlots -> BcSlots] /\ bcPanic' = FALSE
      /\ BcPlaces' /\ BcHolds' /\ BcCounts'
  BY <1>3, <1>5, PopKeeps
<1> QED BY <1>2, <1>6

LEMMA ReaderKeepsBc ==
    ASSUME BcInv, NEW c \in Conns, NEW i \in 1 .. Round(c), Reader(c, i)
    PROVE  BcInv'
<1> DEFINE old == bcReaders[c][i]
           one == [old EXCEPT !.q = Tail(@)]
           two == [old EXCEPT !.q = Tail(@), !.up = FALSE]
<1>1. BcTypes /\ BcRuns
  BY DEF BcInv
<1>2. old \in BcRounds
  <2>1. i \in 0 .. Round(c) /\ i # 0
    BY <1>1, RoundType
  <2> QED BY <1>1, <2>1, RoundType
<1>3. old.q # << >> /\ UNCHANGED <<bcInput, bcRun, bcFails, bcClosed, bcPool, bcMu, bcFills>>
  BY DEF Reader, Read, ReadFails, ReadRest, HasTask
<1>4. one \in BcRounds /\ one.q = Tail(old.q) /\ two \in BcRounds /\ two.q = Tail(old.q)
  <2>1. Tail(old.q) \in Seq(Reqs)
    BY <1>2, <1>3 DEF BcRounds
  <2> QED BY <1>2, <2>1 DEF BcRounds
<1>5. Renews(c, i, one) \/ Renews(c, i, two)
  <2>1. CASE Pop(c, i)
    BY <2>1 DEF Pop, Renews
  <2>2. CASE bcReaders' = [bcReaders EXCEPT ![c][i].q = Tail(@), ![c][i].up = FALSE]
    <3> DEFINE half == [bcReaders EXCEPT ![c] = [bcReaders[c] EXCEPT ![i] = one]]
    <3>1. bcReaders \in [Conns -> Seq(BcRounds)] /\ bcReaders[c] \in Seq(BcRounds) /\ i \in DOMAIN bcReaders[c]
      BY <1>1 DEF BcTypes, Round
    <3>2. bcReaders' = [half EXCEPT ![c] = [half[c] EXCEPT ![i] = [half[c][i] EXCEPT !.up = FALSE]]]
      BY <2>2
    <3>3. half[c] = [bcReaders[c] EXCEPT ![i] = one] /\ half[c][i] = one
      BY <3>1
    <3>4. two = [one EXCEPT !.up = FALSE]
      OBVIOUS
    <3>5. bcReaders' = [half EXCEPT ![c] = [half[c] EXCEPT ![i] = two]]
      BY <3>2, <3>3, <3>4
    <3> HIDE DEF one, two
    <3>6. [half[c] EXCEPT ![i] = two] = [bcReaders[c] EXCEPT ![i] = two]
      BY <3>1, <3>3
    <3>7. bcReaders' = [bcReaders EXCEPT ![c] = [bcReaders[c] EXCEPT ![i] = two]]
      BY <3>1, <3>5, <3>6
    <3> QED BY <3>7 DEF Renews
  <2> QED BY <2>1, <2>2 DEF Reader, Read, ReadFails, ReadRest
<1> HIDE DEF one, two
<1>6. PICK r : r = Head(old.q)
  OBVIOUS
<1>7. Answered({r})
  BY <1>6, OneAnswered DEF Reader, Read, ReadFails, ReadRest
<1>8. /\ bcReaders' \in [Conns -> Seq(BcRounds)] /\ \A d \in Conns : Round(d)' = Round(d)
      /\ bcReq' \in [Reqs -> BcRequests] /\ bcSlot' \in [PoolSlots -> BcSlots] /\ bcPanic' = FALSE
      /\ BcPlaces' /\ BcHolds' /\ BcCounts'
  <2>1. CASE Renews(c, i, one)
    BY <1>3, <1>4, <1>6, <1>7, <2>1, TaskPops
  <2>2. CASE Renews(c, i, two)
    BY <1>3, <1>4, <1>6, <1>7, <2>2, TaskPops
  <2> QED BY <1>5, <2>1, <2>2
<1>9. bcFaults' \in 0 .. MaxFaults
  BY FaultIs DEF Reader, Read, ReadFails, ReadRest
<1>10. /\ bcState' \in [Conns -> {"zero", "connected", "stale"}]
       /\ \A d \in Conns : bcState'[d] # "zero" => bcState[d] # "zero"
  BY <1>1 DEF Reader, Read, ReadFails, ReadRest, BcTypes
<1>11. BcTypes'
  BY <1>1, <1>3, <1>8, <1>9, <1>10 DEF BcTypes
<1>12. BcRuns'
  BY <1>1, <1>3, <1>8, <1>10 DEF BcRuns
<1> QED BY <1>8, <1>11, <1>12 DEF BcInv

LEMMA CallbackKeepsBc ==
    ASSUME BcInv, NEW r \in Reqs, KeepAliveCallback(r)
    PROVE  BcInv'
<1> DEFINE new == [bcReq[r] EXCEPT !.at = "seen"]
<1>1. BcTypes /\ BcPlaces /\ BcHolds /\ BcCounts /\ BcRuns
  BY DEF BcInv
<1>2. /\ bcReq[r].kind = "info" /\ bcReq[r].at = "done" /\ bcReq' = [bcReq EXCEPT ![r] = new]
      /\ UNCHANGED <<bcInput, bcReaders, bcRun, bcFails, bcClosed, bcPool, bcSlot, bcMu, bcFills, bcFaults, bcPanic>>
  BY DEF KeepAliveCallback
<1>3. new \in BcRequests /\ new.at = "seen" /\ new.kind = "info"
  BY <1>1, <1>2 DEF BcTypes, BcRequests
<1> HIDE DEF new
<1>4. bcReq' \in [Reqs -> BcRequests] /\ bcReq'[r] = new /\ \A q \in Reqs : q # r => bcReq'[q] = bcReq[q]
  BY <1>1, <1>2, <1>3 DEF BcTypes
<1>5. /\ bcState' \in [Conns -> {"zero", "connected", "stale"}]
      /\ \A d \in Conns : bcState'[d] # "zero" => bcState[d] # "zero"
  <2>1. bcReq[r].conn \in Conns
    <3>1. bcReq[r].conn # 0 /\ bcReq[r].conn \in 0 .. MaxConns
      BY <1>1, <1>2 DEF BcHolds, BcTypes, BcRequests
    <3> QED BY <3>1, BcConstants
  <2> QED BY <1>1, <2>1 DEF KeepAliveCallback, BcTypes
<1>6. BcPlaces'
  BY <1>2, <1>4, PlacesStay DEF Round
<1>7. BcTypes'
  BY <1>1, <1>2, <1>4, <1>5 DEF BcTypes
<1>8. BcHolds'
  BY <1>1, <1>2, <1>3, <1>4 DEF BcHolds
<1>9. BcCounts' /\ BcRuns'
  BY <1>1, <1>2, <1>5 DEF BcCounts, Holders, BcRuns, Round
<1> QED BY <1>6, <1>7, <1>8, <1>9 DEF BcInv

-----------------------------------------------------------------------------
(* Router.fillSlot.                                                        *)

LEMMA BlockKeepsBc ==
    ASSUME BcInv, NEW s \in PoolSlots, blockAndWait(s)
    PROVE  BcInv'
<1> DEFINE new == [bcSlot[s] EXCEPT !.hold = TRUE]
<1>1. BcTypes /\ BcPlaces /\ BcHolds /\ BcCounts /\ BcRuns
  BY DEF BcInv
<1>2. /\ bcMu = {} /\ Readers = {} /\ bcMu' = {s} /\ bcFills < MaxFills /\ bcFills' = bcFills + 1
      /\ bcSlot' = [bcSlot EXCEPT ![s] = new]
      /\ UNCHANGED <<bcReq, bcInput, bcReaders, bcRun, bcFails, bcState, bcClosed, bcPool, bcFaults, bcPanic>>
  BY DEF blockAndWait, bcConnVars
<1>3. new \in BcSlots /\ new.conn = bcSlot[s].conn /\ new.refs = bcSlot[s].refs
  BY <1>1 DEF BcTypes, BcSlots
<1> HIDE DEF new
<1>4. /\ bcSlot' \in [PoolSlots -> BcSlots]
      /\ \A t \in PoolSlots : bcSlot'[t].conn = bcSlot[t].conn /\ bcSlot'[t].refs = bcSlot[t].refs
  BY <1>1, <1>2, <1>3 DEF BcTypes
<1>5. bcFills' \in 0 .. MaxFills
  BY <1>1, <1>2, BackendConnAssumption DEF BcTypes
<1>6. BcTypes'
  BY <1>1, <1>2, <1>4, <1>5 DEF BcTypes
<1>7. BcPlaces'
  BY <1>2, PlacesStay DEF Round
<1>8. BcHolds'
  <2>1. \A r \in Reqs : ~ (bcReq[r].at = "chosen" /\ bcReq[r].kind \in {"addr", "ping", "info"})
    BY <1>2 DEF Readers
  <2>2. \A r \in Reqs : bcReq[r].at = "chosen" => bcReq[r].kind = "slot"
    BY <1>1, <2>1 DEF BcHolds, BcTypes, BcRequests
  <2> QED BY <1>1, <1>2, <1>4, <2>2 DEF BcHolds
<1>9. BcCounts' /\ BcRuns'
  <2>1. Holders' = Holders
    BY <1>4 DEF Holders
  <2> QED BY <1>1, <1>2, <1>4, <2>1 DEF BcCounts, BcRuns, Holders, Round
<1> QED BY <1>6, <1>7, <1>8, <1>9 DEF BcInv

LEMMA NextConnIs ==
    ASSUME \E c \in Conns : bcRun[c] = "none"
    PROVE  NextConn \in Conns /\ bcRun[NextConn] = "none"
<1> DEFINE S == {c \in Conns : bcRun[c] = "none"}
<1>1. S \in SUBSET Nat /\ S # {} /\ \A c \in Conns : c \in Nat
  BY BcConstants DEF Conns
<1>2. \E c \in S : \A d \in S : c <= d
  <2> HIDE DEF S
  <2> QED BY <1>1, LeastExists
<1>3. \E c \in Conns : bcRun[c] = "none" /\ \A d \in Conns : d < c => bcRun[d] # "none"
  BY <1>1, <1>2
<1> QED BY <1>3 DEF NextConn

LEMMA FillKeepsBc ==
    ASSUME BcInv, NEW s \in PoolSlots, NEW again \in BOOLEAN, fillSlot(s, again)
    PROVE  BcInv'
<1> DEFINE held   == bcSlot[s].conn # 0
           left   == released(held)
           closes == held /\ left = 0
           stay   == IF closes THEN 0 ELSE bcPool.conn
           fresh  == again /\ stay = 0
           now    == IF fresh THEN NextConn ELSE stay
           rest   == Holders \ {s}
<1>1. BcTypes /\ BcPlaces /\ BcHolds /\ BcCounts /\ BcRuns
  BY DEF BcInv
<1>2. /\ bcMu = {s} /\ bcSlot[s].refs = {} /\ bcMu' = {}
      /\ fresh => \E c \in Conns : bcRun[c] = "none"
      /\ bcPool' = [conn |-> now, refcnt |-> IF again THEN left + 1 ELSE left]
      /\ bcClosed' = [c \in Conns |-> bcClosed[c] \/ (closes /\ c = bcPool.conn)]
      /\ bcRun' = [c \in Conns |-> IF fresh /\ c = now THEN "dial" ELSE bcRun[c]]
      /\ bcPanic' = (bcPanic \/ (held /\ bcPool.refcnt = 0))
      /\ \E locked \in BOOLEAN :
            bcSlot' = [bcSlot EXCEPT ![s].conn = IF again THEN now ELSE 0, ![s].hold = locked]
      /\ UNCHANGED <<bcReq, bcInput, bcReaders, bcFails, bcState, bcFaults, bcFills>>
  BY DEF fillSlot, ReleaseRetain
<1>3. /\ IsFiniteSet(Holders) /\ IsFiniteSet(rest) /\ Cardinality(rest) \in Nat /\ Cardinality(Holders) \in Nat
      /\ Cardinality(rest) = left
      /\ held => bcPool.refcnt # 0
  <2>1. IsFiniteSet(Holders) /\ Cardinality(Holders) \in Nat
    <3>1. Holders \subseteq PoolSlots
      BY DEF Holders
    <3> QED BY <3>1, BcConstants, FS_Subset, FS_CardinalityType
  <2>2. IsFiniteSet(rest) /\ Cardinality(rest) = IF s \in Holders THEN Cardinality(Holders) - 1 ELSE Cardinality(Holders)
    BY <2>1, FS_RemoveElement
  <2>3. s \in Holders <=> held
    BY DEF Holders
  <2>4. Cardinality(rest) \in Nat
    BY <2>2, FS_CardinalityType
  <2>5. bcPool.refcnt = Cardinality(Holders)
    BY <1>1 DEF BcCounts
  <2> HIDE DEF rest, held
  <2>6. Cardinality(rest) = left
    BY <2>2, <2>3, <2>5 DEF released
  <2>7. held => Cardinality(Holders) # 0
    BY <2>1, <2>2, <2>3, <2>4
  <2> QED BY <2>1, <2>2, <2>4, <2>5, <2>6, <2>7
<1>4. stay = 0 <=> rest = {}
  <2>1. left = 0 <=> rest = {}
    BY <1>3, FS_EmptySet
  <2>2. held => bcPool.conn # 0
    BY <1>1 DEF BcCounts, Holders
  <2>3. ~ held => rest = Holders
    BY DEF Holders
  <2>4. bcPool.conn = 0 <=> Holders = {}
    BY <1>1 DEF BcCounts
  <2> HIDE DEF held, left, rest
  <2> QED BY <2>1, <2>2, <2>3, <2>4
<1>5. fresh => NextConn \in Conns /\ bcRun[NextConn] = "none"
  BY <1>2, NextConnIs
<1> DEFINE conn == IF again THEN now ELSE 0
<1>6. PICK locked \in BOOLEAN : bcSlot' = [bcSlot EXCEPT ![s] = [bcSlot[s] EXCEPT !.conn = conn, !.hold = locked]]
  <2>1. PICK is \in BOOLEAN : bcSlot' = [bcSlot EXCEPT ![s].conn = conn, ![s].hold = is]
    BY <1>2
  <2>2. bcSlot \in [PoolSlots -> BcSlots]
    BY <1>1 DEF BcTypes
  <2> HIDE DEF conn
  <2>3. bcSlot' = [bcSlot EXCEPT ![s] = [bcSlot[s] EXCEPT !.conn = conn, !.hold = is]]
    BY <2>1, <2>2
  <2> QED BY <2>1, <2>3, Zenon
<1>7. /\ now \in 0 .. MaxConns /\ (now # 0 => now \in Conns)
      /\ now = 0 <=> (rest = {} /\ ~ again)
  <2>1. stay \in 0 .. MaxConns /\ (stay # 0 => stay \in Conns)
    BY PoolIs, BcConstants
  <2>2. fresh => now \in Conns /\ now \in 0 .. MaxConns /\ now # 0
    BY <1>5, BcConstants
  <2>3. ~ fresh => now = stay
    OBVIOUS
  <2>4. fresh <=> again /\ stay = 0
    OBVIOUS
  <2> HIDE DEF now, fresh, stay, rest
  <2> QED BY <1>4, <2>1, <2>2, <2>3, <2>4
<1>8. rest # {} => now = bcPool.conn /\ bcPool.conn # 0 /\ ~ closes /\ ~ fresh
  <2>1. rest # {} => bcPool.conn # 0
    BY <1>1 DEF BcCounts
  <2> HIDE DEF rest, held, left
  <2> QED BY <1>4, <2>1
<1>9. /\ bcSlot' \in [PoolSlots -> BcSlots]
      /\ bcSlot'[s].conn = conn
      /\ \A t \in PoolSlots : t # s => bcSlot'[t] = bcSlot[t]
  <2> DEFINE new == [bcSlot[s] EXCEPT !.conn = conn, !.hold = locked]
  <2>1. conn \in 0 .. MaxConns
    BY <1>7, BcConstants
  <2> HIDE DEF conn
  <2>2. new \in BcSlots /\ new.conn = conn
    BY <1>1, <2>1 DEF BcTypes, BcSlots
  <2>3. bcSlot' = [bcSlot EXCEPT ![s] = new]
    BY <1>6
  <2> HIDE DEF new
  <2> QED BY <1>1, <2>2, <2>3 DEF BcTypes
<1>10. Holders' = IF again THEN rest \cup {s} ELSE rest
  <2>1. again => conn # 0
    BY <1>7
  <2>2. ~ again => conn = 0
    OBVIOUS
  <2> HIDE DEF conn
  <2> QED BY <1>9, <2>1, <2>2 DEF Holders
<1>11. bcPool' \in BcPools /\ bcPool'.conn = now /\ bcPool'.refcnt = Cardinality(Holders')
  <2> DEFINE cnt == IF again THEN left + 1 ELSE left
  <2>1. cnt = Cardinality(Holders')
    <3>1. s \notin rest
      OBVIOUS
    <3>2. Cardinality(rest \cup {s}) = Cardinality(rest) + 1
      BY <1>3, <3>1, FS_AddElement
    <3> HIDE DEF rest, left
    <3> QED BY <1>3, <1>10, <3>2
  <2>2. Cardinality(Holders') \in 0 .. Cardinality(PoolSlots)
    <3>1. Holders' \subseteq PoolSlots
      BY DEF Holders
    <3>2. IsFiniteSet(Holders') /\ Cardinality(Holders') <= Cardinality(PoolSlots)
      BY <3>1, BcConstants, FS_Subset
    <3> QED BY <3>2, BcConstants, FS_CardinalityType
  <2>3. bcPool' = [conn |-> now, refcnt |-> cnt]
    BY <1>2
  <2> HIDE DEF now, cnt
  <2> QED BY <1>7, <2>1, <2>2, <2>3 DEF BcPools
<1>12. BcCounts'
  <2>1. bcPool'.conn = 0 <=> Holders' = {}
    BY <1>7, <1>10, <1>11
  <2>2. ASSUME NEW t \in Holders' PROVE bcSlot'[t].conn = bcPool'.conn
    <3>1. CASE t = s
      <4>1. again
        BY <1>10, <2>2, <3>1
      <4> QED BY <1>9, <1>11, <3>1, <4>1
    <3>2. CASE t # s
      <4>1. t \in rest /\ t \in PoolSlots /\ t \in Holders
        BY <1>10, <3>2 DEF Holders
      <4>2. bcSlot[t].conn = bcPool.conn
        BY <1>1, <4>1 DEF BcCounts
      <4> QED BY <1>8, <1>9, <1>11, <3>2, <4>1, <4>2
    <3> QED BY <3>1, <3>2
  <2> QED BY <1>11, <2>1, <2>2 DEF BcCounts
<1>13. /\ bcRun' \in [Conns -> {"none", "dial", "loop", "drain", "delay", "exit"}] /\ bcClosed' \in [Conns -> BOOLEAN]
       /\ bcPanic' = FALSE
  <2>1. \A c \in Conns : bcRun[c] \in {"none", "dial", "loop", "drain", "delay", "exit"}
    BY <1>1 DEF BcTypes
  <2>2. bcRun' \in [Conns -> {"none", "dial", "loop", "drain", "delay", "exit"}]
    <3> HIDE DEF now, fresh
    <3> QED BY <1>2, <2>1
  <2>3. bcClosed' \in [Conns -> BOOLEAN]
    <3> HIDE DEF closes
    <3> QED BY <1>1, <1>2 DEF BcTypes
  <2>4. bcPanic' = FALSE
    BY <1>1, <1>2, <1>3 DEF BcTypes
  <2> QED BY <2>2, <2>3, <2>4
<1>14. BcTypes'
  BY <1>1, <1>2, <1>9, <1>11, <1>13 DEF BcTypes
<1>15. BcPlaces'
  BY <1>2, PlacesStay DEF Round
<1>16. BcHolds'
  <2>1. \A r \in Reqs : bcReq[r].at = "chosen" => bcReq[r].kind = "slot"
    BY <1>1, <1>2 DEF BcHolds
  <2>2. ASSUME NEW r \in Reqs, bcReq[r].kind = "slot", bcReq[r].at # "done"
        PROVE  \E t \in PoolSlots : r \in bcSlot'[t].refs /\ bcSlot'[t].conn = bcReq[r].conn
    <3>1. PICK t \in PoolSlots : r \in bcSlot[t].refs /\ bcSlot[t].conn = bcReq[r].conn
      BY <1>1, <2>2 DEF BcHolds
    <3> QED BY <1>2, <1>9, <3>1
  <2> QED BY <1>1, <1>2, <2>1, <2>2 DEF BcHolds
<1>17. BcRuns'
  <2>1. \A c \in Conns : /\ bcClosed'[c] <=> (bcClosed[c] \/ (closes /\ c = bcPool.conn))
                         /\ bcRun'[c] = IF fresh /\ c = now THEN "dial" ELSE bcRun[c]
                         /\ Round(c)' = Round(c)
    <3> HIDE DEF closes, fresh, now
    <3> QED BY <1>1, <1>2 DEF BcTypes, Round
  <2>2. closes => bcPool.conn # 0 /\ bcPool.conn \in Conns
    <3>1. held => bcPool.conn # 0
      BY <1>1 DEF BcCounts, Holders
    <3> QED BY <3>1, PoolIs
  <2>3. closes => bcRun[bcPool.conn] # "none"
    BY <1>1, <2>2 DEF BcRuns
  <2>4. fresh => now = NextConn /\ now \in Conns /\ bcRun[now] = "none" /\ bcState[now] = "zero" /\ ~ bcClosed[now]
    <3>1. fresh => now = NextConn
      OBVIOUS
    <3> HIDE DEF now, fresh
    <3> QED BY <1>1, <1>5, <3>1 DEF BcRuns, BcTypes
  <2>5. ~ fresh /\ now # 0 => now = bcPool.conn /\ ~ closes /\ now \in Conns /\ ~ bcClosed[now] /\ bcRun[now] # "none"
    <3>1. ~ fresh => now = stay
      OBVIOUS
    <3>2. stay # 0 => ~ closes /\ stay = bcPool.conn
      OBVIOUS
    <3> HIDE DEF now, fresh, stay, closes
    <3> QED BY <1>1, <3>1, <3>2, PoolIs DEF BcRuns
  <2> HIDE DEF closes, fresh, now
  <2>6. bcPool'.conn # 0 => ~ bcClosed'[bcPool'.conn] /\ bcRun'[bcPool'.conn] # "none"
    BY <1>11, <2>1, <2>2, <2>3, <2>4, <2>5
  <2>7. ASSUME NEW c \in Conns
        PROVE  /\ bcRun'[c] = "none" => ~ bcClosed'[c]
               /\ bcRun'[c] = "loop" => Round(c)' > 0
               /\ bcState'[c] # "zero" => bcRun'[c] = "loop"
    BY <1>1, <1>2, <2>1, <2>2, <2>3, <2>4 DEF BcRuns
  <2> QED BY <2>6, <2>7 DEF BcRuns
<1> QED BY <1>12, <1>14, <1>15, <1>16, <1>17 DEF BcInv

-----------------------------------------------------------------------------
LEMMA BcStepKeepsInv ==
    ASSUME BcInv, [BcNext]_bcVars
    PROVE  BcInv'
<1>1. ASSUME NEW r \in Reqs, NEW s \in PoolSlots, SlotForward(r, s) PROVE BcInv'
  BY <1>1, ForwardKeepsBc
<1>2. ASSUME NEW r \in Reqs, PushBack(r) \/ KeepAliveCallback(r) PROVE BcInv'
  BY <1>2, PushKeepsBc, CallbackKeepsBc
<1>3. ASSUME NEW r \in Probes, dispatchAddr(r) \/ KeepAlive(r) PROVE BcInv'
  BY <1>3, ProbeKeepsBc
<1>4. ASSUME NEW c \in Conns, Writer(c) PROVE BcInv'
  BY <1>4, WriterKeepsBc
<1>5. ASSUME NEW c \in Conns, NEW i \in 1 .. Round(c), Reader(c, i) PROVE BcInv'
  BY <1>5, ReaderKeepsBc
<1>6. ASSUME NEW s \in PoolSlots, blockAndWait(s) PROVE BcInv'
  BY <1>6, BlockKeepsBc
<1>7. ASSUME NEW s \in PoolSlots, NEW again \in BOOLEAN, fillSlot(s, again) PROVE BcInv'
  BY <1>7, FillKeepsBc
<1>8. CASE UNCHANGED bcVars
  <2>1. UNCHANGED <<bcReq, bcInput, bcReaders, bcRun, bcFails, bcState, bcClosed, bcPool, bcSlot, bcMu, bcFaults, bcFills, bcPanic>>
    BY <1>8 DEF bcVars, bcConnVars
  <2>2. BcPlaces'
    BY <2>1, PlacesStay DEF Round
  <2>3. BcTypes' /\ BcHolds'
    BY <2>1 DEF BcInv, BcTypes, BcHolds
  <2>4. BcCounts' /\ BcRuns'
    BY <2>1 DEF BcInv, BcCounts, Holders, BcRuns, Round
  <2> QED BY <2>2, <2>3, <2>4 DEF BcInv
<1> QED BY <1>1, <1>2, <1>3, <1>4, <1>5, <1>6, <1>7, <1>8 DEF BcNext

LEMMA BcInvSound ==
    ASSUME BcInv
    PROVE  ConnectionsAreSound
<1>1. BcTypes /\ BcPlaces /\ BcHolds /\ BcCounts /\ BcRuns
  BY DEF BcInv
<1>2. BcTypeOK
  <2>1. ASSUME NEW c \in Conns, NEW i \in 1 .. Round(c)
        PROVE  bcReaders[c][i].q \in Seq(Reqs) /\ bcReaders[c][i].open \in BOOLEAN /\ bcReaders[c][i].up \in BOOLEAN
    <3>1. i \in 0 .. Round(c) /\ i # 0
      BY <1>1, RoundType
    <3>2. bcReaders[c][i] \in BcRounds
      BY <1>1, <3>1, RoundType
    <3> QED BY <3>2 DEF BcRounds
  <2> QED BY <1>1, <2>1 DEF BcTypes, BcTypeOK, BcRequests, BcPools, BcSlots
<1>3. ClosedIsIdle
  <2> SUFFICES ASSUME NEW c \in Conns, bcClosed[c], NEW r \in Reqs, bcReq[r].conn = c, bcReq[r].kind = "slot", bcReq[r].at # "done"
               PROVE  FALSE
    BY DEF ClosedIsIdle
  <2>1. PICK s \in PoolSlots : bcSlot[s].conn = c
    BY <1>1 DEF BcHolds
  <2>2. c = bcPool.conn /\ c # 0
    BY <2>1, PoolIs, BcConstants
  <2> QED BY <1>1, <2>2 DEF BcRuns
<1>4. NoPanic /\ ConnectedHasWriter
  BY <1>1 DEF NoPanic, ConnectedHasWriter, BcTypes, BcRuns
<1> QED BY <1>2, <1>3, <1>4 DEF ConnectionsAreSound

(* A connection of a proxy is closed only when no request of a slot is on  *)
(* it or on its way, nothing is pushed into one that is closed, none is    *)
(* released more often than it was retained, no request is answered twice, *)
(* and one that says it is connected has a writer, for any number of       *)
(* requests, slots, failures and fills (backend.go:77-82, 255-264, 290-383 *)
(* and 431-452, slots.go:53-59).                                           *)
THEOREM ConnectionsTheorem == BcSpec => []ConnectionsAreSound
<1>1. BcInit => BcInv
  BY BcInitInv
<1>2. BcInv /\ [BcNext]_bcVars => BcInv'
  BY BcStepKeepsInv
<1>3. BcInv => ConnectionsAreSound
  BY BcInvSound
<1> QED BY <1>1, <1>2, <1>3, PTL DEF BcSpec
=============================================================================
