----------------------------- MODULE GroupProofs -----------------------------
(***************************************************************************)
(* What the dashboard makes the servers of the groups be, for any number   *)
(* of them: replicas of the masters their groups have (GroupSync), with    *)
(* the users of the ACL it keeps (ACL); what codis-ha may never do to the  *)
(* masters (HealthyChecker); and which masters the sentinels report        *)
(* (SentinelWatch).                                                        *)
(***************************************************************************)
EXTENDS GroupSync, ACL, HealthyChecker, SentinelWatch, SubsequenceProofs

-----------------------------------------------------------------------------
(* GroupSync.                                                              *)

GsStates == {"nothing", "pending", "syncing", "synced", "synced_failed"}
GsRuns   == [at: {"idle", "prepared", "exec", "complete"}, addr: GsAll \cup {GsNone},
             master: GsAll \cup {GsNone}, failed: BOOLEAN]
Own(g)   == Elements(GsServers[g])

GsTypes ==
    /\ gsAction \in [GsAll -> [state: GsStates, index: Nat]]
    /\ gsPromoting \in [GsGroups -> [state: {"nothing", "prepared", "finished"}, index: Nat]]
    /\ gsRun \in GsRuns
    /\ gsRun.at # "idle" => gsRun.addr \in GsAll
    /\ DOMAIN gsMasterOf = GsAll
    /\ gsElected \in [GsGroups -> GsAll \cup {GsNone}]
    /\ gsSyncs \in Nat

(* The servers of a group stay its servers, in some order.                 *)
OrderOk(g) ==
    /\ gsOrder[g] \in Seq(GsAll) /\ Len(gsOrder[g]) = Len(GsServers[g])
    /\ Distinct(gsOrder[g]) /\ Elements(gsOrder[g]) = Own(g)

GsOrders ==
    /\ DOMAIN gsOrder = GsGroups /\ \A g \in GsGroups : OrderOk(g)
    /\ \A g \in GsGroups : /\ gsElected[g] # GsNone => gsElected[g] \in Own(g)
                           /\ gsPromoting[g].state = "prepared" => gsPromoting[g].index \in 2 .. Len(GsServers[g])

(* Actions that wait have different indexes, no higher than there were     *)
(* calls.                                                                  *)
GsQueue ==
    /\ \A a \in WithState("pending") : gsAction[a].index <= gsSyncs
    /\ \A a, b \in WithState("pending") : a # b => gsAction[a].index # gsAction[b].index

(* The master of a group, once the dashboard knows.                        *)
Lead(g) == IF gsElected[g] = GsNone THEN Master(g) ELSE gsElected[g]

(* A server that is shown as synced, or is going to be.                    *)
Shown(a) ==
    \/ gsAction[a].state = "synced"
    \/ gsAction[a].state = "syncing" /\ gsRun.at = "complete" /\ gsRun.addr = a /\ ~ gsRun.failed

GsFollow ==
    \A g \in GsGroups :
        /\ Lead(g) \notin gsStray => gsMasterOf[Lead(g)] = GsNone
        /\ \A a \in Own(g) \ gsStray : Shown(a) => gsMasterOf[a] = IF a = Lead(g) THEN GsNone ELSE Lead(g)

(* The inductive invariant of GroupSync.                                   *)
GsInv == GsTypes /\ GsOrders /\ GsQueue /\ GsFollow

-----------------------------------------------------------------------------
(* Groups and the order of their servers.                                  *)

LEMMA GsConstants ==
    /\ \A g \in GsGroups : /\ GsServers[g] \in Seq(GsAll) /\ Len(GsServers[g]) \in Nat /\ Len(GsServers[g]) >= 1
                           /\ DOMAIN GsServers[g] = 1 .. Len(GsServers[g]) /\ Distinct(GsServers[g])
    /\ \A g, h \in GsGroups : g # h => Own(g) \cap Own(h) = {}
    /\ \A a : a \in GsAll <=> \E g \in GsGroups : a \in Own(g)
    /\ GsNone \notin GsAll
<1>1. \A g \in GsGroups : /\ GsServers[g] \in Seq(GsAll) /\ Len(GsServers[g]) \in Nat /\ Len(GsServers[g]) >= 1
                          /\ DOMAIN GsServers[g] = 1 .. Len(GsServers[g])
  BY GroupSyncAssumption, LenProperties
<1>2. \A g, h \in GsGroups : \A i \in DOMAIN GsServers[g], j \in DOMAIN GsServers[h] :
          GsServers[g][i] = GsServers[h][j] => g = h /\ i = j
  BY GroupSyncAssumption
<1>3. \A g \in GsGroups : Distinct(GsServers[g])
  BY <1>1, <1>2 DEF Distinct
<1>4. \A g, h \in GsGroups : g # h => Own(g) \cap Own(h) = {}
  BY <1>1, <1>2 DEF Own, Elements
<1>5. \A a : a \in GsAll <=> \E g \in GsGroups : a \in Own(g)
  BY <1>1 DEF GsAll, Own, Elements
<1> QED BY <1>1, <1>3, <1>4, <1>5, GroupSyncAssumption

(* The servers a group has, and the group a server has.                    *)
LEMMA GroupIs ==
    ASSUME GsOrders, NEW g \in GsGroups
    PROVE  /\ Members(g) = Own(g) /\ Master(g) = gsOrder[g][1] /\ Master(g) \in Own(g)
           /\ \A a \in Own(g) : GroupOf(a) = g /\ a \in GsAll
<1>1. \A h \in GsGroups : /\ gsOrder[h] \in Seq(GsAll) /\ DOMAIN gsOrder[h] = 1 .. Len(gsOrder[h])
                          /\ Len(gsOrder[h]) \in Nat /\ Len(gsOrder[h]) >= 1 /\ Elements(gsOrder[h]) = Own(h)
  BY GsConstants, LenProperties DEF GsOrders, OrderOk
<1>2. Members(g) = Own(g)
  BY <1>1 DEF Members, Elements
<1>3. Master(g) = gsOrder[g][1] /\ Master(g) \in Own(g)
  <2>1. gsOrder[g] # << >> /\ 1 \in 1 .. Len(gsOrder[g])
    BY <1>1, EmptySeq
  <2>2. Head(gsOrder[g]) = gsOrder[g][1]
    BY <1>1, <2>1, HeadTailProperties
  <2>3. gsOrder[g][1] \in Elements(gsOrder[g])
    BY <2>1 DEF Elements
  <2> QED BY <1>1, <2>2, <2>3 DEF Master
<1>4. ASSUME NEW a \in Own(g)
      PROVE  GroupOf(a) = g /\ a \in GsAll
  <2>1. \A h \in GsGroups : (\E i \in DOMAIN gsOrder[h] : gsOrder[h][i] = a) <=> a \in Own(h)
    BY <1>1 DEF Elements
  <2>2. \A h \in GsGroups : (\E i \in DOMAIN gsOrder[h] : gsOrder[h][i] = a) <=> h = g
    BY <2>1, GsConstants
  <2>3. GroupOf(a) = g
    BY <2>2, Zenon DEF GroupOf, getGroupByServer
  <2> QED BY <2>3, GsConstants
<1> QED BY <1>2, <1>3, <1>4

LEMMA HomeIs ==
    ASSUME GsOrders, NEW a \in GsAll
    PROVE  GroupOf(a) \in GsGroups /\ a \in Own(GroupOf(a))
<1>1. PICK g \in GsGroups : a \in Own(g)
  BY GsConstants
<1> QED BY <1>1, GroupIs

(* The exchange of a promotion.                                            *)
LEMMA ExchangedIs ==
    ASSUME NEW T, NEW s \in Seq(T), Distinct(s), NEW index \in 2 .. Len(s)
    PROVE  /\ exchanged(s, index) \in Seq(T) /\ Len(exchanged(s, index)) = Len(s)
           /\ Distinct(exchanged(s, index)) /\ Elements(exchanged(s, index)) = Elements(s)
           /\ exchanged(s, index)[1] = s[index]
<1> DEFINE n == Len(s)
           r == exchanged(s, index)
<1>1. n \in Nat /\ index \in Nat /\ 2 <= index /\ index <= n /\ DOMAIN s = 1 .. n
  BY LenProperties
<1>2. \A i \in 1 .. n : s[i] \in T
  BY ElementOfSeq
<1> HIDE DEF n
<1>3. r = [i \in 1 .. n |-> IF i = 1 THEN s[index] ELSE IF i = n THEN s[1]
                             ELSE IF i < index THEN s[i] ELSE s[i + 1]]
  BY <1>1 DEF exchanged, n
<1>4. ASSUME NEW i \in 1 .. n, i # 1, i # n, ~ (i < index)
      PROVE  i + 1 \in 1 .. n
  BY <1>1, <1>4
<1>5. 1 \in 1 .. n /\ n \in 1 .. n /\ index \in 1 .. n
  BY <1>1
<1>6. \A i \in 1 .. n : r[i] \in T
  BY <1>2, <1>3, <1>4, <1>5
<1>7. r \in [1 .. n -> T]
  BY <1>3, <1>6
<1>8. r \in Seq(T) /\ Len(r) = n
  BY <1>1, <1>7, SMT
<1> DEFINE at(i) == IF i = 1 THEN index ELSE IF i = n THEN 1 ELSE IF i < index THEN i ELSE i + 1
<1>9. \A i \in 1 .. n : at(i) \in 1 .. n /\ r[i] = s[at(i)]
  BY <1>3, <1>4, <1>5
<1>10. \A i, j \in 1 .. n : at(i) = at(j) => i = j
  BY <1>1
<1>11. \A j \in 1 .. n : \E i \in 1 .. n : at(i) = j
  <2>1. ASSUME NEW j \in 1 .. n
        PROVE  \E i \in 1 .. n : at(i) = j
    <3>1. CASE j = index
      BY <1>5, <3>1
    <3>2. CASE j = 1
      BY <1>1, <1>5, <3>2
    <3>3. CASE j # 1 /\ j < index
      BY <1>1, <3>3
    <3>4. CASE j > index
      <4>1. j - 1 \in 1 .. n /\ at(j - 1) = j
        BY <1>1, <3>4
      <4> QED BY <4>1
    <3> QED BY <1>1, <3>1, <3>2, <3>3, <3>4
  <2> QED BY <2>1
<1> HIDE DEF at, r
<1>12. Distinct(r)
  <2>1. \A i, j \in 1 .. n : s[at(i)] = s[at(j)] => at(i) = at(j)
    BY <1>9 DEF Distinct, n
  <2>2. \A i, j \in 1 .. n : r[i] = r[j] => i = j
    BY <1>9, <1>10, <2>1
  <2> QED BY <1>8, <2>2 DEF Distinct
<1>13. Elements(r) = Elements(s)
  <2>1. \A i \in 1 .. n : r[i] \in Elements(s)
    BY <1>9 DEF Elements, n
  <2>2. \A j \in 1 .. n : s[j] \in Elements(r)
    BY <1>8, <1>9, <1>11 DEF Elements
  <2> QED BY <1>8, <2>1, <2>2 DEF Elements, n
<1>14. r[1] = s[index]
  BY <1>5, <1>9 DEF at
<1> QED BY <1>8, <1>12, <1>13, <1>14 DEF r, n

(* The exchange of a switch of the sentinels.                              *)
ListWith(s, a) == [i \in DOMAIN s |-> IF i = 1 THEN a ELSE IF s[i] = a THEN s[1] ELSE s[i]]

LEMMA SwitchedIs ==
    ASSUME NEW T, NEW s \in Seq(T), Distinct(s), NEW a \in Elements(s)
    PROVE  /\ ListWith(s, a) \in Seq(T) /\ Len(ListWith(s, a)) = Len(s)
           /\ Distinct(ListWith(s, a)) /\ Elements(ListWith(s, a)) = Elements(s)
           /\ ListWith(s, a)[1] = a
<1> DEFINE n == Len(s)
           r == ListWith(s, a)
<1>1. n \in Nat /\ DOMAIN s = 1 .. n
  BY LenProperties
<1>2. \A i \in 1 .. n : s[i] \in T
  BY ElementOfSeq
<1>3. PICK k \in 1 .. n : s[k] = a
  BY DEF Elements
<1> HIDE DEF n
<1>4. 1 \in 1 .. n
  BY <1>1
<1>5. \A i, j \in 1 .. n : s[i] = s[j] => i = j
  BY DEF Distinct, n
<1>6. r = [i \in 1 .. n |-> IF i = 1 THEN a ELSE IF s[i] = a THEN s[1] ELSE s[i]]
  BY <1>1 DEF ListWith
<1> DEFINE at(i) == IF i = 1 THEN k ELSE IF i = k THEN 1 ELSE i
<1>7. \A i \in 1 .. n : at(i) \in 1 .. n /\ r[i] = s[at(i)]
  BY <1>3, <1>4, <1>5, <1>6
<1>8. r \in [1 .. n -> T]
  BY <1>2, <1>6, <1>7
<1>9. r \in Seq(T) /\ Len(r) = n
  BY <1>1, <1>8, SMT
<1>10. \A i, j \in 1 .. n : at(i) = at(j) => i = j
  OBVIOUS
<1>11. \A j \in 1 .. n : at(j) \in 1 .. n /\ at(at(j)) = j
  BY <1>4
<1>12. r[1] = a
  BY <1>4, <1>6
<1> HIDE DEF at, r
<1>13. Distinct(r)
  <2>1. \A i, j \in 1 .. n : r[i] = r[j] => at(i) = at(j)
    BY <1>5, <1>7
  <2>2. \A i, j \in 1 .. n : r[i] = r[j] => i = j
    BY <1>10, <2>1
  <2> QED BY <1>9, <2>2 DEF Distinct
<1>14. Elements(r) = Elements(s)
  <2>1. \A i \in 1 .. n : r[i] \in Elements(s)
    BY <1>7 DEF Elements, n
  <2>2. \A j \in 1 .. n : s[j] \in Elements(r)
    BY <1>7, <1>9, <1>11 DEF Elements
  <2> QED BY <1>9, <2>1, <2>2 DEF Elements, n
<1> QED BY <1>9, <1>12, <1>13, <1>14 DEF r, n

-----------------------------------------------------------------------------
(* The greatest of numbers up to a bound.                                  *)
LEMMA GreatestExists ==
    ASSUME NEW n \in Nat, NEW S \in SUBSET (0 .. n), S # {}
    PROVE  \E m \in S : \A x \in S : x <= m
<1> DEFINE Has(U) == \E m \in U : \A x \in U : x <= m
           G == {m \in 0 .. n : \A U \in SUBSET (0 .. m) : U # {} => Has(U)}
<1>1. 0 \in G
  <2>1. ASSUME NEW U \in SUBSET (0 .. 0), U # {}
        PROVE  Has(U)
    <3>1. \A x \in U : x \in 0 .. 0
      BY <2>1
    <3>2. \A x \in 0 .. 0 : x = 0
      OBVIOUS
    <3>3. \A x \in U : x = 0
      BY <3>1, <3>2
    <3>4. PICK x \in U : TRUE
      BY <2>1
    <3> QED BY <3>3, <3>4
  <2>2. 0 \in 0 .. n
    OBVIOUS
  <2> QED BY <2>1, <2>2
<1>2. ASSUME NEW m \in G, m < n
      PROVE  m + 1 \in G
  <2>1. m \in Nat /\ m + 1 \in 0 .. n
    BY <1>2
  <2>2. ASSUME NEW U \in SUBSET (0 .. m + 1), U # {}
        PROVE  Has(U)
    <3>1. CASE m + 1 \in U
      BY <2>1, <3>1
    <3>2. CASE m + 1 \notin U
      <4>1. U \in SUBSET (0 .. m)
        BY <2>1, <3>2
      <4> QED BY <2>2, <4>1
    <3> QED BY <3>1, <3>2
  <2> QED BY <2>1, <2>2
<1>3. G \in SUBSET (0 .. n)
  OBVIOUS
<1> HIDE DEF G
<1>4. n \in G
  BY <1>1, <1>2, <1>3, FiniteInduction
<1> QED BY <1>4 DEF G

-----------------------------------------------------------------------------
LEMMA GsInitInv ==
    ASSUME GsInit
    PROVE  GsInv
<1>1. GsTypes
  <2>1. NoAction \in [state: GsStates, index: Nat] /\ NotPromoting \in [state: {"nothing", "prepared", "finished"}, index: Nat]
    BY DEF NoAction, NotPromoting, GsStates
  <2>2. NoSync \in GsRuns /\ NoSync.at = "idle"
    BY DEF NoSync, GsRuns
  <2> QED BY <2>1, <2>2 DEF GsInit, GsTypes
<1>2. GsOrders
  BY GsConstants, GroupSyncAssumption DEF GsInit, GsOrders, OrderOk, Own, NotPromoting
<1>3. \A a \in GsAll : gsAction[a].state = "nothing"
  BY DEF GsInit, NoAction
<1>4. GsQueue
  BY <1>3 DEF GsQueue, WithState
<1>5. GsFollow
  <2>1. ASSUME NEW g \in GsGroups
        PROVE  /\ gsMasterOf[Lead(g)] = GsNone
               /\ \A a \in Own(g) : ~ Shown(a)
    <3>1. /\ Lead(g) = Master(g) /\ Master(g) = Head(GsServers[g]) /\ Master(g) \in Own(g) /\ Master(g) \in GsAll
      BY <1>2, GroupIs DEF Lead, GsInit, Master
    <3>2. \A a \in Own(g) : ~ Shown(a)
      BY <1>3, GsConstants DEF Shown
    <3>3. CASE gsMasterOf = [a \in GsAll |-> GsNone]
      BY <3>1, <3>2, <3>3
    <3>4. CASE gsMasterOf # [a \in GsAll |-> GsNone]
      <4> DEFINE Home(a) == CHOOSE h \in GsGroups : \E i \in DOMAIN GsServers[h] : GsServers[h][i] = a
      <4>1. gsMasterOf = [a \in GsAll |-> IF a = Head(GsServers[Home(a)]) THEN GsNone ELSE Head(GsServers[Home(a)])]
        BY <3>4 DEF GsInit
      <4>2. Home(Master(g)) = g
        <5>1. Home(Master(g)) = GroupOf(Master(g))
          BY DEF GroupOf, getGroupByServer, GsInit
        <5> QED BY <1>2, <3>1, <5>1, GroupIs
      <4> HIDE DEF Home
      <4> QED BY <3>1, <3>2, <4>1, <4>2
    <3> QED BY <3>3, <3>4
  <2> QED BY <2>1 DEF GsFollow
<1> QED BY <1>1, <1>2, <1>4, <1>5 DEF GsInv

(* Steps that change no master.                                            *)
LEMMA FollowKept ==
    ASSUME GsInv, UNCHANGED <<gsOrder, gsElected, gsMasterOf, gsStray>>,
           \A a \in GsAll : Shown(a)' => Shown(a)
    PROVE  GsFollow'
<1>1. \A g \in GsGroups : Lead(g)' = Lead(g)
  BY DEF Lead, Master
<1>2. \A g \in GsGroups : \A a \in Own(g) : a \in GsAll
  BY GsConstants
<1> QED BY <1>1, <1>2 DEF GsInv, GsFollow

LEMMA OrdersKept ==
    ASSUME GsInv, UNCHANGED <<gsOrder, gsElected, gsPromoting>>
    PROVE  GsOrders'
BY DEF GsInv, GsOrders, OrderOk

(* An action that takes a record, with an index of its own if it waits.    *)
LEMMA ActionIs ==
    ASSUME GsInv, NEW a \in GsAll, NEW r \in [state: GsStates, index: Nat], gsAction' = [gsAction EXCEPT ![a] = r],
           gsSyncs' \in Nat, gsSyncs' >= gsSyncs,
           r.state = "pending" => /\ r.index <= gsSyncs'
                                  /\ \A b \in WithState("pending") : r.index # gsAction[b].index
    PROVE  /\ gsAction' \in [GsAll -> [state: GsStates, index: Nat]]
           /\ gsAction'[a] = r /\ \A b \in GsAll : b # a => gsAction'[b] = gsAction[b]
           /\ GsQueue'
<1>1. gsAction \in [GsAll -> [state: GsStates, index: Nat]] /\ gsSyncs \in Nat
  BY DEF GsInv, GsTypes
<1>2. gsAction' \in [GsAll -> [state: GsStates, index: Nat]] /\ gsAction'[a] = r
      /\ \A b \in GsAll : b # a => gsAction'[b] = gsAction[b]
  BY <1>1
<1>3. \A b \in GsAll : gsAction[b].index \in Nat
  BY <1>1
<1>4. ASSUME NEW b \in GsAll, gsAction'[b].state = "pending"
      PROVE  gsAction'[b].index <= gsSyncs'
  <2>1. CASE b = a
    BY <1>2, <1>4, <2>1
  <2>2. CASE b # a
    <3>1. gsAction[b].index <= gsSyncs
      BY <1>2, <1>4, <2>2 DEF GsInv, GsQueue, WithState
    <3> QED BY <1>1, <1>2, <1>3, <2>2, <3>1
  <2> QED BY <2>1, <2>2
<1>5. ASSUME NEW b \in GsAll, NEW c \in GsAll, gsAction'[b].state = "pending", gsAction'[c].state = "pending", b # c
      PROVE  gsAction'[b].index # gsAction'[c].index
  BY <1>2, <1>5 DEF GsInv, GsQueue, WithState
<1> QED BY <1>2, <1>4, <1>5 DEF GsQueue, WithState

LEMMA MaxIs ==
    ASSUME GsInv
    PROVE  /\ maxSyncActionIndex \in Nat /\ maxSyncActionIndex <= gsSyncs
           /\ \A b \in WithState("pending") : gsAction[b].index <= maxSyncActionIndex
<1> DEFINE P == WithState("pending")
           S == {gsAction[b].index : b \in P}
<1>1. gsSyncs \in Nat /\ \A b \in P : gsAction[b].index \in Nat /\ gsAction[b].index <= gsSyncs
  BY DEF GsInv, GsTypes, GsQueue, WithState
<1>2. CASE P = {}
  BY <1>1, <1>2 DEF maxSyncActionIndex
<1>3. CASE P # {}
  <2>1. S \in SUBSET (0 .. gsSyncs) /\ S # {}
    BY <1>1, <1>3
  <2>2. \E m \in S : \A x \in S : x <= m
    BY <1>1, <2>1, GreatestExists
  <2>3. \E m \in S : \A b \in P : gsAction[b].index <= m
    BY <2>2
  <2>4. maxSyncActionIndex = CHOOSE m \in S : \A b \in P : gsAction[b].index <= m
    BY <1>3 DEF maxSyncActionIndex
  <2>5. maxSyncActionIndex \in S /\ \A b \in P : gsAction[b].index <= maxSyncActionIndex
    BY <2>3, <2>4
  <2> QED BY <1>1, <2>1, <2>5
<1> QED BY <1>2, <1>3

LEMMA CreateKeepsGs ==
    ASSUME GsInv, NEW a \in GsAll, SyncCreateAction(a)
    PROVE  GsInv'
<1> DEFINE r == [state |-> "pending", index |-> maxSyncActionIndex + 1]
<1>1. /\ gsSyncs \in Nat /\ maxSyncActionIndex \in Nat /\ maxSyncActionIndex <= gsSyncs
      /\ \A b \in WithState("pending") : gsAction[b].index \in Nat /\ gsAction[b].index <= maxSyncActionIndex
  BY MaxIs DEF GsInv, GsTypes, WithState
<1>2. r \in [state: GsStates, index: Nat] /\ r.state = "pending" /\ r.index = maxSyncActionIndex + 1
  BY <1>1 DEF GsStates
<1>3. gsAction' = [gsAction EXCEPT ![a] = r] /\ gsSyncs' = gsSyncs + 1
      /\ UNCHANGED <<gsOrder, gsPromoting, gsRun, gsMasterOf, gsElected, gsStray>>
  BY DEF SyncCreateAction
<1> HIDE DEF r
<1>4. r.index <= gsSyncs' /\ gsSyncs' \in Nat /\ gsSyncs' >= gsSyncs /\ \A b \in WithState("pending") : r.index # gsAction[b].index
  BY <1>1, <1>2, <1>3
<1>5. /\ gsAction' \in [GsAll -> [state: GsStates, index: Nat]] /\ GsQueue'
      /\ gsAction'[a] = r /\ \A b \in GsAll : b # a => gsAction'[b] = gsAction[b]
  BY <1>2, <1>3, <1>4, ActionIs
<1>6. GsTypes'
  BY <1>3, <1>4, <1>5 DEF GsInv, GsTypes
<1>7. \A b \in GsAll : Shown(b)' => Shown(b)
  BY <1>2, <1>3, <1>5 DEF Shown
<1> QED BY <1>3, <1>5, <1>6, <1>7, FollowKept, OrdersKept DEF GsInv

LEMMA RemoveKeepsGs ==
    ASSUME GsInv, NEW a \in GsAll, SyncRemoveAction(a)
    PROVE  GsInv'
<1>1. NoAction \in [state: GsStates, index: Nat] /\ NoAction.state = "nothing" /\ gsSyncs \in Nat
  BY DEF NoAction, GsStates, GsInv, GsTypes
<1>2. gsAction' = [gsAction EXCEPT ![a] = NoAction]
      /\ UNCHANGED <<gsOrder, gsPromoting, gsRun, gsMasterOf, gsElected, gsSyncs, gsStray>>
  BY DEF SyncRemoveAction
<1>3. /\ gsAction' \in [GsAll -> [state: GsStates, index: Nat]] /\ GsQueue'
      /\ gsAction'[a] = NoAction /\ \A b \in GsAll : b # a => gsAction'[b] = gsAction[b]
  <2>1. gsSyncs' \in Nat /\ gsSyncs' >= gsSyncs /\ NoAction.state # "pending"
    BY <1>1, <1>2
  <2> QED BY <1>1, <1>2, <2>1, ActionIs
<1>4. GsTypes'
  BY <1>2, <1>3 DEF GsInv, GsTypes
<1>5. \A b \in GsAll : Shown(b)' => Shown(b)
  BY <1>1, <1>2, <1>3 DEF Shown
<1> QED BY <1>2, <1>3, <1>4, <1>5, FollowKept, OrdersKept DEF GsInv

LEMMA PrepareKeepsGs ==
    ASSUME GsInv, SyncActionPrepare
    PROVE  GsInv'
<1> PICK a \in GsAll : /\ gsAction' = [gsAction EXCEPT ![a] = [state |-> "syncing", index |-> 0]]
                       /\ gsRun' = [NoSync EXCEPT !.at = "prepared", !.addr = a]
  BY DEF SyncActionPrepare, WithState
<1> DEFINE r == [state |-> "syncing", index |-> 0]
<1>1. r \in [state: GsStates, index: Nat] /\ r.state = "syncing" /\ gsSyncs \in Nat
  BY DEF GsStates, GsInv, GsTypes
<1>2. gsAction' = [gsAction EXCEPT ![a] = r] /\ gsRun.at = "idle"
      /\ UNCHANGED <<gsOrder, gsPromoting, gsMasterOf, gsElected, gsSyncs, gsStray>>
  BY DEF SyncActionPrepare
<1> HIDE DEF r
<1>3. /\ gsAction' \in [GsAll -> [state: GsStates, index: Nat]] /\ GsQueue'
      /\ gsAction'[a] = r /\ \A b \in GsAll : b # a => gsAction'[b] = gsAction[b]
  <2>1. gsSyncs' \in Nat /\ gsSyncs' >= gsSyncs /\ r.state # "pending"
    BY <1>1, <1>2
  <2> QED BY <1>1, <1>2, <2>1, ActionIs
<1>4. gsRun' \in GsRuns /\ gsRun'.at = "prepared" /\ gsRun'.addr = a
  BY DEF GsRuns, NoSync
<1>5. GsTypes'
  BY <1>2, <1>3, <1>4 DEF GsInv, GsTypes
<1>6. \A b \in GsAll : Shown(b)' => Shown(b)
  BY <1>1, <1>3, <1>4 DEF Shown
<1> QED BY <1>2, <1>3, <1>5, <1>6, FollowKept, OrdersKept DEF GsInv

(* The run goes on or ends, and nothing else changes.                      *)
LEMMA RunOnlyKeeps ==
    ASSUME GsInv, gsRun' \in GsRuns, gsRun'.at # "idle" => gsRun'.addr \in GsAll, gsRun'.at # "complete",
           gsSyncs' \in Nat, gsSyncs' >= gsSyncs,
           UNCHANGED <<gsOrder, gsAction, gsPromoting, gsMasterOf, gsElected, gsStray>>
    PROVE  GsInv'
<1>1. GsTypes'
  BY DEF GsInv, GsTypes
<1>2. GsQueue'
  <2>1. gsSyncs \in Nat /\ \A a \in GsAll : gsAction[a].index \in Nat
    BY DEF GsInv, GsTypes
  <2> QED BY <2>1 DEF GsInv, GsQueue, WithState
<1>3. \A b \in GsAll : Shown(b)' => Shown(b)
  BY DEF Shown
<1> QED BY <1>1, <1>2, <1>3, FollowKept, OrdersKept DEF GsInv

LEMMA NoSyncIs ==
    NoSync \in GsRuns /\ NoSync.at = "idle"
BY DEF NoSync, GsRuns

LEMMA ExecutorKeepsGs ==
    ASSUME GsInv, newSyncActionExecutor
    PROVE  GsInv'
<1>1. /\ gsRun \in GsRuns /\ gsRun.addr \in GsAll /\ gsSyncs \in Nat /\ UNCHANGED gsSyncs
      /\ UNCHANGED <<gsOrder, gsAction, gsPromoting, gsMasterOf, gsElected, gsStray>>
  BY DEF GsInv, GsTypes, newSyncActionExecutor
<1>2. CASE gsRun' = NoSync
  BY <1>1, <1>2, NoSyncIs, RunOnlyKeeps
<1>3. CASE gsRun' = [gsRun EXCEPT !.at = "exec", !.master = Target(gsRun.addr)]
  <2>1. Target(gsRun.addr) \in GsAll \cup {GsNone}
    BY <1>1, HomeIs, GroupIs DEF Target, GsInv
  <2>2. gsRun' \in GsRuns /\ gsRun'.at = "exec" /\ gsRun'.addr = gsRun.addr
    BY <1>1, <1>3, <2>1 DEF GsRuns
  <2> QED BY <1>1, <2>2, RunOnlyKeeps
<1> QED BY <1>2, <1>3 DEF newSyncActionExecutor

LEMMA RestartKeepsGs ==
    ASSUME GsInv, GsRestart
    PROVE  GsInv'
<1>1. /\ gsSyncs' \in Nat /\ gsSyncs' >= gsSyncs /\ gsRun' = NoSync
      /\ UNCHANGED <<gsOrder, gsAction, gsPromoting, gsMasterOf, gsElected, gsStray>>
  BY DEF GsInv, GsTypes, GsRestart
<1> QED BY <1>1, NoSyncIs, RunOnlyKeeps

LEMMA SetMasterKeepsGs ==
    ASSUME GsInv, SetMaster
    PROVE  GsInv'
<1>1. /\ gsRun \in GsRuns /\ gsRun.addr \in GsAll /\ gsRun.at = "exec" /\ gsSyncs \in Nat
      /\ UNCHANGED <<gsOrder, gsAction, gsPromoting, gsElected>>
  BY DEF GsInv, GsTypes, SetMaster
<1> PICK a \in GsAll : a = gsRun.addr
  BY <1>1
<1>2. GsOrders /\ GsOrders'
  BY <1>1, OrdersKept DEF GsInv
<1>3. CASE /\ gsSyncs' = gsSyncs + 1
           /\ gsRun' = [gsRun EXCEPT !.at = "complete", !.failed = TRUE]
           /\ UNCHANGED <<gsMasterOf, gsStray>>
  <2>1. gsRun' \in GsRuns /\ gsRun'.at = "complete" /\ gsRun'.addr = a /\ gsRun'.failed = TRUE
    BY <1>1, <1>3 DEF GsRuns
  <2>2. GsTypes'
    BY <1>1, <1>3, <2>1 DEF GsInv, GsTypes
  <2>3. GsQueue'
    <3>1. \A b \in GsAll : gsAction[b].index \in Nat
      BY DEF GsInv, GsTypes
    <3> QED BY <1>1, <1>3, <3>1 DEF GsInv, GsQueue, WithState
  <2>4. \A b \in GsAll : Shown(b)' => Shown(b)
    BY <1>1, <2>1 DEF Shown
  <2> QED BY <1>1, <1>2, <1>3, <2>2, <2>3, <2>4, FollowKept DEF GsInv
<1>4. CASE /\ gsMasterOf' = [gsMasterOf EXCEPT ![a] = gsRun.master]
           /\ gsRun' = [gsRun EXCEPT !.at = "complete"]
           /\ gsStray' = IF gsElected[GroupOf(a)] = GsNone /\ gsRun.master = Target(a)
                         THEN gsStray \ {a} ELSE gsStray \cup {a}
           /\ UNCHANGED gsSyncs
  <2>1. gsRun' \in GsRuns /\ gsRun'.at = "complete" /\ gsRun'.addr = a
    BY <1>1, <1>4 DEF GsRuns
  <2>2. GsTypes' /\ GsQueue'
    BY <1>1, <1>4, <2>1 DEF GsInv, GsTypes, GsQueue, WithState
  <2>3. \A g \in GsGroups : Lead(g)' = Lead(g)
    BY <1>1 DEF Lead, Master
  <2>4. PICK h \in GsGroups : a \in Own(h) /\ GroupOf(a) = h
    BY <1>2, HomeIs
  <2>5. a \notin gsStray' => gsMasterOf'[a] = IF a = Lead(h) THEN GsNone ELSE Lead(h)
    <3>1. SUFFICES ASSUME a \notin gsStray'
                   PROVE  gsMasterOf'[a] = IF a = Lead(h) THEN GsNone ELSE Lead(h)
      OBVIOUS
    <3>2. gsElected[h] = GsNone /\ gsRun.master = Target(a)
      BY <1>4, <2>4, <3>1
    <3>3. gsMasterOf'[a] = Target(a)
      BY <1>4, <3>2 DEF GsInv, GsTypes
    <3> QED BY <2>4, <3>2, <3>3 DEF Target, Lead
  <2>6. \A b \in GsAll : b # a => gsMasterOf'[b] = gsMasterOf[b] /\ (b \in gsStray' <=> b \in gsStray)
                                  /\ (Shown(b)' => Shown(b))
    BY <1>1, <1>4, <2>1 DEF GsInv, GsTypes, Shown
  <2>7. GsFollow'
    <3>1. SUFFICES ASSUME NEW g \in GsGroups
                   PROVE  /\ Lead(g) \notin gsStray' => gsMasterOf'[Lead(g)] = GsNone
                          /\ \A b \in Own(g) \ gsStray' : Shown(b)' => gsMasterOf'[b] = IF b = Lead(g) THEN GsNone ELSE Lead(g)
      BY <2>3 DEF GsFollow
    <3>2. Lead(g) \in Own(g) /\ \A b \in Own(g) : b \in GsAll /\ GroupOf(b) = g
      BY <1>2, GroupIs DEF Lead, GsOrders
    <3>3. a \in Own(g) => g = h
      BY <2>4, <3>2
    <3>4. /\ Lead(g) \notin gsStray => gsMasterOf[Lead(g)] = GsNone
          /\ \A b \in Own(g) \ gsStray : Shown(b) => gsMasterOf[b] = IF b = Lead(g) THEN GsNone ELSE Lead(g)
      BY DEF GsInv, GsFollow
    <3>5. \A b \in Own(g) \ gsStray' : Shown(b)' => gsMasterOf'[b] = IF b = Lead(g) THEN GsNone ELSE Lead(g)
      BY <2>5, <2>6, <3>2, <3>3, <3>4
    <3>6. Lead(g) \notin gsStray' => gsMasterOf'[Lead(g)] = GsNone
      BY <2>5, <2>6, <3>2, <3>3, <3>4
    <3> QED BY <3>5, <3>6
  <2> QED BY <1>2, <2>2, <2>7 DEF GsInv
<1> QED BY <1>3, <1>4 DEF SetMaster

LEMMA CompleteKeepsGs ==
    ASSUME GsInv, SyncActionComplete
    PROVE  GsInv'
<1>1. /\ gsRun \in GsRuns /\ gsRun.addr \in GsAll /\ gsRun.at = "complete" /\ gsRun' = NoSync /\ gsSyncs \in Nat
      /\ UNCHANGED <<gsOrder, gsPromoting, gsMasterOf, gsElected, gsSyncs, gsStray>>
  BY DEF GsInv, GsTypes, SyncActionComplete
<1> PICK a \in GsAll : a = gsRun.addr
  BY <1>1
<1>2. CASE UNCHANGED gsAction
  <2>1. gsSyncs' \in Nat /\ gsSyncs' >= gsSyncs
    BY <1>1
  <2> QED BY <1>1, <1>2, <2>1, NoSyncIs, RunOnlyKeeps
<1>3. CASE /\ gsAction[a].state = "syncing"
           /\ gsAction' = [gsAction EXCEPT ![a].state = IF gsRun.failed THEN "synced_failed" ELSE "synced"]
  <2> DEFINE s == IF gsRun.failed THEN "synced_failed" ELSE "synced"
             r == [gsAction[a] EXCEPT !.state = s]
  <2>1. r \in [state: GsStates, index: Nat] /\ r.state = s /\ r.state # "pending"
    BY DEF GsInv, GsTypes, GsStates
  <2>2. gsAction' = [gsAction EXCEPT ![a] = r]
    BY <1>3
  <2> HIDE DEF r
  <2>3. gsSyncs' \in Nat /\ gsSyncs' >= gsSyncs
    BY <1>1
  <2>4. /\ gsAction' \in [GsAll -> [state: GsStates, index: Nat]] /\ GsQueue'
        /\ gsAction'[a] = r /\ \A b \in GsAll : b # a => gsAction'[b] = gsAction[b]
    BY <2>1, <2>2, <2>3, ActionIs
  <2>5. GsTypes'
    BY <1>1, <2>4, NoSyncIs DEF GsInv, GsTypes
  <2>6. \A b \in GsAll : Shown(b)' => Shown(b)
    <3>1. gsRun.failed \in BOOLEAN
      BY <1>1 DEF GsRuns
    <3> QED BY <1>1, <1>3, <2>1, <2>4, <3>1, NoSyncIs DEF Shown
  <2> QED BY <1>1, <2>4, <2>5, <2>6, FollowKept, OrdersKept DEF GsInv
<1> QED BY <1>2, <1>3 DEF SyncActionComplete

(* Promoting goes on or ends.                                              *)
LEMMA PromotingOnlyKeeps ==
    ASSUME GsInv, gsPromoting' \in [GsGroups -> [state: {"nothing", "prepared", "finished"}, index: Nat]],
           \A g \in GsGroups : gsPromoting'[g].state = "prepared" => gsPromoting'[g].index \in 2 .. Len(GsServers[g]),
           UNCHANGED <<gsOrder, gsAction, gsRun, gsMasterOf, gsElected, gsSyncs, gsStray>>
    PROVE  GsInv'
<1>1. GsTypes'
  BY DEF GsInv, GsTypes
<1>2. GsOrders'
  BY DEF GsInv, GsOrders, OrderOk
<1>3. GsQueue' /\ \A b \in GsAll : Shown(b)' => Shown(b)
  BY DEF GsInv, GsQueue, WithState, Shown
<1> QED BY <1>1, <1>2, <1>3, FollowKept DEF GsInv

LEMMA BeginsKeepsGs ==
    ASSUME GsInv, NEW a \in GsAll, PromoteBegins(a)
    PROVE  GsInv'
<1>1. GsOrders /\ GsTypes
  BY DEF GsInv
<1>2. PICK g \in GsGroups : g = GroupOf(a)
  BY <1>1, HomeIs
<1>3. PICK i \in DOMAIN gsOrder[g] : /\ gsOrder[g][i] = a
                                     /\ gsPromoting' = [gsPromoting EXCEPT ![g] = [state |-> "prepared", index |-> i]]
  BY <1>2 DEF PromoteBegins
<1>4. i \in 2 .. Len(GsServers[g])
  <2>1. gsOrder[g] \in Seq(GsAll) /\ Len(gsOrder[g]) = Len(GsServers[g])
    BY <1>1 DEF GsOrders, OrderOk
  <2>2. i \in 1 .. Len(GsServers[g]) /\ Len(GsServers[g]) \in Nat
    BY <2>1, LenProperties
  <2>3. i # 1
    BY <1>1, <1>2, <1>3, GroupIs DEF PromoteBegins
  <2> QED BY <2>2, <2>3
<1>5. [state |-> "prepared", index |-> i] \in [state: {"nothing", "prepared", "finished"}, index: Nat]
  BY <1>4, GsConstants
<1>6. gsPromoting' \in [GsGroups -> [state: {"nothing", "prepared", "finished"}, index: Nat]]
  BY <1>1, <1>3, <1>5 DEF GsTypes
<1>7. \A h \in GsGroups : gsPromoting'[h].state = "prepared" => gsPromoting'[h].index \in 2 .. Len(GsServers[h])
  BY <1>1, <1>3, <1>4 DEF GsTypes, GsOrders
<1>8. UNCHANGED <<gsOrder, gsAction, gsRun, gsMasterOf, gsElected, gsSyncs, gsStray>>
  BY DEF PromoteBegins
<1> QED BY <1>6, <1>7, <1>8, PromotingOnlyKeeps

LEMMA EndsKeepsGs ==
    ASSUME GsInv, NEW g \in GsGroups, PromoteEnds(g)
    PROVE  GsInv'
<1>1. NotPromoting \in [state: {"nothing", "prepared", "finished"}, index: Nat] /\ NotPromoting.state = "nothing"
  BY DEF NotPromoting
<1>2. /\ gsPromoting' \in [GsGroups -> [state: {"nothing", "prepared", "finished"}, index: Nat]]
      /\ \A h \in GsGroups : gsPromoting'[h].state = "prepared" => gsPromoting'[h].index \in 2 .. Len(GsServers[h])
  BY <1>1 DEF PromoteEnds, GsInv, GsTypes, GsOrders
<1>3. UNCHANGED <<gsOrder, gsAction, gsRun, gsMasterOf, gsElected, gsSyncs, gsStray>>
  BY DEF PromoteEnds
<1> QED BY <1>2, <1>3, PromotingOnlyKeeps

LEMMA ExchangesKeepsGs ==
    ASSUME GsInv, NEW g \in GsGroups, PromoteExchanges(g)
    PROVE  GsInv'
<1> DEFINE s == gsOrder[g]
           n == gsPromoting[g].index
           new == s[n]
           r == exchanged(s, n)
           f == [state |-> "finished", index |-> 0]
<1>1. GsOrders /\ GsTypes /\ GsQueue /\ GsFollow
  BY DEF GsInv
<1>2. /\ s \in Seq(GsAll) /\ Len(s) = Len(GsServers[g]) /\ Distinct(s) /\ Elements(s) = Own(g)
      /\ n \in 2 .. Len(s)
  BY <1>1 DEF GsOrders, OrderOk, PromoteExchanges
<1>3. new \in Own(g)
  <2>1. n \in 1 .. Len(s)
    BY <1>2, LenProperties
  <2> QED BY <1>2, <2>1 DEF Elements
<1>4. r \in Seq(GsAll) /\ Len(r) = Len(s) /\ Distinct(r) /\ Elements(r) = Elements(s) /\ r[1] = new
  BY <1>2, ExchangedIs
<1>5. /\ gsPromoting' = [gsPromoting EXCEPT ![g] = f]
      /\ gsOrder' = [gsOrder EXCEPT ![g] = r]
      /\ gsAction' = clearedActions(g)
      /\ \/ gsMasterOf' = [gsMasterOf EXCEPT ![new] = GsNone] /\ gsStray' = gsStray \ {new}
         \/ gsStray' = gsStray \cup {new} /\ UNCHANGED gsMasterOf
      /\ UNCHANGED <<gsRun, gsElected, gsSyncs>>
  BY DEF PromoteExchanges
<1>6. f \in [state: {"nothing", "prepared", "finished"}, index: Nat] /\ f.state = "finished"
  OBVIOUS
<1> HIDE DEF f, r, s, n
<1>7. \A h \in GsGroups : Members(h) = Own(h) /\ Master(h) \in Own(h) /\ \A b \in Own(h) : b \in GsAll /\ GroupOf(b) = h
  BY <1>1, GroupIs
<1>8. /\ gsAction' \in [GsAll -> [state: GsStates, index: Nat]]
      /\ \A b \in GsAll : gsAction'[b] = IF b \in Own(g) THEN NoAction ELSE gsAction[b]
  <2>1. NoAction \in [state: GsStates, index: Nat]
    BY DEF NoAction, GsStates
  <2>2. gsAction' = [b \in GsAll |-> IF b \in Own(g) THEN NoAction ELSE gsAction[b]]
    BY <1>5, <1>7 DEF clearedActions
  <2> QED BY <1>1, <2>1, <2>2 DEF GsTypes
<1>9. NoAction.state = "nothing"
  BY DEF NoAction
<1>10. GsTypes'
  <2>1. DOMAIN gsMasterOf' = GsAll
    BY <1>1, <1>5 DEF GsTypes
  <2>2. gsPromoting' \in [GsGroups -> [state: {"nothing", "prepared", "finished"}, index: Nat]]
    BY <1>1, <1>5, <1>6 DEF GsTypes
  <2> QED BY <1>1, <1>5, <1>8, <2>1, <2>2 DEF GsTypes
<1>11. DOMAIN gsOrder' = GsGroups /\ \A h \in GsGroups : gsOrder'[h] = IF h = g THEN r ELSE gsOrder[h]
  BY <1>1, <1>5 DEF GsOrders
<1>12. GsOrders'
  <2>1. \A h \in GsGroups : OrderOk(h)'
    BY <1>1, <1>2, <1>4, <1>11 DEF GsOrders, OrderOk, s
  <2>2. \A h \in GsGroups : gsPromoting'[h].state = "prepared" => gsPromoting'[h].index \in 2 .. Len(GsServers[h])
    BY <1>1, <1>5, <1>6 DEF GsTypes, GsOrders
  <2>3. \A h \in GsGroups : gsElected'[h] # GsNone => gsElected'[h] \in Own(h)
    BY <1>1, <1>5 DEF GsOrders
  <2> QED BY <1>11, <2>1, <2>2, <2>3 DEF GsOrders
<1>13. GsQueue'
  BY <1>1, <1>5, <1>8, <1>9 DEF GsQueue, WithState
<1>14. GsFollow'
  <2>1. ASSUME NEW h \in GsGroups
        PROVE  Lead(h)' = IF gsElected[h] = GsNone THEN IF h = g THEN new ELSE Master(h) ELSE gsElected[h]
    <3>1. Master(h)' = gsOrder'[h][1] /\ Master(h) = gsOrder[h][1]
      <4>1. gsOrder'[h] \in Seq(GsAll) /\ Len(gsOrder'[h]) \in Nat /\ Len(gsOrder'[h]) >= 1
        BY <1>12, GsConstants DEF GsOrders, OrderOk
      <4>2. gsOrder'[h] # << >>
        BY <4>1, EmptySeq
      <4>3. Master(h)' = gsOrder'[h][1]
        BY <4>1, <4>2, HeadTailProperties DEF Master
      <4> QED BY <1>1, <4>3, GroupIs
    <3> QED BY <1>4, <1>5, <1>11, <3>1 DEF Lead
  <2>2. \A b \in GsAll : b # new => gsMasterOf'[b] = gsMasterOf[b] /\ (b \in gsStray' <=> b \in gsStray)
    BY <1>1, <1>5 DEF GsTypes
  <2>3. new \notin gsStray' => gsMasterOf'[new] = GsNone
    <3>1. new \in GsAll
      BY <1>3, <1>7
    <3> QED BY <1>1, <1>5, <3>1 DEF GsTypes
  <2>4. \A b \in GsAll : /\ b \in Own(g) => ~ Shown(b)'
                         /\ b \notin Own(g) => (Shown(b)' => Shown(b))
    BY <1>5, <1>8, <1>9 DEF Shown
  <2>5. SUFFICES ASSUME NEW h \in GsGroups
                 PROVE  /\ Lead(h)' \notin gsStray' => gsMasterOf'[Lead(h)'] = GsNone
                        /\ \A b \in Own(h) \ gsStray' : Shown(b)' => gsMasterOf'[b] = IF b = Lead(h)' THEN GsNone ELSE Lead(h)'
    BY DEF GsFollow
  <2>6. /\ Lead(h) \notin gsStray => gsMasterOf[Lead(h)] = GsNone
        /\ \A b \in Own(h) \ gsStray : Shown(b) => gsMasterOf[b] = IF b = Lead(h) THEN GsNone ELSE Lead(h)
    BY <1>1 DEF GsFollow
  <2>7. Lead(h) \in Own(h)
    BY <1>1, <1>7 DEF Lead, GsOrders
  <2>8. CASE h = g
    <3>1. Lead(h)' = new \/ Lead(h)' = Lead(h)
      BY <2>1, <2>8 DEF Lead
    <3>2. Lead(h)' \notin gsStray' => gsMasterOf'[Lead(h)'] = GsNone
      BY <1>7, <2>2, <2>3, <2>6, <2>7, <3>1
    <3> QED BY <1>7, <2>4, <2>8, <3>2
  <2>9. CASE h # g
    <3>1. Lead(h)' = Lead(h)
      BY <2>1, <2>9 DEF Lead
    <3>2. new \notin Own(h) /\ \A b \in Own(h) : b \in GsAll /\ b \notin Own(g)
      BY <1>3, <1>7, <2>9, GsConstants
    <3> QED BY <2>2, <2>4, <2>6, <2>7, <3>1, <3>2
  <2> QED BY <2>8, <2>9
<1> QED BY <1>10, <1>12, <1>13, <1>14 DEF GsInv

LEMMA FailoverKeepsGs ==
    ASSUME GsInv, NEW g \in GsGroups, NEW a \in GsAll, Failover(g, a)
    PROVE  GsInv'
<1>1. GsOrders /\ GsTypes /\ GsQueue /\ GsFollow
  BY DEF GsInv
<1>2. \A h \in GsGroups : Members(h) = Own(h) /\ Master(h) \in Own(h) /\ \A b \in Own(h) : b \in GsAll /\ GroupOf(b) = h
  BY <1>1, GroupIs
<1>3. /\ a \in Own(g)
      /\ gsElected' = [gsElected EXCEPT ![g] = a]
      /\ gsMasterOf' = [x \in GsAll |-> IF x = a THEN GsNone ELSE IF x \in Own(g) THEN a ELSE gsMasterOf[x]]
      /\ UNCHANGED <<gsOrder, gsAction, gsPromoting, gsRun, gsSyncs, gsStray>>
  BY <1>2 DEF Failover
<1>4. GsTypes'
  BY <1>1, <1>3 DEF GsTypes
<1>5. \A h \in GsGroups : gsElected'[h] = IF h = g THEN a ELSE gsElected[h]
  BY <1>1, <1>3 DEF GsTypes
<1>6. GsOrders'
  BY <1>1, <1>3, <1>5 DEF GsOrders, OrderOk
<1>7. GsQueue' /\ \A b \in GsAll : Shown(b)' => Shown(b)
  BY <1>1, <1>3 DEF GsQueue, WithState, Shown
<1>8. GsFollow'
  <2>1. \A h \in GsGroups : Lead(h)' = IF h = g THEN a ELSE Lead(h)
    BY <1>3, <1>5, GsConstants DEF Lead, Master
  <2>2. SUFFICES ASSUME NEW h \in GsGroups
                 PROVE  /\ Lead(h)' \notin gsStray => gsMasterOf'[Lead(h)'] = GsNone
                        /\ \A b \in Own(h) \ gsStray : Shown(b)' => gsMasterOf'[b] = IF b = Lead(h)' THEN GsNone ELSE Lead(h)'
    BY <1>3 DEF GsFollow
  <2>3. CASE h = g
    BY <1>2, <1>3, <2>1, <2>3
  <2>4. CASE h # g
    <3>1. Lead(h)' = Lead(h) /\ Lead(h) \in Own(h) /\ \A b \in Own(h) : b \in GsAll /\ b \notin Own(g) /\ b # a
      BY <1>1, <1>2, <1>3, <2>1, <2>4, GsConstants DEF Lead, GsOrders
    <3>2. \A b \in Own(h) : gsMasterOf'[b] = gsMasterOf[b]
      BY <1>3, <3>1
    <3> QED BY <1>1, <1>7, <3>1, <3>2 DEF GsFollow
  <2> QED BY <2>3, <2>4
<1> QED BY <1>4, <1>6, <1>7, <1>8 DEF GsInv

LEMMA SwitchKeepsGs ==
    ASSUME GsInv, NEW g \in GsGroups, trySwitchGroupMaster(g)
    PROVE  GsInv'
<1>1. GsOrders /\ GsTypes /\ GsQueue /\ GsFollow
  BY DEF GsInv
<1>2. PICK a : a = gsElected[g]
  OBVIOUS
<1> DEFINE s == gsOrder[g]
           r == ListWith(s, a)
<1>3. /\ s \in Seq(GsAll) /\ Len(s) = Len(GsServers[g]) /\ Distinct(s) /\ Elements(s) = Own(g) /\ a \in Elements(s)
      /\ a # GsNone
  BY <1>1, <1>2 DEF GsOrders, OrderOk, trySwitchGroupMaster
<1>4. r \in Seq(GsAll) /\ Len(r) = Len(s) /\ Distinct(r) /\ Elements(r) = Elements(s) /\ r[1] = a
  BY <1>3, SwitchedIs
<1>5. /\ gsElected' = [gsElected EXCEPT ![g] = GsNone]
      /\ gsOrder' = [gsOrder EXCEPT ![g] = r]
      /\ UNCHANGED <<gsAction, gsPromoting, gsRun, gsMasterOf, gsSyncs, gsStray>>
  BY <1>2 DEF trySwitchGroupMaster, ListWith
<1> HIDE DEF r, s
<1>6. GsTypes'
  BY <1>1, <1>5 DEF GsTypes
<1>7. /\ \A h \in GsGroups : gsElected'[h] = IF h = g THEN GsNone ELSE gsElected[h]
      /\ DOMAIN gsOrder' = GsGroups /\ \A h \in GsGroups : gsOrder'[h] = IF h = g THEN r ELSE gsOrder[h]
  BY <1>1, <1>5 DEF GsTypes, GsOrders
<1>8. GsOrders'
  <2>1. \A h \in GsGroups : OrderOk(h)'
    BY <1>1, <1>3, <1>4, <1>7 DEF GsOrders, OrderOk
  <2> QED BY <1>1, <1>5, <1>7, <2>1 DEF GsOrders
<1>9. GsQueue' /\ \A b \in GsAll : Shown(b)' => Shown(b)
  BY <1>1, <1>5 DEF GsQueue, WithState, Shown
<1>10. GsFollow'
  <2>1. Master(g)' = a
    <3>1. gsOrder'[g] \in Seq(GsAll) /\ gsOrder'[g][1] = a /\ Len(gsOrder'[g]) \in Nat /\ Len(gsOrder'[g]) >= 1
      BY <1>3, <1>4, <1>7, GsConstants
    <3>2. gsOrder'[g] # << >>
      BY <3>1, EmptySeq
    <3> QED BY <3>1, <3>2, HeadTailProperties DEF Master
  <2>2. \A h \in GsGroups : Lead(h)' = Lead(h)
    BY <1>2, <1>3, <1>7, <2>1 DEF Lead, Master
  <2>3. \A h \in GsGroups : \A b \in Own(h) : b \in GsAll
    BY GsConstants
  <2> QED BY <1>1, <1>5, <1>9, <2>2, <2>3 DEF GsFollow
<1> QED BY <1>6, <1>8, <1>9, <1>10 DEF GsInv

LEMMA GsStepKeepsInv ==
    ASSUME GsInv, [GsNext]_gsVars
    PROVE  GsInv'
<1>1. CASE UNCHANGED gsVars
  <2>1. UNCHANGED <<gsOrder, gsAction, gsPromoting, gsRun, gsMasterOf, gsElected, gsSyncs, gsStray>>
    BY <1>1 DEF gsVars
  <2>2. GsTypes' /\ GsQueue' /\ \A b \in GsAll : Shown(b)' => Shown(b)
    BY <2>1 DEF GsInv, GsTypes, GsQueue, WithState, Shown
  <2> QED BY <2>1, <2>2, FollowKept, OrdersKept DEF GsInv
<1>2. CASE GsNext
  BY <1>2, CreateKeepsGs, RemoveKeepsGs, BeginsKeepsGs, PrepareKeepsGs, ExecutorKeepsGs, SetMasterKeepsGs,
     CompleteKeepsGs, RestartKeepsGs, ExchangesKeepsGs, EndsKeepsGs, SwitchKeepsGs, FailoverKeepsGs
     DEF GsNext, ProcessSyncAction
<1> QED BY <1>1, <1>2

LEMMA GsInvFollows ==
    ASSUME GsInv
    PROVE  ReplicasFollow
<1>1. GsOrders /\ GsTypes /\ GsQueue /\ GsFollow
  BY DEF GsInv
<1>2. \A h \in GsGroups : Members(h) = Own(h) /\ Master(h) \in Own(h) /\ \A b \in Own(h) : b \in GsAll /\ GroupOf(b) = h
  BY <1>1, GroupIs
<1>3. GsTypeOK
  <2>1. \A g \in GsGroups : {GsServers[g][i] : i \in DOMAIN GsServers[g]} = Own(g)
    BY GsConstants DEF Own, Elements
  <2>2. \A a \in GsAll : gsAction[a].state \in GsStates
    BY <1>1 DEF GsTypes
  <2> QED BY <1>1, <1>2, <2>1, <2>2 DEF GsTypeOK, GsOrders, OrderOk, GsQueue, GsStates
<1>4. SyncedReplicates
  <2>1. SUFFICES ASSUME NEW a \in GsAll, gsAction[a].state = "synced", a \notin gsStray, gsElected[GroupOf(a)] = GsNone
                 PROVE  gsMasterOf[a] = Target(a)
    BY DEF SyncedReplicates, WithState
  <2>2. PICK g \in GsGroups : g = GroupOf(a) /\ a \in Own(g)
    BY <1>1, HomeIs
  <2>3. Lead(g) = Master(g) /\ Shown(a)
    BY <2>1, <2>2 DEF Lead, Shown
  <2> QED BY <1>1, <2>1, <2>2, <2>3 DEF GsFollow, Target
<1>5. MastersReplicateNone
  BY <1>1 DEF MastersReplicateNone, GsFollow, Lead
<1> QED BY <1>3, <1>4, <1>5 DEF ReplicasFollow

(* A server that is shown as synced replicates the master its group has,   *)
(* and the master none, through promotions, failovers and restarts, unless *)
(* an executor of before told it after or its promotion failed; the        *)
(* servers of a group stay its servers, and actions that wait have         *)
(* different indexes (topom_group.go:290-335, 456-608).                    *)
THEOREM ReplicasTheorem == GsSpec => []ReplicasFollow
<1>1. GsInit => GsInv
  BY GsInitInv
<1>2. GsInv /\ [GsNext]_gsVars => GsInv'
  BY GsStepKeepsInv
<1>3. GsInv => ReplicasFollow
  BY GsInvFollows
<1> QED BY <1>1, <1>2, <1>3, PTL DEF GsSpec

-----------------------------------------------------------------------------
(* ACL.                                                                    *)

ACLs  == [rev: 0 .. MaxAcRev, users: AllUsers]
AcOps == [kind: {"none", "update", "sync", "add", "stored"}, acl: ACLs, todo: SUBSET AcServers,
          proxies: SUBSET AcProxies, failed: SUBSET AcProxies]

AcTypes ==
    /\ acStore \in ACLs
    /\ acCache = NilACL \/ acCache \in ACLs
    /\ acServer \in [AcServers -> AllUsers]
    /\ acMember \subseteq AcServers
    /\ acProxy \in [AcProxies -> ACLs]
    /\ acLate \subseteq [proxy: AcProxies, acl: ACLs]
    /\ acOp \in AcOps
    /\ acClean \in BOOLEAN

(* What the calls go by.                                                   *)
AcCalls ==
    /\ acOp.kind \in {"update", "sync", "add"} => acCache # NilACL
    /\ acOp.kind = "update" => acOp.acl.rev = acCache.rev + 1 /\ acOp.proxies = AcProxies
    /\ acOp.kind \in {"sync", "add"} => acOp.acl = acCache
    /\ acOp.kind = "stored" => acOp.acl = acStore /\ acCache = NilACL
    /\ acOp.kind \in {"none", "stored"} => acOp.todo = {}
    /\ acOp.kind \in {"update", "sync"} => acOp.todo \subseteq acMember
    /\ acOp.kind \in {"update", "sync", "stored"} => ~ acClean
    /\ acOp.kind = "sync" /\ acOp.todo # {} => shouldSyncACLRuntime(acOp.acl)
    /\ acOp.kind = "add" => acOp.todo \cap acMember = {}

Follows(server, users) == \A u \in AcUsers : users[u] # 0 => server[u] = users[u]

(* What calls have done: servers and proxies that they are through with    *)
(* have the ACL, unless a proxy was overwritten by a call of before.       *)
AcDone ==
    /\ acOp.kind \in {"update", "sync", "stored"} => \A s \in acMember \ acOp.todo : Follows(acServer[s], acOp.acl.users)
    /\ acOp.kind \in {"sync", "stored"} => \A p \in AcProxies \ (acOp.proxies \cup acOp.failed \cup acOver) : acProxy[p] = acOp.acl
    /\ acClean /\ acOp.kind \in {"none", "add"} =>
          /\ \A s \in acMember : Follows(acServer[s], Cached.users)
          /\ \A p \in AcProxies \ acOver : acProxy[p] = Cached

(* The users a server has been brought to, and what it has besides.        *)
Held(s) == IF acOp.kind = "update" /\ s \notin acOp.todo THEN acOp.acl.users ELSE Cached.users

AcStrays == \A s \in acMember, u \in AcUsers : acServer[s][u] # 0 /\ Held(s)[u] = 0 => <<s, u>> \in acStray

(* Proxies and calls that were given up are not ahead of the ACL of the    *)
(* dashboard, nor is that ahead of the store.                              *)
NotAhead(a, b) == a.rev <= b.rev /\ (a.rev = b.rev => a.users = b.users)

AcRevs ==
    /\ NotAhead(Cached, acStore)
    /\ \A p \in AcProxies : NotAhead(acProxy[p], Cached)
    /\ \A l \in acLate : NotAhead(l.acl, Cached)

(* The inductive invariant of ACL.                                         *)
AcInv == AcTypes /\ AcCalls /\ AcDone /\ AcStrays /\ AcRevs

LEMMA AcConstants ==
    /\ MaxAcRev \in Nat /\ MaxAcRev >= 1 /\ MaxAcDef \in Nat /\ NilACL \notin ACLs
    /\ NoUsers \in AllUsers /\ NoACL \in ACLs /\ NoACL.rev = 0 /\ NoACL.users = NoUsers
    /\ \A u \in AcUsers : NoUsers[u] = 0
    /\ NoOp \in AcOps /\ NoOp.kind = "none" /\ NoOp.todo = {}
<1>1. MaxAcRev \in Nat /\ MaxAcRev >= 1 /\ MaxAcDef \in Nat /\ AcUsers # {}
  BY ACLAssumption
<1>2. 0 \in 0 .. MaxAcDef /\ 0 \in 0 .. MaxAcRev
  BY <1>1
<1>3. NoUsers \in AllUsers /\ \A u \in AcUsers : NoUsers[u] = 0
  BY <1>2 DEF NoUsers, AllUsers
<1>4. NoACL \in ACLs /\ NoACL.rev = 0 /\ NoACL.users = NoUsers
  BY <1>2, <1>3 DEF NoACL, ACLs
<1>5. NilACL \notin ACLs
  <2>1. SUFFICES ASSUME NilACL \in ACLs PROVE FALSE
    OBVIOUS
  <2>2. NilACL.users \in AllUsers
    BY <2>1 DEF ACLs
  <2>3. << >> \in [AcUsers -> 0 .. MaxAcDef]
    BY <2>2 DEF NilACL, AllUsers
  <2>4. DOMAIN << >> = AcUsers
    BY <2>3
  <2> QED BY <1>1, <2>4
<1>6. NoOp \in AcOps /\ NoOp.kind = "none" /\ NoOp.todo = {}
  BY <1>4 DEF NoOp, AcOps
<1> QED BY <1>1, <1>3, <1>4, <1>5, <1>6

LEMMA CachedIs ==
    ASSUME AcTypes
    PROVE  Cached \in ACLs /\ Cached # NilACL /\ (acCache # NilACL => Cached = acCache)
BY AcConstants DEF AcTypes, Cached

LEMMA AcInitInv ==
    ASSUME AcInit
    PROVE  AcInv
<1>1. acOp.kind = "none" /\ acOp \in AcOps /\ acOp.todo = {}
  BY AcConstants DEF AcInit
<1>2. AcTypes
  BY <1>1, AcConstants DEF AcInit, AcTypes
<1>3. AcCalls
  BY <1>1 DEF AcCalls
<1>4. Cached = NoACL
  BY DEF Cached, AcInit
<1>5. AcDone
  BY <1>1, <1>4, AcConstants DEF AcDone, AcInit, Follows
<1>6. AcStrays
  BY <1>2, AcConstants DEF AcInit, AcTypes, AcStrays
<1>7. AcRevs
  BY <1>4, AcConstants DEF AcInit, AcRevs, NotAhead
<1> QED BY <1>2, <1>3, <1>5, <1>6, <1>7 DEF AcInv

(* A call that begins, or a proxy that is reinitialized, fills the cache.  *)
LEMMA FilledIs ==
    ASSUME AcInv, acCache' = Cached, UNCHANGED acStore
    PROVE  Cached' = Cached /\ acCache' \in ACLs /\ acCache' # NilACL
<1>1. Cached \in ACLs /\ Cached # NilACL
  BY CachedIs DEF AcInv
<1>2. Cached' = acCache'
  BY <1>1 DEF Cached
<1> QED BY <1>1, <1>2

LEMMA UpdateKeepsAc ==
    ASSUME AcInv, NEW users \in AllUsers, UpdateACL(users)
    PROVE  AcInv'
<1> DEFINE acl == buildACL(users)
           op  == [NoOp EXCEPT !.kind = "update", !.acl = acl, !.todo = acMember, !.proxies = AcProxies]
<1>1. AcTypes /\ AcCalls /\ AcDone /\ AcStrays /\ AcRevs /\ Cached \in ACLs
  BY CachedIs DEF AcInv
<1>2. acl \in ACLs /\ acl.rev = Cached.rev + 1
  <2>1. Cached.rev \in Nat /\ Cached.rev + 1 \in 0 .. MaxAcRev
    BY <1>1, AcConstants DEF ACLs, UpdateACL
  <2> QED BY <2>1 DEF buildACL, ACLs
<1> HIDE DEF acl
<1>3. op \in AcOps /\ op.kind = "update" /\ op.acl = acl /\ op.todo = acMember /\ op.proxies = AcProxies
  BY <1>1, <1>2, AcConstants DEF AcOps, AcTypes
<1>4. /\ acOp.kind = "none" /\ acOp' = op /\ acCache' = Cached /\ acClean' = FALSE
      /\ UNCHANGED <<acStore, acServer, acMember, acProxy, acLate, acOver, acStray>>
  BY AcConstants DEF UpdateACL, Begin, acl
<1> HIDE DEF op
<1>5. Cached' = Cached /\ acCache' \in ACLs /\ acCache' # NilACL
  BY <1>4, FilledIs
<1>6. AcTypes'
  BY <1>1, <1>3, <1>4, <1>5 DEF AcTypes
<1>7. AcCalls'
  BY <1>2, <1>3, <1>4, <1>5 DEF AcCalls
<1>8. AcDone'
  BY <1>3, <1>4 DEF AcDone
<1>9. AcStrays'
  BY <1>1, <1>3, <1>4, <1>5 DEF AcStrays, Held
<1>10. AcRevs'
  BY <1>1, <1>4, <1>5 DEF AcRevs
<1> QED BY <1>6, <1>7, <1>8, <1>9, <1>10 DEF AcInv

LEMMA SyncKeepsAc ==
    ASSUME AcInv, SyncACL
    PROVE  AcInv'
<1> DEFINE todo == IF shouldSyncACLRuntime(Cached) THEN acMember ELSE {}
           op   == [NoOp EXCEPT !.kind = "sync", !.acl = Cached, !.proxies = AcProxies, !.todo = todo]
<1>1. AcTypes /\ AcCalls /\ AcDone /\ AcStrays /\ AcRevs /\ Cached \in ACLs
  BY CachedIs DEF AcInv
<1>2. op \in AcOps /\ op.kind = "sync" /\ op.acl = Cached /\ op.todo = todo /\ op.proxies = AcProxies
  BY <1>1, AcConstants DEF AcOps, AcTypes
<1>3. /\ acOp.kind = "none" /\ acOp' = op /\ acCache' = Cached /\ acClean' = FALSE
      /\ UNCHANGED <<acStore, acServer, acMember, acProxy, acLate, acOver, acStray>>
  BY AcConstants DEF SyncACL, Begin
<1> HIDE DEF op
<1>4. Cached' = Cached /\ acCache' \in ACLs /\ acCache' # NilACL
  BY <1>3, FilledIs
<1>5. AcTypes'
  BY <1>1, <1>2, <1>3, <1>4 DEF AcTypes
<1>6. AcCalls'
  BY <1>2, <1>3, <1>4 DEF AcCalls, shouldSyncACLRuntime
<1>7. AcDone'
  <2>1. \A s \in acMember \ todo : Follows(acServer[s], Cached.users)
    BY AcConstants DEF Follows, shouldSyncACLRuntime
  <2> QED BY <1>2, <1>3, <2>1 DEF AcDone
<1>8. AcStrays'
  BY <1>1, <1>2, <1>3, <1>4 DEF AcStrays, Held
<1>9. AcRevs'
  BY <1>1, <1>3, <1>4 DEF AcRevs
<1> QED BY <1>5, <1>6, <1>7, <1>8, <1>9 DEF AcInv

LEMMA AddServerKeepsAc ==
    ASSUME AcInv, NEW s \in AcServers, GroupAddServer(s)
    PROVE  AcInv'
<1> DEFINE op == [NoOp EXCEPT !.kind = "add", !.acl = Cached, !.todo = {s}]
<1>1. AcTypes /\ AcCalls /\ AcDone /\ AcStrays /\ AcRevs /\ Cached \in ACLs
  BY CachedIs DEF AcInv
<1>2. op \in AcOps /\ op.kind = "add" /\ op.acl = Cached /\ op.todo = {s}
  BY <1>1, AcConstants DEF AcOps, AcTypes
<1>3. /\ acOp.kind = "none" /\ acOp' = op /\ acCache' = Cached /\ s \notin acMember
      /\ UNCHANGED <<acStore, acServer, acMember, acProxy, acLate, acOver, acClean, acStray>>
  BY AcConstants DEF GroupAddServer, Begin
<1> HIDE DEF op
<1>4. Cached' = Cached /\ acCache' \in ACLs /\ acCache' # NilACL
  BY <1>3, FilledIs
<1>5. AcTypes'
  BY <1>1, <1>2, <1>3, <1>4 DEF AcTypes
<1>6. AcCalls'
  BY <1>2, <1>3, <1>4 DEF AcCalls
<1>7. AcDone'
  BY <1>1, <1>2, <1>3, <1>4 DEF AcDone
<1>8. AcStrays'
  BY <1>1, <1>2, <1>3, <1>4 DEF AcStrays, Held
<1>9. AcRevs'
  BY <1>1, <1>3, <1>4 DEF AcRevs
<1> QED BY <1>5, <1>6, <1>7, <1>8, <1>9 DEF AcInv

LEMMA DelServerKeepsAc ==
    ASSUME AcInv, NEW s \in AcServers, GroupDelServer(s)
    PROVE  AcInv'
<1>1. AcTypes /\ AcCalls /\ AcDone /\ AcStrays /\ AcRevs
  BY DEF AcInv
<1>2. /\ acOp.kind = "none" /\ acMember' = acMember \ {s}
      /\ UNCHANGED <<acStore, acCache, acServer, acProxy, acLate, acOver, acOp, acClean, acStray>>
  BY AcConstants DEF GroupDelServer
<1>3. Cached' = Cached
  BY <1>2 DEF Cached
<1>4. AcTypes' /\ AcCalls'
  BY <1>1, <1>2 DEF AcTypes, AcCalls
<1>5. AcDone'
  BY <1>1, <1>2, <1>3 DEF AcDone
<1>6. AcStrays' /\ AcRevs'
  BY <1>1, <1>2, <1>3 DEF AcStrays, Held, AcRevs
<1> QED BY <1>4, <1>5, <1>6 DEF AcInv

(* What the commands for some users make of those of a server.             *)
LEMMA AfterIs ==
    ASSUME AcTypes, NEW D \in SUBSET Commanded, NEW users \in AllUsers
    PROVE  /\ After(users, D) \in AllUsers
           /\ \A u \in AcUsers : After(users, D)[u] = IF u \in D THEN acOp.acl.users[u] ELSE users[u]
<1>1. acOp.acl.users \in AllUsers
  BY DEF AcTypes, AcOps, ACLs
<1> QED BY <1>1 DEF After, AllUsers

LEMMA ServerIs ==
    ASSUME AcTypes, NEW s \in AcServers, NEW users \in AllUsers, acServer' = [acServer EXCEPT ![s] = users]
    PROVE  acServer' \in [AcServers -> AllUsers] /\ \A t \in AcServers : acServer'[t] = IF t = s THEN users ELSE acServer[t]
BY DEF AcTypes

(* Least0 is a member of the set it is taken of.                           *)
LEMMA LeastIs ==
    ASSUME NEW S \in SUBSET Nat, S # {}
    PROVE  Least0(S) \in S
<1>1. \E x \in S : \A y \in S : x <= y
  BY LeastExists
<1> QED BY <1>1 DEF Least0

LEMMA RedisKeepsAc ==
    ASSUME AcInv, NEW s \in AcServers, syncACLToRedisServer(s)
    PROVE  AcInv'
<1> DEFINE todo == acOp.todo \ {s}
           op   == [acOp EXCEPT !.todo = todo]
           new  == IF shouldSyncACLRuntime(acOp.acl) THEN After(acServer[s], Commanded) ELSE acServer[s]
<1>1. AcTypes /\ AcCalls /\ AcDone /\ AcStrays /\ AcRevs /\ Cached \in ACLs
  BY CachedIs DEF AcInv
<1>2. /\ acOp \in AcOps /\ acOp.acl \in ACLs /\ acOp.acl.users \in AllUsers /\ acServer[s] \in AllUsers
      /\ acOp.kind \in {"update", "sync", "add"} /\ s \in acOp.todo /\ acCache = Cached
  <2>1. acOp \in AcOps /\ acOp.acl \in ACLs
    BY <1>1 DEF AcTypes, AcOps
  <2>2. acOp.todo \in SUBSET Nat /\ acOp.todo # {}
    BY <2>1, ACLAssumption DEF AcOps, syncACLToRedisServer
  <2>3. s \in acOp.todo
    BY <2>2, LeastIs DEF syncACLToRedisServer
  <2> QED BY <1>1, <2>1, <2>3, CachedIs DEF AcTypes, AcCalls, ACLs, syncACLToRedisServer
<1>3. op \in AcOps /\ op.kind = acOp.kind /\ op.acl = acOp.acl /\ op.todo = todo /\ op.proxies = acOp.proxies /\ op.failed = acOp.failed
  BY <1>2 DEF AcOps
<1>4. /\ acOp' = op /\ acServer' = [acServer EXCEPT ![s] = new] /\ acMember' \in {acMember, acMember \cup {s}}
      /\ acStray' = IF acOp.kind = "add" THEN acStray \cup Strays(acServer', {s}, Cached.users) ELSE acStray
      /\ UNCHANGED <<acStore, acCache, acProxy, acLate, acOver, acClean>>
  <2>1. acServer' = [acServer EXCEPT ![s] = new]
    BY <1>1 DEF syncACLToRedisServer, AcTypes
  <2> QED BY <2>1 DEF syncACLToRedisServer
<1> HIDE DEF op
<1>5. Cached' = Cached
  BY <1>4 DEF Cached
<1>6. /\ new \in AllUsers
      /\ shouldSyncACLRuntime(acOp.acl) =>
            \A u \in AcUsers : new[u] = IF u \in Commanded THEN acOp.acl.users[u] ELSE acServer[s][u]
  BY <1>1, <1>2, AfterIs
<1>7. ~ shouldSyncACLRuntime(acOp.acl) => new = acServer[s] /\ acOp.acl.users = NoUsers /\ acOp.kind = "add"
  BY <1>1, <1>2 DEF AcCalls, shouldSyncACLRuntime, ACLs
<1> HIDE DEF new
<1>8. /\ acServer' \in [AcServers -> AllUsers] /\ acServer'[s] = new
      /\ \A t \in AcServers : t # s => acServer'[t] = acServer[t]
  BY <1>1, <1>4, <1>6, ServerIs
<1>9. Follows(new, acOp.acl.users)
  BY <1>6, <1>7, AcConstants DEF Follows, Commanded
<1>10. AcTypes'
  BY <1>1, <1>3, <1>4, <1>8 DEF AcTypes
<1>11. AcCalls'
  BY <1>1, <1>3, <1>4 DEF AcCalls
<1>12. AcDone'
  <2>1. ASSUME acOp.kind \in {"update", "sync", "stored"}, NEW t \in acMember' \ todo
        PROVE  Follows(acServer'[t], acOp.acl.users)
    <3>1. CASE t = s
      BY <1>8, <1>9, <3>1
    <3>2. CASE t # s
      <4>1. t \in acMember \ acOp.todo /\ acServer'[t] = acServer[t]
        BY <1>1, <1>4, <1>8, <2>1, <3>2 DEF AcTypes
      <4> QED BY <1>1, <2>1, <4>1 DEF AcDone
    <3> QED BY <3>1, <3>2
  <2>2. ASSUME acClean, acOp.kind \in {"none", "add"}
        PROVE  /\ \A t \in acMember' : Follows(acServer'[t], Cached.users)
               /\ \A p \in AcProxies \ acOver : acProxy[p] = Cached
    <3>1. acOp.acl = Cached
      BY <1>1, <1>2, <2>2 DEF AcCalls
    <3>2. \A t \in acMember : Follows(acServer[t], Cached.users)
      BY <1>1, <2>2 DEF AcDone
    <3>3. \A t \in acMember' : Follows(acServer'[t], Cached.users)
      <4> SUFFICES ASSUME NEW t \in acMember' PROVE Follows(acServer'[t], Cached.users)
        OBVIOUS
      <4>1. CASE t = s
        BY <1>8, <1>9, <3>1, <4>1
      <4>2. CASE t # s
        <5>1. t \in acMember /\ acServer'[t] = acServer[t]
          BY <1>1, <1>4, <1>8, <4>2 DEF AcTypes
        <5> QED BY <3>2, <5>1
      <4> QED BY <4>1, <4>2
    <3> QED BY <1>1, <2>2, <3>3 DEF AcDone
  <2>3. acOp.kind # "stored"
    BY <1>2
  <2>4. acOp.kind \in {"sync", "stored"} =>
           \A p \in AcProxies \ (acOp.proxies \cup acOp.failed \cup acOver) : acProxy[p] = acOp.acl
    BY <1>1 DEF AcDone
  <2> HIDE DEF todo
  <2> QED BY <1>3, <1>4, <1>5, <2>1, <2>2, <2>4 DEF AcDone
<1>13. AcStrays'
  <2> SUFFICES ASSUME NEW t \in acMember', NEW u \in AcUsers, acServer'[t][u] # 0, Held(t)'[u] = 0
               PROVE  <<t, u>> \in acStray'
    BY DEF AcStrays
  <2>1. Held(t)' = IF acOp.kind = "update" /\ t \notin todo THEN acOp.acl.users ELSE Cached.users
    BY <1>3, <1>4, <1>5 DEF Held
  <2>2. acStray \subseteq acStray'
    BY <1>4
  <2>3. CASE t # s
    <3>1. t \in acMember /\ acServer'[t] = acServer[t] /\ Held(t)' = Held(t)
      BY <1>1, <1>4, <1>8, <2>1, <2>3 DEF Held, AcTypes
    <3> QED BY <1>1, <2>2, <3>1 DEF AcStrays
  <2>4. CASE t = s /\ acOp.kind = "add"
    <3>1. Held(t)' = Cached.users
      BY <2>1, <2>4
    <3>2. <<t, u>> \in {s} \X AcUsers /\ acServer'[<<t, u>>[1]][<<t, u>>[2]] # 0 /\ Cached.users[<<t, u>>[2]] = 0
      BY <2>4, <3>1
    <3>3. <<t, u>> \in Strays(acServer', {s}, Cached.users)
      BY <3>2 DEF Strays
    <3> QED BY <1>4, <2>4, <3>3
  <2>5. CASE t = s /\ acOp.kind # "add"
    <3>1. shouldSyncACLRuntime(acOp.acl) /\ s \in acMember /\ acOp.kind \in {"update", "sync"}
      BY <1>1, <1>2, <1>7, <2>5 DEF AcCalls
    <3>2. acOp.acl.users[u] = 0
      BY <1>1, <1>2, <2>1, <2>5, <3>1 DEF AcCalls
    <3>3. u \notin Commanded /\ acServer[s][u] # 0
      BY <1>6, <1>8, <2>5, <3>1, <3>2
    <3>4. Cached.users[u] = 0
      BY <1>2, <2>5, <3>2, <3>3 DEF Commanded, removedACLUsers
    <3>5. Held(s) = Cached.users
      BY <1>2 DEF Held
    <3> QED BY <1>1, <2>2, <2>5, <3>1, <3>3, <3>4, <3>5 DEF AcStrays
  <2> QED BY <2>3, <2>4, <2>5
<1>14. AcRevs'
  BY <1>1, <1>4, <1>5 DEF AcRevs
<1> QED BY <1>10, <1>11, <1>12, <1>13, <1>14 DEF AcInv

(* A call fails: what servers have besides the users of the dashboard is   *)
(* noted.                                                                  *)
LEMMA StraysAre ==
    ASSUME NEW server, NEW members, NEW users, NEW s \in members, NEW u \in AcUsers, server[s][u] # 0, users[u] = 0
    PROVE  <<s, u>> \in Strays(server, members, users)
<1>1. <<s, u>> \in members \X AcUsers /\ <<s, u>>[1] = s /\ <<s, u>>[2] = u
  OBVIOUS
<1> QED BY <1>1 DEF Strays

LEMMA RedisFailsKeepsAc ==
    ASSUME AcInv, NEW s \in AcServers, syncACLToRedisFails(s)
    PROVE  AcInv'
<1>1. AcTypes /\ AcCalls /\ AcDone /\ AcStrays /\ AcRevs /\ Cached \in ACLs
  BY CachedIs DEF AcInv
<1>2. PICK D \in Prefixes : acServer' = [acServer EXCEPT ![s] = After(acServer[s], D)]
  <2>1. acServer \in [AcServers -> AllUsers]
    BY <1>1 DEF AcTypes
  <2> QED BY <2>1 DEF syncACLToRedisFails
<1>3. After(acServer[s], D) \in AllUsers
  <2>1. D \in SUBSET Commanded /\ acServer[s] \in AllUsers
    BY <1>1 DEF Prefixes, AcTypes
  <2> QED BY <1>1, <2>1, AfterIs
<1>4. acServer' \in [AcServers -> AllUsers] /\ \A t \in AcServers : t # s => acServer'[t] = acServer[t]
  BY <1>1, <1>2, <1>3, ServerIs
<1>5. /\ acOp' = NoOp /\ acStray' = acStray \cup Strays(acServer', AcServers, Cached.users)
      /\ UNCHANGED <<acStore, acCache, acMember, acProxy, acLate, acOver, acClean>>
  BY DEF syncACLToRedisFails
<1>6. Cached' = Cached
  BY <1>5 DEF Cached
<1>7. s \in acOp.todo /\ acOp.kind \notin {"none", "stored"}
  <2>1. acOp.todo \in SUBSET Nat /\ acOp.todo # {}
    BY <1>1, ACLAssumption DEF AcTypes, AcOps, syncACLToRedisFails
  <2> QED BY <1>1, <2>1, LeastIs DEF AcCalls, syncACLToRedisFails
<1>8. AcTypes'
  BY <1>1, <1>4, <1>5, AcConstants DEF AcTypes
<1>9. AcCalls'
  BY <1>5, AcConstants DEF AcCalls
<1>10. AcDone'
  <2>1. ASSUME acClean
        PROVE  /\ \A t \in acMember : Follows(acServer'[t], Cached.users)
               /\ \A p \in AcProxies \ acOver : acProxy[p] = Cached
    <3>1. acOp.kind = "add" /\ s \notin acMember
      BY <1>1, <1>7, <2>1 DEF AcCalls, AcTypes, AcOps
    <3>2. /\ \A t \in acMember : Follows(acServer[t], Cached.users)
          /\ \A p \in AcProxies \ acOver : acProxy[p] = Cached
      BY <1>1, <2>1, <3>1 DEF AcDone
    <3>3. \A t \in acMember : acServer'[t] = acServer[t]
      BY <1>1, <1>4, <3>1 DEF AcTypes
    <3> QED BY <3>2, <3>3
  <2> QED BY <1>5, <1>6, <2>1, AcConstants DEF AcDone
<1>11. AcStrays'
  <2> SUFFICES ASSUME NEW t \in acMember', NEW u \in AcUsers, acServer'[t][u] # 0, Held(t)'[u] = 0
               PROVE  <<t, u>> \in acStray'
    BY DEF AcStrays
  <2>1. Held(t)' = Cached.users /\ t \in AcServers
    BY <1>1, <1>5, <1>6, AcConstants DEF Held, AcTypes
  <2> QED BY <1>5, <2>1, StraysAre
<1>12. AcRevs'
  BY <1>1, <1>5, <1>6 DEF AcRevs
<1> QED BY <1>8, <1>9, <1>10, <1>11, <1>12 DEF AcInv

LEMMA StoreKeepsAc ==
    ASSUME AcInv, storeUpdateACL
    PROVE  AcInv'
<1> DEFINE op == [acOp EXCEPT !.kind = "stored"]
<1>1. AcTypes /\ AcCalls /\ AcDone /\ AcStrays /\ AcRevs /\ Cached \in ACLs
  BY CachedIs DEF AcInv
<1>2. acOp \in AcOps /\ acOp.acl \in ACLs /\ acOp.kind = "update" /\ acOp.todo = {} /\ acOp.proxies = AcProxies /\ acCache = Cached
  BY <1>1, CachedIs DEF AcTypes, AcOps, AcCalls, storeUpdateACL
<1>3. op \in AcOps /\ op.kind = "stored" /\ op.acl = acOp.acl /\ op.todo = {} /\ op.proxies = AcProxies
  BY <1>2 DEF AcOps
<1>4. /\ acOp' = op /\ acStore' = acOp.acl /\ acCache' = NilACL
      /\ UNCHANGED <<acServer, acMember, acProxy, acLate, acOver, acClean, acStray>>
  BY DEF storeUpdateACL
<1> HIDE DEF op
<1>5. Cached' = acOp.acl
  BY <1>4 DEF Cached
<1>6. AcTypes'
  BY <1>1, <1>2, <1>3, <1>4 DEF AcTypes
<1>7. AcCalls'
  BY <1>1, <1>2, <1>3, <1>4 DEF AcCalls
<1>8. AcDone'
  <2>1. ~ acClean /\ \A s \in acMember : Follows(acServer[s], acOp.acl.users)
    BY <1>1, <1>2 DEF AcDone, AcCalls
  <2> QED BY <1>3, <1>4, <2>1 DEF AcDone
<1>9. AcStrays'
  <2>1. \A s \in acMember : Held(s) = acOp.acl.users
    BY <1>2 DEF Held
  <2>2. \A s \in acMember : Held(s)' = acOp.acl.users
    BY <1>3, <1>4, <1>5 DEF Held
  <2> QED BY <1>1, <1>4, <2>1, <2>2 DEF AcStrays
<1>10. AcRevs'
  <2>1. acOp.acl.rev = Cached.rev + 1 /\ Cached.rev \in Nat
    BY <1>1, <1>2 DEF AcCalls, ACLs
  <2>2. \A p \in AcProxies : acProxy[p].rev \in Nat /\ acProxy[p].rev <= Cached.rev
    BY <1>1 DEF AcTypes, AcRevs, NotAhead, ACLs
  <2>3. \A p \in AcProxies : NotAhead(acProxy[p], acOp.acl)
    BY <2>1, <2>2 DEF NotAhead
  <2>4. \A l \in acLate : l.acl.rev \in Nat /\ l.acl.rev <= Cached.rev
    BY <1>1 DEF AcTypes, AcRevs, NotAhead, ACLs
  <2>5. \A l \in acLate : NotAhead(l.acl, acOp.acl)
    BY <2>1, <2>4 DEF NotAhead
  <2>6. NotAhead(acOp.acl, acOp.acl)
    BY <2>1 DEF NotAhead
  <2> QED BY <1>4, <1>5, <2>3, <2>5, <2>6 DEF AcRevs
<1> QED BY <1>6, <1>7, <1>8, <1>9, <1>10 DEF AcInv

LEMMA StoreFailsKeepsAc ==
    ASSUME AcInv, storeUpdateFails
    PROVE  AcInv'
<1>1. AcTypes /\ AcCalls /\ AcDone /\ AcStrays /\ AcRevs /\ Cached \in ACLs
  BY CachedIs DEF AcInv
<1>2. acOp.acl \in ACLs /\ acOp.kind = "update" /\ acCache = Cached /\ acCache # NilACL /\ ~ acClean
  BY <1>1, CachedIs DEF AcTypes, AcOps, AcCalls, storeUpdateFails
<1>3. /\ acOp' = NoOp /\ acStore' \in {acStore, acOp.acl}
      /\ acStray' = acStray \cup Strays(acServer, AcServers, Cached.users)
      /\ UNCHANGED <<acCache, acServer, acMember, acProxy, acLate, acOver, acClean>>
  BY DEF storeUpdateFails
<1>4. Cached' = Cached
  BY <1>2, <1>3 DEF Cached
<1>5. AcTypes'
  BY <1>1, <1>2, <1>3, AcConstants DEF AcTypes
<1>6. AcCalls'
  BY <1>3, AcConstants DEF AcCalls
<1>7. AcDone'
  BY <1>2, <1>3, AcConstants DEF AcDone
<1>8. AcStrays'
  <2> SUFFICES ASSUME NEW t \in acMember', NEW u \in AcUsers, acServer'[t][u] # 0, Held(t)'[u] = 0
               PROVE  <<t, u>> \in acStray'
    BY DEF AcStrays
  <2>1. Held(t)' = Cached.users /\ t \in AcServers
    BY <1>1, <1>3, <1>4, AcConstants DEF Held, AcTypes
  <2> QED BY <1>3, <2>1, StraysAre
<1>9. AcRevs'
  <2>1. acOp.acl.rev = Cached.rev + 1 /\ Cached.rev \in Nat
    BY <1>1, <1>2 DEF AcCalls, ACLs
  <2>2. NotAhead(Cached, acOp.acl)
    BY <2>1 DEF NotAhead
  <2> QED BY <1>1, <1>3, <1>4, <2>2 DEF AcRevs
<1> QED BY <1>5, <1>6, <1>7, <1>8, <1>9 DEF AcInv

(* The ACL that goes to the proxies is that of the dashboard.              *)
LEMMA SentIs ==
    ASSUME AcInv, acOp.kind \in {"stored", "sync"}
    PROVE  acOp \in AcOps /\ acOp.acl = Cached /\ Cached \in ACLs /\ ~ acClean
<1>1. Cached \in ACLs /\ acOp \in AcOps
  BY CachedIs DEF AcInv, AcTypes
<1> QED BY <1>1 DEF AcInv, AcCalls, Cached

LEMMA ProxyKeepsAc ==
    ASSUME AcInv, NEW p \in AcProxies, syncACLToProxy(p)
    PROVE  AcInv'
<1>1. AcTypes /\ AcCalls /\ AcDone /\ AcStrays /\ AcRevs
  BY DEF AcInv
<1>2. /\ acOp \in AcOps /\ acOp.acl = Cached /\ Cached \in ACLs /\ ~ acClean
      /\ acOp.kind \in {"stored", "sync"} /\ acOp.todo = {} /\ p \in acOp.proxies
  BY SentIs DEF syncACLToProxy
<1>3. UNCHANGED <<acStore, acCache, acServer, acMember, acClean, acStray>> /\ Cached' = Cached
  BY DEF syncACLToProxy, Cached
<1>4. CASE /\ acProxy' = [acProxy EXCEPT ![p] = acOp.acl] /\ acOver' = acOver \ {p}
           /\ acOp' = [acOp EXCEPT !.proxies = @ \ {p}] /\ UNCHANGED acLate
  <2>1. /\ acOp' \in AcOps /\ acOp'.kind = acOp.kind /\ acOp'.acl = acOp.acl /\ acOp'.todo = {}
        /\ acOp'.proxies = acOp.proxies \ {p} /\ acOp'.failed = acOp.failed
    BY <1>2, <1>4 DEF AcOps
  <2>2. /\ acProxy' \in [AcProxies -> ACLs] /\ acProxy'[p] = Cached
        /\ \A q \in AcProxies : q # p => acProxy'[q] = acProxy[q]
    BY <1>1, <1>2, <1>4 DEF AcTypes
  <2>3. AcTypes' /\ AcCalls' /\ AcStrays'
    BY <1>1, <1>2, <1>3, <1>4, <2>1, <2>2 DEF AcTypes, AcCalls, AcStrays, Held
  <2>4. AcDone'
    <3>1. ASSUME NEW q \in AcProxies \ (acOp'.proxies \cup acOp'.failed \cup acOver')
          PROVE  acProxy'[q] = acOp.acl
      <4>1. CASE q = p
        BY <1>2, <2>2, <4>1
      <4>2. CASE q # p
        BY <1>1, <1>2, <1>4, <2>1, <2>2, <3>1, <4>2 DEF AcDone
      <4> QED BY <4>1, <4>2
    <3>2. \A s \in acMember : Follows(acServer[s], acOp.acl.users)
      BY <1>1, <1>2 DEF AcDone
    <3> QED BY <1>2, <1>3, <2>1, <3>1, <3>2 DEF AcDone
  <2>5. AcRevs'
    <3>1. NotAhead(Cached, Cached)
      BY <1>2 DEF ACLs, NotAhead
    <3>2. \A q \in AcProxies : NotAhead(acProxy'[q], Cached)
      BY <1>1, <2>2, <3>1 DEF AcRevs
    <3> QED BY <1>1, <1>3, <1>4, <3>2 DEF AcRevs
  <2> QED BY <2>3, <2>4, <2>5 DEF AcInv
<1>5. CASE /\ acLate' = acLate \cup {[proxy |-> p, acl |-> acOp.acl]}
           /\ acOp' = [acOp EXCEPT !.proxies = @ \ {p}, !.failed = @ \cup {p}] /\ UNCHANGED <<acProxy, acOver>>
  <2>1. /\ acOp' \in AcOps /\ acOp'.kind = acOp.kind /\ acOp'.acl = acOp.acl /\ acOp'.todo = {}
        /\ acOp'.proxies = acOp.proxies \ {p} /\ acOp'.failed = acOp.failed \cup {p}
    BY <1>2, <1>5 DEF AcOps
  <2>2. acLate' \subseteq [proxy: AcProxies, acl: ACLs] /\ \A l \in acLate' : l \in acLate \/ l.acl = Cached
    BY <1>1, <1>2, <1>5 DEF AcTypes
  <2>3. AcTypes' /\ AcCalls' /\ AcStrays'
    BY <1>1, <1>2, <1>3, <1>5, <2>1, <2>2 DEF AcTypes, AcCalls, AcStrays, Held
  <2>4. AcDone'
    BY <1>1, <1>2, <1>3, <1>5, <2>1 DEF AcDone
  <2>5. AcRevs'
    <3>1. NotAhead(Cached, Cached)
      BY <1>2 DEF ACLs, NotAhead
    <3> QED BY <1>1, <1>3, <1>5, <2>2, <3>1 DEF AcRevs
  <2> QED BY <2>3, <2>4, <2>5 DEF AcInv
<1> QED BY <1>4, <1>5 DEF syncACLToProxy

(* A proxy runs a call that was given up.                                  *)
LEMMA LateKeepsAc ==
    ASSUME AcInv, NEW l \in acLate, LateSetACL(l)
    PROVE  AcInv'
<1>1. AcTypes /\ AcCalls /\ AcDone /\ AcStrays /\ AcRevs /\ Cached \in ACLs
  BY CachedIs DEF AcInv
<1>2. /\ acProxy' = [acProxy EXCEPT ![l.proxy] = l.acl] /\ acLate' = acLate \ {l}
      /\ acOver' = IF l.acl = Cached THEN acOver \ {l.proxy} ELSE acOver \cup {l.proxy}
      /\ UNCHANGED <<acStore, acCache, acServer, acMember, acOp, acClean, acStray>>
  BY DEF LateSetACL
<1>3. Cached' = Cached /\ l.proxy \in AcProxies /\ l.acl \in ACLs
  BY <1>1, <1>2 DEF Cached, AcTypes
<1>4. /\ acProxy' \in [AcProxies -> ACLs] /\ acProxy'[l.proxy] = l.acl
      /\ \A q \in AcProxies : q # l.proxy => acProxy'[q] = acProxy[q]
  BY <1>1, <1>2, <1>3 DEF AcTypes
<1>5. AcTypes' /\ AcCalls' /\ AcStrays'
  BY <1>1, <1>2, <1>3, <1>4 DEF AcTypes, AcCalls, AcStrays, Held
<1>6. \A q \in AcProxies \ acOver' : (q = l.proxy /\ l.acl = Cached) \/ (q # l.proxy /\ q \notin acOver)
  BY <1>2
<1>7. AcDone'
  <2>1. ASSUME acOp.kind \in {"sync", "stored"}, NEW q \in AcProxies \ (acOp.proxies \cup acOp.failed \cup acOver')
        PROVE  acProxy'[q] = acOp.acl
    <3>1. acOp.acl = Cached
      BY <2>1, SentIs
    <3>2. CASE q = l.proxy /\ l.acl = Cached
      BY <1>4, <3>1, <3>2
    <3>3. CASE q # l.proxy /\ q \notin acOver
      BY <1>1, <1>4, <2>1, <3>3 DEF AcDone
    <3> QED BY <1>6, <2>1, <3>2, <3>3
  <2>2. ASSUME acClean, acOp.kind \in {"none", "add"}, NEW q \in AcProxies \ acOver'
        PROVE  acProxy'[q] = Cached
    BY <1>1, <1>4, <1>6, <2>2 DEF AcDone
  <2>3. /\ acOp.kind \in {"update", "sync", "stored"} => \A s \in acMember \ acOp.todo : Follows(acServer[s], acOp.acl.users)
        /\ acClean /\ acOp.kind \in {"none", "add"} => \A s \in acMember : Follows(acServer[s], Cached.users)
    BY <1>1 DEF AcDone
  <2> QED BY <1>2, <1>3, <2>1, <2>2, <2>3 DEF AcDone
<1>8. AcRevs'
  <2>1. \A q \in AcProxies : NotAhead(acProxy'[q], Cached)
    BY <1>1, <1>4 DEF AcRevs
  <2> QED BY <1>1, <1>2, <1>3, <2>1 DEF AcRevs
<1> QED BY <1>5, <1>7, <1>8 DEF AcInv

LEMMA ResultKeepsAc ==
    ASSUME AcInv, setACLSyncResult
    PROVE  AcInv'
<1>1. AcTypes /\ AcCalls /\ AcDone /\ AcStrays /\ AcRevs
  BY DEF AcInv
<1>2. /\ acOp.acl = Cached /\ acOp.kind \in {"stored", "sync"} /\ acOp.todo = {} /\ acOp.proxies = {}
      /\ acOp' = NoOp /\ acClean' = (acOp.failed = {})
      /\ UNCHANGED <<acStore, acCache, acServer, acMember, acProxy, acLate, acOver, acStray>>
  BY SentIs DEF setACLSyncResult
<1>3. Cached' = Cached
  BY <1>2 DEF Cached
<1>4. AcTypes'
  BY <1>1, <1>2, AcConstants DEF AcTypes
<1>5. AcCalls'
  BY <1>2, AcConstants DEF AcCalls
<1>6. AcDone'
  <2>1. \A s \in acMember : Follows(acServer[s], Cached.users)
    BY <1>1, <1>2 DEF AcDone
  <2>2. acOp.failed = {} => \A p \in AcProxies \ acOver : acProxy[p] = Cached
    BY <1>1, <1>2 DEF AcDone
  <2> QED BY <1>2, <1>3, <2>1, <2>2, AcConstants DEF AcDone
<1>7. AcStrays'
  BY <1>1, <1>2, <1>3, AcConstants DEF AcStrays, Held
<1>8. AcRevs'
  BY <1>1, <1>2, <1>3 DEF AcRevs
<1> QED BY <1>4, <1>5, <1>6, <1>7, <1>8 DEF AcInv

LEMMA AddEndsKeepsAc ==
    ASSUME AcInv, AddEnds
    PROVE  AcInv'
<1>1. AcTypes /\ AcCalls /\ AcDone /\ AcStrays /\ AcRevs
  BY DEF AcInv
<1>2. acOp.kind = "add" /\ acOp' = NoOp /\ UNCHANGED <<acStore, acCache, acServer, acMember, acProxy, acLate, acOver, acClean, acStray>>
  BY DEF AddEnds
<1>3. Cached' = Cached
  BY <1>2 DEF Cached
<1>4. AcTypes'
  BY <1>1, <1>2, AcConstants DEF AcTypes
<1>5. AcCalls'
  BY <1>2, AcConstants DEF AcCalls
<1>6. AcDone'
  BY <1>1, <1>2, <1>3, AcConstants DEF AcDone
<1>7. AcStrays'
  BY <1>1, <1>2, <1>3, AcConstants DEF AcStrays, Held
<1>8. AcRevs'
  BY <1>1, <1>2, <1>3 DEF AcRevs
<1> QED BY <1>4, <1>5, <1>6, <1>7, <1>8 DEF AcInv

LEMMA ReinitKeepsAc ==
    ASSUME AcInv, NEW p \in AcProxies, reinitProxy(p)
    PROVE  AcInv'
<1>1. AcTypes /\ AcCalls /\ AcDone /\ AcStrays /\ AcRevs /\ Cached \in ACLs
  BY CachedIs DEF AcInv
<1>2. /\ acOp.kind = "none" /\ acCache' = Cached /\ acProxy' = [acProxy EXCEPT ![p] = Cached]
      /\ acOver' = acOver \ {p}
      /\ UNCHANGED <<acStore, acServer, acMember, acLate, acOp, acClean, acStray>>
  BY AcConstants DEF reinitProxy
<1>3. Cached' = Cached /\ acCache' \in ACLs /\ acCache' # NilACL
  BY <1>2, FilledIs
<1>4. /\ acProxy' \in [AcProxies -> ACLs] /\ \A q \in AcProxies : acProxy'[q] \in {acProxy[q], Cached}
      /\ \A q \in AcProxies \ acOver' : q \in acOver => acProxy'[q] = Cached
  BY <1>1, <1>2 DEF AcTypes
<1>5. AcTypes'
  BY <1>1, <1>2, <1>3, <1>4 DEF AcTypes
<1>6. AcCalls'
  BY <1>1, <1>2 DEF AcCalls
<1>7. AcDone'
  BY <1>1, <1>2, <1>3, <1>4 DEF AcDone
<1>8. AcStrays'
  BY <1>1, <1>2, <1>3 DEF AcStrays, Held
<1>9. AcRevs'
  <2>1. Cached.rev \in Nat /\ NotAhead(Cached, Cached)
    BY <1>1 DEF ACLs, NotAhead
  <2> QED BY <1>1, <1>2, <1>3, <1>4, <2>1 DEF AcRevs
<1> QED BY <1>5, <1>6, <1>7, <1>8, <1>9 DEF AcInv

LEMMA NotAheadTransitive ==
    ASSUME NEW a \in ACLs, NEW b \in ACLs, NEW c \in ACLs, NotAhead(a, b), NotAhead(b, c)
    PROVE  NotAhead(a, c)
<1>1. a.rev \in Nat /\ b.rev \in Nat /\ c.rev \in Nat
  BY DEF ACLs
<1>2. a.rev <= b.rev /\ b.rev <= c.rev
  BY DEF NotAhead
<1>3. a.rev = c.rev => a.rev = b.rev /\ b.rev = c.rev
  BY <1>1, <1>2
<1> QED BY <1>1, <1>2, <1>3 DEF NotAhead

LEMMA CrashKeepsAc ==
    ASSUME AcInv, Crash
    PROVE  AcInv'
<1>1. AcTypes /\ AcCalls /\ AcDone /\ AcStrays /\ AcRevs /\ Cached \in ACLs
  BY CachedIs DEF AcInv
<1>2. /\ acCache' = NilACL /\ acOp' = NoOp
      /\ acStray' = IF acOp.kind = "none" /\ Cached = acStore THEN acStray
                    ELSE acStray \cup Strays(acServer, AcServers, acStore.users)
      /\ acClean' = (acClean /\ acOp.kind \in {"none", "add"} /\ Cached = acStore)
      /\ acLate' = IF acOp.kind \in {"stored", "sync"} /\ acOp.todo = {}
                   THEN acLate \cup [proxy: acOp.proxies, acl: {acOp.acl}] ELSE acLate
      /\ UNCHANGED <<acStore, acServer, acMember, acProxy, acOver>>
  BY DEF Crash
<1>3. Cached' = acStore
  BY <1>2 DEF Cached
<1>4. AcTypes'
  <2>1. acOp.proxies \subseteq AcProxies /\ acOp.acl \in ACLs
    BY <1>1 DEF AcTypes, AcOps
  <2>2. acLate' \subseteq [proxy: AcProxies, acl: ACLs]
    BY <1>1, <1>2, <2>1 DEF AcTypes
  <2> QED BY <1>1, <1>2, <2>2, AcConstants DEF AcTypes
<1>5. AcCalls'
  BY <1>2, AcConstants DEF AcCalls
<1>6. AcDone'
  BY <1>1, <1>2, <1>3, AcConstants DEF AcDone
<1>7. AcStrays'
  <2> SUFFICES ASSUME NEW t \in acMember', NEW u \in AcUsers, acServer'[t][u] # 0, Held(t)'[u] = 0
               PROVE  <<t, u>> \in acStray'
    BY DEF AcStrays
  <2>1. Held(t)' = acStore.users /\ t \in AcServers /\ t \in acMember /\ acServer[t][u] # 0
    BY <1>1, <1>2, <1>3, AcConstants DEF Held, AcTypes
  <2>2. CASE acOp.kind = "none" /\ Cached = acStore
    <3>1. Held(t) = acStore.users
      BY <2>2 DEF Held
    <3> QED BY <1>1, <1>2, <2>1, <2>2, <3>1 DEF AcStrays
  <2>3. CASE ~ (acOp.kind = "none" /\ Cached = acStore)
    BY <1>2, <2>1, <2>3, StraysAre
  <2> QED BY <2>2, <2>3
<1>8. AcRevs'
  <2>1. ASSUME NEW p \in AcProxies PROVE NotAhead(acProxy[p], acStore)
    <3>1. acProxy[p] \in ACLs /\ acStore \in ACLs
      BY <1>1 DEF AcTypes
    <3> QED BY <1>1, <3>1, NotAheadTransitive DEF AcRevs
  <2>2. acStore.rev \in Nat /\ NotAhead(acStore, acStore)
    BY <1>1 DEF AcTypes, ACLs, NotAhead
  <2>3. \A l \in acLate' : l \in acLate \/ l.acl = Cached
    BY <1>2, SentIs
  <2>4. ASSUME NEW l \in acLate' PROVE NotAhead(l.acl, acStore)
    <3>1. l.acl \in ACLs /\ acStore \in ACLs /\ NotAhead(Cached, acStore)
      BY <1>1, <1>4 DEF AcTypes, AcRevs
    <3>2. CASE l.acl = Cached
      BY <3>1, <3>2
    <3>3. CASE l \in acLate
      BY <1>1, <3>1, <3>3, NotAheadTransitive DEF AcRevs
    <3> QED BY <2>3, <3>2, <3>3
  <2> QED BY <1>2, <1>3, <2>1, <2>2, <2>4 DEF AcRevs
<1> QED BY <1>4, <1>5, <1>6, <1>7, <1>8 DEF AcInv

LEMMA AcStepKeepsInv ==
    ASSUME AcInv, [AcNext]_acVars
    PROVE  AcInv'
<1>1. ASSUME NEW users \in AllUsers, UpdateACL(users) PROVE AcInv'
  BY <1>1, UpdateKeepsAc
<1>2. CASE SyncACL
  BY <1>2, SyncKeepsAc
<1>3. ASSUME NEW s \in AcServers, GroupAddServer(s) \/ GroupDelServer(s) PROVE AcInv'
  BY <1>3, AddServerKeepsAc, DelServerKeepsAc
<1>4. ASSUME NEW s \in AcServers, syncACLToRedisServer(s) \/ syncACLToRedisFails(s) PROVE AcInv'
  BY <1>4, RedisKeepsAc, RedisFailsKeepsAc
<1>5. CASE storeUpdateACL \/ storeUpdateFails
  BY <1>5, StoreKeepsAc, StoreFailsKeepsAc
<1>6. ASSUME NEW p \in AcProxies, syncACLToProxy(p) \/ reinitProxy(p) PROVE AcInv'
  BY <1>6, ProxyKeepsAc, ReinitKeepsAc
<1>7. ASSUME NEW l \in acLate, LateSetACL(l) PROVE AcInv'
  BY <1>7, LateKeepsAc
<1>8. CASE setACLSyncResult \/ AddEnds \/ Crash
  BY <1>8, ResultKeepsAc, AddEndsKeepsAc, CrashKeepsAc
<1>9. CASE UNCHANGED acVars
  <2>1. UNCHANGED <<acStore, acCache, acServer, acMember, acProxy, acLate, acOver, acOp, acClean, acStray>> /\ Cached' = Cached
    BY <1>9 DEF acVars, Cached
  <2>2. AcTypes' /\ AcCalls'
    BY <2>1 DEF AcInv, AcTypes, AcCalls
  <2>3. AcDone'
    BY <2>1 DEF AcInv, AcDone
  <2>4. AcStrays' /\ AcRevs'
    BY <2>1 DEF AcInv, AcStrays, Held, AcRevs
  <2> QED BY <2>2, <2>3, <2>4 DEF AcInv
<1> QED BY <1>1, <1>2, <1>3, <1>4, <1>5, <1>6, <1>7, <1>8, <1>9 DEF AcNext

LEMMA AcInvAgrees ==
    ASSUME AcInv
    PROVE  ServersAgree
<1>1. AcTypes /\ AcCalls /\ AcDone /\ AcStrays /\ AcRevs /\ Cached \in ACLs
  BY CachedIs DEF AcInv
<1>2. AcTypeOK
  <2>1. \A acl \in ACLs : IsACL(acl)
    BY DEF ACLs, IsACL
  <2>2. \A l \in acLate : l.proxy \in AcProxies /\ l.acl \in ACLs
    BY <1>1 DEF AcTypes
  <2> QED BY <1>1, <2>1, <2>2 DEF AcTypes, AcCalls, AcTypeOK
<1>3. ASSUME acClean, acOp = NoOp
      PROVE  /\ \A s \in acMember, u \in AcUsers : Cached.users[u] # 0 => acServer[s][u] = Cached.users[u]
             /\ \A p \in AcProxies \ acOver : acProxy[p] = Cached
             /\ Strays(acServer, acMember, Cached.users) \subseteq acStray
  <2>1. acOp.kind = "none"
    BY <1>3, AcConstants
  <2>2. \A s \in acMember : Held(s) = Cached.users
    BY <2>1 DEF Held
  <2>3. ASSUME NEW su \in Strays(acServer, acMember, Cached.users) PROVE su \in acStray
    <3>1. PICK s \in acMember, u \in AcUsers : su = <<s, u>> /\ acServer[s][u] # 0 /\ Cached.users[u] = 0
      BY <2>3 DEF Strays
    <3> QED BY <1>1, <2>2, <3>1 DEF AcStrays
  <2> QED BY <1>1, <1>3, <2>1, <2>3 DEF AcDone, Follows
<1>4. RevisionsNameOneACL
  <2>1. ASSUME NEW p \in AcProxies PROVE NotAhead(acProxy[p], acStore)
    <3>1. acProxy[p] \in ACLs /\ acStore \in ACLs
      BY <1>1 DEF AcTypes
    <3> QED BY <1>1, <3>1, NotAheadTransitive DEF AcRevs
  <2> QED BY <2>1 DEF NotAhead, RevisionsNameOneACL
<1> QED BY <1>2, <1>3, <1>4 DEF ServersAgree, SyncedIsSame, RemovedUsersGo

(* After an update or a sync that went through, and until the next begins, *)
(* every server has the users of the ACL of the dashboard, every proxy has *)
(* that ACL unless it ran a SetACL given up before over it, users that     *)
(* were removed are gone from every server that was in a group, and a      *)
(* revision names one ACL, whichever servers, proxies, store writes and    *)
(* dashboards failed in between (topom_acl.go:68-110, 148-160, 343-408).   *)
THEOREM ServersTheorem == AcSpec => []ServersAgree
<1>1. AcInit => AcInv
  BY AcInitInv
<1>2. AcInv /\ [AcNext]_acVars => AcInv'
  BY AcStepKeepsInv
<1>3. AcInv => ServersAgree
  BY AcInvAgrees
<1> QED BY <1>1, <1>2, <1>3, PTL DEF AcSpec

-----------------------------------------------------------------------------
(* HealthyChecker.  A group keeps its master, and gets back only servers   *)
(* of its own.                                                             *)

HaSteps ==
    [at: {"sleep", "proxies", "servers"}] \cup [at: {"promote"}, todo: SUBSET HaGroups]
      \cup [at: {"shutdown"}, server: HaAll]

HaGroupOk(list, g) ==
    list \in Seq(HaAll) /\ Len(list) >= 1 /\ Distinct(list) /\ Elements(list) \subseteq Elements(HaServers[g])

HaInv ==
    /\ DOMAIN haGroup = HaGroups /\ haGroup = [g \in HaGroups |-> haGroup[g]]
    /\ \A g \in HaGroups : HaGroupOk(haGroup[g], g)
    /\ haUp \subseteq HaAll
    /\ haMaster \in [HaAll -> HaAll \cup {HaNone}]
    /\ haLink \in [HaAll -> {"up", "down", "out"}]
    /\ haStuck \subseteq HaGroups
    /\ haProxyUp \subseteq HaProxies /\ haProxy \subseteq HaProxies
    /\ haStep \in HaSteps
    /\ haFaults \in Nat

(* What a step may not do to a master.                                     *)
MastersKept == \A g \in HaGroups : Head0(g) \in ServersOf(haGroup'[g])

LEMMA HaConstants ==
    /\ \A g \in HaGroups : /\ HaServers[g] \in Seq(HaAll) /\ Len(HaServers[g]) \in Nat /\ Len(HaServers[g]) >= 1
                           /\ Distinct(HaServers[g])
    /\ \A g, h \in HaGroups : g # h => Elements(HaServers[g]) \cap Elements(HaServers[h]) = {}
    /\ \A a : a \in HaAll <=> \E g \in HaGroups : a \in Elements(HaServers[g])
<1>1. \A g \in HaGroups : /\ HaServers[g] \in Seq(HaAll) /\ Len(HaServers[g]) \in Nat /\ Len(HaServers[g]) >= 1
                          /\ DOMAIN HaServers[g] = 1 .. Len(HaServers[g])
  BY HealthyCheckerAssumption, LenProperties
<1>2. \A g, h \in HaGroups : \A i \in DOMAIN HaServers[g], j \in DOMAIN HaServers[h] :
          HaServers[g][i] = HaServers[h][j] => g = h /\ i = j
  BY HealthyCheckerAssumption
<1>3. \A g \in HaGroups : Distinct(HaServers[g])
  BY <1>1, <1>2 DEF Distinct
<1>4. \A g, h \in HaGroups : g # h => Elements(HaServers[g]) \cap Elements(HaServers[h]) = {}
  BY <1>1, <1>2 DEF Elements
<1>5. \A a : a \in HaAll <=> \E g \in HaGroups : a \in Elements(HaServers[g])
  BY <1>1 DEF HaAll, ServersOf, Elements
<1> QED BY <1>1, <1>3, <1>4, <1>5

(* A list of servers: its elements and its first.                          *)
LEMMA HaListIs ==
    ASSUME NEW list \in Seq(HaAll), Len(list) >= 1
    PROVE  /\ ServersOf(list) = Elements(list) /\ list[1] \in Elements(list) /\ Elements(list) \subseteq HaAll
           /\ DOMAIN list = 1 .. Len(list) /\ list # << >>
<1>1. DOMAIN list = 1 .. Len(list) /\ Len(list) \in Nat
  BY LenProperties
<1>2. 1 \in 1 .. Len(list)
  BY <1>1
<1>3. list # << >>
  BY EmptySeq
<1>4. Elements(list) \subseteq HaAll
  BY ElementOfSeq DEF Elements
<1> QED BY <1>1, <1>2, <1>3, <1>4 DEF ServersOf, Elements

LEMMA HaInitInv ==
    ASSUME HaInit
    PROVE  HaInv
<1>1. haGroup = HaServers /\ HaServers \in [HaGroups -> Seq(HaAll)]
  BY HealthyCheckerAssumption DEF HaInit
<1>2. DOMAIN haGroup = HaGroups /\ haGroup = [g \in HaGroups |-> haGroup[g]]
  BY <1>1
<1>3. \A g \in HaGroups : HaGroupOk(haGroup[g], g)
  BY <1>1, HaConstants DEF HaGroupOk
<1>4. haMaster \in [HaAll -> HaAll \cup {HaNone}]
  <2>1. ASSUME NEW s \in HaAll
        PROVE  haMaster[s] \in HaAll \cup {HaNone}
    <3> DEFINE g == CHOOSE h \in HaGroups : s \in ServersOf(HaServers[h])
    <3>1. \E h \in HaGroups : s \in ServersOf(HaServers[h])
      BY DEF HaAll
    <3>2. g \in HaGroups
      BY <3>1
    <3> HIDE DEF g
    <3>3. HaServers[g][1] \in HaAll
      BY <3>2, HaConstants, HaListIs
    <3>4. haMaster[s] = IF s = HaServers[g][1] THEN HaNone ELSE HaServers[g][1]
      BY DEF HaInit, g
    <3> QED BY <3>3, <3>4
  <2>2. haMaster = [s \in HaAll |-> haMaster[s]]
    BY DEF HaInit
  <2> QED BY <2>1, <2>2
<1>5. haStep \in HaSteps
  BY DEF HaInit, Asleep, HaSteps
<1>6. haLink \in [HaAll -> {"up", "down", "out"}]
  BY DEF HaInit
<1> QED BY <1>2, <1>3, <1>4, <1>5, <1>6 DEF HaInit, HaInv

(* Steps that leave the groups.                                            *)
LEMMA GroupsKeptHa ==
    ASSUME HaInv, UNCHANGED haGroup, haUp' \subseteq HaAll,
           haMaster' \in [HaAll -> HaAll \cup {HaNone}], haLink' \in [HaAll -> {"up", "down", "out"}],
           haStuck' \subseteq HaGroups,
           haProxyUp' \subseteq HaProxies, haProxy' \subseteq HaProxies,
           haStep' \in HaSteps, haFaults' \in Nat
    PROVE  HaInv' /\ MastersKept
<1>1. HaInv'
  BY DEF HaInv
<1>2. \A g \in HaGroups : Head0(g) \in ServersOf(haGroup'[g])
  BY HaListIs DEF HaInv, HaGroupOk, Head0
<1> QED BY <1>1, <1>2 DEF MastersKept

(* A server is removed from a list it is in, and is not first of.          *)
LEMMA WithoutIs ==
    ASSUME NEW list \in Seq(HaAll), Distinct(list), NEW s
    PROVE  /\ Without(list, s) \in Seq(HaAll) /\ Distinct(Without(list, s))
           /\ Elements(Without(list, s)) = Elements(list) \ {s}
<1> DEFINE S == HaAll \ {s}
<1>1. Elements(list) \subseteq HaAll
  BY ElementOfSeq DEF Elements
<1>2. /\ OnlyIn(list, S) \in Seq(HaAll) /\ Distinct(OnlyIn(list, S))
      /\ Elements(OnlyIn(list, S)) = Elements(list) \cap S
  BY OnlyInIs
<1> QED BY <1>1, <1>2 DEF Without

LEMMA NotEmpty ==
    ASSUME NEW T, NEW list \in Seq(T), Elements(list) # {}
    PROVE  Len(list) >= 1
BY LenProperties DEF Elements

(* Promotion: the servers of the group are the same, in another order.     *)
LEMMA PromotedIs ==
    ASSUME NEW list \in Seq(HaAll), Distinct(list), Len(list) >= 1, NEW s \in Elements(list), s # list[1]
    PROVE  LET new == <<s>> \o Append(Without(Without(list, s), list[1]), list[1])
           IN  new \in Seq(HaAll) /\ Distinct(new) /\ Elements(new) = Elements(list) /\ Len(new) >= 1
<1> DEFINE h == list[1]
           a == Without(list, s)
           b == Without(a, h)
           c == Append(b, h)
           new == <<s>> \o c
<1>1. h \in Elements(list) /\ Elements(list) \subseteq HaAll
  BY HaListIs
<1>2. a \in Seq(HaAll) /\ Distinct(a) /\ Elements(a) = Elements(list) \ {s}
  BY WithoutIs
<1> HIDE DEF a, h
<1>3. b \in Seq(HaAll) /\ Distinct(b) /\ Elements(b) = Elements(a) \ {h}
  BY <1>2, WithoutIs
<1> HIDE DEF b
<1>4. c \in Seq(HaAll) /\ Distinct(c) /\ Elements(c) = Elements(b) \cup {h}
  BY <1>1, <1>3, AppendIs
<1>5. s \notin Elements(c)
  BY <1>2, <1>3, <1>4 DEF h
<1> HIDE DEF c
<1>6. new \in Seq(HaAll) /\ Distinct(new) /\ Elements(new) = Elements(c) \cup {s}
  BY <1>1, <1>4, <1>5, PrependIs
<1> HIDE DEF new
<1>7. Elements(new) = Elements(list)
  BY <1>1, <1>2, <1>3, <1>4, <1>6
<1>8. Len(new) >= 1
  BY <1>6, NotEmpty
<1> QED BY <1>6, <1>7, <1>8 DEF new, c, b, a, h

(* One list of the groups is replaced by one that still has the master.    *)
LEMMA GroupWrittenHa ==
    ASSUME HaInv, NEW g \in HaGroups, NEW list, HaGroupOk(list, g), Head0(g) \in Elements(list),
           haGroup' = [haGroup EXCEPT ![g] = list], UNCHANGED haUp,
           haMaster' \in [HaAll -> HaAll \cup {HaNone}], haLink' \in [HaAll -> {"up", "down", "out"}],
           haStuck' \subseteq HaGroups, UNCHANGED <<haProxy, haProxyUp>>,
           haStep' \in HaSteps, haFaults' \in Nat
    PROVE  HaInv' /\ MastersKept
<1>1. DOMAIN haGroup = HaGroups /\ haGroup = [h \in HaGroups |-> haGroup[h]]
  BY DEF HaInv
<1>2. haGroup'[g] = list /\ \A h \in HaGroups : h # g => haGroup'[h] = haGroup[h]
  BY <1>1
<1>3. DOMAIN haGroup' = HaGroups /\ haGroup' = [h \in HaGroups |-> haGroup'[h]]
  BY <1>1
<1>4. \A h \in HaGroups : HaGroupOk(haGroup[h], h) /\ Head0(h) \in Elements(haGroup[h])
  BY HaListIs DEF HaInv, HaGroupOk, Head0
<1>5. \A h \in HaGroups : HaGroupOk(haGroup'[h], h) /\ Head0(h) \in Elements(haGroup'[h])
  BY <1>2, <1>4
<1>6. HaInv'
  BY <1>3, <1>5 DEF HaInv
<1>7. \A h \in HaGroups : Head0(h) \in ServersOf(haGroup'[h])
  BY <1>5, HaListIs DEF HaGroupOk
<1> QED BY <1>6, <1>7 DEF MastersKept

(* What the dashboard makes of a group it promotes a server of.            *)
LEMMA PromoteHa ==
    ASSUME HaInv, NEW g \in HaGroups, NEW s, Promote(g, s), UNCHANGED haUp, haStuck' \subseteq HaGroups,
           UNCHANGED <<haProxy, haProxyUp>>, haStep' \in HaSteps, haFaults' \in Nat
    PROVE  HaInv' /\ MastersKept
<1> DEFINE new == <<s>> \o Append(Without(Without(haGroup[g], s), haGroup[g][1]), haGroup[g][1])
<1>1. HaGroupOk(haGroup[g], g)
  BY DEF HaInv
<1>2. /\ haGroup[g] \in Seq(HaAll) /\ Distinct(haGroup[g]) /\ Len(haGroup[g]) >= 1
      /\ ServersOf(haGroup[g]) = Elements(haGroup[g]) /\ haGroup[g][1] \in Elements(haGroup[g])
  BY <1>1, HaListIs DEF HaGroupOk
<1>3. s \in Elements(haGroup[g]) /\ s # haGroup[g][1]
  BY <1>2 DEF Promote, Head0
<1>4. new \in Seq(HaAll) /\ Distinct(new) /\ Elements(new) = Elements(haGroup[g]) /\ Len(new) >= 1
  BY <1>2, <1>3, PromotedIs
<1>5. haGroup' = [haGroup EXCEPT ![g] = new]
  BY DEF Promote, Head0
<1> HIDE DEF new
<1>6. HaGroupOk(new, g) /\ Head0(g) \in Elements(new)
  BY <1>1, <1>2, <1>4 DEF HaGroupOk, Head0
<1>7. haMaster' \in [HaAll -> HaAll \cup {HaNone}] /\ haLink' \in [HaAll -> {"up", "down", "out"}]
  BY DEF Promote, HaInv
<1> QED BY <1>4, <1>5, <1>6, <1>7, GroupWrittenHa

(* The first of a set of pairs of numbers is one of them.                  *)
LEMMA FirstIs ==
    ASSUME NEW S \in SUBSET (Nat \X Nat), S # {}
    PROVE  FirstOf(S) \in S
<1> DEFINE A == {x[1] : x \in S}
<1>1. A \in SUBSET Nat /\ A # {}
  OBVIOUS
<1>2. PICK a \in A : \A b \in A : a <= b
  BY <1>1, LeastExists
<1> DEFINE B == {n \in Nat : <<a, n>> \in S}
<1>3. B \in SUBSET Nat /\ B # {}
  <2>1. PICK x \in S : x[1] = a
    OBVIOUS
  <2>2. x = <<a, x[2]>> /\ x[2] \in Nat
    BY <2>1
  <2> QED BY <2>2
<1> HIDE DEF B
<1>4. PICK m \in B : \A n \in B : m <= n
  BY <1>3, LeastExists
<1>5. <<a, m>> \in S /\ a \in Nat /\ m \in Nat
  BY <1>1, <1>4 DEF B
<1>6. ASSUME NEW y \in S
      PROVE  a < y[1] \/ (a = y[1] /\ m <= y[2])
  <2>1. y = <<y[1], y[2]>> /\ y[1] \in Nat /\ y[2] \in Nat /\ y[1] \in A
    OBVIOUS
  <2>2. a <= y[1]
    BY <2>1, <1>2
  <2>3. a = y[1] => y[2] \in B
    BY <2>1 DEF B
  <2>4. a = y[1] => m <= y[2]
    BY <2>3, <1>4
  <2> QED BY <1>5, <2>1, <2>2, <2>4
<1> DEFINE p == <<a, m>>
<1>7. p \in S /\ \A y \in S : p[1] < y[1] \/ (p[1] = y[1] /\ p[2] <= y[2])
  BY <1>5, <1>6
<1> HIDE DEF p
<1>8. \E x \in S : \A y \in S : x[1] < y[1] \/ (x[1] = y[1] /\ x[2] <= y[2])
  BY <1>7
<1> QED BY <1>8 DEF FirstOf

LEMMA DelServerHa ==
    ASSUME HaInv, DelServer
    PROVE  HaInv' /\ MastersKept
<1>1. CASE UNCHANGED haGroup /\ haStep' \in {Asleep, [at |-> "promote", todo |-> HaGroups]} /\ haFaults' \in Nat
  <2>1. haStep' \in HaSteps
    BY <1>1 DEF HaSteps, Asleep
  <2> QED BY <1>1, <2>1, GroupsKeptHa DEF DelServer, HaInv
<1> DEFINE g == FirstOf(Removable)[1]
           s == haView.group[g][FirstOf(Removable)[2]]
<1>2. CASE /\ Removable # {} /\ MayDelServer(g, s)
           /\ haGroup' = [haGroup EXCEPT ![g] = Without(@, s)]
           /\ haStep' = [at |-> "shutdown", server |-> s]
           /\ UNCHANGED haFaults
  <2>1. Cardinality(HaAll) \in Nat
    BY HealthyCheckerAssumption, FS_CardinalityType
  <2>2. Scanned \subseteq HaGroups /\ HaGroups \subseteq Nat
    BY HealthyCheckerAssumption DEF Scanned
  <2>3. Removable \in SUBSET (Nat \X Nat) /\ \A x \in Removable : x[1] \in HaGroups
    <3>1. Removable \subseteq Scanned \X (2 .. Cardinality(HaAll))
      BY Zenon DEF Removable
    <3>2. 2 .. Cardinality(HaAll) \subseteq Nat
      BY <2>1
    <3> QED BY <2>2, <3>1, <3>2
  <2>4. g \in HaGroups
    BY <1>2, <2>3, FirstIs
  <2> HIDE DEF g, s
  <2>5. HaGroupOk(haGroup[g], g)
    BY <2>4 DEF HaInv
  <2>6. /\ haGroup[g] \in Seq(HaAll) /\ Distinct(haGroup[g]) /\ Len(haGroup[g]) >= 1
        /\ ServersOf(haGroup[g]) = Elements(haGroup[g]) /\ haGroup[g][1] \in Elements(haGroup[g])
        /\ Elements(haGroup[g]) \subseteq HaAll
    BY <2>5, HaListIs DEF HaGroupOk
  <2>7. s \in Elements(haGroup[g]) /\ s # Head0(g)
    BY <1>2, <2>6 DEF MayDelServer
  <2> DEFINE new == Without(haGroup[g], s)
  <2>8. new \in Seq(HaAll) /\ Distinct(new) /\ Elements(new) = Elements(haGroup[g]) \ {s}
    BY <2>6, WithoutIs
  <2>9. haGroup' = [haGroup EXCEPT ![g] = new]
    BY <1>2
  <2> HIDE DEF new
  <2>10. Head0(g) \in Elements(new) /\ Len(new) >= 1
    BY <2>6, <2>7, <2>8, NotEmpty DEF Head0
  <2>11. HaGroupOk(new, g)
    BY <2>5, <2>8, <2>10 DEF HaGroupOk
  <2>12. haStep' \in HaSteps
    BY <1>2, <2>6, <2>7 DEF HaSteps
  <2>13. /\ UNCHANGED haUp /\ haMaster' \in [HaAll -> HaAll \cup {HaNone}] /\ haStuck' \subseteq HaGroups
         /\ haLink' \in [HaAll -> {"up", "down", "out"}]
         /\ UNCHANGED <<haProxy, haProxyUp>> /\ haFaults' \in Nat
    BY <1>2 DEF DelServer, HaInv
  <2> QED BY <2>4, <2>9, <2>10, <2>11, <2>12, <2>13, GroupWrittenHa
<1> QED BY <1>1, <1>2 DEF DelServer, HaInv

LEMMA ShutdownHa ==
    ASSUME HaInv, Shutdown
    PROVE  HaInv' /\ MastersKept
<1>1. haStep' \in HaSteps
  BY DEF Shutdown, HaSteps, Asleep
<1>2. haLink' \in [HaAll -> {"up", "down", "out"}] /\ haUp' \subseteq HaAll
  BY DEF Shutdown, HaInv
<1>3. UNCHANGED <<haGroup, haMaster, haStuck, haProxy, haProxyUp, haFaults>>
  BY DEF Shutdown
<1> QED BY <1>1, <1>2, <1>3, GroupsKeptHa DEF HaInv

LEMMA PromoteServerHa ==
    ASSUME HaInv, PromoteServer
    PROVE  HaInv' /\ MastersKept
<1> DEFINE g == CHOOSE h \in haStep.todo : \A k \in haStep.todo : h <= k
<1>1. haStep.at = "promote" /\ haStep.todo # {} /\ haStep \in HaSteps
  BY DEF PromoteServer, HaInv
<1>2. haStep.todo \in SUBSET HaGroups /\ haStep.todo \in SUBSET Nat
  BY <1>1, HealthyCheckerAssumption DEF HaSteps
<1>3. g \in HaGroups
  BY <1>1, <1>2, LeastExists
<1>4. haStep' = [haStep EXCEPT !.todo = @ \ {g}]
  BY DEF PromoteServer
<1> HIDE DEF g
<1>5. haStep' \in HaSteps
  BY <1>1, <1>2, <1>4 DEF HaSteps
<1>6. UNCHANGED <<haUp, haProxy, haProxyUp>>
  BY DEF PromoteServer
<1>7. CASE UNCHANGED <<haGroup, haMaster, haLink>> /\ haStuck' \subseteq HaGroups /\ haFaults' \in Nat
  BY <1>5, <1>6, <1>7, GroupsKeptHa DEF HaInv
<1>8. CASE (\E s : Promote(g, s)) /\ UNCHANGED <<haStuck, haFaults>>
  BY <1>3, <1>5, <1>6, <1>8, PromoteHa DEF HaInv
<1>9. \/ UNCHANGED <<haGroup, haMaster, haLink>> /\ haStuck' \subseteq HaGroups /\ haFaults' \in Nat
      \/ (\E s : Promote(g, s)) /\ UNCHANGED <<haStuck, haFaults>>
  <2>1. \/ UNCHANGED <<haGroup, haMaster, haLink, haStuck, haFaults>>
        \/ /\ \E i \in picked(g) : Promote(g, haView.group[g][i]) \/ UNCHANGED <<haGroup, haMaster, haLink>>
           /\ UNCHANGED <<haStuck, haFaults>>
        \/ /\ haFaults' = haFaults + 1 /\ haStuck' \in {haStuck, haStuck \cup {g}}
           /\ UNCHANGED <<haGroup, haMaster, haLink>>
    BY Zenon DEF PromoteServer, g
  <2>2. \/ UNCHANGED <<haGroup, haMaster, haLink>>
           /\ (haFaults' = haFaults \/ haFaults' = haFaults + 1) /\ haStuck' \in {haStuck, haStuck \cup {g}}
        \/ (\E s : Promote(g, s)) /\ UNCHANGED <<haStuck, haFaults>>
    BY <2>1, Zenon
  <2>3. haFaults \in Nat /\ haStuck \subseteq HaGroups
    BY DEF HaInv
  <2>4. /\ haFaults' = haFaults \/ haFaults' = haFaults + 1 => haFaults' \in Nat
        /\ haStuck' \in {haStuck, haStuck \cup {g}} => haStuck' \subseteq HaGroups
    BY <2>3, <1>3
  <2> QED BY <2>2, <2>4
<1> QED BY <1>7, <1>8, <1>9

LEMMA OtherRoundsHa ==
    ASSUME HaInv, newHealthyChecker \/ RemoveProxy \/ RoundEnds
    PROVE  HaInv' /\ MastersKept
<1>1. haStep' \in HaSteps
  BY DEF newHealthyChecker, RemoveProxy, RoundEnds, HaSteps, Asleep
<1>2. /\ UNCHANGED <<haGroup, haUp, haMaster, haLink, haStuck, haProxyUp>>
      /\ haProxy' \subseteq haProxy /\ haFaults' \in Nat
  BY DEF newHealthyChecker, RemoveProxy, RoundEnds, haCluster, HaInv
<1> QED BY <1>1, <1>2, GroupsKeptHa DEF HaInv

LEMMA ProxyFailsHa ==
    ASSUME HaInv, NEW p, ProxyFails(p)
    PROVE  HaInv' /\ MastersKept
BY GroupsKeptHa DEF ProxyFails, HaInv

LEMMA ServersHa ==
    ASSUME HaInv, NEW s \in HaAll, Servers(s)
    PROVE  HaInv' /\ MastersKept
<1>1. /\ UNCHANGED <<haGroup, haStuck, haProxy, haStep>> /\ haUp' \subseteq HaAll
      /\ haProxyUp' \subseteq HaProxies /\ haFaults' \in Nat
  BY DEF Servers, ServerFails, ServerStarts, MasterLost, LinkFails, LinkAges, LinkComesUp, LinkIs, HaInv
<1>2. haMaster' \in [HaAll -> HaAll \cup {HaNone}] /\ haLink' \in [HaAll -> {"up", "down", "out"}]
  BY DEF Servers, ServerFails, ServerStarts, MasterLost, LinkFails, LinkAges, LinkComesUp, LinkIs, HaInv
<1> QED BY <1>1, <1>2, GroupsKeptHa DEF HaInv

LEMMA OperatorSyncsHa ==
    ASSUME HaInv, NEW g \in HaGroups, NEW s \in HaAll, OperatorSyncs(g, s)
    PROVE  HaInv' /\ MastersKept
<1>1. UNCHANGED <<haGroup, haUp, haStuck, haProxy, haProxyUp, haStep, haFaults>>
  BY DEF OperatorSyncs
<1>2. Head0(g) \in HaAll
  BY HaListIs DEF HaInv, HaGroupOk, Head0
<1>3. haMaster' \in [HaAll -> HaAll \cup {HaNone}] /\ haLink' \in [HaAll -> {"up", "down", "out"}]
  BY <1>2 DEF OperatorSyncs, HaInv
<1> QED BY <1>1, <1>3, GroupsKeptHa DEF HaInv

(* A server comes back to the end of the list of its own group.            *)
LEMMA OperatorAddsHa ==
    ASSUME HaInv, NEW g \in HaGroups, NEW s \in HaAll, OperatorAdds(g, s)
    PROVE  HaInv' /\ MastersKept
<1> DEFINE new == Append(haGroup[g], s)
<1>1. HaGroupOk(haGroup[g], g)
  BY DEF HaInv
<1>2. /\ haGroup[g] \in Seq(HaAll) /\ Distinct(haGroup[g]) /\ Len(haGroup[g]) >= 1
      /\ ServersOf(haGroup[g]) = Elements(haGroup[g]) /\ Head0(g) \in Elements(haGroup[g])
  BY <1>1, HaListIs DEF HaGroupOk, Head0
<1>3. ServersOf(HaServers[g]) = Elements(HaServers[g])
  BY HaConstants, HaListIs
<1>4. s \in Elements(HaServers[g]) /\ s \notin Elements(haGroup[g])
  BY <1>2, <1>3 DEF OperatorAdds
<1>5. new \in Seq(HaAll) /\ Distinct(new) /\ Elements(new) = Elements(haGroup[g]) \cup {s}
  BY <1>2, <1>4, AppendIs
<1>6. haGroup' = [haGroup EXCEPT ![g] = new]
  BY DEF OperatorAdds
<1> HIDE DEF new
<1>7. Len(new) >= 1
  BY <1>2, <1>5, NotEmpty
<1>8. HaGroupOk(new, g) /\ Head0(g) \in Elements(new)
  BY <1>1, <1>2, <1>4, <1>5, <1>7 DEF HaGroupOk
<1>9. UNCHANGED <<haUp, haMaster, haLink, haStuck, haProxy, haProxyUp, haStep, haFaults>>
  BY DEF OperatorAdds
<1> QED BY <1>6, <1>8, <1>9, GroupWrittenHa DEF HaInv

LEMMA HaStepKeepsInv ==
    ASSUME HaInv, HaNext
    PROVE  HaInv' /\ MastersKept
<1>1. CASE HaRound
  BY <1>1, OtherRoundsHa, DelServerHa, ShutdownHa, PromoteServerHa DEF HaRound
<1>2. CASE \E g \in HaGroups, s \in HaAll : OperatorPromotes(g, s)
  <2>1. PICK g \in HaGroups, s \in HaAll : OperatorPromotes(g, s)
    BY <1>2
  <2>2. /\ Promote(g, s) /\ UNCHANGED <<haUp, haProxy, haProxyUp, haStep, haFaults>>
        /\ haStuck' \subseteq HaGroups
    BY <2>1 DEF OperatorPromotes, HaInv
  <2> QED BY <2>2, PromoteHa DEF HaInv
<1>3. CASE \E s \in HaAll : Servers(s)
  BY <1>3, ServersHa
<1>4. CASE \E p \in HaProxies : ProxyFails(p)
  <2>1. PICK p \in HaProxies : ProxyFails(p)
    BY <1>4
  <2> QED BY <2>1, ProxyFailsHa
<1>5. CASE \E g \in HaGroups, s \in HaAll : OperatorSyncs(g, s) \/ OperatorAdds(g, s)
  BY <1>5, OperatorSyncsHa, OperatorAddsHa
<1> QED BY <1>1, <1>2, <1>3, <1>4, <1>5 DEF HaNext, Operators

LEMMA HaInvTypes ==
    ASSUME HaInv
    PROVE  HaTypeOK
<1>1. ASSUME NEW g \in HaGroups
      PROVE  /\ haGroup[g] # << >> /\ ServersOf(haGroup[g]) \subseteq ServersOf(HaServers[g])
             /\ \A i, j \in DOMAIN haGroup[g] : haGroup[g][i] = haGroup[g][j] => i = j
  <2>1. HaGroupOk(haGroup[g], g)
    BY DEF HaInv
  <2>2. HaServers[g] \in Seq(HaAll) /\ Len(HaServers[g]) >= 1
    BY HaConstants
  <2>3. ServersOf(HaServers[g]) = Elements(HaServers[g])
    BY <2>2, HaListIs
  <2>4. /\ ServersOf(haGroup[g]) = Elements(haGroup[g]) /\ haGroup[g] # << >>
        /\ DOMAIN haGroup[g] = 1 .. Len(haGroup[g])
    BY <2>1, HaListIs DEF HaGroupOk
  <2> QED BY <2>1, <2>3, <2>4 DEF HaGroupOk, Distinct
<1> QED BY <1>1 DEF HaInv, HaTypeOK

(* However old the picture is by which codis-ha acts, and whatever the     *)
(* operators do meanwhile, no group loses the master it has or is left     *)
(* without servers, and no server is twice in the groups or comes into     *)
(* another one (cmd/ha/main.go:266-369, topom_group.go:102-203).           *)
THEOREM LeadersTheorem == HaSpec => LeadersAreKept
<1>1. HaInit => HaInv
  BY HaInitInv
<1>2. HaInv /\ [HaNext]_haVars => HaInv'
  <2>1. HaInv /\ UNCHANGED haVars => HaInv'
    BY DEF HaInv, haVars, haCluster
  <2> QED BY <2>1, HaStepKeepsInv
<1>3. HaInv => HaTypeOK
  BY HaInvTypes
<1>4. HaInv /\ [HaNext]_haVars => [MastersKept]_haVars
  BY HaStepKeepsInv
<1>5. HaSpec => [][MastersKept]_haVars
  BY <1>1, <1>2, <1>4, PTL DEF HaSpec
<1>6. HaSpec => MastersStay
  BY <1>5, PTL DEF MastersKept, MastersStay
<1> QED BY <1>1, <1>2, <1>3, <1>6, PTL DEF HaSpec, LeadersAreKept

-----------------------------------------------------------------------------
(* SentinelWatch.  A fetch hears from a majority of the sentinels, so from *)
(* one of those that had reached the floor when it began; these have gone  *)
(* no way but forward, unless the group was taken from them, with which    *)
(* the floor is gone too.                                                  *)

SnViews   == [epoch: 0 .. MaxEpoch, master: SnServers \cup {SnNone}]
SnFetches == [at: {"idle", "ask", "checked"}, best: SnViews, tries: Nat, ok: Nat]

(* The sentinels that have reached an epoch.                               *)
HaveReached(e) == {s \in Sentinels : snView[s].epoch >= e}

SnInv ==
    /\ snView \in [Sentinels -> SnViews]
    /\ snEpoch \in 0 .. MaxEpoch
    /\ \A s \in Sentinels : snView[s].epoch <= snEpoch /\ (snView[s].epoch > 0 => snView[s].master # SnNone)
    /\ snAddr \in SnServers /\ snGroup \in SnServers
    /\ snFetch \in SnFetches /\ snFetch.tries < Tries /\ snFetch.ok < 2
    /\ snLate \subseteq SnViews
    /\ snFloor \in Nat
    /\ snFetch.at = "ask" => Cardinality(HaveReached(snFloor)) >= majority
    /\ FetchesSeeMajority

LEMMA SnConstants ==
    /\ IsFiniteSet(Sentinels) /\ SnFirst \in SnServers /\ SnNone \notin SnServers
    /\ Tries \in Nat /\ Tries > 0 /\ MaxEpoch \in Nat
    /\ Cardinality(Sentinels) \in Nat /\ majority \in Nat /\ 2 * majority > Cardinality(Sentinels)
    /\ Cardinality(Sentinels) >= majority
    /\ NoView \in SnViews /\ NoFetch \in SnFetches
    /\ NoView.epoch = 0 /\ NoView.master = SnNone
    /\ NoFetch.at = "idle" /\ NoFetch.tries = 0 /\ NoFetch.ok = 0
<1>1. IsFiniteSet(Sentinels) /\ Sentinels # {} /\ Tries \in Nat \ {0} /\ MaxEpoch \in Nat
  BY SentinelWatchAssumption
<1>2. Cardinality(Sentinels) \in Nat /\ Cardinality(Sentinels) # 0
  BY <1>1, FS_CardinalityType, FS_EmptySet
<1>3. ASSUME NEW n \in Nat, n # 0
      PROVE  1 + n \div 2 \in Nat /\ 2 * (1 + n \div 2) > n /\ n >= 1 + n \div 2
  BY <1>3
<1>4. majority \in Nat /\ 2 * majority > Cardinality(Sentinels) /\ Cardinality(Sentinels) >= majority
  BY <1>2, <1>3 DEF majority
<1>5. NoView \in SnViews
  BY <1>1 DEF NoView, SnViews
<1>6. NoFetch \in SnFetches
  BY <1>5 DEF NoFetch, SnFetches
<1> QED BY <1>1, <1>2, <1>4, <1>5, <1>6, SentinelWatchAssumption DEF NoView, NoFetch

(* The epoch that a majority has reached exists.                           *)
LEMMA ReachedIs ==
    ASSUME SnInv
    PROVE  Reached \in Nat /\ Cardinality(HaveReached(Reached)) >= majority
<1> DEFINE n(f) == Cardinality({s \in Sentinels : snView[s].epoch >= f})
           S == {e \in 0 .. MaxEpoch : e < MaxEpoch => n(e + 1) < majority}
<1>1. MaxEpoch \in Nat /\ majority \in Nat
  BY SnConstants
<1>2. \A f \in Nat : n(f) \in Nat
  <2>1. \A f \in Nat : {s \in Sentinels : snView[s].epoch >= f} \in SUBSET Sentinels
    OBVIOUS
  <2> QED BY <2>1, SnConstants, FS_Subset, FS_CardinalityType
<1>3. n(0) >= majority
  <2>1. \A s \in Sentinels : snView[s].epoch >= 0
    BY <1>1 DEF SnInv, SnViews
  <2>2. {s \in Sentinels : snView[s].epoch >= 0} = Sentinels
    BY <2>1
  <2> QED BY <2>2, SnConstants
<1> HIDE DEF n
<1>4. MaxEpoch \in S /\ S \in SUBSET Nat
  BY <1>1
<1>5. PICK e \in S : \A f \in S : e <= f
  <2> HIDE DEF S
  <2> QED BY <1>4, LeastExists
<1>6. n(e) >= majority
  <2>1. CASE e = 0
    BY <2>1, <1>3
  <2>2. CASE e # 0
    <3>1. e \in Nat /\ e - 1 \in 0 .. MaxEpoch /\ e - 1 < MaxEpoch /\ (e - 1) + 1 = e
      BY <1>1, <2>2
    <3>2. e - 1 \notin S
      BY <1>5, <3>1
    <3> QED BY <1>1, <1>2, <3>1, <3>2
  <2> QED BY <2>1, <2>2
<1>7. \E x \in 0 .. MaxEpoch : n(x) >= majority /\ (x < MaxEpoch => n(x + 1) < majority)
  BY <1>5, <1>6
<1>8. Reached = CHOOSE x \in 0 .. MaxEpoch : n(x) >= majority /\ (x < MaxEpoch => n(x + 1) < majority)
  BY Zenon DEF Reached, n
<1>9. Reached \in 0 .. MaxEpoch /\ n(Reached) >= majority
  BY <1>7, <1>8
<1> QED BY <1>1, <1>9 DEF n, HaveReached

(* What is kept of some answers is a view, and none of them is newer.      *)
LEMMA NewerIs ==
    ASSUME NEW V \in SUBSET SnViews, NEW best \in newer(V)
    PROVE  best \in SnViews /\ \A v \in V : best.epoch >= v.epoch
<1>1. CASE V = {}
  BY <1>1, SnConstants DEF newer
<1>2. CASE V # {}
  BY <1>2 DEF newer
<1> QED BY <1>1, <1>2

LEMMA SnInitInv ==
    ASSUME SnInit
    PROVE  SnInv
<1>1. snView \in [Sentinels -> SnViews] /\ \A s \in Sentinels : snView[s].epoch = 0
  BY SnConstants DEF SnInit, SnViews
<1> QED BY <1>1, SnConstants DEF SnInit, SnInv, FetchesSeeMajority

(* Steps that leave the sentinels and the fetch.                           *)
LEMMA SnStays ==
    ASSUME SnInv, UNCHANGED <<snView, snEpoch, snGroup, snFetch, snFloor>>,
           snAddr' \in SnServers, snLate' \subseteq SnViews
    PROVE  SnInv'
<1>1. HaveReached(snFloor)' = HaveReached(snFloor)
  BY DEF HaveReached
<1>2. FetchesSeeMajority'
  BY DEF SnInv, FetchesSeeMajority
<1> QED BY <1>1, <1>2 DEF SnInv, majority

(* A sentinel goes on to a later epoch.                                    *)
LEMMA SnPublished ==
    ASSUME SnInv, NEW s \in Sentinels, NEW view \in SnViews, Publish(s, view),
           view.epoch >= snView[s].epoch, view.master # SnNone,
           snEpoch' \in 0 .. MaxEpoch, snEpoch <= snEpoch', view.epoch <= snEpoch'
    PROVE  SnInv'
<1>1. /\ snView' = [snView EXCEPT ![s] = view]
      /\ UNCHANGED <<snGroup, snAddr, snCount, snTrigger, snFetch, snLate, snFloor, snEvents>>
  BY DEF Publish
<1>2. snView \in [Sentinels -> SnViews] /\ snEpoch \in 0 .. MaxEpoch /\ MaxEpoch \in Nat /\ snFloor \in Nat
  BY SnConstants DEF SnInv
<1>3. snView' \in [Sentinels -> SnViews] /\ \A t \in Sentinels : snView'[t] = IF t = s THEN view ELSE snView[t]
  BY <1>1, <1>2
<1>4. \A t \in Sentinels : /\ snView[t].epoch \in Nat /\ snView'[t].epoch \in Nat
                           /\ snView'[t].epoch >= snView[t].epoch
  BY <1>2, <1>3 DEF SnViews
<1>5. \A t \in Sentinels : snView'[t].epoch <= snEpoch' /\ (snView'[t].epoch > 0 => snView'[t].master # SnNone)
  BY <1>2, <1>3, <1>4 DEF SnInv
<1>6. snFetch.at = "ask" => Cardinality(HaveReached(snFloor)') >= majority
  <2>1. HaveReached(snFloor) \subseteq HaveReached(snFloor)' /\ HaveReached(snFloor)' \subseteq Sentinels
    BY <1>1, <1>2, <1>4 DEF HaveReached
  <2>2. /\ IsFiniteSet(HaveReached(snFloor)') /\ Cardinality(HaveReached(snFloor)') \in Nat
        /\ Cardinality(HaveReached(snFloor)) \in Nat
        /\ Cardinality(HaveReached(snFloor)) <= Cardinality(HaveReached(snFloor)')
    BY <2>1, SnConstants, FS_Subset, FS_CardinalityType
  <2> QED BY <2>2, SnConstants DEF SnInv
<1>7. FetchesSeeMajority'
  BY <1>1 DEF SnInv, FetchesSeeMajority
<1> QED BY <1>1, <1>3, <1>5, <1>6, <1>7 DEF SnInv, majority

LEMMA SnElects ==
    ASSUME SnInv, NEW s \in Sentinels, NEW a \in SnServers, Elect(s, a)
    PROVE  SnInv'
<1> DEFINE view == [epoch |-> snEpoch + 1, master |-> a]
<1>1. snEpoch < MaxEpoch /\ snEpoch' = snEpoch + 1 /\ Publish(s, view)
  BY DEF Elect
<1>2. snEpoch \in 0 .. MaxEpoch /\ MaxEpoch \in Nat /\ SnNone \notin SnServers
  BY SnConstants DEF SnInv
<1>3. view \in SnViews /\ view.epoch = snEpoch + 1 /\ view.master # SnNone
  BY <1>1, <1>2 DEF SnViews
<1>4. snView[s].epoch \in Nat /\ snView[s].epoch <= snEpoch
  BY <1>2 DEF SnInv, SnViews
<1> HIDE DEF view
<1> QED BY <1>1, <1>2, <1>3, <1>4, SnPublished

LEMMA SnAdopts ==
    ASSUME SnInv, NEW s \in Sentinels, Adopt(s)
    PROVE  SnInv'
<1>1. PICK t \in Sentinels : snView[t].epoch > snView[s].epoch /\ Publish(s, snView[t])
  BY DEF Adopt
<1>2. /\ snEpoch \in 0 .. MaxEpoch /\ MaxEpoch \in Nat /\ snView[t] \in SnViews /\ snView[s] \in SnViews
      /\ snView[t].epoch \in Nat /\ snView[s].epoch \in Nat /\ snEpoch' = snEpoch
  BY SnConstants DEF SnInv, SnViews, Adopt
<1>3. snView[t].epoch > 0 /\ snView[t].epoch <= snEpoch /\ snView[t].master # SnNone
  BY <1>1, <1>2 DEF SnInv
<1> DEFINE view == snView[t]
<1>4. /\ view \in SnViews /\ Publish(s, view) /\ view.epoch >= snView[s].epoch /\ view.master # SnNone
      /\ view.epoch <= snEpoch' /\ snEpoch' \in 0 .. MaxEpoch /\ snEpoch <= snEpoch'
  BY <1>1, <1>2, <1>3
<1> HIDE DEF view
<1> QED BY <1>4, SnPublished

(* A fetch begins or is repeated: its floor is what a majority has now.    *)
LEMMA SnAsks ==
    ASSUME SnInv, UNCHANGED <<snView, snEpoch, snGroup, snLate>>, snAddr' \in SnServers,
           snFetch' \in SnFetches, snFetch'.tries < Tries, snFetch'.ok < 2,
           snFetch'.at = "ask" => snFloor' = Reached,
           snFetch'.at # "ask" => snFetch'.at = "idle" /\ snFloor' = 0
    PROVE  SnInv'
<1>1. snFloor' \in Nat
  BY ReachedIs
<1>2. ASSUME snFetch'.at = "ask"
      PROVE  Cardinality(HaveReached(snFloor)') >= majority
  <2>1. HaveReached(snFloor)' = HaveReached(Reached)
    BY <1>2 DEF HaveReached
  <2> QED BY <2>1, ReachedIs
<1>3. FetchesSeeMajority'
  BY DEF FetchesSeeMajority
<1> QED BY <1>1, <1>2, <1>3 DEF SnInv, majority

LEMMA SnBegins ==
    ASSUME SnInv, FetchBegins
    PROVE  SnInv'
<1>1. /\ snFetch' = [NoFetch EXCEPT !.at = "ask"] /\ snFloor' = Reached
      /\ UNCHANGED <<snView, snEpoch, snGroup, snAddr, snLate>>
  BY DEF FetchBegins
<1>2. snFetch' \in SnFetches /\ snFetch'.at = "ask" /\ snFetch'.tries = 0 /\ snFetch'.ok = 0
  BY <1>1, SnConstants DEF SnFetches
<1> QED BY <1>1, <1>2, SnConstants, SnAsks DEF SnInv

LEMMA SnRepeats ==
    ASSUME SnInv, UNCHANGED <<snView, snEpoch, snGroup, snLate>>, snAddr' \in SnServers,
           NEW tries \in Nat, NEW ok \in Nat, tries <= Tries, ok <= 2, Again(tries, ok)
    PROVE  SnInv'
<1>1. CASE tries = Tries \/ ok = 2
  <2>1. snFetch' = NoFetch /\ snFloor' = 0
    BY <1>1, SnConstants DEF Again
  <2> QED BY <2>1, SnConstants, SnAsks
<1>2. CASE ~ (tries = Tries \/ ok = 2)
  <2>1. snFetch' = [NoFetch EXCEPT !.at = "ask", !.tries = tries, !.ok = ok]
    BY <1>2 DEF Again
  <2>2. snFetch' \in SnFetches /\ snFetch'.at = "ask" /\ snFetch'.tries = tries /\ snFetch'.ok = ok
    BY <2>1, SnConstants DEF SnFetches, NoFetch
  <2>3. snFloor' = Reached
    BY <2>2 DEF Again
  <2>4. tries < Tries /\ ok < 2
    BY <1>2, SnConstants
  <2> QED BY <2>2, <2>3, <2>4, SnAsks
<1> QED BY <1>1, <1>2

(* Of a majority that answers, one had reached the floor.                  *)
LEMMA SnAnswered ==
    ASSUME SnInv, NEW got \in SUBSET Sentinels, Masters(got)
    PROVE  SnInv'
<1> DEFINE V == {snView[s] : s \in {t \in got : snView[t].master # SnNone}}
<1>0. PICK best \in newer(V) : snFetch' = [snFetch EXCEPT !.at = "checked", !.best = best]
  BY Zenon DEF Masters
<1>1. /\ snFetch.at = "ask" /\ Cardinality(got) >= majority
      /\ snFetch' = [snFetch EXCEPT !.at = "checked", !.best = best]
      /\ UNCHANGED <<snView, snEpoch, snGroup, snAddr, snLate, snFloor>>
  BY <1>0 DEF Masters, voted
<1>2. V \in SUBSET SnViews
  BY DEF SnInv
<1>3. best \in SnViews /\ \A v \in V : best.epoch >= v.epoch
  BY <1>2, NewerIs
<1>4. best.epoch \in Nat /\ snFloor \in Nat
  BY <1>3, SnConstants DEF SnViews, SnInv
<1>5. best.epoch >= snFloor
  <2>1. CASE snFloor = 0
    BY <1>4, <2>1
  <2>2. CASE snFloor # 0
    <3>1. got \cap HaveReached(snFloor) # {}
      <4>1. HaveReached(snFloor) \subseteq Sentinels
        BY DEF HaveReached
      <4>2. Cardinality(HaveReached(snFloor)) >= majority
        BY <1>1 DEF SnInv
      <4>3. Cardinality(got) \in Nat /\ Cardinality(HaveReached(snFloor)) \in Nat
        BY <4>1, SnConstants, FS_Subset, FS_CardinalityType
      <4>4. Cardinality(got) + Cardinality(HaveReached(snFloor)) > Cardinality(Sentinels)
        BY <1>1, <4>2, <4>3, SnConstants
      <4> QED BY <4>1, <4>4, SnConstants, FS_MajoritiesIntersect
    <3>2. PICK s \in got : s \in HaveReached(snFloor)
      BY <3>1
    <3>3. s \in Sentinels /\ snView[s].epoch \in Nat /\ snView[s].epoch >= snFloor
      BY <3>2, SnConstants DEF HaveReached, SnInv, SnViews
    <3>4. snView[s] \in V
      BY <1>4, <2>2, <3>2, <3>3 DEF SnInv
    <3>5. best.epoch >= snView[s].epoch
      BY <1>3, <3>4
    <3> HIDE DEF V
    <3> QED BY <1>4, <3>3, <3>5
  <2> QED BY <2>1, <2>2
<1> HIDE DEF V
<1>6. /\ snFetch' \in SnFetches /\ snFetch'.at = "checked" /\ snFetch'.best = best
      /\ snFetch'.tries = snFetch.tries /\ snFetch'.ok = snFetch.ok
  BY <1>1, <1>3 DEF SnInv, SnFetches
<1>7. FetchesSeeMajority'
  BY <1>1, <1>5, <1>6 DEF FetchesSeeMajority
<1> QED BY <1>1, <1>6, <1>7 DEF SnInv

LEMMA SnSwitches ==
    ASSUME SnInv, SwitchMasters \/ MastersFails
    PROVE  SnInv'
<1>1. /\ snFetch \in SnFetches /\ snFetch.tries \in Nat /\ snFetch.ok \in Nat /\ snFetch.best \in SnViews
      /\ snFetch.tries < Tries /\ snFetch.ok < 2 /\ snAddr \in SnServers
  BY DEF SnInv, SnFetches
<1>2. UNCHANGED <<snView, snEpoch, snGroup, snLate>>
  BY DEF SwitchMasters, MastersFails
<1>3. snAddr' \in SnServers
  BY <1>1 DEF SwitchMasters, MastersFails, Switched, SnViews
<1>4. snFetch.tries + 1 \in Nat /\ snFetch.tries + 1 <= Tries /\ snFetch.ok + 1 \in Nat /\ snFetch.ok + 1 <= 2
  BY <1>1, SnConstants
<1>5. Again(snFetch.tries + 1, snFetch.ok) \/ Again(snFetch.tries + 1, snFetch.ok + 1)
  BY DEF SwitchMasters, MastersFails
<1> DEFINE n == snFetch.tries + 1
           k == snFetch.ok
           l == snFetch.ok + 1
<1>6. n \in Nat /\ n <= Tries /\ k \in Nat /\ k <= 2 /\ l \in Nat /\ l <= 2 /\ (Again(n, k) \/ Again(n, l))
  BY <1>1, <1>4, <1>5
<1> HIDE DEF n, k, l
<1> QED BY <1>2, <1>3, <1>6, SnRepeats

(* The group is taken from the sentinels or given to them: the floor goes. *)
LEMMA SnResets ==
    ASSUME SnInv, snView' \in [Sentinels -> SnViews], snEpoch' = snEpoch,
           \A s \in Sentinels : snView'[s].epoch = 0 \/ snView'[s] = snView[s],
           snAddr' \in SnServers, snGroup' \in SnServers,
           snFetch' = snFetch \/ snFetch' = NoFetch, snLate' \subseteq SnViews, snFloor' = 0
    PROVE  SnInv'
<1>1. snEpoch \in Nat /\ MaxEpoch \in Nat /\ \A s \in Sentinels : snView[s].epoch \in Nat /\ snView'[s].epoch \in Nat
  BY SnConstants DEF SnInv, SnViews
<1>2. \A s \in Sentinels : snView'[s].epoch <= snEpoch' /\ (snView'[s].epoch > 0 => snView'[s].master # SnNone)
  BY <1>1 DEF SnInv
<1>3. HaveReached(snFloor)' = Sentinels
  BY <1>1 DEF HaveReached
<1>4. snFetch' \in SnFetches /\ snFetch'.tries < Tries /\ snFetch'.ok < 2
  BY SnConstants DEF SnInv
<1>5. snFetch'.best.epoch \in Nat
  BY <1>4, SnConstants DEF SnFetches, SnViews
<1>6. FetchesSeeMajority'
  BY <1>5 DEF FetchesSeeMajority
<1>7. Cardinality(HaveReached(snFloor)') >= majority
  BY <1>3, SnConstants
<1> QED BY <1>2, <1>4, <1>6, <1>7 DEF SnInv, majority

LEMMA SnPromotes ==
    ASSUME SnInv, NEW a \in SnServers, PromoteRemoves(a)
    PROVE  SnInv'
<1>1. PICK S \in Called : snView' = RemoveGroups(S, snView)
  BY DEF PromoteRemoves
<1>2. \A s \in Sentinels : snView'[s] = IF s \in S THEN NoView ELSE snView[s]
  BY <1>1 DEF RemoveGroups
<1>3. snView' \in [Sentinels -> SnViews]
  BY <1>1, SnConstants DEF RemoveGroups, SnInv
<1>4. \A s \in Sentinels : snView'[s].epoch = 0 \/ snView'[s] = snView[s]
  BY <1>2, SnConstants
<1> QED BY <1>3, <1>4, SnResets DEF PromoteRemoves, SnInv

LEMMA SnResyncs ==
    ASSUME SnInv, ResyncSentinels
    PROVE  SnInv'
<1>1. PICK S \in Called, T \in Called :
          /\ snView' = MonitorGroups(T, RemoveGroups(S, snView))
          /\ rewatchSentinels \/ UNCHANGED <<snSub, snCount, snTrigger, snFetch, snLate>>
  BY DEF ResyncSentinels
<1> DEFINE given == [epoch |-> 0, master |-> snGroup]
<1>2. given \in SnViews /\ given.epoch = 0
  BY SnConstants DEF SnInv, SnViews
<1>3. snView' = [s \in Sentinels |-> IF s \in T THEN given ELSE IF s \in S THEN NoView ELSE snView[s]]
  BY <1>1 DEF MonitorGroups, RemoveGroups
<1> HIDE DEF given
<1>4. snView' \in [Sentinels -> SnViews]
  BY <1>2, <1>3, SnConstants DEF SnInv
<1>5. \A s \in Sentinels : snView'[s].epoch = 0 \/ snView'[s] = snView[s]
  BY <1>2, <1>3, SnConstants
<1>6. (snFetch' = snFetch \/ snFetch' = NoFetch) /\ snLate' \subseteq SnViews
  BY <1>1 DEF rewatchSentinels, SnInv, SnFetches
<1> QED BY <1>4, <1>5, <1>6, SnResets DEF ResyncSentinels, SnInv

LEMMA SnStepKeepsInv ==
    ASSUME SnInv, [SnNext]_snVars
    PROVE  SnInv'
<1>1. CASE \E s \in Sentinels : \/ SubscribeFails(s) \/ subscribeCommand(s)
  BY <1>1, SnStays DEF SubscribeFails, subscribeCommand, SnInv
<1>2. CASE Notified \/ SubscribeReturns \/ UNCHANGED snVars
  BY <1>2, SnStays DEF Notified, SubscribeReturns, snVars, SnInv
<1>3. CASE LateSwitch \/ PromoteFills
  <2>1. snAddr' \in SnServers /\ snLate' \subseteq SnViews
    BY <1>3 DEF LateSwitch, PromoteFills, Switched, SnInv, SnViews
  <2> QED BY <1>3, <2>1, SnStays DEF LateSwitch, PromoteFills
<1>4. CASE \E s \in Sentinels : Adopt(s) \/ \E a \in SnServers : Elect(s, a)
  BY <1>4, SnAdopts, SnElects
<1>5. CASE Fetch \/ MastersFails
  BY <1>5, SnBegins, SnSwitches, SnAnswered DEF Fetch
<1>6. CASE \E a \in SnServers : PromoteRemoves(a)
  BY <1>6, SnPromotes
<1>7. CASE ResyncSentinels
  BY <1>7, SnResyncs
<1> QED BY <1>1, <1>2, <1>3, <1>4, <1>5, <1>6, <1>7 DEF SnNext, Watch

(* Whichever sentinels answer and whatever they elect, lose and are given  *)
(* meanwhile, a call of Masters gives no configuration older than the one  *)
(* that a majority of them had when it was called; a trigger ends after    *)
(* its tries; and the watcher always has a server of the group for its     *)
(* master, also by a switch that comes after its monitor was cancelled     *)
(* (sentinel.go:397-418, proxy.go:391-407).                                *)
THEOREM FetchesTheorem == SnSpec => [](SnTypeOK /\ FetchesSeeMajority)
<1>1. SnInit => SnInv
  BY SnInitInv
<1>2. SnInv /\ [SnNext]_snVars => SnInv'
  BY SnStepKeepsInv
<1>3. SnInv => SnTypeOK /\ FetchesSeeMajority
  BY DEF SnInv, SnTypeOK, SnViews
<1> QED BY <1>1, <1>2, <1>3, PTL DEF SnSpec
=============================================================================
