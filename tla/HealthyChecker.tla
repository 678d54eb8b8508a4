--------------------------- MODULE HealthyChecker ---------------------------
(***************************************************************************)
(* codis-ha (cmd/ha/main.go): every round takes a picture of proxies and   *)
(* servers (newHealthyChecker) and acts on it through the API of the       *)
(* dashboard (Maintains), while servers fail and come back, links break    *)
(* and operators promote, resync and add servers.  What it does is decided *)
(* by the picture, which may be old; the dashboard checks its calls        *)
(* against the groups as they are.                                         *)
(*                                                                         *)
(* A replica tells how long its link has been down; of the seconds it says *)
(* only one thing is kept, whether codis-ha may pick it: from 0 to 65534   *)
(* it may (the link is "down").  A server that has not been connected      *)
(* since it started or became a replica says -1, and after 18 hours the    *)
(* time is too long (both "out").                                          *)
(*                                                                         *)
(* Calls to the dashboard are one step, or fail with no effect; Topology   *)
(* has the steps of a promotion.  All groups are in use.                   *)
(***************************************************************************)
EXTENDS Naturals, Sequences, FiniteSets, Subsequences

CONSTANTS
    HaGroups,       \* ids, in their order
    HaServers,      \* the servers of every group at the beginning, the master first
    HaProxies,
    HaNone,         \* no master
    MaxHaFaults,    \* bound: failures
    MaxHaOps        \* bound: calls of operators

ServersOf(list) == {list[i] : i \in DOMAIN list}
HaAll           == UNION {ServersOf(HaServers[g]) : g \in HaGroups}

ASSUME HealthyCheckerAssumption ==
    /\ HaGroups \subseteq Nat /\ IsFiniteSet(HaAll)
    /\ HaServers \in [HaGroups -> Seq(HaAll)]
    /\ \A g \in HaGroups : Len(HaServers[g]) >= 1
    /\ \A g, h \in HaGroups : \A i \in DOMAIN HaServers[g], j \in DOMAIN HaServers[h] :
          HaServers[g][i] = HaServers[h][j] => g = h /\ i = j
    /\ MaxHaFaults \in Nat /\ MaxHaOps \in Nat

VARIABLES
    haGroup,        \* the servers of every group in the store
    haUp,           \* servers that run
    haMaster,       \* the master every server replicates
    haLink,         \* its link to it: "up", "down" or "out"
    haStuck,        \* groups whose promotion was left half way
    haProxy,        \* proxies the dashboard has
    haProxyUp,      \* proxies that answer it
    haView,         \* the picture of this round
    haStep,         \* what the round does next
    haFaults, haOps

haCluster == <<haGroup, haUp, haMaster, haLink, haStuck, haProxy, haProxyUp>>
haVars    == <<haCluster, haView, haStep, haFaults, haOps>>

Head0(g)   == haGroup[g][1]
Asleep     == [at |-> "sleep"]
Without(list, s) == OnlyIn(list, HaAll \ {s})
NoPicture  == [proxy |-> {}, group |-> [g \in HaGroups |-> << >>], stuck |-> {}, status |-> << >>]

HaInit ==
    /\ haGroup = HaServers
    /\ haUp = HaAll
    /\ haMaster = [s \in HaAll |-> LET g == CHOOSE h \in HaGroups : s \in ServersOf(HaServers[h])
                                   IN  IF s = HaServers[g][1] THEN HaNone ELSE HaServers[g][1]]
    /\ haLink = [s \in HaAll |-> IF haMaster[s] = HaNone THEN "out" ELSE "up"]
    /\ haStuck = {}
    /\ haProxy = HaProxies /\ haProxyUp = HaProxies
    /\ haView = NoPicture
    /\ haStep = Asleep
    /\ haFaults = 0 /\ haOps = 0

-----------------------------------------------------------------------------
(* The picture.                                                            *)

(* CodeError, CodeTimeout and CodeMissing are "error"; CodeSyncBroken is   *)
(* "broken" when the link is down for a time that counts, "lost" when not. *)
(* The link of a replica notices the death of its master only after a      *)
(* while, and may be down although the master runs.                        *)
Status(g, i) ==
    LET s == haGroup[g][i]
    IN  CASE s \notin haUp                              -> "error"
          [] s \in haUp /\ i = 1 /\ haMaster[s] # HaNone -> "syncerror"
          [] s \in haUp /\ i = 1 /\ haMaster[s] = HaNone -> "ready"
          [] s \in haUp /\ i # 1 /\ haMaster[s] # Head0(g) -> "syncerror"
          [] OTHER -> [up |-> "ready", down |-> "broken", out |-> "lost"][haLink[s]]

newHealthyChecker ==
    /\ haStep = Asleep
    /\ haView' = [proxy  |-> haProxy \ haProxyUp,
                  group  |-> haGroup,
                  stuck  |-> haStuck,
                  status |-> [s \in UNION {ServersOf(haGroup[g]) : g \in HaGroups} |->
                                LET at == CHOOSE gi \in HaGroups \X (1 .. Cardinality(HaAll)) :
                                            gi[2] \in DOMAIN haGroup[gi[1]] /\ haGroup[gi[1]][gi[2]] = s
                                IN  Status(at[1], at[2])]]
    /\ haStep' = [at |-> "proxies"]
    /\ UNCHANGED <<haCluster, haFaults, haOps>>

Sick(s) == haView.status[s] \in {"error", "syncerror"}

-----------------------------------------------------------------------------
(* Maintains.                                                              *)

(* A proxy that does not answer is removed, and the round is over; the     *)
(* call may fail.                                                          *)
RemoveProxy ==
    /\ haStep.at = "proxies"
    /\ \/ /\ haView.proxy = {}
          /\ haStep' = [at |-> "servers"]
          /\ UNCHANGED <<haProxy, haFaults>>
       \/ /\ haStep' = Asleep
          /\ \E p \in haView.proxy : haProxy' = haProxy \ {p}
          /\ UNCHANGED haFaults
       \/ /\ haStep' = Asleep
          /\ haView.proxy # {}
          /\ haFaults < MaxHaFaults /\ haFaults' = haFaults + 1
          /\ UNCHANGED haProxy
    /\ UNCHANGED <<haGroup, haUp, haMaster, haLink, haStuck, haProxyUp, haView, haOps>>

(* Groups before the first whose master is sick and has replicas.          *)
Scanned ==
    LET Ends(g) == Len(haView.group[g]) > 1 /\ Sick(haView.group[g][1])
    IN  {g \in HaGroups : \A h \in HaGroups : h <= g => ~ Ends(h)}

(* Replicas to remove, by group and index.                                 *)
Removable ==
    {gi \in Scanned \X (2 .. Cardinality(HaAll)) :
        gi[2] \in DOMAIN haView.group[gi[1]] /\ Sick(haView.group[gi[1]][gi[2]])}

FirstOf(S) ==
    CHOOSE x \in S : \A y \in S : x[1] < y[1] \/ (x[1] = y[1] /\ x[2] <= y[2])

(* Mutant: the dashboard does not look whether it is the master.           *)
MayDelServer_Any(g, s) ==
    /\ g \notin haStuck
    /\ s \in ServersOf(haGroup[g])

(* The dashboard refuses to remove a master, and from a group that is      *)
(* promoting.                                                              *)
MayDelServer(g, s) ==
    /\ g \notin haStuck
    /\ s \in ServersOf(haGroup[g]) /\ s # Head0(g)

DelServer ==
    /\ haStep.at = "servers"
    /\ \/ /\ Removable = {}
          /\ haStep' = [at |-> "promote", todo |-> HaGroups]
          /\ UNCHANGED <<haGroup, haFaults>>
       \/ /\ Removable # {}
          /\ LET g == FirstOf(Removable)[1]
                 s == haView.group[g][FirstOf(Removable)[2]]
             IN  \/ /\ MayDelServer(g, s)
                    /\ haGroup' = [haGroup EXCEPT ![g] = Without(@, s)]
                    /\ haStep' = [at |-> "shutdown", server |-> s]
                    /\ UNCHANGED haFaults
                 \/ /\ ~ MayDelServer(g, s)
                    /\ haStep' = Asleep
                    /\ UNCHANGED <<haGroup, haFaults>>
                 \/ /\ haFaults < MaxHaFaults /\ haFaults' = haFaults + 1
                    /\ haStep' = Asleep
                    /\ UNCHANGED haGroup
    /\ UNCHANGED <<haUp, haMaster, haLink, haStuck, haProxy, haProxyUp, haView, haOps>>

(* SHUTDOWN, which the server may not get.                                 *)
Shutdown ==
    /\ haStep.at = "shutdown"
    /\ \/ haUp' = haUp \ {haStep.server} /\ haLink' = [haLink EXCEPT ![haStep.server] = "out"]
       \/ UNCHANGED <<haUp, haLink>>
    /\ haStep' = Asleep
    /\ UNCHANGED <<haGroup, haMaster, haStuck, haProxy, haProxyUp, haView, haFaults, haOps>>

(* picked, picked2: replicas whose link has been down for a time that      *)
(* counts, the one with the shortest (which one is left open); else the    *)
(* first that replicates another server.                                   *)
picked(g) ==
    LET Of(status) == {i \in 2 .. Len(haView.group[g]) : haView.status[haView.group[g][i]] = status}
    IN  IF Of("broken") # {} THEN Of("broken")
        ELSE {i \in Of("syncerror") : \A j \in Of("syncerror") : i <= j}

(* What GroupPromoteServer makes of a group; SLAVEOF NO ONE of a server    *)
(* that is down fails, and is only logged.                                 *)
Promote(g, s) ==
    /\ s \in ServersOf(haGroup[g]) /\ s # Head0(g)
    /\ haGroup' = [haGroup EXCEPT ![g] = <<s>> \o Append(Without(Without(@, s), Head0(g)), Head0(g))]
    /\ haMaster' = IF s \in haUp THEN [haMaster EXCEPT ![s] = HaNone] ELSE haMaster
    /\ haLink' = [haLink EXCEPT ![s] = "out"]

(* Mutant: a group that has one replica only is passed over.               *)
Fallen_Small(g) == Len(haView.group[g]) > 2 /\ haView.status[haView.group[g][1]] = "error"

Fallen(g) == Len(haView.group[g]) # 0 /\ haView.status[haView.group[g][1]] = "error"

PromoteServer ==
    /\ haStep.at = "promote" /\ haStep.todo # {}
    /\ LET g == CHOOSE h \in haStep.todo : \A k \in haStep.todo : h <= k
       IN  /\ haStep' = [haStep EXCEPT !.todo = @ \ {g}]
           /\ \/ /\ ~ Fallen(g) \/ picked(g) = {} \/ g \in haView.stuck
                 /\ UNCHANGED <<haGroup, haMaster, haLink, haStuck, haFaults>>
              \/ /\ Fallen(g) /\ g \notin haView.stuck
                 /\ \E i \in picked(g) :
                       \/ Promote(g, haView.group[g][i])
                       \/ /\ haView.group[g][i] \notin ServersOf(haGroup[g]) \ {Head0(g)}
                          /\ UNCHANGED <<haGroup, haMaster, haLink>>
                 /\ UNCHANGED <<haStuck, haFaults>>
              \/ /\ Fallen(g) /\ g \notin haView.stuck /\ picked(g) # {}
                 /\ haFaults < MaxHaFaults /\ haFaults' = haFaults + 1
                 /\ haStuck' \in {haStuck, haStuck \cup {g}}
                 /\ UNCHANGED <<haGroup, haMaster, haLink>>
    /\ UNCHANGED <<haUp, haProxy, haProxyUp, haView, haOps>>

RoundEnds ==
    /\ haStep.at = "promote" /\ haStep.todo = {}
    /\ haStep' = Asleep
    /\ UNCHANGED <<haCluster, haView, haFaults, haOps>>

HaRound == newHealthyChecker \/ RemoveProxy \/ DelServer \/ Shutdown \/ PromoteServer \/ RoundEnds

-----------------------------------------------------------------------------
(* The cluster and its operators.                                          *)

(* A server fails, or comes back, as a replica or as a master; its link to *)
(* its master is gone.                                                     *)
ServerFails(s) ==
    /\ s \in haUp
    /\ haFaults < MaxHaFaults /\ haFaults' = haFaults + 1
    /\ haUp' = haUp \ {s}
    /\ haLink' = [haLink EXCEPT ![s] = "out"]
    /\ UNCHANGED <<haGroup, haMaster, haStuck, haProxy, haProxyUp, haView, haStep, haOps>>

ServerStarts(s) ==
    /\ s \notin haUp
    /\ haOps < MaxHaOps /\ haOps' = haOps + 1
    /\ haUp' = haUp \cup {s}
    /\ haMaster' \in {haMaster, [haMaster EXCEPT ![s] = HaNone]}
    /\ UNCHANGED <<haGroup, haLink, haStuck, haProxy, haProxyUp, haView, haStep, haFaults>>

(* A replica notices that its master is gone; its link fails although the  *)
(* master runs; it has been down for too long; it is up again.             *)
LinkIs(s, link) ==
    /\ s \in haUp
    /\ haLink' = [haLink EXCEPT ![s] = link]
    /\ UNCHANGED <<haGroup, haUp, haMaster, haStuck, haProxy, haProxyUp, haView, haStep, haOps>>

MasterLost(s) ==
    /\ haLink[s] = "up" /\ haMaster[s] \notin haUp
    /\ LinkIs(s, "down") /\ UNCHANGED haFaults

LinkFails(s) ==
    /\ haLink[s] = "up" /\ haMaster[s] \in haUp
    /\ LinkIs(s, "down")
    /\ haFaults < MaxHaFaults /\ haFaults' = haFaults + 1

LinkAges(s) ==
    /\ haLink[s] = "down"
    /\ LinkIs(s, "out")
    /\ haFaults < MaxHaFaults /\ haFaults' = haFaults + 1

LinkComesUp(s) ==
    /\ haLink[s] # "up" /\ haMaster[s] \in haUp
    /\ LinkIs(s, "up") /\ UNCHANGED haFaults

ProxyFails(p) ==
    /\ p \in haProxyUp
    /\ haFaults < MaxHaFaults /\ haFaults' = haFaults + 1
    /\ haProxyUp' = haProxyUp \ {p}
    /\ UNCHANGED <<haGroup, haUp, haMaster, haLink, haStuck, haProxy, haView, haStep, haOps>>

(* An operator promotes a server, or ends a promotion that was stuck.      *)
OperatorPromotes(g, s) ==
    /\ haOps < MaxHaOps /\ haOps' = haOps + 1
    /\ Promote(g, s)
    /\ haStuck' = haStuck \ {g}
    /\ UNCHANGED <<haUp, haProxy, haProxyUp, haView, haStep, haFaults>>

(* An operator has a replica follow the master of its group: SLAVEOF, which*)
(* drops the link it has.                                                  *)
OperatorSyncs(g, s) ==
    /\ haOps < MaxHaOps /\ haOps' = haOps + 1
    /\ s \in ServersOf(haGroup[g]) \cap haUp /\ s # Head0(g)
    /\ haMaster[s] # Head0(g)
    /\ haMaster' = [haMaster EXCEPT ![s] = Head0(g)]
    /\ haLink' = IF haLink[s] = "up" THEN [haLink EXCEPT ![s] = "down"] ELSE haLink
    /\ UNCHANGED <<haGroup, haUp, haStuck, haProxy, haProxyUp, haView, haStep, haFaults>>

(* An operator adds a server that was removed to its group again.          *)
OperatorAdds(g, s) ==
    /\ haOps < MaxHaOps /\ haOps' = haOps + 1
    /\ s \in ServersOf(HaServers[g]) \ ServersOf(haGroup[g])
    /\ g \notin haStuck
    /\ haGroup' = [haGroup EXCEPT ![g] = Append(@, s)]
    /\ UNCHANGED <<haUp, haMaster, haLink, haStuck, haProxy, haProxyUp, haView, haStep, haFaults>>

Servers(s) ==
    \/ ServerFails(s) \/ ServerStarts(s)
    \/ MasterLost(s) \/ LinkFails(s) \/ LinkAges(s) \/ LinkComesUp(s)

Operators(g, s) == OperatorPromotes(g, s) \/ OperatorSyncs(g, s) \/ OperatorAdds(g, s)

HaNext ==
    \/ HaRound
    \/ \E s \in HaAll : Servers(s)
    \/ \E p \in HaProxies : ProxyFails(p)
    \/ \E g \in HaGroups, s \in HaAll : Operators(g, s)

HaSpec == HaInit /\ [][HaNext]_haVars

-----------------------------------------------------------------------------
(* Properties.                                                             *)

(* Types of the variables; no server is twice in the groups.               *)
HaTypeOK ==
    /\ \A g \in HaGroups : haGroup[g] # << >> /\ ServersOf(haGroup[g]) \subseteq ServersOf(HaServers[g])
                           /\ \A i, j \in DOMAIN haGroup[g] : haGroup[g][i] = haGroup[g][j] => i = j
    /\ haUp \subseteq HaAll
    /\ haMaster \in [HaAll -> HaAll \cup {HaNone}]
    /\ haLink \in [HaAll -> {"up", "down", "out"}]
    /\ haStuck \subseteq HaGroups
    /\ haProxyUp \subseteq HaProxies /\ haProxy \subseteq HaProxies

(* However old the picture is, codis-ha does not remove the master a group *)
(* has (cmd/ha/main.go:266-287, topom_group.go:150-203).  Its SHUTDOWN is  *)
(* not covered: it goes to the server it has removed, whatever operators   *)
(* have made of that server since.                                         *)
MastersStay == [][\A g \in HaGroups : Head0(g) \in ServersOf(haGroup'[g])]_haVars

(* A running server that codis-ha does not promote: it has lost a master   *)
(* that is gone and does not know since when, or for too long.             *)
Unfit(g, s) == haMaster[s] = Head0(g) /\ haLink[s] = "out"

(* A group whose master is gone gets one that runs as long as one of its   *)
(* servers does that codis-ha takes, also when several groups lost theirs  *)
(* and proxies are down as well, and although a replica notices late that  *)
(* its master is gone; unless a promotion was left half way, which an      *)
(* operator has to end (cmd/ha/main.go:314-369).                           *)
GroupsAreLed ==
    \/ []<>(haStuck # {})
    \/ \A g \in HaGroups :
          []<>(Head0(g) \in haUp \/ \A s \in ServersOf(haGroup[g]) \cap haUp : Unfit(g, s))

(* codis-ha removes no master, and no server but from its own group.       *)
LeadersAreKept == []HaTypeOK /\ MastersStay
=============================================================================
