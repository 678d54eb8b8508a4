---------------------------- MODULE SentinelWatch ----------------------------
(***************************************************************************)
(* A proxy, or the dashboard, that follows sentinels (rewatchSentinels of  *)
(* pkg/proxy/proxy.go and pkg/topom/topom_sentinel.go, and                 *)
(* pkg/utils/redis/sentinel.go): one goroutine subscribes to               *)
(* +switch-master, another asks for the masters when it is triggered and   *)
(* passes them to SwitchMasters.  Promotions take the group from the       *)
(* sentinels and ResyncSentinels gives it back.                            *)
(*                                                                         *)
(* There is one group.  Of the sentinels (extern/redis-8.6.3/src) only     *)
(* their configurations are kept: one of them is the leader of a failover  *)
(* and raises the epoch, the others adopt its configuration later, each of *)
(* them publishing the switch.                                             *)
(***************************************************************************)
EXTENDS Naturals, FiniteSets

CONSTANTS
    Sentinels,
    SnServers, SnFirst, \* servers of the group and its first master
    SnNone,             \* the master where the group is not monitored
    Tries,              \* calls of Masters for one trigger (10)
    MaxEpoch,           \* bound: failovers
    MaxSnEvents         \* bound: promotions, resyncs and failures of connections

ASSUME SentinelWatchAssumption ==
    /\ IsFiniteSet(Sentinels) /\ Sentinels # {}
    /\ SnFirst \in SnServers /\ SnNone \notin SnServers
    /\ Tries \in Nat \ {0} /\ MaxEpoch \in Nat /\ MaxSnEvents \in Nat

VARIABLES
    snView,         \* what every sentinel holds: epoch and master
    snEpoch,        \* the last epoch
    snGroup,        \* the master the dashboard has for the group
    snAddr,         \* the master the watcher uses
    snSub,          \* the goroutines of Subscribe
    snCount,        \* subscribed: how many have got that far
    snTrigger,      \* the channel trigger
    snFetch,        \* the goroutine that calls Masters
    snLate,         \* masters a cancelled monitor is about to pass to SwitchMasters
    snFloor,        \* the epoch a majority had when Masters was called
    snEvents

snVars == <<snView, snEpoch, snGroup, snAddr, snSub, snCount, snTrigger, snFetch, snLate,
            snFloor, snEvents>>

NoView    == [epoch |-> 0, master |-> SnNone]
NoFetch   == [at |-> "idle", best |-> NoView, tries |-> 0, ok |-> 0]
NewRound  == [s \in Sentinels |-> "dial"]
majority  == 1 + Cardinality(Sentinels) \div 2
SnEvent   == snEvents < MaxSnEvents /\ snEvents' = snEvents + 1

SnInit ==
    /\ snGroup = SnFirst /\ snAddr = SnFirst
    /\ snView = [s \in Sentinels |-> [epoch |-> 0, master |-> SnFirst]]
    /\ snEpoch = 0
    /\ snSub = NewRound /\ snCount = 0
    /\ snTrigger = FALSE
    /\ snFetch = NoFetch
    /\ snLate = {}
    /\ snFloor = 0
    /\ snEvents = 0

-----------------------------------------------------------------------------
(* The sentinels.                                                          *)

(* A sentinel that changes the master it has publishes +switch-master.     *)
Publish(s, view) ==
    /\ snView' = [snView EXCEPT ![s] = view]
    /\ snSub' = [snSub EXCEPT ![s] = IF @ = "sub" /\ view.master # snView[s].master THEN "note" ELSE @]
    /\ UNCHANGED <<snGroup, snAddr, snCount, snTrigger, snFetch, snLate, snFloor, snEvents>>

Elect(s, a) ==
    /\ snEpoch < MaxEpoch /\ snEpoch' = snEpoch + 1
    /\ snView[s].master \notin {SnNone, a}
    /\ Cardinality({t \in Sentinels : snView[t].master # SnNone}) >= majority
    /\ Publish(s, [epoch |-> snEpoch + 1, master |-> a])

Adopt(s) ==
    /\ snView[s].master # SnNone
    /\ \E t \in Sentinels : snView[t].epoch > snView[s].epoch /\ Publish(s, snView[t])
    /\ UNCHANGED snEpoch

-----------------------------------------------------------------------------
(* Sentinel.Subscribe.                                                     *)

(* Mutant: nobody is told that a majority has been subscribed to.          *)
onMajoritySubscribed_Silent(n) == UNCHANGED snTrigger

(* The callback, when the majority has just been reached.                  *)
onMajoritySubscribed(n) == snTrigger' = (snTrigger \/ n = majority)

subscribeCommand(s) ==
    /\ snSub[s] = "dial"
    /\ snSub' = [snSub EXCEPT ![s] = "sub"]
    /\ snCount' = snCount + 1
    /\ onMajoritySubscribed(snCount + 1)
    /\ UNCHANGED <<snView, snEpoch, snGroup, snAddr, snFetch, snLate, snFloor, snEvents>>

SubscribeFails(s) ==
    /\ snSub[s] # "off"
    /\ SnEvent
    /\ snSub' = [snSub EXCEPT ![s] = "off"]
    /\ UNCHANGED <<snView, snEpoch, snGroup, snAddr, snCount, snTrigger, snFetch, snLate, snFloor>>

(* Subscribe returns TRUE: the callback, and the next round.               *)
Notified ==
    /\ \E s \in Sentinels : snSub[s] = "note"
    /\ snTrigger' = TRUE
    /\ snSub' = NewRound /\ snCount' = 0
    /\ UNCHANGED <<snView, snEpoch, snGroup, snAddr, snFetch, snLate, snFloor, snEvents>>

(* It returns FALSE: too few connections are left, or after 15 minutes,    *)
(* when a message that has just come is lost.                              *)
(* The next round follows after delayUntil, during which connections are   *)
(* as they are at the beginning of the round: nobody is subscribed.        *)
SubscribeReturns ==
    /\ \/ Cardinality({s \in Sentinels : snSub[s] # "off"}) < majority
       \/ \A s \in Sentinels : snSub[s] # "dial"
    /\ snSub' = NewRound /\ snCount' = 0
    /\ UNCHANGED <<snView, snEpoch, snGroup, snAddr, snTrigger, snFetch, snLate, snFloor, snEvents>>

-----------------------------------------------------------------------------
(* The goroutine that is triggered, and Sentinel.Masters.                  *)

(* The largest epoch that a majority of the sentinels has reached.         *)
Reached == CHOOSE e \in 0 .. MaxEpoch :
              LET n(f) == Cardinality({s \in Sentinels : snView[s].epoch >= f})
              IN  n(e) >= majority /\ (e < MaxEpoch => n(e + 1) < majority)

FetchBegins ==
    /\ snTrigger /\ snFetch.at = "idle"
    /\ snTrigger' = FALSE
    /\ snFetch' = [NoFetch EXCEPT !.at = "ask"]
    /\ snFloor' = Reached
    /\ UNCHANGED <<snView, snEpoch, snGroup, snAddr, snSub, snCount, snLate, snEvents>>

(* Masters keeps, of the sentinels that monitor the group, an answer with  *)
(* the largest epoch: the one that came first, which may be any.           *)
newer(views) ==
    IF views = {} THEN {NoView} ELSE {v \in views : \A w \in views : v.epoch >= w.epoch}

voted(got) == Cardinality(got) >= majority

(* Masters: the sentinels of got have answered, all of them or those that  *)
(* did before the timeout.  Then p.IsCanceled() is looked at.              *)
Masters(got) ==
    /\ snFetch.at = "ask" /\ voted(got)
    /\ \E best \in newer({snView[s] : s \in {t \in got : snView[t].master # SnNone}}) :
          snFetch' = [snFetch EXCEPT !.at = "checked", !.best = best]
    /\ UNCHANGED <<snView, snEpoch, snGroup, snAddr, snSub, snCount, snTrigger, snLate, snFloor, snEvents>>

(* Masters is called again, until it has succeeded twice.                  *)
Again(tries, ok) ==
    /\ snFetch' = IF tries = Tries \/ ok = 2 THEN NoFetch
                  ELSE [NoFetch EXCEPT !.at = "ask", !.tries = tries, !.ok = ok]
    /\ snFloor' = IF snFetch'.at = "idle" THEN 0 ELSE Reached

MastersFails ==
    /\ snFetch.at = "ask"
    /\ SnEvent
    /\ Again(snFetch.tries + 1, snFetch.ok)
    /\ UNCHANGED <<snView, snEpoch, snGroup, snAddr, snSub, snCount, snTrigger, snLate>>

(* trySwitchMaster of every slot.                                          *)
Switched(best) == snAddr' = IF best.master = SnNone THEN snAddr ELSE best.master

SwitchMasters ==
    /\ snFetch.at = "checked"
    /\ Switched(snFetch.best)
    /\ Again(snFetch.tries + 1, snFetch.ok + 1)
    /\ UNCHANGED <<snView, snEpoch, snGroup, snSub, snCount, snTrigger, snLate, snEvents>>

(* The monitor was cancelled after IsCanceled was looked at.               *)
LateSwitch ==
    /\ \E best \in snLate : Switched(best) /\ snLate' = snLate \ {best}
    /\ UNCHANGED <<snView, snEpoch, snGroup, snSub, snCount, snTrigger, snFetch, snFloor, snEvents>>

-----------------------------------------------------------------------------
(* The dashboard.                                                          *)

(* Calls that go to every sentinel fail at one of them at most.            *)
Called == {Sentinels} \cup {Sentinels \ {s} : s \in Sentinels}

RemoveGroups(S, view)  == [s \in Sentinels |-> IF s \in S THEN NoView ELSE view[s]]
MonitorGroups(S, view) ==
    [s \in Sentinels |-> IF s \in S THEN [epoch |-> 0, master |-> snGroup] ELSE view[s]]

(* GroupPromoteServer: the group is removed, an error is logged, and then  *)
(* the slots of the group are filled with the new master.                  *)
PromoteRemoves(a) ==
    /\ SnEvent
    /\ a # snGroup
    /\ snGroup' = a
    /\ \E S \in Called : snView' = RemoveGroups(S, snView)
    /\ snFloor' = 0
    /\ UNCHANGED <<snEpoch, snAddr, snSub, snCount, snTrigger, snFetch, snLate>>

PromoteFills ==
    /\ snAddr # snGroup
    /\ \E s \in Sentinels : snView[s] = NoView
    /\ snAddr' = snGroup
    /\ UNCHANGED <<snView, snEpoch, snGroup, snSub, snCount, snTrigger, snFetch, snLate, snFloor, snEvents>>

(* The monitor is cancelled and another one started.                       *)
rewatchSentinels ==
    /\ snSub' = NewRound /\ snCount' = 0
    /\ snTrigger' = FALSE
    /\ snFetch' = NoFetch
    /\ snLate' = IF snFetch.at = "checked" THEN snLate \cup {snFetch.best} ELSE snLate

(* RemoveGroupsAll, whose error is logged, and MonitorGroups, whose error  *)
(* ends it before proxies are told (all may have done it: the time was     *)
(* out).  Sentinels start with epoch 0.                                    *)
ResyncSentinels ==
    /\ SnEvent
    /\ \E S, T \in Called :
          /\ snView' = MonitorGroups(T, RemoveGroups(S, snView))
          /\ \/ T = Sentinels /\ rewatchSentinels
             \/ UNCHANGED <<snSub, snCount, snTrigger, snFetch, snLate>>
    /\ snFloor' = 0
    /\ UNCHANGED <<snEpoch, snGroup, snAddr>>

-----------------------------------------------------------------------------
Watch ==
    \/ \E s \in Sentinels : subscribeCommand(s)
    \/ Notified \/ SubscribeReturns

Fetch == FetchBegins \/ SwitchMasters \/ \E got \in SUBSET Sentinels : Masters(got)

SnNext ==
    \/ \E s \in Sentinels : Adopt(s) \/ SubscribeFails(s) \/ \E a \in SnServers : Elect(s, a)
    \/ Watch \/ Fetch \/ MastersFails \/ LateSwitch
    \/ \E a \in SnServers : PromoteRemoves(a)
    \/ PromoteFills \/ ResyncSentinels

SnSpec == SnInit /\ [][SnNext]_snVars

-----------------------------------------------------------------------------
(* Properties.                                                             *)

(* Types of the variables; a trigger ends after Tries calls of Masters or  *)
(* two that succeed (proxy.go:391-407).                                    *)
SnTypeOK ==
    /\ snView \in [Sentinels -> [epoch: 0 .. MaxEpoch, master: SnServers \cup {SnNone}]]
    /\ snAddr \in SnServers /\ snGroup \in SnServers
    /\ snFetch.tries < Tries /\ snFetch.ok < 2

(* Masters gives no configuration older than the one that a majority of    *)
(* the sentinels had when it was called, whichever of them answer          *)
(* (sentinel.go:397-418).                                                  *)
FetchesSeeMajority == snFetch.at = "checked" => snFetch.best.epoch >= snFloor

(* When the sentinels agree on a master and stay with it, the watcher uses *)
(* it in the end and stays: switches that were published between two       *)
(* subscriptions, answers of sentinels that have not adopted it yet and    *)
(* connections that fail only delay it (proxy.go:352-411,                  *)
(* sentinel.go:168-212).                                                   *)
Agreed(a) == \A s \in Sentinels : snView[s].master = a
MastersFollowed == <>[](\A a \in SnServers : Agreed(a) => snAddr = a)

(* No fetch goes back behind a majority, and the watcher ends up with the  *)
(* master the sentinels have.                                              *)
SentinelsAreFollowed == [](SnTypeOK /\ FetchesSeeMajority) /\ MastersFollowed
=============================================================================
