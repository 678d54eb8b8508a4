---------------------------- MODULE MCDashboard -----------------------------
(* Instances of the services of the dashboard for TLC.                     *)
EXTENDS PITR, RDBAnalysis, GroupSync, SentinelWatch, ACL, Rebalance,
        HealthyChecker, TLC

CONSTANTS n1, n2, n3, n4, n5

(* Two objects of one prefix.                                              *)
Objects == {[key |-> <<"a">>, size |-> 1, db |-> 0, type |-> "string"],
            [key |-> <<"a", "b">>, size |-> 2, db |-> 0, type |-> "hash"]}

(* A group of three servers and one of a single server.                    *)
TwoGroups == <<<<n1, n2, n3>>, <<n4>>>>

(* A group of three servers and one of two.                                *)
HaTwoGroups == <<<<n1, n2, n3>>, <<n4, n5>>>>

(* The components are independent: a behaviour is one of the component in  *)
(* focus, and the others stay as they began.                               *)
CONSTANT Parts
VARIABLE focus

Init ==
    /\ focus \in Parts
    /\ focus = "rdb" \/ raFile = << >>
    /\ focus = "sync" \/ gsMasterOf = [x \in GsAll |-> GsNone]
    /\ focus = "acl" \/ acMember = {}
    /\ focus = "rebalance" \/ rbSlot = [x \in RbSlots |-> [group |-> 0, target |-> 0]]
    /\ PtInit /\ RaInit /\ GsInit /\ SnInit /\ AcInit /\ RbInit /\ HaInit
    /\ Cardinality({x \in RbSlots : rbSlot[x].target # 0}) <= 1

Next ==
    /\ UNCHANGED focus
    /\ \/ focus = "pitr" /\ PtNext
          /\ UNCHANGED <<raVars, gsVars, snVars, acVars, rbVars, haVars>>
       \/ focus = "rdb" /\ RaNext
          /\ UNCHANGED <<ptVars, gsVars, snVars, acVars, rbVars, haVars>>
       \/ focus = "sync" /\ GsNext
          /\ UNCHANGED <<ptVars, raVars, snVars, acVars, rbVars, haVars>>
       \/ focus = "sentinel" /\ SnNext
          /\ UNCHANGED <<ptVars, raVars, gsVars, acVars, rbVars, haVars>>
       \/ focus = "acl" /\ AcNext
          /\ UNCHANGED <<ptVars, raVars, gsVars, snVars, rbVars, haVars>>
       \/ focus = "rebalance" /\ RbNext
          /\ UNCHANGED <<ptVars, raVars, gsVars, snVars, acVars, haVars>>
       \/ focus = "ha" /\ HaNext
          /\ UNCHANGED <<ptVars, raVars, gsVars, snVars, acVars, rbVars>>

(* The servers of PITR are alike: its first job is on the first of them.   *)
FirstJobFirst == ptJobs[1].server = NoPtJob.server

(* The goroutines of the jobs run; every poll has a deadline, and commands *)
(* that are started (redis-check-aof, pitr_restart_command) end.           *)
PtFairness == \A j \in PtIds : WF_ptVars(focus = "pitr" /\ RunJob(j))

(* Handlers and jobs run; a fetch has a timeout.                           *)
RaFairness ==
    \A call \in RaCalls : /\ WF_raVars(focus = "rdb" /\ CallRa(call))
                          /\ WF_raVars(focus = "rdb" /\ RunRa(call))

(* The loop of the dashboard runs, and promotions that began are ended     *)
(* (MigrationEnds and PromotionEnds of TopologyLive say when).             *)
GsFairness ==
    /\ WF_gsVars(focus = "sync" /\ ProcessSyncAction)
    /\ \A g \in GsGroups : WF_gsVars(focus = "sync" /\ (PromoteExchanges(g) \/ PromoteEnds(g)))

(* Goroutines run: Subscribe returns in the end and is called again, and   *)
(* a majority of the sentinels answers.                                    *)
SnFairness ==
    LET on == focus = "sentinel"
    IN  WF_snVars(on /\ Watch) /\ WF_snVars(on /\ Fetch) /\ WF_snVars(on /\ LateSwitch)

(* The loop of codis-ha goes on; its calls have timeouts.  A replica       *)
(* notices that its master is gone (repl-timeout).                         *)
HaFairness ==
    /\ WF_haVars(focus = "ha" /\ HaRound)
    /\ \A s \in HaAll : WF_haVars(focus = "ha" /\ MasterLost(s))

Spec == /\ Init
        /\ [][Next]_<<focus, ptVars, raVars, gsVars, snVars, acVars, rbVars, haVars>>
        /\ PtFairness /\ RaFairness /\ GsFairness /\ SnFairness /\ HaFairness
=============================================================================
