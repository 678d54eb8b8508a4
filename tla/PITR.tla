-------------------------------- MODULE PITR --------------------------------
(***************************************************************************)
(* Point in time recovery (pkg/topom/topom_pitr.go, topom_pitr_run.go):    *)
(* the registry of jobs with its lock per server, the goroutine that takes *)
(* a job through its steps, and Cancel, Remove and Close, which come at    *)
(* any time.  The servers and their append only files are external: a      *)
(* server is stopped by a job and started by its process manager.  Polls   *)
(* have deadlines; pitr_restart_command and redis-check-aof have none and  *)
(* are taken to end.                                                       *)
(***************************************************************************)
EXTENDS Naturals, Sequences, FiniteSets

CONSTANTS
    PtServers,
    MaxPtJobs,      \* bound: jobs ever created
    PtConcurrent    \* config.PitrMaxConcurrentJobs

ASSUME PITRAssumption == PtServers # {} /\ MaxPtJobs \in Nat \ {0} /\ PtConcurrent \in Nat \ {0}

PtIds == 1 .. MaxPtJobs

Steps == <<"validate", "prereq", "feasibility", "shutdown", "snapshot",
           "truncate", "restart", "wait-load", "resync">>

VARIABLES
    ptJobs,         \* the jobs: server, state, step, is the goroutine in it, cancelled, what was done
    ptListed,       \* PitrManager.jobs
    ptLock,         \* PitrManager.serverLocks: the owner, 0 for none
    ptRemoves,      \* calls of Remove that have seen a terminal state
    ptUp            \* the servers that answer

ptVars == <<ptJobs, ptListed, ptLock, ptRemoves, ptUp>>

NoPtJob == [server |-> CHOOSE s \in PtServers : TRUE, state |-> "none", step |-> 0, run |-> "none",
            cancelled |-> FALSE, snapshot |-> FALSE, cut |-> FALSE, stopped |-> FALSE]

PtInit ==
    /\ ptJobs = [j \in PtIds |-> NoPtJob]
    /\ ptListed = {}
    /\ ptLock = [s \in PtServers |-> 0]
    /\ ptRemoves = {}
    /\ ptUp = PtServers

pitrStateIsTerminal(state) == state \in {"succeeded", "failed", "cancelled"}
Live(j) == ptJobs[j].state # "none" /\ ~ pitrStateIsTerminal(ptJobs[j].state)

-----------------------------------------------------------------------------
(* The registry.                                                           *)

checkConcurrentLimitLocked == Cardinality({j \in ptListed : Live(j)}) < PtConcurrent

(* Create, under PitrManager.mu.                                           *)
PtCreate(s) ==
    /\ checkConcurrentLimitLocked
    /\ ptLock[s] = 0
    /\ \E j \in PtIds :
          /\ ptJobs[j] = NoPtJob /\ \A i \in PtIds : i < j => ptJobs[i] # NoPtJob
          /\ ptJobs' = [ptJobs EXCEPT ![j] = [NoPtJob EXCEPT !.server = s, !.state = "pending", !.run = "between"]]
          /\ ptListed' = ptListed \cup {j}
          /\ ptLock' = [ptLock EXCEPT ![s] = j]
    /\ UNCHANGED <<ptRemoves, ptUp>>

PtCancel(j) ==
    /\ j \in ptListed /\ Live(j)
    /\ ptJobs' = [ptJobs EXCEPT ![j].cancelled = TRUE]
    /\ UNCHANGED <<ptListed, ptLock, ptRemoves, ptUp>>

(* Close of the dashboard cancels all jobs.                                *)
PtClose ==
    /\ ptListed # {}
    /\ ptJobs' = [j \in PtIds |-> [ptJobs[j] EXCEPT !.cancelled = @ \/ j \in ptListed]]
    /\ UNCHANGED <<ptListed, ptLock, ptRemoves, ptUp>>

(* Remove looks at the state, ...                                          *)
RemoveCheck(j) ==
    /\ j \in ptListed
    /\ pitrStateIsTerminal(ptJobs[j].state)
    /\ \E n \in 1 .. 2 : <<j, n>> \notin ptRemoves /\ ptRemoves' = ptRemoves \cup {<<j, n>>}
    /\ UNCHANGED <<ptJobs, ptListed, ptLock, ptUp>>

(* Mutant: the lock is released whoever owns it.                           *)
RemoveDelete_AnyOwner(j, n) ==
    /\ <<j, n>> \in ptRemoves
    /\ ptRemoves' = ptRemoves \ {<<j, n>>}
    /\ ptListed' = ptListed \ {j}
    /\ ptLock' = [ptLock EXCEPT ![ptJobs[j].server] = 0]
    /\ ptJobs' = [ptJobs EXCEPT ![j].snapshot = FALSE]
    /\ UNCHANGED ptUp

(* ... and then deletes the job, its lock and its snapshot.  Another call  *)
(* may have done so before, and a new job taken the lock.                  *)
RemoveDelete(j, n) ==
    /\ <<j, n>> \in ptRemoves
    /\ ptRemoves' = ptRemoves \ {<<j, n>>}
    /\ ptListed' = ptListed \ {j}
    /\ ptLock' = [ptLock EXCEPT ![ptJobs[j].server] = IF @ = j THEN 0 ELSE @]
    /\ ptJobs' = [ptJobs EXCEPT ![j].snapshot = FALSE]
    /\ UNCHANGED ptUp

-----------------------------------------------------------------------------
(* run and runSteps.                                                       *)

InStep(j, name) == ptJobs[j].run = "in" /\ Steps[ptJobs[j].step] = name

(* PitrJob.step sets the state before it calls the function of the step.   *)
StepBegins(j) ==
    /\ ptJobs[j].run = "between" /\ ~ ptJobs[j].cancelled
    /\ ptJobs[j].step < Len(Steps)
    /\ ptJobs' = [ptJobs EXCEPT ![j].step = @ + 1, ![j].run = "in", ![j].state = Steps[ptJobs[j].step + 1]]
    /\ UNCHANGED <<ptListed, ptLock, ptRemoves, ptUp>>

(* A job is cancelled between steps: runSteps returns ctx.Err(), which run *)
(* takes for a step that has failed and set the state.                     *)
CancelledBetween(j) ==
    /\ ptJobs[j].run = "between" /\ ptJobs[j].cancelled
    /\ ptJobs[j].step < Len(Steps)
    /\ ptJobs' = [ptJobs EXCEPT ![j].run = "ended"]
    /\ UNCHANGED <<ptListed, ptLock, ptRemoves, ptUp>>

(* All steps are done.                                                     *)
RunEnds(j) ==
    /\ ptJobs[j].run = "between" /\ ptJobs[j].step = Len(Steps)
    /\ ptJobs' = [ptJobs EXCEPT ![j].run = "ended",
                                ![j].state = IF ptJobs[j].cancelled THEN "cancelled" ELSE "succeeded"]
    /\ UNCHANGED <<ptListed, ptLock, ptRemoves, ptUp>>

Done(j, job)  == ptJobs' = [ptJobs EXCEPT ![j] = [job EXCEPT !.run = "between"]]
Fails(j, job) == ptJobs' = [ptJobs EXCEPT ![j] = [job EXCEPT !.run = "ended", !.state = "failed"]]

(* The server is the master of its group at this moment, or not.           *)
stepValidate(j) ==
    /\ InStep(j, "validate")
    /\ Done(j, ptJobs[j]) \/ Fails(j, ptJobs[j])
    /\ UNCHANGED <<ptListed, ptLock, ptRemoves, ptUp>>

(* CONFIG GET of what the job needs.                                       *)
stepPrereq(j) ==
    /\ InStep(j, "prereq")
    /\ \/ ptJobs[j].server \in ptUp /\ Done(j, ptJobs[j])
       \/ Fails(j, ptJobs[j])
    /\ UNCHANGED <<ptListed, ptLock, ptRemoves, ptUp>>

(* The timestamp is in the range of the last segment, and disk is free.    *)
stepFeasibility(j) ==
    /\ InStep(j, "feasibility")
    /\ Done(j, ptJobs[j]) \/ Fails(j, ptJobs[j])
    /\ UNCHANGED <<ptListed, ptLock, ptRemoves, ptUp>>

(* SHUTDOWN, and a probe with a new connection.  A probe that gets no      *)
(* answer counts as a server that is down.                                 *)
stepShutdown(j) ==
    LET told == [ptJobs[j] EXCEPT !.stopped = TRUE]
    IN  /\ InStep(j, "shutdown")
        /\ ptUp' \in {ptUp, ptUp \ {ptJobs[j].server}}
        /\ Done(j, told) \/ Fails(j, told)
        /\ UNCHANGED <<ptListed, ptLock, ptRemoves>>

(* A snapshot that is half written is removed again.                       *)
stepSnapshot(j) ==
    /\ InStep(j, "snapshot")
    /\ Done(j, [ptJobs[j] EXCEPT !.snapshot = TRUE]) \/ Fails(j, ptJobs[j])
    /\ UNCHANGED <<ptListed, ptLock, ptRemoves, ptUp>>

(* redis-check-aof may have cut the file when it fails, is killed by a     *)
(* cancel, or has changed what it must not.                                *)
stepTruncate(j) ==
    /\ InStep(j, "truncate")
    /\ \/ Done(j, [ptJobs[j] EXCEPT !.cut = TRUE])
       \/ \E cut \in BOOLEAN : Fails(j, [ptJobs[j] EXCEPT !.cut = cut])
    /\ UNCHANGED <<ptListed, ptLock, ptRemoves, ptUp>>

(* Mutant: INFO is polled for ever.                                        *)
stepRestart_NoDeadline(j) ==
    /\ InStep(j, "restart")
    /\ \/ ptJobs[j].server \in ptUp /\ Done(j, ptJobs[j]) /\ UNCHANGED ptUp
       \/ ptJobs[j].server \notin ptUp /\ UNCHANGED <<ptJobs, ptUp>>
    /\ UNCHANGED <<ptListed, ptLock, ptRemoves>>

(* The restart command, which ends, may have no effect or be killed, and   *)
(* pollUntilResponsive until INFO answers, the deadline or a cancel.       *)
stepRestart(j) ==
    /\ InStep(j, "restart")
    /\ ptUp' \in {ptUp, ptUp \cup {ptJobs[j].server}}
    /\ \/ ptJobs[j].server \in ptUp' /\ Done(j, ptJobs[j])
       \/ Fails(j, ptJobs[j])
    /\ UNCHANGED <<ptListed, ptLock, ptRemoves>>

(* INFO says that nothing is loading any more, the deadline or a cancel.   *)
stepWaitLoad(j) ==
    /\ InStep(j, "wait-load")
    /\ \/ ptJobs[j].server \in ptUp /\ ~ ptJobs[j].cancelled /\ Done(j, ptJobs[j])
       \/ Fails(j, ptJobs[j])
    /\ UNCHANGED <<ptListed, ptLock, ptRemoves, ptUp>>

(* SLAVEOF to the other servers of the group: those that fail are noted.   *)
stepResync(j) ==
    /\ InStep(j, "resync")
    /\ Done(j, ptJobs[j]) \/ Fails(j, ptJobs[j])
    /\ UNCHANGED <<ptListed, ptLock, ptRemoves, ptUp>>

-----------------------------------------------------------------------------
(* The servers.                                                            *)

ServerComesUp(s) ==
    /\ s \notin ptUp
    /\ ptUp' = ptUp \cup {s}
    /\ UNCHANGED <<ptJobs, ptListed, ptLock, ptRemoves>>

-----------------------------------------------------------------------------
RunJob(j) ==
    \/ StepBegins(j) \/ CancelledBetween(j) \/ RunEnds(j)
    \/ stepValidate(j) \/ stepPrereq(j) \/ stepFeasibility(j)
    \/ stepShutdown(j) \/ stepSnapshot(j) \/ stepTruncate(j)
    \/ stepRestart(j) \/ stepWaitLoad(j) \/ stepResync(j)

PtNext ==
    \/ \E s \in PtServers : PtCreate(s) \/ ServerComesUp(s)
    \/ \E j \in PtIds : \/ PtCancel(j) \/ RemoveCheck(j) \/ RunJob(j)
                        \/ \E n \in 1 .. 2 : RemoveDelete(j, n)
    \/ PtClose

PtSpec == PtInit /\ [][PtNext]_ptVars

-----------------------------------------------------------------------------
(* Properties.                                                             *)

(* Types of the variables, and the limit of jobs that run                  *)
(* (topom_pitr.go:291-311).                                                *)
PtTypeOK ==
    /\ Cardinality({j \in ptListed : Live(j)}) <= PtConcurrent
    /\ \A j \in PtIds :
          /\ ptJobs[j].server \in PtServers
          /\ ptJobs[j].step \in 0 .. Len(Steps)
          /\ ptJobs[j].run \in {"none", "between", "in", "ended"}
    /\ ptListed \subseteq PtIds
    /\ ptLock \in [PtServers -> 0 .. MaxPtJobs]
    /\ ptUp \subseteq PtServers

(* A server has one job at a time, running or waiting for its outcome to   *)
(* be confirmed, whatever calls of Remove overlap with a new Create: no    *)
(* append only file is cut by two of them (topom_pitr.go:291-311, 397-440).*)
OneJobPerServer ==
    \A i, j \in PtIds :
        /\ Live(i) => i \in ptListed
        /\ i \in ptListed => ptLock[ptJobs[i].server] = i
        /\ i # j /\ {i, j} \subseteq ptListed => ptJobs[i].server # ptJobs[j].server

(* While its job is listed, a file that was cut, by a job that succeeded   *)
(* or failed, has its snapshot to go back to (topom_pitr_run.go:374-473).  *)
CutHasSnapshot == \A j \in ptListed : ptJobs[j].cut => ptJobs[j].snapshot \/ \E n \in 1 .. 2 : <<j, n>> \in ptRemoves

(* A job that fails before SHUTDOWN has touched nothing, and one that      *)
(* succeeded did all of its work on a server that is or was started again  *)
(* (topom_pitr_run.go:106-218).                                            *)
OutcomesAreTrue ==
    \A j \in PtIds :
        /\ ptJobs[j].stopped \/ ptJobs[j].cut => ptJobs[j].step >= 4
        /\ ptJobs[j].state = "succeeded" => ptJobs[j].cut /\ ptJobs[j].stopped

(* Every job ends unless it is cancelled, also when the server does not    *)
(* come back (topom_pitr_run.go:486-535, 615-635).                         *)
PtJobsEnd == []<>(\A j \in PtIds : Live(j) => ptJobs[j].cancelled)

(* Every job ends, one that is cancelled too: "a cancel between steps is   *)
(* honored promptly" (topom_pitr_run.go:71-73).                            *)
CancelledJobsEnd == []<>(\A j \in PtIds : ~ Live(j))

(* However jobs, cancels and removals overlap, a server has one job,       *)
(* within the limit of jobs, and no file is cut without a way back.        *)
RecoveryIsSafe == PtTypeOK /\ OneJobPerServer /\ CutHasSnapshot /\ OutcomesAreTrue
=============================================================================
