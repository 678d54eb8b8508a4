------------------------------ MODULE JobProofs ------------------------------
(***************************************************************************)
(* The jobs of the dashboard are safe for any number of servers, jobs and  *)
(* calls: recoveries to a point in time (PITR), the analysis of RDB files  *)
(* (RDBAnalysis), its registry and what it shows of a file, and the plans  *)
(* that level the groups (Rebalance).                                      *)
(***************************************************************************)
EXTENDS PITR, RDBAnalysis, Rebalance, SubsequenceProofs

-----------------------------------------------------------------------------
(* PITR.  The registry and the goroutine of a job share the record of the  *)
(* job; what the goroutine has done by each step is JobOk.                 *)

PtStates == {"none", "pending", "succeeded", "failed", "cancelled"} \cup {Steps[n] : n \in 1 .. 9}

PtJob ==
    [server: PtServers, state: PtStates,
     step: 0 .. 9, run: {"none", "between", "in", "ended"},
     cancelled: BOOLEAN, snapshot: BOOLEAN, cut: BOOLEAN, stopped: BOOLEAN]

PtTypes ==
    /\ ptJobs \in [PtIds -> PtJob]
    /\ ptListed \subseteq PtIds
    /\ ptLock \in [PtServers -> 0 .. MaxPtJobs]
    /\ ptRemoves \subseteq PtIds \X (1 .. 2)
    /\ ptUp \subseteq PtServers

(* The work of step n is done.                                             *)
Past(job, n) == job.step > n \/ (job.step = n /\ job.run = "between")

(* The state of a job, and what it has done, by its step.                  *)
JobOk(job) ==
    /\ job.run = "none" => job.step = 0 /\ job.state = "none"
    /\ job.run = "between" => IF job.step = 0 THEN job.state = "pending" ELSE job.state = Steps[job.step]
    /\ job.run = "in" => job.step > 0 /\ job.state = Steps[job.step]
    /\ job.run = "ended" => job.state # "none"
    /\ pitrStateIsTerminal(job.state) => job.run = "ended"
    /\ Past(job, 4) => job.stopped
    /\ Past(job, 6) => job.cut
    /\ job.stopped => job.step >= 4
    /\ job.cut => job.step >= 6
    /\ job.state = "succeeded" => job.step = 9

(* The snapshot is there from its step until a call of Remove.             *)
SnapshotOk(j) ==
    /\ Past(ptJobs[j], 5) /\ ~ pitrStateIsTerminal(ptJobs[j].state) => ptJobs[j].snapshot
    /\ j \in ptListed /\ ptJobs[j].cut /\ (\A n \in 1 .. 2 : <<j, n>> \notin ptRemoves) => ptJobs[j].snapshot

RegistryOk ==
    /\ \A j \in PtIds : Live(j) => j \in ptListed
    /\ \A j \in ptListed : ptJobs[j].state # "none" /\ ptLock[ptJobs[j].server] = j
    /\ \A j \in PtIds : \A n \in 1 .. 2 : <<j, n>> \in ptRemoves => pitrStateIsTerminal(ptJobs[j].state)
    /\ Cardinality({j \in ptListed : Live(j)}) <= PtConcurrent

PtInv ==
    /\ PtTypes
    /\ \A j \in PtIds : JobOk(ptJobs[j]) /\ SnapshotOk(j)
    /\ RegistryOk

(* The names of the steps are different, and none is a state of the end.   *)
LEMMA StepNames ==
    /\ Len(Steps) = 9
    /\ \A n \in 1 .. 9 : /\ Steps[n] \notin {"none", "pending", "succeeded", "failed", "cancelled"}
                         /\ Steps[n] = "validate" => n = 1
                         /\ Steps[n] = "prereq" => n = 2
                         /\ Steps[n] = "feasibility" => n = 3
                         /\ Steps[n] = "shutdown" => n = 4
                         /\ Steps[n] = "snapshot" => n = 5
                         /\ Steps[n] = "truncate" => n = 6
                         /\ Steps[n] = "restart" => n = 7
                         /\ Steps[n] = "wait-load" => n = 8
                         /\ Steps[n] = "resync" => n = 9
<1>1. Len(Steps) = 9
  BY DEF Steps
<1>2. SUFFICES ASSUME NEW n \in 1 .. 9
               PROVE  /\ Steps[n] \notin {"none", "pending", "succeeded", "failed", "cancelled"}
                      /\ Steps[n] = "validate" => n = 1
                      /\ Steps[n] = "prereq" => n = 2
                      /\ Steps[n] = "feasibility" => n = 3
                      /\ Steps[n] = "shutdown" => n = 4
                      /\ Steps[n] = "snapshot" => n = 5
                      /\ Steps[n] = "truncate" => n = 6
                      /\ Steps[n] = "restart" => n = 7
                      /\ Steps[n] = "wait-load" => n = 8
                      /\ Steps[n] = "resync" => n = 9
  BY <1>1
<1>3. n = 1 \/ n = 2 \/ n = 3 \/ n = 4 \/ n = 5 \/ n = 6 \/ n = 7 \/ n = 8 \/ n = 9
  OBVIOUS
<1> QED BY <1>3 DEF Steps

(* The states that are no steps.                                           *)
LEMMA EndStates == {"none", "pending", "succeeded", "failed", "cancelled"} \subseteq PtStates
BY DEF PtStates

(* A job that no call has made yet.                                        *)
LEMMA NoPtJobOk ==
    /\ NoPtJob \in PtJob /\ JobOk(NoPtJob) /\ ~ Past(NoPtJob, 5)
    /\ NoPtJob.state = "none" /\ NoPtJob.step = 0
    /\ ~ NoPtJob.stopped /\ ~ NoPtJob.cut
<1>1. (CHOOSE s \in PtServers : TRUE) \in PtServers
  BY PITRAssumption
<1> QED BY <1>1, EndStates DEF NoPtJob, PtJob, JobOk, Past, pitrStateIsTerminal

(* No job, and nothing done.                                               *)
LEMMA PtInitInv ==
    ASSUME PtInit
    PROVE  PtInv
<1>1. PtTypes
  BY NoPtJobOk, PITRAssumption DEF PtInit, PtTypes, PtIds
<1>2. \A j \in PtIds : JobOk(ptJobs[j]) /\ SnapshotOk(j)
  BY NoPtJobOk DEF PtInit, SnapshotOk
<1>3. {j \in ptListed : Live(j)} = {}
  BY DEF PtInit
<1>4. Cardinality({j \in ptListed : Live(j)}) <= PtConcurrent
  BY <1>3, FS_EmptySet, PITRAssumption
<1>5. \A j \in PtIds : ~ Live(j)
  BY DEF PtInit, Live, NoPtJob
<1> QED BY <1>1, <1>2, <1>4, <1>5 DEF PtInit, PtInv, RegistryOk

(* The jobs that run are no more when some of them have ended.             *)
LEMMA FewerLive ==
    ASSUME PtTypes, Cardinality({j \in ptListed : Live(j)}) <= PtConcurrent,
           \A j \in ptListed' : Live(j)' => j \in ptListed /\ Live(j)
    PROVE  Cardinality({j \in ptListed' : Live(j)'}) <= PtConcurrent
<1> DEFINE L == {j \in ptListed : Live(j)}
           M == {j \in ptListed' : Live(j)'}
<1>1. IsFiniteSet(PtIds)
  BY FS_Interval, PITRAssumption DEF PtIds
<1>2. L \subseteq PtIds /\ M \subseteq L
  BY DEF PtTypes
<1> HIDE DEF L, M
<1>3. IsFiniteSet(L)
  BY <1>1, <1>2, FS_Subset
<1>4. IsFiniteSet(M) /\ Cardinality(M) <= Cardinality(L) /\ Cardinality(L) \in Nat /\ Cardinality(M) \in Nat
  BY <1>2, <1>3, FS_Subset, FS_CardinalityType
<1>5. Cardinality(L) <= PtConcurrent
  BY DEF L
<1>6. Cardinality(M) <= PtConcurrent
  BY <1>4, <1>5, PITRAssumption
<1> QED BY <1>6 DEF M

(* The goroutine of a job, or a call of Cancel, changes the record of one  *)
(* job that has not ended, and nothing else of the registry.               *)
LEMMA OneJob ==
    ASSUME PtInv, NEW j \in PtIds, Live(j),
           NEW new \in PtJob, JobOk(new), new.server = ptJobs[j].server, new.state # "none",
           Past(new, 5) => new.snapshot, new.cut => new.snapshot,
           ptJobs' = [ptJobs EXCEPT ![j] = new],
           ptUp' \subseteq PtServers,
           UNCHANGED <<ptListed, ptLock, ptRemoves>>
    PROVE  PtInv'
<1>1. PtTypes'
  BY DEF PtInv, PtTypes
<1>2. ptJobs'[j] = new /\ \A i \in PtIds : i # j => ptJobs'[i] = ptJobs[i]
  BY DEF PtInv, PtTypes
<1>3. \A i \in PtIds : JobOk(ptJobs'[i])
  BY <1>2 DEF PtInv
<1>4. \A i \in PtIds : SnapshotOk(i)'
  BY <1>2 DEF PtInv, SnapshotOk
<1>5. j \in ptListed
  BY DEF PtInv, RegistryOk
<1>6. \A i \in PtIds : Live(i)' => Live(i)
  BY <1>2 DEF Live
<1>7. Cardinality({i \in ptListed' : Live(i)'}) <= PtConcurrent
  BY <1>6, FewerLive DEF PtInv, PtTypes, RegistryOk
<1>8. \A i \in PtIds : \A n \in 1 .. 2 : <<i, n>> \in ptRemoves => i # j
  BY DEF PtInv, RegistryOk, Live
<1>9. /\ \A i \in PtIds : Live(i)' => i \in ptListed'
      /\ \A i \in ptListed' : ptJobs'[i].state # "none" /\ ptLock'[ptJobs'[i].server] = i
      /\ \A i \in PtIds : \A n \in 1 .. 2 : <<i, n>> \in ptRemoves' => pitrStateIsTerminal(ptJobs'[i].state)
  BY <1>2, <1>6, <1>8 DEF PtInv, PtTypes, RegistryOk
<1>10. RegistryOk'
  BY <1>7, <1>9 DEF RegistryOk
<1> QED BY <1>1, <1>3, <1>4, <1>10 DEF PtInv

(* A job whose goroutine is between two steps or in one has not ended, and *)
(* its snapshot is there once it was made.                                 *)
LEMMA InRun ==
    ASSUME PtInv, NEW j \in PtIds, ptJobs[j].run \in {"between", "in"}
    PROVE  /\ ptJobs[j] \in PtJob /\ JobOk(ptJobs[j]) /\ Live(j)
           /\ Past(ptJobs[j], 5) => ptJobs[j].snapshot
           /\ ptJobs[j].cut => ptJobs[j].snapshot
<1>1. ptJobs[j] \in PtJob /\ JobOk(ptJobs[j]) /\ SnapshotOk(j)
  BY DEF PtInv, PtTypes
<1>2. ptJobs[j].state # "none" /\ ~ pitrStateIsTerminal(ptJobs[j].state)
  BY <1>1, StepNames DEF JobOk, PtJob
<1>3. ptJobs[j].cut => Past(ptJobs[j], 5)
  BY <1>1 DEF JobOk, Past, PtJob
<1> QED BY <1>1, <1>2, <1>3 DEF Live, SnapshotOk

(* In the step of a name, a job has the number of the name.                *)
LEMMA InNamed ==
    ASSUME PtInv, NEW j \in PtIds, NEW n \in 1 .. 9, InStep(j, Steps[n])
    PROVE  /\ ptJobs[j].run = "in" /\ ptJobs[j].step = n
           /\ ptJobs[j] \in PtJob /\ JobOk(ptJobs[j]) /\ Live(j)
           /\ Past(ptJobs[j], 5) => ptJobs[j].snapshot
           /\ ptJobs[j].cut => ptJobs[j].snapshot
<1>1. ptJobs[j].run = "in"
  BY DEF InStep
<1>2. ptJobs[j] \in PtJob /\ JobOk(ptJobs[j])
  BY <1>1, InRun
<1>3. ptJobs[j].step \in 1 .. 9 /\ Steps[ptJobs[j].step] = Steps[n]
  BY <1>1, <1>2 DEF InStep, JobOk, PtJob
<1>4. ptJobs[j].step = n
  <2> DEFINE m == ptJobs[j].step
  <2>1. m \in 1 .. 9 /\ n \in 1 .. 9 /\ Steps[m] = Steps[n]
    BY <1>3
  <2> HIDE DEF m
  <2>2. m = n
    BY <2>1 DEF Steps
  <2> QED BY <2>2 DEF m
<1> QED BY <1>1, <1>4, InRun

-----------------------------------------------------------------------------
(* A step of runSteps: it is done, and the job goes on with what it did,   *)
(* or it fails.                                                            *)

(* The work of a step is done.                                             *)
LEMMA StepDone ==
    ASSUME PtInv, NEW j \in PtIds, Live(j), ptJobs[j].run = "in",
           NEW job \in PtJob, job.run = "in", job.server = ptJobs[j].server,
           job.step = ptJobs[j].step, job.state = ptJobs[j].state,
           JobOk(job), job.cut => job.snapshot,
           job.step = 4 => job.stopped, job.step = 6 => job.cut, job.step >= 5 => job.snapshot,
           Done(j, job), ptUp' \subseteq PtServers, UNCHANGED <<ptListed, ptLock, ptRemoves>>
    PROVE  PtInv'
<1> DEFINE new == [job EXCEPT !.run = "between"]
<1>1. new \in PtJob /\ new.server = ptJobs[j].server /\ new.state # "none"
  BY DEF PtJob, Live
<1>2. JobOk(new)
  BY StepNames DEF JobOk, PtJob, Past, NoPtJob, pitrStateIsTerminal
<1>3. (Past(new, 5) => new.snapshot) /\ (new.cut => new.snapshot)
  BY DEF Past, PtJob
<1>4. ptJobs' = [ptJobs EXCEPT ![j] = new]
  BY DEF Done
<1> HIDE DEF new
<1> QED BY <1>1, <1>2, <1>3, <1>4, OneJob

(* The work of a step fails.                                               *)
LEMMA StepFails ==
    ASSUME PtInv, NEW j \in PtIds, Live(j), ptJobs[j].run = "in",
           NEW job \in PtJob, job.run = "in", job.server = ptJobs[j].server,
           job.step = ptJobs[j].step,
           JobOk(job), job.cut => job.snapshot, job.step >= 6 => job.snapshot,
           Fails(j, job), ptUp' \subseteq PtServers, UNCHANGED <<ptListed, ptLock, ptRemoves>>
    PROVE  PtInv'
<1> DEFINE new == [job EXCEPT !.run = "ended", !.state = "failed"]
<1>1. new \in PtJob /\ new.server = ptJobs[j].server /\ new.state # "none"
  BY EndStates DEF PtJob
<1>2. JobOk(new)
  BY DEF JobOk, PtJob, Past, NoPtJob, pitrStateIsTerminal
<1>3. (Past(new, 5) => new.snapshot) /\ (new.cut => new.snapshot)
  BY DEF Past, PtJob
<1>4. ptJobs' = [ptJobs EXCEPT ![j] = new]
  BY DEF Fails
<1> HIDE DEF new
<1> QED BY <1>1, <1>2, <1>3, <1>4, OneJob

(* The goroutine goes on to the next step, or ends.                        *)
LEMMA BetweenSteps ==
    ASSUME PtInv, NEW j \in PtIds, StepBegins(j) \/ CancelledBetween(j) \/ RunEnds(j)
    PROVE  PtInv'
<1> DEFINE job == ptJobs[j]
<1>1. job.run = "between"
  BY DEF StepBegins, CancelledBetween, RunEnds
<1>2. /\ job \in PtJob /\ JobOk(job) /\ Live(j)
      /\ Past(job, 5) => job.snapshot
      /\ job.cut => job.snapshot
  BY <1>1, InRun
<1>3. CASE StepBegins(j)
  <2> DEFINE new == [job EXCEPT !.step = @ + 1, !.run = "in", !.state = Steps[job.step + 1]]
  <2>1. job.step \in 0 .. 8 /\ job.step + 1 \in 1 .. 9
    BY <1>2, <1>3, StepNames DEF StepBegins, PtJob
  <2>2. new \in PtJob /\ new.server = job.server /\ new.state # "none"
    <3>1. Steps[job.step + 1] \in PtStates /\ Steps[job.step + 1] # "none"
      BY <2>1, StepNames DEF PtStates
    <3>2. ASSUME NEW name \in PtStates, NEW n \in 0 .. 9
          PROVE  LET made == [job EXCEPT !.step = n, !.run = "in", !.state = name]
                 IN  made \in PtJob /\ made.server = job.server /\ made.state = name
      BY <1>2 DEF PtJob
    <3>3. job.step + 1 \in 0 .. 9
      BY <2>1
    <3> QED BY <3>1, <3>2, <3>3
  <2>3. JobOk(new)
    BY <1>1, <1>2, <2>1, StepNames DEF JobOk, PtJob, Past, NoPtJob, pitrStateIsTerminal
  <2>4. (Past(new, 5) => new.snapshot) /\ (new.cut => new.snapshot)
    BY <1>1, <1>2, <2>1 DEF Past, PtJob
  <2>5. ptJobs' = [ptJobs EXCEPT ![j] = new] /\ ptUp' \subseteq PtServers /\ UNCHANGED <<ptListed, ptLock, ptRemoves>>
    BY <1>2, <1>3 DEF StepBegins, PtJob, PtInv, PtTypes
  <2> HIDE DEF new
  <2> QED BY <1>2, <2>2, <2>3, <2>4, <2>5, OneJob
<1>4. CASE CancelledBetween(j)
  <2> DEFINE new == [job EXCEPT !.run = "ended"]
  <2>1. new \in PtJob /\ new.server = job.server /\ new.state # "none"
    BY <1>2 DEF PtJob, Live
  <2>2. JobOk(new)
    BY <1>1, <1>2 DEF JobOk, PtJob, Past, NoPtJob, Live
  <2>3. (Past(new, 5) => new.snapshot) /\ (new.cut => new.snapshot)
    BY <1>1, <1>2 DEF Past, PtJob
  <2>4. ptJobs' = [ptJobs EXCEPT ![j] = new] /\ ptUp' \subseteq PtServers /\ UNCHANGED <<ptListed, ptLock, ptRemoves>>
    BY <1>2, <1>4 DEF CancelledBetween, PtJob, PtInv, PtTypes
  <2> HIDE DEF new
  <2> QED BY <1>2, <2>1, <2>2, <2>3, <2>4, OneJob
<1>5. CASE RunEnds(j)
  <2> DEFINE new == [job EXCEPT !.run = "ended", !.state = IF job.cancelled THEN "cancelled" ELSE "succeeded"]
  <2>1. new \in PtJob /\ new.server = job.server /\ new.state # "none"
    BY <1>2, EndStates DEF PtJob
  <2>2. JobOk(new)
    BY <1>1, <1>2, <1>5, StepNames DEF RunEnds, JobOk, PtJob, Past, NoPtJob, pitrStateIsTerminal
  <2>3. (Past(new, 5) => new.snapshot) /\ (new.cut => new.snapshot)
    BY <1>1, <1>2 DEF Past, PtJob
  <2>4. ptJobs' = [ptJobs EXCEPT ![j] = new] /\ ptUp' \subseteq PtServers /\ UNCHANGED <<ptListed, ptLock, ptRemoves>>
    BY <1>2, <1>5 DEF RunEnds, PtJob, PtInv, PtTypes
  <2> HIDE DEF new
  <2> QED BY <1>2, <2>1, <2>2, <2>3, <2>4, OneJob
<1> QED BY <1>3, <1>4, <1>5

(* A step that adds nothing to what the job has done.                      *)
LEMMA PlainStep ==
    ASSUME PtInv, NEW j \in PtIds, NEW n \in {1, 2, 3, 7, 8, 9}, InStep(j, Steps[n]),
           Done(j, ptJobs[j]) \/ Fails(j, ptJobs[j]),
           ptUp' \subseteq PtServers, UNCHANGED <<ptListed, ptLock, ptRemoves>>
    PROVE  PtInv'
<1>1. /\ ptJobs[j].run = "in" /\ ptJobs[j].step = n
      /\ ptJobs[j] \in PtJob /\ JobOk(ptJobs[j]) /\ Live(j)
      /\ Past(ptJobs[j], 5) => ptJobs[j].snapshot
      /\ ptJobs[j].cut => ptJobs[j].snapshot
  BY InNamed
<1>2. n >= 5 => ptJobs[j].snapshot
  BY <1>1 DEF Past
<1> QED BY <1>1, <1>2, StepDone, StepFails

(* A step of the job itself, whichever it is.                              *)
LEMMA NamedSteps ==
    ASSUME PtInv, NEW j \in PtIds,
           \/ stepValidate(j) \/ stepPrereq(j) \/ stepFeasibility(j) \/ stepShutdown(j) \/ stepSnapshot(j)
           \/ stepTruncate(j) \/ stepRestart(j) \/ stepWaitLoad(j) \/ stepResync(j)
    PROVE  PtInv'
<1> DEFINE job == ptJobs[j]
<1>1. /\ Steps[1] = "validate" /\ Steps[2] = "prereq" /\ Steps[3] = "feasibility"
      /\ Steps[4] = "shutdown" /\ Steps[5] = "snapshot" /\ Steps[6] = "truncate"
      /\ Steps[7] = "restart" /\ Steps[8] = "wait-load" /\ Steps[9] = "resync"
  BY DEF Steps
<1>2. ptUp \subseteq PtServers /\ (j \in PtIds => ptJobs[j].server \in PtServers)
  BY DEF PtInv, PtTypes, PtJob
<1>3. CASE stepValidate(j)
  BY <1>1, <1>2, <1>3, PlainStep DEF stepValidate
<1>4. CASE stepPrereq(j)
  BY <1>1, <1>2, <1>4, PlainStep DEF stepPrereq
<1>5. CASE stepFeasibility(j)
  BY <1>1, <1>2, <1>5, PlainStep DEF stepFeasibility
<1>6. CASE stepShutdown(j)
  <2> DEFINE told == [job EXCEPT !.stopped = TRUE]
  <2>1. /\ job.run = "in" /\ job.step = 4 /\ job \in PtJob /\ JobOk(job) /\ Live(j)
        /\ Past(job, 5) => job.snapshot
        /\ job.cut => job.snapshot
    BY <1>1, <1>6, InNamed DEF stepShutdown
  <2>2. /\ told \in PtJob /\ told.run = "in" /\ told.server = job.server /\ told.step = 4
        /\ told.state = job.state /\ told.stopped /\ told.cut = job.cut /\ told.snapshot = job.snapshot
    BY <2>1 DEF PtJob
  <2>3. JobOk(told)
    BY <2>1 DEF JobOk, PtJob, Past, NoPtJob
  <2>4. (Done(j, told) \/ Fails(j, told)) /\ ptUp' \subseteq PtServers /\ UNCHANGED <<ptListed, ptLock, ptRemoves>>
    BY <1>2, <1>6 DEF stepShutdown
  <2> HIDE DEF told
  <2> QED BY <2>1, <2>2, <2>3, <2>4, StepDone, StepFails
<1>7. CASE stepSnapshot(j)
  <2> DEFINE made == [job EXCEPT !.snapshot = TRUE]
  <2>1. /\ job.run = "in" /\ job.step = 5 /\ job \in PtJob /\ JobOk(job) /\ Live(j)
        /\ job.cut => job.snapshot
    BY <1>1, <1>7, InNamed DEF stepSnapshot
  <2>2. /\ made \in PtJob /\ made.run = "in" /\ made.server = job.server /\ made.step = 5
        /\ made.state = job.state /\ made.snapshot
    BY <2>1 DEF PtJob
  <2>3. JobOk(made)
    BY <2>1 DEF JobOk, PtJob, Past, NoPtJob
  <2>4. (Done(j, made) \/ Fails(j, job)) /\ ptUp' \subseteq PtServers /\ UNCHANGED <<ptListed, ptLock, ptRemoves>>
    BY <1>2, <1>7 DEF stepSnapshot
  <2> HIDE DEF made
  <2> QED BY <2>1, <2>2, <2>3, <2>4, StepDone, StepFails
<1>8. CASE stepTruncate(j)
  <2>1. /\ job.run = "in" /\ job.step = 6 /\ job \in PtJob /\ JobOk(job) /\ Live(j)
        /\ Past(job, 5) => job.snapshot
    BY <1>1, <1>8, InNamed DEF stepTruncate
  <2>2. job.snapshot
    BY <2>1 DEF Past
  <2>3. ASSUME NEW c \in BOOLEAN
        PROVE  LET made == [job EXCEPT !.cut = c]
               IN  /\ made \in PtJob /\ made.run = "in" /\ made.server = job.server /\ made.step = 6
                   /\ made.state = job.state /\ made.snapshot /\ made.cut = c /\ JobOk(made)
    BY <2>1, <2>2 DEF JobOk, PtJob, Past, NoPtJob
  <2>4. ptUp' \subseteq PtServers /\ UNCHANGED <<ptListed, ptLock, ptRemoves>>
    BY <1>2, <1>8 DEF stepTruncate
  <2>5. CASE Done(j, [job EXCEPT !.cut = TRUE])
    <3> DEFINE made == [job EXCEPT !.cut = TRUE]
    <3>1. /\ made \in PtJob /\ made.run = "in" /\ made.server = job.server /\ made.step = 6
          /\ made.state = job.state /\ made.snapshot /\ made.cut /\ JobOk(made) /\ Done(j, made)
      BY <2>3, <2>5
    <3> HIDE DEF made
    <3> QED BY <2>1, <2>4, <3>1, StepDone
  <2>6. ASSUME NEW c \in BOOLEAN, Fails(j, [job EXCEPT !.cut = c])
        PROVE  PtInv'
    <3> DEFINE made == [job EXCEPT !.cut = c]
    <3>1. /\ made \in PtJob /\ made.run = "in" /\ made.server = job.server /\ made.step = 6
          /\ made.snapshot /\ JobOk(made) /\ Fails(j, made)
      BY <2>3, <2>6
    <3> HIDE DEF made
    <3> QED BY <2>1, <2>4, <3>1, StepFails
  <2> QED BY <1>8, <2>5, <2>6 DEF stepTruncate
<1>9. CASE stepRestart(j)
  BY <1>1, <1>2, <1>9, PlainStep DEF stepRestart
<1>10. CASE stepWaitLoad(j)
  BY <1>1, <1>2, <1>10, PlainStep DEF stepWaitLoad
<1>11. CASE stepResync(j)
  BY <1>1, <1>2, <1>11, PlainStep DEF stepResync
<1> QED BY <1>3, <1>4, <1>5, <1>6, <1>7, <1>8, <1>9, <1>10, <1>11

-----------------------------------------------------------------------------
(* The calls.                                                              *)

(* A job is created and takes the lock of its server.                      *)
LEMMA CreateKeepsInv ==
    ASSUME PtInv, NEW s \in PtServers, PtCreate(s)
    PROVE  PtInv'
<1>1. PICK j \in PtIds :
          /\ ptJobs[j] = NoPtJob
          /\ ptJobs' = [ptJobs EXCEPT ![j] = [NoPtJob EXCEPT !.server = s, !.state = "pending", !.run = "between"]]
          /\ ptListed' = ptListed \cup {j}
          /\ ptLock' = [ptLock EXCEPT ![s] = j]
  BY DEF PtCreate
<1> DEFINE new == [NoPtJob EXCEPT !.server = s, !.state = "pending", !.run = "between"]
<1>2. /\ new \in PtJob /\ new.server = s /\ new.state = "pending" /\ ~ new.cut
      /\ JobOk(new) /\ ~ Past(new, 5)
  <2>1. /\ new \in PtJob /\ new.server = s /\ new.state = "pending" /\ new.run = "between"
        /\ new.step = 0 /\ ~ new.stopped /\ ~ new.cut
    BY NoPtJobOk, EndStates DEF PtJob
  <2> HIDE DEF new
  <2> QED BY <2>1 DEF JobOk, Past, pitrStateIsTerminal
<1>3. j \notin ptListed /\ (\A n \in 1 .. 2 : <<j, n>> \notin ptRemoves)
  BY <1>1 DEF PtInv, RegistryOk, NoPtJob, pitrStateIsTerminal
<1>4. ptJobs' = [ptJobs EXCEPT ![j] = new]
  BY <1>1
<1> HIDE DEF new
<1>5. ptJobs'[j] = new /\ \A i \in PtIds : i # j => ptJobs'[i] = ptJobs[i]
  BY <1>4 DEF PtInv, PtTypes
<1>6. PtTypes'
  BY <1>1, <1>2, <1>4 DEF PtInv, PtTypes, PtCreate, PtIds
<1>7. \A i \in PtIds : JobOk(ptJobs'[i]) /\ SnapshotOk(i)'
  BY <1>1, <1>2, <1>5 DEF PtInv, SnapshotOk, PtCreate
<1>8. \A i \in ptListed : ptJobs[i].server # s /\ ptJobs[i].server \in PtServers
  BY DEF PtInv, PtTypes, PtIds, PtJob, RegistryOk, PtCreate
<1>9. \A i \in ptListed' : ptJobs'[i].state # "none" /\ ptLock'[ptJobs'[i].server] = i
  <2>1. ptLock'[s] = j /\ \A x \in PtServers : x # s => ptLock'[x] = ptLock[x]
    BY <1>1 DEF PtInv, PtTypes
  <2> QED BY <1>1, <1>2, <1>3, <1>5, <1>8, <2>1 DEF PtInv, PtTypes, RegistryOk
<1>10. \A i \in PtIds : Live(i)' => i \in ptListed'
  BY <1>1, <1>5 DEF PtInv, RegistryOk, Live
<1>11. \A i \in PtIds : \A n \in 1 .. 2 : <<i, n>> \in ptRemoves' => pitrStateIsTerminal(ptJobs'[i].state)
  BY <1>3, <1>5 DEF PtInv, RegistryOk, PtCreate
<1>12. Cardinality({i \in ptListed' : Live(i)'}) <= PtConcurrent
  <2> DEFINE L == {i \in ptListed : Live(i)}
             M == {i \in ptListed' : Live(i)'}
  <2>1. M = L \cup {j} /\ j \notin L /\ L \subseteq PtIds
    BY <1>1, <1>2, <1>3, <1>5 DEF Live, PtInv, PtTypes, pitrStateIsTerminal
  <2>2. IsFiniteSet(PtIds)
    BY FS_Interval, PITRAssumption DEF PtIds
  <2>3. Cardinality(L) < PtConcurrent
    BY DEF PtCreate, checkConcurrentLimitLocked
  <2> HIDE DEF L, M
  <2>4. IsFiniteSet(L) /\ Cardinality(L) \in Nat
    BY <2>1, <2>2, FS_Subset, FS_CardinalityType
  <2>5. Cardinality(M) = Cardinality(L) + 1
    BY <2>1, <2>4, FS_AddElement
  <2>6. Cardinality(M) <= PtConcurrent
    BY <2>3, <2>4, <2>5, PITRAssumption
  <2> QED BY <2>6 DEF M
<1> QED BY <1>6, <1>7, <1>9, <1>10, <1>11, <1>12 DEF PtInv, RegistryOk

(* Cancel marks a job, whatever it is doing.                               *)
LEMMA CancelKeepsInv ==
    ASSUME PtInv, NEW j \in PtIds, PtCancel(j)
    PROVE  PtInv'
<1> DEFINE new == [ptJobs[j] EXCEPT !.cancelled = TRUE]
<1>1. ptJobs[j] \in PtJob /\ JobOk(ptJobs[j]) /\ Live(j) /\ SnapshotOk(j)
  BY DEF PtInv, PtTypes, PtCancel
<1>2. new \in PtJob /\ new.server = ptJobs[j].server /\ new.state # "none"
  BY <1>1 DEF PtJob, Live
<1>3. JobOk(new)
  BY <1>1 DEF JobOk, PtJob, Past, NoPtJob, Live
<1>4. (Past(new, 5) => new.snapshot) /\ (new.cut => new.snapshot)
  BY <1>1 DEF Past, PtJob, SnapshotOk, Live, JobOk
<1>5. ptJobs' = [ptJobs EXCEPT ![j] = new] /\ ptUp' \subseteq PtServers /\ UNCHANGED <<ptListed, ptLock, ptRemoves>>
  BY <1>1 DEF PtCancel, PtJob, PtInv, PtTypes
<1> HIDE DEF new
<1> QED BY <1>1, <1>2, <1>3, <1>4, <1>5, OneJob

(* Close cancels the jobs that are listed.                                 *)
LEMMA CloseKeepsInv ==
    ASSUME PtInv, PtClose
    PROVE  PtInv'
<1> DEFINE new(j) == [ptJobs[j] EXCEPT !.cancelled = @ \/ j \in ptListed]
<1>1. ASSUME NEW j \in PtIds
      PROVE  /\ ptJobs'[j] = new(j) /\ ptJobs'[j] \in PtJob
             /\ ptJobs'[j].server = ptJobs[j].server /\ ptJobs'[j].state = ptJobs[j].state
             /\ ptJobs'[j].step = ptJobs[j].step /\ ptJobs'[j].run = ptJobs[j].run
             /\ ptJobs'[j].snapshot = ptJobs[j].snapshot /\ ptJobs'[j].cut = ptJobs[j].cut
             /\ ptJobs'[j].stopped = ptJobs[j].stopped
  <2>1. ptJobs'[j] = new(j) /\ ptJobs[j] \in PtJob
    BY DEF PtClose, PtInv, PtTypes
  <2>2. (ptJobs[j].cancelled \/ j \in ptListed) \in BOOLEAN
    OBVIOUS
  <2> QED BY <2>1, <2>2 DEF PtJob
<1>2. PtTypes'
  BY <1>1 DEF PtInv, PtTypes, PtClose
<1>3. ASSUME NEW j \in PtIds
      PROVE  JobOk(ptJobs'[j])
  <2>1. JobOk(ptJobs[j]) /\ ptJobs[j] \in PtJob
    BY DEF PtInv, PtTypes
  <2> HIDE DEF new
  <2>2. \A n \in {4, 6} : Past(ptJobs'[j], n) <=> Past(ptJobs[j], n)
    BY <1>1 DEF Past
  <2> QED BY <1>1, <2>1, <2>2 DEF JobOk
<1>4. ASSUME NEW j \in PtIds
      PROVE  SnapshotOk(j)'
  <2>1. SnapshotOk(j) /\ UNCHANGED <<ptListed, ptRemoves>> /\ (Past(ptJobs'[j], 5) <=> Past(ptJobs[j], 5))
    BY <1>1 DEF PtInv, PtClose, Past
  <2> QED BY <1>1, <2>1 DEF SnapshotOk
<1>5. \A j \in PtIds : Live(j)' <=> Live(j)
  BY <1>1 DEF Live
<1>6. Cardinality({j \in ptListed' : Live(j)'}) <= PtConcurrent
  BY <1>2, <1>5, FewerLive DEF PtInv, PtTypes, RegistryOk, PtClose
<1>7. RegistryOk'
  BY <1>1, <1>5, <1>6 DEF PtInv, PtTypes, RegistryOk, PtClose
<1> QED BY <1>2, <1>3, <1>4, <1>7 DEF PtInv

(* The first section of Remove lets jobs pass that are over.               *)
LEMMA RemoveCheckKeepsInv ==
    ASSUME PtInv, NEW j \in PtIds, RemoveCheck(j)
    PROVE  PtInv'
<1>1. PICK n \in 1 .. 2 : ptRemoves' = ptRemoves \cup {<<j, n>>}
  BY DEF RemoveCheck
<1>2. UNCHANGED <<ptJobs, ptListed, ptLock, ptUp>> /\ pitrStateIsTerminal(ptJobs[j].state)
  BY DEF RemoveCheck
<1>3. PtTypes'
  BY <1>1, <1>2 DEF PtInv, PtTypes
<1>4. \A i \in PtIds : JobOk(ptJobs'[i]) /\ SnapshotOk(i)'
  BY <1>1, <1>2 DEF PtInv, SnapshotOk
<1>5. \A i \in PtIds : Live(i)' <=> Live(i)
  BY <1>2 DEF Live
<1>6. Cardinality({i \in ptListed' : Live(i)'}) <= PtConcurrent
  BY <1>2, <1>5, FewerLive DEF PtInv, PtTypes, RegistryOk
<1>7. \A i \in PtIds : \A m \in 1 .. 2 : <<i, m>> \in ptRemoves' => pitrStateIsTerminal(ptJobs'[i].state)
  BY <1>1, <1>2 DEF PtInv, RegistryOk
<1>8. RegistryOk'
  BY <1>2, <1>5, <1>6, <1>7 DEF PtInv, RegistryOk
<1> QED BY <1>3, <1>4, <1>8 DEF PtInv

(* The lock is only given back by its owner: one that a new job has taken  *)
(* since the check is left.                                                *)
LEMMA RemoveDeleteKeepsInv ==
    ASSUME PtInv, NEW j \in PtIds, NEW n \in 1 .. 2, RemoveDelete(j, n)
    PROVE  PtInv'
<1> DEFINE new == [ptJobs[j] EXCEPT !.snapshot = FALSE]
<1>1. ptJobs[j] \in PtJob /\ JobOk(ptJobs[j]) /\ pitrStateIsTerminal(ptJobs[j].state)
  BY DEF PtInv, PtTypes, RegistryOk, RemoveDelete
<1>2. /\ new \in PtJob /\ new.server = ptJobs[j].server /\ new.state = ptJobs[j].state
      /\ pitrStateIsTerminal(new.state)
  BY <1>1 DEF PtJob
<1>3. JobOk(new)
  BY <1>1 DEF JobOk, PtJob, Past, NoPtJob, pitrStateIsTerminal
<1>4. ptJobs' = [ptJobs EXCEPT ![j] = new]
  BY <1>1 DEF RemoveDelete, PtJob, PtInv, PtTypes
<1> HIDE DEF new
<1>5. ptJobs'[j] = new /\ \A i \in PtIds : i # j => ptJobs'[i] = ptJobs[i]
  BY <1>4 DEF PtInv, PtTypes
<1>6. ptLock' = [ptLock EXCEPT ![ptJobs[j].server] = IF ptLock[ptJobs[j].server] = j THEN 0
                                                     ELSE ptLock[ptJobs[j].server]]
  BY DEF RemoveDelete
<1>7. ptJobs[j].server \in PtServers
  BY <1>1 DEF PtJob
<1>8. PtTypes'
  <2>1. ptLock' \in [PtServers -> 0 .. MaxPtJobs]
    <3>1. ptLock[ptJobs[j].server] \in 0 .. MaxPtJobs /\ 0 \in 0 .. MaxPtJobs
      BY <1>7, PITRAssumption DEF PtInv, PtTypes
    <3> QED BY <1>6, <3>1 DEF PtInv, PtTypes
  <2> QED BY <1>2, <1>4, <2>1 DEF PtInv, PtTypes, RemoveDelete
<1>9. \A i \in PtIds : JobOk(ptJobs'[i])
  BY <1>3, <1>5 DEF PtInv
<1>10. \A i \in PtIds : SnapshotOk(i)'
  BY <1>2, <1>5 DEF PtInv, SnapshotOk, RemoveDelete
<1>11. \A i \in PtIds : Live(i)' <=> (i # j /\ Live(i))
  BY <1>1, <1>2, <1>5 DEF Live
<1>12. Cardinality({i \in ptListed' : Live(i)'}) <= PtConcurrent
  BY <1>11, FewerLive DEF PtInv, PtTypes, RegistryOk, RemoveDelete
<1>13. \A i \in ptListed' : ptJobs'[i].state # "none" /\ ptLock'[ptJobs'[i].server] = i
  <2>1. SUFFICES ASSUME NEW i \in ptListed, i # j
                 PROVE  ptJobs[i].state # "none" /\ ptLock'[ptJobs[i].server] = i
    BY <1>5 DEF RemoveDelete, PtInv, PtTypes
  <2>2. ptJobs[i].state # "none" /\ ptLock[ptJobs[i].server] = i /\ ptJobs[i].server \in PtServers
    BY DEF PtInv, PtTypes, RegistryOk, PtJob
  <2> QED BY <1>6, <1>7, <2>1, <2>2 DEF PtInv, PtTypes
<1>14. \A i \in PtIds : \A m \in 1 .. 2 : <<i, m>> \in ptRemoves' => pitrStateIsTerminal(ptJobs'[i].state)
  BY <1>2, <1>5 DEF PtInv, RegistryOk, RemoveDelete
<1>15. RegistryOk'
  BY <1>11, <1>12, <1>13, <1>14 DEF PtInv, RegistryOk, RemoveDelete
<1> QED BY <1>8, <1>9, <1>10, <1>15 DEF PtInv

(* Nothing changes.                                                        *)
LEMMA PtStutterKeepsInv ==
    ASSUME PtInv, UNCHANGED <<ptJobs, ptListed, ptLock, ptRemoves>>, ptUp' \subseteq PtServers
    PROVE  PtInv'
<1>1. \A i \in PtIds : Live(i)' <=> Live(i)
  BY DEF Live
<1>2. Cardinality({i \in ptListed' : Live(i)'}) <= PtConcurrent
  BY <1>1, FewerLive DEF PtInv, PtTypes, RegistryOk
<1>3. RegistryOk'
  BY <1>1, <1>2 DEF PtInv, RegistryOk
<1> QED BY <1>3 DEF PtInv, PtTypes, SnapshotOk

(* Every step keeps the invariant.                                         *)
LEMMA PtStepKeepsInv ==
    ASSUME PtInv, [PtNext]_ptVars
    PROVE  PtInv'
<1>1. ASSUME NEW s \in PtServers, PtCreate(s)
      PROVE  PtInv'
  BY <1>1, CreateKeepsInv
<1>2. ASSUME NEW s \in PtServers, ServerComesUp(s)
      PROVE  PtInv'
  BY <1>2, PtStutterKeepsInv DEF ServerComesUp, PtInv, PtTypes
<1>3. ASSUME NEW j \in PtIds, PtCancel(j) \/ RemoveCheck(j) \/ RunJob(j) \/ \E n \in 1 .. 2 : RemoveDelete(j, n)
      PROVE  PtInv'
  BY <1>3, CancelKeepsInv, RemoveCheckKeepsInv, RemoveDeleteKeepsInv, BetweenSteps, NamedSteps DEF RunJob
<1>4. CASE PtClose
  BY <1>4, CloseKeepsInv
<1>5. CASE UNCHANGED ptVars
  BY <1>5, PtStutterKeepsInv DEF ptVars, PtInv, PtTypes
<1> QED BY <1>1, <1>2, <1>3, <1>4, <1>5 DEF PtNext

(* What PtInv says of the jobs is what is to be kept.                      *)
LEMMA PtInvIsSafe ==
    ASSUME PtInv
    PROVE  RecoveryIsSafe
<1>1. PtTypeOK
  BY StepNames DEF PtInv, PtTypes, PtTypeOK, PtJob, RegistryOk
<1>2. OneJobPerServer
  BY DEF PtInv, PtTypes, RegistryOk, OneJobPerServer
<1>3. CutHasSnapshot
  BY DEF PtInv, PtTypes, SnapshotOk, CutHasSnapshot
<1>4. OutcomesAreTrue
  <2>1. SUFFICES ASSUME NEW j \in PtIds
                 PROVE  /\ ptJobs[j].stopped \/ ptJobs[j].cut => ptJobs[j].step >= 4
                        /\ ptJobs[j].state = "succeeded" => ptJobs[j].cut /\ ptJobs[j].stopped
    BY DEF OutcomesAreTrue
  <2>2. ptJobs[j] \in PtJob /\ JobOk(ptJobs[j])
    BY DEF PtInv, PtTypes
  <2> QED BY <2>2 DEF JobOk, Past, PtJob
<1> QED BY <1>1, <1>2, <1>3, <1>4 DEF RecoveryIsSafe

(* Recoveries are safe, for any servers, jobs and limit: a server has one  *)
(* job at a time, within the limit, a file that was cut can be brought     *)
(* back while its job is listed, and a job says what it did, however       *)
(* Create, Cancel, Remove and Close overlap with its goroutine             *)
(* (topom_pitr.go, topom_pitr_run.go).                                     *)
THEOREM RecoveryTheorem == PtSpec => []RecoveryIsSafe
<1>1. PtInit => PtInv
  BY PtInitInv
<1>2. PtInv /\ [PtNext]_ptVars => PtInv'
  BY PtStepKeepsInv
<1>3. PtInv => RecoveryIsSafe
  BY PtInvIsSafe
<1> QED BY <1>1, <1>2, <1>3, PTL DEF PtSpec

-----------------------------------------------------------------------------
(* RDBAnalysis.  A call that is over has left its file to a job of the     *)
(* list, or to a Remove that is under way; a call that is not has no job.  *)

RaStates == {"none", "queued", "running", "done", "error", "canceled"}
RaStages == {"new", "fetch", "copy", "file", "checked", "end"}
RaKinds  == {"none", "workspace", "upload", "remote"}
Fetching == {c \in RaCalls : raCall[c].kind = "remote" /\ raCall[c].stage \in {"fetch", "copy"}}

RaTypes ==
    /\ Len(raFile) \in 0 .. MaxRaObjects
    /\ raCall \in [RaCalls -> [stage: RaStages, kind: RaKinds]]
    /\ raTemp \subseteq RaCalls /\ raCancelled \subseteq RaCalls /\ raRemoving \subseteq RaCalls
    /\ raStatus \in [RaCalls -> RaStates]
    /\ raJobs \in Seq(RaCalls)
    /\ raRead \in [RaCalls -> 0 .. MaxRaObjects]
    /\ raActive \in 0 .. RaFetches

RaInv ==
    /\ RaTypes
    /\ Distinct(raJobs)
    /\ \A c \in RaCalls : raCall[c].stage = "fetch" => raCall[c].kind = "remote"
    /\ \A c \in raTemp : raCall[c].stage \notin {"new", "fetch"}
    /\ \A c \in RaCalls : raCall[c].stage # "end" => raStatus[c] = "none" /\ c \notin Elements(raJobs)
    /\ raActive = Cardinality(Fetching)
    /\ \A c \in raTemp : raCall[c].stage # "end" \/ c \in Elements(raJobs) \cup raRemoving
    /\ \A c \in RaCalls : raStatus[c] \in {"queued", "running"} => c \in Elements(raJobs) \cup raRemoving \cup raCancelled

(* The jobs that are listed are the elements of the list.                  *)
LEMMA ListedIs ==
    ASSUME raJobs \in Seq(RaCalls)
    PROVE  Listed = Elements(raJobs)
BY LenProperties DEF Listed, Elements

(* No call has been made.                                                  *)
LEMMA RaInitInv ==
    ASSUME RaInit
    PROVE  RaInv
<1>1. Len(raFile) \in 0 .. MaxRaObjects
  <2>1. PICK n \in 0 .. MaxRaObjects : raFile \in [1 .. n -> RaObjects]
    BY DEF RaInit
  <2>2. n \in Nat /\ Len(raFile) = n
    BY <2>1, RDBAnalysisAssumption
  <2> QED BY <2>1, <2>2
<1>2. raJobs \in Seq(RaCalls) /\ Elements(raJobs) = {} /\ Distinct(raJobs)
  BY DEF RaInit, Elements, Distinct
<1>3. Fetching = {} /\ Cardinality({}) = 0
  BY FS_EmptySet DEF RaInit, Fetching
<1>4. RaTypes
  BY <1>1, <1>2, RDBAnalysisAssumption DEF RaInit, RaTypes, RaStates, RaStages, RaKinds
<1> QED BY <1>2, <1>3, <1>4 DEF RaInit, RaInv

(* A call goes on.                                                         *)
LEMMA StageIs ==
    ASSUME RaInv, NEW c \in RaCalls, NEW stage \in RaStages, NEW kind \in RaKinds, Stage(c, stage, kind)
    PROVE  /\ raCall' \in [RaCalls -> [stage: RaStages, kind: RaKinds]]
           /\ raCall'[c].stage = stage /\ raCall'[c].kind = kind
           /\ \A d \in RaCalls \ {c} : raCall'[d] = raCall[d]
           /\ Fetching' = IF kind = "remote" /\ stage \in {"fetch", "copy"} THEN Fetching \cup {c} ELSE Fetching \ {c}
<1>1. /\ raCall' \in [RaCalls -> [stage: RaStages, kind: RaKinds]]
      /\ raCall'[c] = [stage |-> stage, kind |-> kind]
      /\ \A d \in RaCalls \ {c} : raCall'[d] = raCall[d]
  BY DEF RaInv, RaTypes, Stage
<1>2. \A d \in RaCalls \ {c} : d \in Fetching' <=> d \in Fetching
  BY <1>1 DEF Fetching
<1>3. c \in Fetching' <=> kind = "remote" /\ stage \in {"fetch", "copy"}
  BY <1>1 DEF Fetching
<1>4. Fetching \subseteq RaCalls /\ Fetching' \subseteq RaCalls
  BY DEF Fetching
<1> QED BY <1>1, <1>2, <1>3, <1>4

(* A slot for a fetch is taken, or given back.                             *)
LEMMA FetchingCount ==
    ASSUME RaInv, NEW c \in RaCalls
    PROVE  /\ c \notin Fetching => Cardinality(Fetching \cup {c}) = raActive + 1 /\ Fetching \ {c} = Fetching
           /\ c \in Fetching => /\ Cardinality(Fetching \ {c}) = raActive - 1 /\ Fetching \cup {c} = Fetching
                                /\ raActive - 1 \in 0 .. RaFetches
<1>1. IsFiniteSet(Fetching)
  BY RDBAnalysisAssumption, FS_Subset DEF Fetching
<1>2. raActive = Cardinality(Fetching) /\ raActive \in 0 .. RaFetches /\ RaFetches \in Nat
  BY RDBAnalysisAssumption DEF RaInv, RaTypes
<1>3. c \notin Fetching => Cardinality(Fetching \cup {c}) = raActive + 1 /\ Fetching \ {c} = Fetching
  BY <1>1, <1>2, FS_AddElement
<1>4. ASSUME c \in Fetching
      PROVE  /\ Cardinality(Fetching \ {c}) = raActive - 1 /\ Fetching \cup {c} = Fetching
             /\ raActive - 1 \in 0 .. RaFetches
  <2>1. Cardinality(Fetching \ {c}) = raActive - 1
    BY <1>1, <1>2, <1>4, FS_RemoveElement
  <2>2. Cardinality(Fetching \ {c}) \in Nat
    BY <1>1, FS_RemoveElement, FS_CardinalityType
  <2>3. raActive - 1 \in 0 .. RaFetches
    BY <1>2, <2>1, <2>2
  <2> QED BY <1>4, <2>1, <2>3
<1> QED BY <1>3, <1>4

(* A call on its way to a job: it has its file, or gives it back.          *)
LEMMA CallKeepsRa ==
    ASSUME RaInv, NEW c \in RaCalls, raCall[c].stage # "end",
           NEW stage \in RaStages, NEW kind \in RaKinds, Stage(c, stage, kind),
           stage = "fetch" => kind = "remote",
           raTemp' \subseteq RaCalls, \A d \in RaCalls \ {c} : d \in raTemp' => d \in raTemp,
           stage \in {"new", "fetch", "end"} => c \notin raTemp',
           raActive' \in 0 .. RaFetches, raActive' = Cardinality(Fetching'),
           UNCHANGED <<raFile, raRemoving, raJobs, raStatus, raCancelled, raRead>>
    PROVE  RaInv'
<1>1. RaTypes'
  BY StageIs DEF RaInv, RaTypes
<1>2. Distinct(raJobs)' /\ Elements(raJobs)' = Elements(raJobs)
  BY DEF RaInv, Distinct, Elements
<1>3. \A d \in RaCalls : /\ raCall'[d].stage = "fetch" => raCall'[d].kind = "remote"
                         /\ raCall'[d].stage # "end" => raStatus[d] = "none" /\ d \notin Elements(raJobs)
  BY StageIs DEF RaInv
<1>4. \A d \in raTemp' : /\ raCall'[d].stage # "end" \/ d \in Elements(raJobs) \cup raRemoving
                        /\ raCall'[d].stage \notin {"new", "fetch"}
  BY StageIs DEF RaInv
<1> QED BY <1>1, <1>2, <1>3, <1>4 DEF RaInv

(* The steps of a call before it has a job.                                *)
LEMMA CallsKeepRa ==
    ASSUME RaInv, NEW c \in RaCalls,
           \/ StartWorkspace(c) \/ StartUpload(c) \/ acquireRemoteFetch(c) \/ fetchFails(c) \/ fetchRemoteRDB(c)
           \/ CopyEnds(c) \/ checkConcurrentLimit(c) \/ rejectJob(c)
    PROVE  RaInv'
<1>1. /\ raCall[c].stage \in RaStages /\ raCall[c].kind \in RaKinds
      /\ raTemp \subseteq RaCalls /\ raActive \in 0 .. RaFetches /\ RaFetches \in Nat
      /\ raActive = Cardinality(Fetching)
      /\ c \in Fetching <=> raCall[c].kind = "remote" /\ raCall[c].stage \in {"fetch", "copy"}
      /\ raCall[c].stage \in {"new", "fetch"} => c \notin raTemp
  BY RDBAnalysisAssumption DEF RaInv, RaTypes, Fetching
<1>2. CASE StartWorkspace(c)
  <2>1. Stage(c, "file", "workspace") /\ Fetching' = Fetching
    BY <1>1, <1>2, StageIs, FetchingCount DEF StartWorkspace, RaStages, RaKinds
  <2> QED BY <1>1, <1>2, <2>1, CallKeepsRa DEF StartWorkspace, RaStages, RaKinds
<1>3. CASE StartUpload(c)
  <2>1. Stage(c, "copy", "upload") /\ Fetching' = Fetching
    BY <1>1, <1>3, StageIs, FetchingCount DEF StartUpload, RaStages, RaKinds
  <2> QED BY <1>1, <1>3, <2>1, CallKeepsRa DEF StartUpload, RaStages, RaKinds
<1>4. CASE acquireRemoteFetch(c)
  <2>1. Stage(c, "fetch", "remote") /\ Fetching' = Fetching \cup {c} /\ c \notin Fetching
    BY <1>1, <1>4, StageIs DEF acquireRemoteFetch, RaStages, RaKinds
  <2>2. raActive' = Cardinality(Fetching') /\ raActive' \in 0 .. RaFetches
    BY <1>1, <1>4, <2>1, FetchingCount DEF acquireRemoteFetch
  <2> QED BY <1>1, <1>4, <2>1, <2>2, CallKeepsRa DEF acquireRemoteFetch, RaStages, RaKinds
<1>5. CASE fetchFails(c)
  <2>1. c \in Fetching
    BY <1>1, <1>5 DEF fetchFails, RaInv
  <2>2. Stage(c, "end", "remote") /\ Fetching' = Fetching \ {c}
    BY <1>5, StageIs DEF fetchFails, RaStages, RaKinds
  <2>3. raActive' = Cardinality(Fetching') /\ raActive' \in 0 .. RaFetches
    BY <1>5, <2>1, <2>2, FetchingCount DEF fetchFails
  <2> QED BY <1>1, <1>5, <2>2, <2>3, CallKeepsRa DEF fetchFails, RaStages, RaKinds
<1>6. CASE fetchRemoteRDB(c)
  <2>1. c \in Fetching
    BY <1>1, <1>6 DEF fetchRemoteRDB, RaInv
  <2>2. Stage(c, "copy", "remote") /\ Fetching' = Fetching
    BY <1>6, <2>1, StageIs, FetchingCount DEF fetchRemoteRDB, RaStages, RaKinds
  <2>3. raTemp' = raTemp \cup {c} /\ raActive' = Cardinality(Fetching') /\ raActive' \in 0 .. RaFetches
    BY <1>1, <1>6, <2>2 DEF fetchRemoteRDB
  <2> QED BY <1>1, <1>6, <2>2, <2>3, CallKeepsRa DEF fetchRemoteRDB, RaStages, RaKinds
<1>7. CASE CopyEnds(c)
  <2>1. PICK stage \in {"file", "end"} :
          /\ Stage(c, stage, raCall[c].kind)
          /\ raTemp' \subseteq raTemp /\ (stage = "end" => raTemp' = raTemp \ {c})
    BY <1>7 DEF CopyEnds
  <2>2. Fetching' = Fetching \ {c}
    BY <1>1, <2>1, StageIs DEF RaStages
  <2>3. raActive' = Cardinality(Fetching') /\ raActive' \in 0 .. RaFetches
    BY <1>1, <1>7, <2>2, FetchingCount DEF CopyEnds
  <2>4. /\ raTemp' \subseteq RaCalls /\ (stage = "end" => c \notin raTemp')
        /\ \A d \in RaCalls \ {c} : d \in raTemp' => d \in raTemp
    BY <1>1, <2>1
  <2>5. /\ raCall[c].stage # "end" /\ stage \in RaStages /\ stage # "fetch"
        /\ UNCHANGED <<raFile, raRemoving, raJobs, raStatus, raCancelled, raRead>>
    BY <1>7 DEF CopyEnds, RaStages
  <2> QED BY <1>1, <2>1, <2>3, <2>4, <2>5, CallKeepsRa
<1>8. CASE checkConcurrentLimit(c)
  <2>1. Stage(c, "checked", raCall[c].kind) /\ Fetching' = Fetching
    BY <1>1, <1>8, StageIs, FetchingCount DEF checkConcurrentLimit, RaStages
  <2> QED BY <1>1, <1>8, <2>1, CallKeepsRa DEF checkConcurrentLimit, RaStages
<1>9. CASE rejectJob(c)
  <2>1. Stage(c, "end", raCall[c].kind) /\ Fetching' = Fetching
    BY <1>1, <1>9, StageIs, FetchingCount DEF rejectJob, RaStages
  <2> QED BY <1>1, <1>9, <2>1, CallKeepsRa DEF rejectJob, RaStages
<1> QED BY <1>2, <1>3, <1>4, <1>5, <1>6, <1>7, <1>8, <1>9

(* pruneLocked drops only jobs that have ended.                            *)
LEMMA PruneIs ==
    ASSUME NEW jobs \in Seq(RaCalls)
    PROVE  \A d \in pruneLocked(jobs) : d \in RaCalls /\ Ended(d)
<1> DEFINE D == {c \in RaCalls : Ended(c)}
           done == OnlyIn(jobs, D)
           over == IF Len(jobs) > RaRetained THEN Len(jobs) - RaRetained ELSE 0
           n == IF over < Len(done) THEN over ELSE Len(done)
<1>1. done \in Seq(RaCalls) /\ Elements(done) = Elements(jobs) \cap D
  BY OnlyInIs
<1>2. Len(done) \in Nat /\ over \in Nat
  BY <1>1, LenProperties, RDBAnalysisAssumption
<1>3. pruneLocked(jobs) = {done[i] : i \in 1 .. n}
  BY DEF pruneLocked
<1> HIDE DEF done, over
<1>4. \A i \in 1 .. n : i \in 1 .. Len(done)
  BY <1>2
<1>5. \A i \in 1 .. n : done[i] \in D
  BY <1>1, <1>4 DEF Elements
<1> QED BY <1>3, <1>5

(* A job is listed, and others go to make room.                            *)
LEMMA StartJobKeepsRa ==
    ASSUME RaInv, NEW c \in RaCalls, startJob(c)
    PROVE  RaInv'
<1> DEFINE jobs == Append(raJobs, c)
           gone == pruneLocked(jobs)
           new == OnlyIn(jobs, RaCalls \ gone)
<1>1. /\ raJobs \in Seq(RaCalls) /\ Distinct(raJobs) /\ raCall[c].stage = "checked" /\ raStatus[c] = "none"
      /\ c \notin Elements(raJobs) /\ raCall[c].kind \in RaKinds /\ raStatus \in [RaCalls -> RaStates]
  BY DEF RaInv, RaTypes, startJob
<1>2. jobs \in Seq(RaCalls) /\ Distinct(jobs) /\ Elements(jobs) = Elements(raJobs) \cup {c}
  BY <1>1, AppendIs
<1>3. \A d \in gone : d \in RaCalls /\ Ended(d)
  BY <1>2, PruneIs
<1>4. /\ Stage(c, "end", raCall[c].kind)
      /\ raStatus' = [raStatus EXCEPT ![c] = "queued"]
      /\ raJobs' = new
      /\ raTemp' = raTemp \ gone
      /\ UNCHANGED <<raFile, raRemoving, raCancelled, raRead, raSnap, raActive>>
  BY DEF startJob
<1>5. new \in Seq(RaCalls) /\ Distinct(new) /\ Elements(new) = (Elements(raJobs) \cup {c}) \ gone
  <2>1. Elements(jobs) \subseteq RaCalls
    BY <1>1, <1>2, ElementOfSeq DEF Elements
  <2> HIDE DEF jobs, gone
  <2>2. new \in Seq(RaCalls) /\ Distinct(new) /\ Elements(new) = Elements(jobs) \cap (RaCalls \ gone)
    BY <1>2, OnlyInIs
  <2> QED BY <1>2, <2>1, <2>2
<1> HIDE DEF jobs, gone, new
<1>6. c \notin gone
  BY <1>1, <1>3 DEF Ended
<1>7. /\ raStatus' \in [RaCalls -> RaStates] /\ raStatus'[c] = "queued"
      /\ \A d \in RaCalls \ {c} : raStatus'[d] = raStatus[d]
  BY <1>1, <1>4 DEF RaStates
<1>8. /\ raCall' \in [RaCalls -> [stage: RaStages, kind: RaKinds]] /\ raCall'[c].stage = "end"
      /\ \A d \in RaCalls \ {c} : raCall'[d] = raCall[d]
      /\ Fetching' = Fetching
  BY <1>1, <1>4, StageIs, FetchingCount DEF RaStages, Fetching
<1>9. RaTypes'
  BY <1>4, <1>5, <1>7, <1>8 DEF RaInv, RaTypes
<1>10. \A d \in RaCalls : /\ raCall'[d].stage = "fetch" => raCall'[d].kind = "remote"
                          /\ raCall'[d].stage # "end" => raStatus'[d] = "none" /\ d \notin Elements(new)
  BY <1>5, <1>7, <1>8 DEF RaInv
<1>11. \A d \in raTemp' : /\ raCall'[d].stage # "end" \/ d \in Elements(new) \cup raRemoving
                         /\ raCall'[d].stage \notin {"new", "fetch"}
  BY <1>4, <1>5, <1>6, <1>8 DEF RaInv, RaTypes
<1>12. ASSUME NEW d \in RaCalls, raStatus'[d] \in {"queued", "running"}
       PROVE  d \in Elements(new) \cup raRemoving \cup raCancelled
  <2>1. CASE d = c
    BY <1>5, <1>6, <2>1
  <2>2. CASE d # c
    <3>1. raStatus[d] \in {"queued", "running"} /\ d \notin gone
      BY <1>3, <1>7, <1>12, <2>2 DEF Ended
    <3> QED BY <1>5, <3>1 DEF RaInv
  <2> QED BY <2>1, <2>2
<1> QED BY <1>4, <1>5, <1>8, <1>9, <1>10, <1>11, <1>12 DEF RaInv

(* A job is cancelled, runs or ends.                                       *)
LEMMA RunKeepsRa ==
    ASSUME RaInv, NEW c \in RaCalls, RunRa(c) \/ RaCancel(c) \/ RaClose
    PROVE  RaInv'
<1>1. /\ raStatus \in [RaCalls -> RaStates] /\ raRead \in [RaCalls -> 0 .. MaxRaObjects] /\ raCancelled \subseteq RaCalls
      /\ Len(raFile) \in 0 .. MaxRaObjects /\ MaxRaObjects \in Nat
  BY RDBAnalysisAssumption DEF RaInv, RaTypes
<1>2. UNCHANGED <<raFile, raRemoving, raCall, raTemp, raJobs, raActive>>
  BY DEF RunRa, runJob, parseJob, runJobEnds, RaCancel, RaClose
<1>3. Listed \subseteq RaCalls
  BY ListedIs, ElementOfSeq DEF RaInv, RaTypes, Elements
<1>4. raCancelled \subseteq raCancelled' /\ raCancelled' \subseteq RaCalls
  BY <1>1, <1>3 DEF RunRa, runJob, parseJob, runJobEnds, RaCancel, RaClose, Running
<1>5. /\ raStatus' \in [RaCalls -> RaStates]
      /\ \A d \in RaCalls : /\ raStatus[d] = "none" => raStatus'[d] = "none"
                            /\ raStatus'[d] \in {"queued", "running"} => raStatus[d] \in {"queued", "running"}
  BY <1>1 DEF RunRa, runJob, parseJob, runJobEnds, RaCancel, RaClose, RaStates
<1>6. raRead' \in [RaCalls -> 0 .. MaxRaObjects]
  BY <1>1 DEF RunRa, runJob, parseJob, runJobEnds, RaCancel, RaClose
<1>7. RaTypes'
  BY <1>2, <1>4, <1>5, <1>6 DEF RaInv, RaTypes
<1>8. Fetching' = Fetching /\ Elements(raJobs)' = Elements(raJobs) /\ Distinct(raJobs)'
  BY <1>2 DEF RaInv, Fetching, Elements, Distinct
<1> QED BY <1>2, <1>4, <1>5, <1>7, <1>8 DEF RaInv

(* A job is removed, in two steps.                                         *)
LEMMA RemoveKeepsRa ==
    ASSUME RaInv, NEW c \in RaCalls, RaRemove(c) \/ RaRemoveRest(c)
    PROVE  RaInv'
<1>1. raJobs \in Seq(RaCalls) /\ Distinct(raJobs) /\ raRemoving \subseteq RaCalls
      /\ raTemp \subseteq RaCalls /\ raCancelled \subseteq RaCalls
  BY DEF RaInv, RaTypes
<1>2. CASE RaRemove(c)
  <2> DEFINE S == RaCalls \ {c}
  <2>1. /\ raJobs' = OnlyIn(raJobs, S) /\ raRemoving' = raRemoving \cup {c}
        /\ UNCHANGED <<raFile, raCall, raTemp, raCancelled, raStatus, raRead, raSnap, raActive>>
    BY <1>2 DEF RaRemove
  <2>2. raJobs' \in Seq(RaCalls) /\ Distinct(raJobs') /\ Elements(raJobs') = Elements(raJobs) \cap S
    BY <1>1, <2>1, OnlyInIs
  <2>3. Fetching' = Fetching
    BY <2>1 DEF Fetching
  <2>4. RaTypes'
    BY <1>1, <2>1, <2>2 DEF RaInv, RaTypes
  <2>5. Elements(raJobs)' = Elements(raJobs) \cap S /\ Distinct(raJobs)'
    BY <2>2 DEF Elements, Distinct
  <2>6. Elements(raJobs) \subseteq RaCalls
    BY <1>1, ElementOfSeq DEF Elements
  <2> QED BY <2>1, <2>3, <2>4, <2>5, <2>6 DEF RaInv
<1>3. CASE RaRemoveRest(c)
  <2>1. /\ raRemoving' = raRemoving \ {c} /\ raCancelled' = raCancelled \cup {c} /\ raTemp' = raTemp \ {c}
        /\ UNCHANGED <<raFile, raCall, raJobs, raStatus, raRead, raSnap, raActive>>
    BY <1>3 DEF RaRemoveRest
  <2>2. Fetching' = Fetching /\ Elements(raJobs)' = Elements(raJobs) /\ Distinct(raJobs)'
    BY <1>1, <2>1 DEF Fetching, Elements, Distinct
  <2>3. RaTypes'
    BY <1>1, <2>1 DEF RaInv, RaTypes
  <2> QED BY <2>1, <2>2, <2>3 DEF RaInv
<1> QED BY <1>2, <1>3

(* Every step keeps what is known of calls, files and jobs.                *)
LEMMA RaStepKeepsInv ==
    ASSUME RaInv, [RaNext]_raVars
    PROVE  RaInv'
<1>1. CASE UNCHANGED raVars
  BY <1>1 DEF raVars, RaInv, RaTypes, Fetching, Elements, Distinct
<1>2. CASE RaClose
  <2>1. RaCalls # {}
    BY <1>2, ListedIs, ElementOfSeq DEF RaClose, RaInv, RaTypes, Elements
  <2> QED BY <1>2, <2>1, RunKeepsRa
<1> QED BY <1>1, <1>2, CallsKeepRa, StartJobKeepsRa, RunKeepsRa, RemoveKeepsRa DEF RaNext, CallRa

(* From which the registry is sound.                                       *)
LEMMA RaInvIsSound ==
    ASSUME RaInv
    PROVE  RegistryIsSound
<1>1. Listed = Elements(raJobs) /\ Len(raJobs) = Cardinality(Elements(raJobs))
  BY ListedIs, DistinctCount DEF RaInv, RaTypes
<1>2. RaTypeOK
  BY <1>1 DEF RaInv, RaTypes, RaStates, RaTypeOK
<1>3. TempFilesOwned /\ RunningIsListed
  BY <1>1 DEF RaInv, TempFilesOwned, RunningIsListed
<1>4. FetchesCounted
  BY DEF RaInv, Fetching, FetchesCounted
<1> QED BY <1>2, <1>3, <1>4 DEF RegistryIsSound

-----------------------------------------------------------------------------
(* What a job shows of the objects it has read.                            *)

(* Adding to a statistic.                                                  *)
Grown(g, f, K, size) ==
    /\ DOMAIN g = DOMAIN f \cup K /\ Numbers(g, DOMAIN g)
    /\ \A k \in DOMAIN f : f[k] \in Nat /\ g[k] = IF k \in K THEN f[k] + size ELSE f[k]
    /\ \A k \in K \ DOMAIN f : g[k] = size

(* A size is added at the keys of K.                                       *)
LEMMA PlusIs ==
    ASSUME NEW f, NEW K, NEW size \in Nat, Numbers(f, DOMAIN f), IsFiniteSet(K), NEW g, g = Plus(f, K, size)
    PROVE  Grown(g, f, K, size)
<1>1. DOMAIN g = DOMAIN f \cup K
  BY DEF Plus
<1>2. \A k \in DOMAIN f \cup K : g[k] = (IF k \in DOMAIN f THEN f[k] ELSE 0) + (IF k \in K THEN size ELSE 0)
  BY DEF Plus
<1>3. \A k \in DOMAIN f : f[k] \in Nat
  BY DEF Numbers
<1>4. IsFiniteSet(DOMAIN f \cup K)
  BY FS_Union DEF Numbers
<1>5. \A k \in DOMAIN f \cup K : g[k] \in Nat
  BY <1>2, <1>3
<1>6. Numbers(g, DOMAIN g)
  BY <1>1, <1>4, <1>5 DEF Numbers
<1>7. \A k \in DOMAIN f : g[k] = IF k \in K THEN f[k] + size ELSE f[k]
  BY <1>2, <1>3
<1>8. \A k \in K \ DOMAIN f : g[k] = size
  BY <1>2
<1> QED BY <1>1, <1>3, <1>6, <1>7, <1>8 DEF Grown

(* A sum over keys of which one is added to grows by that size, and one    *)
(* over keys of which none is stays as it is.                              *)
SumGrows(g, f, K, size, S) ==
    /\ S \cap K = {} => SumOver(g, S) = SumOver(f, S)
    /\ \A y : S \cap K = {y} => SumOver(g, S) = SumOver(f, S \cap DOMAIN f) + size

(* A sum grows by as many sizes as there are such keys in it.              *)
LEMMA PlusSum ==
    ASSUME NEW f, NEW K, NEW size \in Nat, Numbers(f, DOMAIN f), IsFiniteSet(K), NEW g, g = Plus(f, K, size),
           NEW S \in SUBSET (DOMAIN f \cup K)
    PROVE  SumGrows(g, f, K, size, S)
<1>1. /\ DOMAIN g = DOMAIN f \cup K /\ Numbers(g, DOMAIN g)
      /\ \A k \in DOMAIN f : f[k] \in Nat /\ g[k] = IF k \in K THEN f[k] + size ELSE f[k]
      /\ \A k \in K \ DOMAIN f : g[k] = size
  <2>1. Grown(g, f, K, size)
    BY PlusIs
  <2> QED BY <2>1 DEF Grown
<1>2. \A k \in DOMAIN f \ K : g[k] = f[k]
  BY <1>1
<1>3. ASSUME S \cap K = {}
      PROVE  SumOver(g, S) = SumOver(f, S)
  BY <1>2, <1>3, SumSame
<1>4. ASSUME NEW y, S \cap K = {y}
      PROVE  SumOver(g, S) = SumOver(f, S \cap DOMAIN f) + size
  <2> DEFINE R == S \ {y}
  <2>1. y \in S /\ y \in K /\ R \subseteq DOMAIN f \ K
    BY <1>4
  <2>2. Numbers(g, S)
    BY <1>1, FS_Subset DEF Numbers
  <2>3. SumOver(g, S) = g[y] + SumOver(g, R)
    BY <2>1, <2>2, SumTakeOut
  <2>4. SumOver(g, R) = SumOver(f, R)
    BY <1>2, <2>1, SumSame
  <2>5. Numbers(f, S \cap DOMAIN f) /\ Numbers(f, R)
    BY <2>1, FS_Subset DEF Numbers
  <2>6. SumOver(f, R) \in Nat
    BY <2>5, SumType
  <2>7. CASE y \in DOMAIN f
    <3>1. S \cap DOMAIN f = S
      BY <2>1, <2>7
    <3>2. SumOver(f, S) = f[y] + SumOver(f, R)
      BY <2>1, <2>5, <3>1, SumTakeOut
    <3>3. g[y] = f[y] + size /\ f[y] \in Nat
      BY <1>1, <2>1, <2>7
    <3>4. SumOver(f, S \cap DOMAIN f) = SumOver(f, S)
      BY <3>1, Zenon
    <3> HIDE DEF R
    <3> QED BY <2>3, <2>4, <2>6, <3>2, <3>3, <3>4
  <2>8. CASE y \notin DOMAIN f
    <3>1. S \cap DOMAIN f = R
      BY <2>1, <2>8
    <3>2. g[y] = size
      BY <1>1, <2>1, <2>8
    <3>3. SumOver(f, S \cap DOMAIN f) = SumOver(f, R)
      BY <3>1, Zenon
    <3> HIDE DEF R
    <3> QED BY <2>3, <2>4, <2>6, <3>2, <3>3
  <2> QED BY <2>7, <2>8
<1> QED BY <1>3, <1>4 DEF SumGrows

(* A statistic by type or by database sums up to the total.                *)
TotalGrows(g, f, size) == Numbers(g, DOMAIN g) /\ SumOver(g, DOMAIN g) = SumOver(f, DOMAIN f) + size

(* The sum of all keys grows by the size if it is added at one.            *)
LEMMA PlusAddsUp ==
    ASSUME NEW f, NEW k, NEW size \in Nat, Numbers(f, DOMAIN f), NEW g, g = Plus(f, {k}, size)
    PROVE  TotalGrows(g, f, size)
<1> DEFINE K == {k}
           S == DOMAIN f \cup K
<1>1. IsFiniteSet(K)
  BY FS_Singleton
<1>2. S \cap K = {k} /\ S \cap DOMAIN f = DOMAIN f /\ S \in SUBSET (DOMAIN f \cup K)
  OBVIOUS
<1>3. g = Plus(f, K, size)
  OBVIOUS
<1> HIDE DEF K, S
<1>4. DOMAIN g = DOMAIN f \cup K /\ Numbers(g, DOMAIN g)
  <2>1. Grown(g, f, K, size)
    BY <1>1, <1>3, PlusIs
  <2> QED BY <2>1 DEF Grown
<1>5. SumOver(g, S) = SumOver(f, S \cap DOMAIN f) + size
  <2>1. SumGrows(g, f, K, size, S)
    BY <1>1, <1>2, <1>3, PlusSum
  <2> QED BY <1>2, <2>1, Zenon DEF SumGrows
<1>6. SumOver(f, S \cap DOMAIN f) = SumOver(f, DOMAIN f) /\ DOMAIN g = S
  BY <1>2, <1>4, Zenon DEF S
<1> QED BY <1>4, <1>5, <1>6 DEF TotalGrows

(* The flame graph: every node has its parent, and is no smaller than its  *)
(* children together.                                                      *)
RaPart == Nat \cup STRING

FlameOk(flame) ==
    /\ Numbers(flame, DOMAIN flame) /\ DOMAIN flame \subseteq Seq(RaPart)
    /\ \A q \in DOMAIN flame : Len(q) > 0 => SubSeq(q, 1, Len(q) - 1) \in DOMAIN flame
    /\ \A p \in DOMAIN flame : SumOver(flame, Children(flame, p)) <= flame[p]

(* The path of an object has one node of every length: below a node of it  *)
(* one child grows with it, below others none does.                        *)
LEMMA FlameGrows ==
    ASSUME NEW flame, FlameOk(flame), NEW w \in Seq(RaPart), NEW m \in 0 .. Len(w), NEW size \in Nat,
           NEW K, K = PrefixesOf(w, m), NEW new, new = Plus(flame, K, size)
    PROVE  FlameOk(new)
<1>1. /\ IsFiniteSet(K) /\ K \subseteq Seq(RaPart) /\ << >> \in K
      /\ \A q \in K : /\ Len(q) \in 0 .. m /\ q = SubSeq(w, 1, Len(q))
                      /\ Len(q) > 0 => SubSeq(q, 1, Len(q) - 1) \in K
  BY PrefixesAre
<1>2. Numbers(flame, DOMAIN flame)
  BY DEF FlameOk
<1>3. /\ DOMAIN new = DOMAIN flame \cup K /\ Numbers(new, DOMAIN new)
      /\ \A k \in DOMAIN flame : flame[k] \in Nat /\ new[k] = IF k \in K THEN flame[k] + size ELSE flame[k]
      /\ \A k \in K \ DOMAIN flame : new[k] = size
  <2>1. Grown(new, flame, K, size)
    BY <1>1, <1>2, PlusIs
  <2> QED BY <2>1 DEF Grown
<1>4. DOMAIN new \subseteq Seq(RaPart)
  BY <1>1, <1>3 DEF FlameOk
<1>5. \A q \in DOMAIN new : Len(q) > 0 => SubSeq(q, 1, Len(q) - 1) \in DOMAIN new
  BY <1>1, <1>3 DEF FlameOk
<1>6. ASSUME NEW p \in DOMAIN new
      PROVE  SumOver(new, Children(new, p)) <= new[p]
  <2> DEFINE C == Children(new, p)
             D == Children(flame, p)
  <2>1. p \in Seq(RaPart) /\ Len(p) \in Nat
    BY <1>4, LenProperties
  <2>2. C \in SUBSET (DOMAIN flame \cup K) /\ C \cap DOMAIN flame = D
    BY <1>3 DEF Children
  <2>3. \A q \in C : Len(q) = Len(p) + 1 /\ SubSeq(q, 1, Len(q) - 1) = p /\ Len(q) > 0
    BY <2>1 DEF Children
  <2>4. p \notin DOMAIN flame => D = {}
    <3>1. \A q \in D : q \in C /\ q \in DOMAIN flame
      BY <2>2
    <3>2. \A q \in D : p \in DOMAIN flame
      BY <2>3, <3>1 DEF FlameOk
    <3> QED BY <3>2
  <2>5. Numbers(flame, D)
    BY <1>2, <2>2, FS_Subset DEF Numbers
  <2>6. SumOver(flame, D) \in Nat
    BY <2>5, SumType
  <2>7. p \in DOMAIN flame => SumOver(flame, D) <= flame[p]
    BY DEF FlameOk
  <2>8. p \notin DOMAIN flame => SumOver(flame, D) = 0
    BY <2>4, SumOfNone
  <2> HIDE DEF C, D
  <2>9. CASE C \cap K = {}
    <3>1. C = D
      BY <2>2, <2>9
    <3>2. SumOver(new, C) = SumOver(flame, D)
      <4>1. SumGrows(new, flame, K, size, C)
        BY <1>1, <1>2, <2>2, PlusSum
      <4> QED BY <2>9, <3>1, <4>1, Zenon DEF SumGrows
    <3>3. CASE p \in DOMAIN flame
      BY <1>3, <2>6, <2>7, <3>2, <3>3 DEF C
    <3>4. CASE p \notin DOMAIN flame
      <4>1. new[p] = size
        BY <1>3, <3>4
      <4> QED BY <2>8, <3>2, <3>4, <4>1 DEF C
    <3> QED BY <3>3, <3>4
  <2>10. CASE C \cap K # {}
    <3>1. PICK y : y \in C \cap K
      BY <2>10
    <3>2. p \in K
      BY <1>1, <2>3, <3>1
    <3>3. C \cap K = {y}
      <4>1. ASSUME NEW z \in C \cap K
            PROVE  z = y
        <5>1. Len(z) = Len(y) /\ z = SubSeq(w, 1, Len(z)) /\ y = SubSeq(w, 1, Len(y))
          BY <1>1, <2>3, <3>1
        <5> QED BY <5>1
      <4> QED BY <3>1, <4>1
    <3>4. SumOver(new, C) = SumOver(flame, D) + size
      <4>1. SumOver(new, C) = SumOver(flame, C \cap DOMAIN flame) + size
        <5>1. SumGrows(new, flame, K, size, C)
          BY <1>1, <1>2, <2>2, PlusSum
        <5> QED BY <3>3, <5>1, Zenon DEF SumGrows
      <4>2. SumOver(flame, C \cap DOMAIN flame) = SumOver(flame, D)
        BY <2>2, Zenon
      <4> QED BY <4>1, <4>2
    <3>5. CASE p \in DOMAIN flame
      <4>1. new[p] = flame[p] + size /\ flame[p] \in Nat
        BY <1>3, <3>2, <3>5
      <4> QED BY <2>6, <2>7, <3>4, <3>5, <4>1 DEF C
    <3>6. CASE p \notin DOMAIN flame
      <4>1. new[p] = size
        BY <1>3, <3>2, <3>6
      <4> QED BY <2>8, <3>4, <3>6, <4>1 DEF C
    <3> QED BY <3>5, <3>6
  <2> QED BY <2>9, <2>10
<1> QED BY <1>3, <1>4, <1>5, <1>6 DEF FlameOk

(* The order of the top list, as a set of pairs of objects of the file.    *)
Ranks == {p \in (DOMAIN raFile) \X (DOMAIN raFile) : Before(p[1], p[2])}

(* What a snapshot of the first n objects is, for objects ranked by R.     *)
SnapOk(snap, n, R, T) ==
    /\ snap.total \in Nat
    /\ Numbers(snap.types, DOMAIN snap.types) /\ SumOver(snap.types, DOMAIN snap.types) = snap.total
    /\ Numbers(snap.dbs, DOMAIN snap.dbs) /\ SumOver(snap.dbs, DOMAIN snap.dbs) = snap.total
    /\ FlameOk(snap.flame)
    /\ n > 0 => << >> \in DOMAIN snap.flame
    /\ IF << >> \in DOMAIN snap.flame THEN snap.flame[<< >>] = snap.total ELSE snap.total = 0
    /\ Numbers(snap.prefixes, DOMAIN snap.prefixes)
    /\ \A p \in DOMAIN snap.prefixes : p \in DOMAIN snap.flame /\ snap.prefixes[p] <= snap.flame[p]
    /\ snap.top \in Seq(T) /\ IsTop(snap.top, 1 .. n, TopN, R)

(* The order of the top list.                                              *)
LEMMA RanksAreStrict ==
    ASSUME raFile \in Seq(RaObjects)
    PROVE  /\ StrictOrder(Ranks, DOMAIN raFile)
           /\ \A i, j \in DOMAIN raFile : <<i, j>> \in Ranks <=> Before(i, j)
<1>1. DOMAIN raFile \subseteq Nat /\ \A i \in DOMAIN raFile : raFile[i].size \in Nat
  <2>1. DOMAIN raFile = 1 .. Len(raFile) /\ \A i \in DOMAIN raFile : raFile[i] \in RaObjects
    BY LenProperties, ElementOfSeq
  <2>2. \A o \in RaObjects : o.size \in Nat
    BY RDBAnalysisAssumption
  <2> QED BY <2>1, <2>2
<1>2. \A i, j \in DOMAIN raFile : <<i, j>> \in Ranks <=> Before(i, j)
  BY DEF Ranks
<1>3. \A i, j \in DOMAIN raFile : /\ Before(i, j) => i # j /\ ~ Before(j, i)
                                  /\ i = j \/ Before(i, j) \/ Before(j, i)
  BY <1>1 DEF Before
<1>4. \A i, j, k \in DOMAIN raFile : Before(i, j) /\ Before(j, k) => Before(i, k)
  BY <1>1 DEF Before
<1> QED BY <1>2, <1>3, <1>4 DEF StrictOrder

(* The list of the largest objects.                                        *)
LEMMA TopGrows ==
    ASSUME raFile \in Seq(RaObjects), NEW n \in Nat, n + 1 \in DOMAIN raFile,
           NEW top \in Seq(DOMAIN raFile), IsTop(top, 1 .. n, TopN, Ranks)
    PROVE  /\ addTopKeyBySize(top, n + 1) \in Seq(DOMAIN raFile)
           /\ IsTop(addTopKeyBySize(top, n + 1), 1 .. n + 1, TopN, Ranks)
<1> DEFINE T == DOMAIN raFile
           e == n + 1
           A == {x \in T : Before(x, e)}
           B == {x \in T : ~ Before(x, e)}
           all == OnlyIn(top, A) \o <<e>> \o OnlyIn(top, B)
           l == IF Len(all) < TopN THEN Len(all) ELSE TopN
<1>1. StrictOrder(Ranks, T) /\ \A i, j \in T : <<i, j>> \in Ranks <=> Before(i, j)
  BY RanksAreStrict
<1>2. A = {x \in T : <<x, e>> \in Ranks} /\ B = {x \in T : <<x, e>> \notin Ranks}
  BY <1>1
<1>3. all = Inserted(top, e, Ranks, T)
  BY <1>2, Zenon DEF Inserted
<1>4. addTopKeyBySize(top, e) = SubSeq(all, 1, l)
  BY DEF addTopKeyBySize, Least
<1>5. DOMAIN raFile = 1 .. Len(raFile) /\ Len(raFile) \in Nat
  BY LenProperties
<1> HIDE DEF all, l
<1>6. 1 .. n \in SUBSET T /\ IsFiniteSet(1 .. n) /\ e \in T \ (1 .. n) /\ TopN \in Nat \ {0}
  <2>1. IsFiniteSet(1 .. n)
    BY FS_Interval
  <2> QED BY <1>5, <2>1, RDBAnalysisAssumption
<1>7. l = IF Len(all) < TopN THEN Len(all) ELSE TopN
  BY DEF l
<1>8. SubSeq(all, 1, l) \in Seq(T) /\ IsTop(SubSeq(all, 1, l), (1 .. n) \cup {e}, TopN, Ranks)
  <2> DEFINE U == 1 .. n
  <2>1. U \in SUBSET T /\ IsFiniteSet(U) /\ e \in T \ U /\ IsTop(top, U, TopN, Ranks)
    BY <1>6
  <2> HIDE DEF U, T, e
  <2>2. SubSeq(all, 1, l) \in Seq(T) /\ IsTop(SubSeq(all, 1, l), U \cup {e}, TopN, Ranks)
    BY <1>1, <1>3, <1>6, <1>7, <2>1, InsertKeepsTop DEF T
  <2> QED BY <2>2 DEF U
<1>9. (1 .. n) \cup {e} = 1 .. n + 1
  OBVIOUS
<1>10. IsTop(SubSeq(all, 1, l), 1 .. n + 1, TopN, Ranks)
  BY <1>8, <1>9, Zenon
<1> QED BY <1>4, <1>8, <1>10

(* The nodes an object adds to, and its prefixes among them.               *)
LEMMA PathsAre ==
    ASSUME NEW o \in RaObjects
    PROVE  /\ o.size \in Nat
           /\ \E w \in Seq(RaPart) : \E m \in 0 .. Len(w) : flamePath(o) = PrefixesOf(w, m)
           /\ IsFiniteSet(flamePath(o)) /\ << >> \in flamePath(o)
           /\ analysisPrefixes(o) \subseteq flamePath(o)
<1>1. o.size \in Nat /\ o.db \in Nat /\ o.key \in Seq(STRING) /\ MaxDepth \in Nat \ {0}
  BY RDBAnalysisAssumption
<1> DEFINE one == <<o.db>>
           key == o.key
           w == one \o key
           n == Len(key)
           m == Least(n + 1, MaxDepth + 1)
<1>2. key \in Seq(RaPart) /\ n \in Nat
  <2>1. STRING \subseteq RaPart
    BY DEF RaPart
  <2> QED BY <1>1, <2>1, SeqMonotonic, LenProperties
<1>3. one \in Seq(RaPart) /\ Len(one) = 1 /\ one[1] = o.db
  <2>1. o.db \in RaPart
    BY <1>1 DEF RaPart
  <2> QED BY <2>1
<1> HIDE DEF one, key
<1>4. /\ w \in Seq(RaPart) /\ Len(w) = 1 + n
      /\ \A i \in 1 .. 1 + n : w[i] = IF i <= 1 THEN one[i] ELSE key[i - 1]
  <2>1. /\ w \in Seq(RaPart) /\ Len(w) = Len(one) + n
        /\ \A i \in 1 .. Len(one) + n : w[i] = IF i <= Len(one) THEN one[i] ELSE key[i - Len(one)]
    BY <1>2, <1>3, ConcatProperties, Zenon
  <2> HIDE DEF w
  <2> QED BY <1>3, <2>1
<1>5. m \in 0 .. Len(w)
  BY <1>1, <1>2, <1>4 DEF Least
<1>6. flamePath(o) = PrefixesOf(w, m)
  BY DEF flamePath, PrefixesOf, one, key
<1> HIDE DEF w
<1>7. IsFiniteSet(flamePath(o)) /\ << >> \in flamePath(o)
  BY <1>4, <1>5, <1>6, PrefixesAre
<1>8. ASSUME NEW d \in 1 .. Least(n - 1, MaxDepth)
      PROVE  one \o SubSeq(key, 1, d) \in flamePath(o)
  <2>1. d \in 0 .. n /\ d + 1 \in 0 .. m /\ d + 1 \in 0 .. Len(w) /\ d \in Nat
    BY <1>1, <1>2, <1>4 DEF Least
  <2> DEFINE b == SubSeq(key, 1, d)
             u == one \o b
             v == SubSeq(w, 1, d + 1)
  <2>2. b \in Seq(RaPart) /\ Len(b) = d /\ \A i \in 1 .. d : b[i] = key[i]
    BY <1>2, <2>1, PrefixIs
  <2> HIDE DEF b
  <2>3. /\ u \in Seq(RaPart) /\ Len(u) = 1 + d
        /\ \A i \in 1 .. 1 + d : u[i] = IF i <= 1 THEN one[i] ELSE b[i - 1]
    <3>1. /\ u \in Seq(RaPart) /\ Len(u) = Len(one) + Len(b)
          /\ \A i \in 1 .. Len(one) + Len(b) : u[i] = IF i <= Len(one) THEN one[i] ELSE b[i - Len(one)]
      BY <1>3, <2>2, ConcatProperties, Zenon
    <3> HIDE DEF u
    <3> QED BY <1>3, <2>2, <3>1
  <2>4. v \in Seq(RaPart) /\ Len(v) = d + 1 /\ \A i \in 1 .. d + 1 : v[i] = w[i]
    BY <1>4, <2>1, PrefixIs
  <2> HIDE DEF u, v
  <2>5. ASSUME NEW i \in 1 .. Len(u)
        PROVE  u[i] = v[i]
    <3>1. i \in 1 .. 1 + d /\ i \in 1 .. d + 1 /\ i \in 1 .. 1 + n
      BY <1>2, <2>1, <2>3
    <3>2. i <= 1 \/ i - 1 \in 1 .. d
      BY <2>1, <3>1
    <3> QED BY <1>4, <2>2, <2>3, <2>4, <3>1, <3>2
  <2>6. u = v
    <3>1. Len(u) = Len(v)
      BY <2>1, <2>3, <2>4
    <3> QED BY <2>3, <2>4, <2>5, <3>1, SeqEqual
  <2> QED BY <1>6, <2>1, <2>6 DEF u, v, b, PrefixesOf
<1>9. analysisPrefixes(o) \subseteq flamePath(o)
  BY <1>8 DEF analysisPrefixes, one, key
<1> QED BY <1>1, <1>4, <1>5, <1>6, <1>7, <1>9

(* An object is added.                                                     *)
LEMMA SnapGrows ==
    ASSUME raFile \in Seq(RaObjects), NEW n \in Nat, n + 1 \in DOMAIN raFile,
           NEW snap, SnapOk(snap, n, Ranks, DOMAIN raFile), NEW new, new = addObject(snap, n + 1)
    PROVE  SnapOk(new, n + 1, Ranks, DOMAIN raFile)
<1> DEFINE o == raFile[n + 1]
           size == o.size
           K == flamePath(o)
           L == analysisPrefixes(o)
<1>1. /\ new.total = snap.total + size
      /\ new.types = Plus(snap.types, {o.type}, size)
      /\ new.dbs = Plus(snap.dbs, {o.db}, size)
      /\ new.prefixes = Plus(snap.prefixes, L, size)
      /\ new.flame = Plus(snap.flame, K, size)
      /\ new.top = addTopKeyBySize(snap.top, n + 1)
  BY DEF addObject
<1>2. o \in RaObjects
  BY LenProperties, ElementOfSeq
<1> HIDE DEF o
<1>3. /\ size \in Nat /\ IsFiniteSet(K) /\ << >> \in K /\ L \subseteq K /\ IsFiniteSet(L)
      /\ \E w \in Seq(RaPart) : \E m \in 0 .. Len(w) : K = PrefixesOf(w, m)
  <2>1. /\ size \in Nat /\ IsFiniteSet(K) /\ << >> \in K /\ L \subseteq K
        /\ \E w \in Seq(RaPart) : \E m \in 0 .. Len(w) : K = PrefixesOf(w, m)
    BY <1>2, PathsAre
  <2>2. IsFiniteSet(L)
    BY <2>1, FS_Subset
  <2> QED BY <2>1, <2>2
<1> HIDE DEF K, L, size
<1>4. /\ snap.total \in Nat /\ Numbers(snap.types, DOMAIN snap.types) /\ Numbers(snap.dbs, DOMAIN snap.dbs)
      /\ SumOver(snap.types, DOMAIN snap.types) = snap.total
      /\ SumOver(snap.dbs, DOMAIN snap.dbs) = snap.total
      /\ FlameOk(snap.flame) /\ Numbers(snap.flame, DOMAIN snap.flame)
      /\ Numbers(snap.prefixes, DOMAIN snap.prefixes)
      /\ IF << >> \in DOMAIN snap.flame THEN snap.flame[<< >>] = snap.total ELSE snap.total = 0
      /\ \A p \in DOMAIN snap.prefixes : p \in DOMAIN snap.flame /\ snap.prefixes[p] <= snap.flame[p]
      /\ snap.top \in Seq(DOMAIN raFile) /\ IsTop(snap.top, 1 .. n, TopN, Ranks)
  BY DEF SnapOk, FlameOk
<1> HIDE DEF SnapOk
<1>5. /\ new.total \in Nat
      /\ Numbers(new.types, DOMAIN new.types) /\ SumOver(new.types, DOMAIN new.types) = new.total
      /\ Numbers(new.dbs, DOMAIN new.dbs) /\ SumOver(new.dbs, DOMAIN new.dbs) = new.total
  <2>1. Numbers(new.types, DOMAIN new.types) /\ SumOver(new.types, DOMAIN new.types) = snap.total + size
    <3>1. new.types = Plus(snap.types, {o.type}, size)
      BY <1>1
    <3>2. TotalGrows(new.types, snap.types, size)
      BY <1>3, <1>4, <3>1, PlusAddsUp
    <3> QED BY <1>4, <3>2 DEF TotalGrows
  <2>2. Numbers(new.dbs, DOMAIN new.dbs) /\ SumOver(new.dbs, DOMAIN new.dbs) = snap.total + size
    <3>1. new.dbs = Plus(snap.dbs, {o.db}, size)
      BY <1>1
    <3>2. TotalGrows(new.dbs, snap.dbs, size)
      BY <1>3, <1>4, <3>1, PlusAddsUp
    <3> QED BY <1>4, <3>2 DEF TotalGrows
  <2>3. new.total \in Nat
    BY <1>1, <1>3, <1>4
  <2> QED BY <1>1, <2>1, <2>2, <2>3
<1>6. FlameOk(new.flame)
  <2>1. PICK w \in Seq(RaPart) : \E m \in 0 .. Len(w) : K = PrefixesOf(w, m)
    BY <1>3
  <2>2. PICK m \in 0 .. Len(w) : K = PrefixesOf(w, m)
    BY <2>1
  <2> QED BY <1>1, <1>3, <1>4, <2>2, FlameGrows
<1>7. Grown(new.flame, snap.flame, K, size) /\ Grown(new.prefixes, snap.prefixes, L, size)
  BY <1>1, <1>3, <1>4, PlusIs
<1> DEFINE f == snap.flame
           g == new.flame
           p0 == snap.prefixes
           p1 == new.prefixes
<1>8. << >> \in DOMAIN g /\ g[<< >>] = new.total
  BY <1>1, <1>3, <1>4, <1>7 DEF Grown
<1>9. Numbers(p1, DOMAIN p1)
  BY <1>7 DEF Grown
<1>10. ASSUME NEW p \in DOMAIN p1
       PROVE  p \in DOMAIN g /\ p1[p] <= g[p]
  <2>1. /\ DOMAIN g = DOMAIN f \cup K /\ DOMAIN p1 = DOMAIN p0 \cup L
        /\ \A k \in DOMAIN f : f[k] \in Nat /\ g[k] = IF k \in K THEN f[k] + size ELSE f[k]
        /\ \A k \in K \ DOMAIN f : g[k] = size
        /\ \A k \in DOMAIN p0 : p0[k] \in Nat /\ p1[k] = IF k \in L THEN p0[k] + size ELSE p0[k]
        /\ \A k \in L \ DOMAIN p0 : p1[k] = size
    BY <1>7 DEF Grown
  <2>2. \A k \in DOMAIN p0 : k \in DOMAIN f /\ p0[k] <= f[k]
    BY <1>4
  <2> HIDE DEF f, g, p0, p1
  <2>3. CASE p \in DOMAIN p0
    BY <1>3, <2>1, <2>2, <2>3
  <2>4. CASE p \in L \ DOMAIN p0
    <3>1. p1[p] = size /\ p \in K
      BY <1>3, <2>1, <2>4
    <3> QED BY <1>3, <2>1, <3>1
  <2> QED BY <1>10, <2>1, <2>3, <2>4
<1>11. new.top \in Seq(DOMAIN raFile) /\ IsTop(new.top, 1 .. n + 1, TopN, Ranks)
  BY <1>1, <1>4, TopGrows
<1> QED BY <1>5, <1>6, <1>8, <1>9, <1>10, <1>11 DEF SnapOk

(* A snapshot with these sums adds up.                                     *)
LEMMA SnapAddsUp ==
    ASSUME raFile \in Seq(RaObjects), NEW n \in 0 .. Len(raFile),
           NEW snap, SnapOk(snap, n, Ranks, DOMAIN raFile)
    PROVE  AddsUp(snap, n)
<1> DEFINE top == snap.top
           T == DOMAIN raFile
<1>1. T = 1 .. Len(raFile) /\ Len(raFile) \in Nat /\ n \in Nat
  BY LenProperties
<1>2. StrictOrder(Ranks, T) /\ \A i, j \in T : <<i, j>> \in Ranks <=> Before(i, j)
  BY RanksAreStrict
<1>3. /\ top \in Seq(T) /\ Ordered(top, Ranks) /\ Elements(top) \subseteq 1 .. n
      /\ Len(top) = IF Cardinality(1 .. n) < TopN THEN Cardinality(1 .. n) ELSE TopN
      /\ \A x \in Elements(top), y \in (1 .. n) \ Elements(top) : <<x, y>> \in Ranks
  BY DEF SnapOk, IsTop
<1>4. Len(top) = Least(n, TopN)
  <2>1. Cardinality(1 .. n) = n
    BY <1>1, FS_Interval
  <2> QED BY <1>3, <2>1 DEF Least
<1>5. ASSUME NEW k \in DOMAIN top, NEW i \in 1 .. n, Before(i, top[k])
      PROVE  \E m \in 1 .. k - 1 : top[m] = i
  <2>1. DOMAIN top = 1 .. Len(top) /\ Len(top) \in Nat /\ top[k] \in T /\ top[k] \in Elements(top) /\ i \in T
    BY <1>1, <1>3, LenProperties, ElementOfSeq DEF Elements
  <2>2. <<i, top[k]>> \in Ranks /\ <<top[k], i>> \notin Ranks /\ i # top[k]
    BY <1>2, <1>5, <2>1 DEF StrictOrder
  <2>3. i \in Elements(top)
    BY <1>3, <2>1, <2>2
  <2>4. PICK m \in 1 .. Len(top) : top[m] = i
    BY <2>3 DEF Elements
  <2>5. m # k /\ ~ (k < m)
    BY <1>3, <2>1, <2>2, <2>4 DEF Ordered
  <2>6. m \in 1 .. k - 1
    BY <2>1, <2>4, <2>5
  <2> QED BY <2>4, <2>6
<1>6. n > 0 => snap.flame[<< >>] = snap.total
  BY DEF SnapOk
<1> QED BY <1>4, <1>5, <1>6 DEF SnapOk, FlameOk, AddsUp

(* Snapshots are of what was read, which is of the file.                   *)
SnapInv ==
    /\ raFile \in Seq(RaObjects)
    /\ DOMAIN raSnap = RaCalls
    /\ \A c \in RaCalls : raRead[c] \in 0 .. Len(raFile) /\ SnapOk(raSnap[c], raRead[c], Ranks, DOMAIN raFile)

(* An empty snapshot is that of no objects.                                *)
LEMMA SnapInitInv ==
    ASSUME RaInit
    PROVE  SnapInv
<1>1. PICK n \in 0 .. MaxRaObjects : raFile \in [1 .. n -> RaObjects]
  BY DEF RaInit
<1>2. raFile \in Seq(RaObjects) /\ Len(raFile) \in Nat
  BY <1>1, RDBAnalysisAssumption
<1> DEFINE e == << >>
<1>3. DOMAIN e = {} /\ Numbers(e, DOMAIN e) /\ SumOver(e, DOMAIN e) = 0
  <2>1. DOMAIN e = {}
    OBVIOUS
  <2>2. Numbers(e, {}) /\ SumOver(e, {}) = 0
    BY FS_EmptySet, SumOfNone DEF Numbers
  <2> HIDE DEF e
  <2> QED BY <2>1, <2>2
<1>4. FlameOk(e)
  BY <1>3 DEF FlameOk
<1>5. e \in Seq(DOMAIN raFile) /\ IsTop(e, 1 .. 0, TopN, Ranks)
  <2>1. e \in Seq(DOMAIN raFile) /\ Len(e) = 0
    BY EmptySeq
  <2>2. 1 .. 0 = {} /\ Cardinality({}) = 0 /\ 0 < TopN
    BY FS_EmptySet, RDBAnalysisAssumption
  <2>3. Elements(e) = {} /\ Ordered(e, Ranks)
    BY <2>1 DEF Elements, Ordered
  <2>4. IsTop(e, {}, TopN, Ranks)
    BY <2>1, <2>2, <2>3 DEF IsTop
  <2> QED BY <2>1, <2>2, <2>4
<1>6. /\ EmptySnap.total = 0 /\ EmptySnap.types = e /\ EmptySnap.dbs = e /\ EmptySnap.flame = e
      /\ EmptySnap.prefixes = e /\ EmptySnap.top = e
  BY DEF EmptySnap
<1> HIDE DEF e
<1>7. SnapOk(EmptySnap, 0, Ranks, DOMAIN raFile)
  BY <1>3, <1>4, <1>5, <1>6 DEF SnapOk
<1>8. DOMAIN raSnap = RaCalls /\ \A c \in RaCalls : raRead[c] = 0 /\ raSnap[c] = EmptySnap
  BY DEF RaInit
<1> QED BY <1>2, <1>7, <1>8 DEF SnapInv

(* Every step keeps it.                                                    *)
LEMMA SnapStepKeepsInv ==
    ASSUME RaInv, SnapInv, [RaNext]_raVars
    PROVE  SnapInv'
<1>1. ASSUME UNCHANGED <<raFile, raRead, raSnap>>
      PROVE  SnapInv'
  <2>1. Ranks' = Ranks
    BY <1>1 DEF Ranks, Before
  <2> QED BY <1>1, <2>1 DEF SnapInv
<1>2. ASSUME NEW c \in RaCalls, parseJob(c)
      PROVE  SnapInv'
  <2> DEFINE n == raRead[c]
             snap == raSnap[c]
             T == DOMAIN raFile
  <2>1. /\ raFile' = raFile /\ n < Len(raFile)
        /\ raRead' = [raRead EXCEPT ![c] = n + 1]
        /\ raSnap' = [raSnap EXCEPT ![c] = addObject(snap, n + 1)]
    BY <1>2 DEF parseJob
  <2>2. raFile \in Seq(RaObjects) /\ n \in 0 .. Len(raFile) /\ SnapOk(snap, n, Ranks, T)
    BY DEF SnapInv
  <2>3. Ranks' = Ranks
    BY <2>1 DEF Ranks, Before
  <2>4. n \in Nat /\ n + 1 \in T /\ n + 1 \in 0 .. Len(raFile)
    BY <2>1, <2>2, LenProperties
  <2>5. PICK new : new = addObject(snap, n + 1)
    OBVIOUS
  <2>6. SnapOk(new, n + 1, Ranks, T)
    BY <2>2, <2>4, <2>5, SnapGrows
  <2>7. /\ DOMAIN raSnap' = RaCalls /\ raSnap'[c] = new /\ raRead'[c] = n + 1
        /\ \A d \in RaCalls \ {c} : raSnap'[d] = raSnap[d] /\ raRead'[d] = raRead[d]
    <3>1. DOMAIN raSnap = RaCalls /\ DOMAIN raRead = RaCalls
      BY DEF SnapInv, RaInv, RaTypes
    <3> QED BY <2>1, <2>5, <3>1
  <2>8. \A d \in RaCalls : raRead'[d] \in 0 .. Len(raFile) /\ SnapOk(raSnap'[d], raRead'[d], Ranks, T)
    BY <2>4, <2>6, <2>7 DEF SnapInv
  <2> QED BY <2>1, <2>2, <2>3, <2>7, <2>8 DEF SnapInv
<1>3. ASSUME NEW c \in RaCalls,
             \/ StartWorkspace(c) \/ StartUpload(c) \/ acquireRemoteFetch(c)
             \/ CallRa(c) \/ runJob(c) \/ runJobEnds(c) \/ RaCancel(c) \/ RaRemove(c) \/ RaRemoveRest(c)
      PROVE  UNCHANGED <<raFile, raRead, raSnap>>
  BY <1>3 DEF StartWorkspace, StartUpload, acquireRemoteFetch, CallRa, fetchFails, fetchRemoteRDB, CopyEnds,
              checkConcurrentLimit, rejectJob, startJob, runJob, runJobEnds, RaCancel, RaRemove, RaRemoveRest
<1>4. RaClose \/ UNCHANGED raVars => UNCHANGED <<raFile, raRead, raSnap>>
  BY DEF RaClose, raVars
<1> QED BY <1>1, <1>2, <1>3, <1>4 DEF RaNext, RunRa

(* The analysis is sound, for any number of calls, any limits and any file *)
(* of any objects: no temporary file, slot or running job is lost, and     *)
(* what a job shows at any time adds up.  Types, databases and the flame   *)
(* graph sum up to the same total, no node of the graph is smaller than    *)
(* its children together or than the prefix of its name, and the top list, *)
(* of which only TopN entries are ever kept, is that of all objects read   *)
(* (topom_rdb_analysis.go, topom_rdb_analysis_remote_fetch.go).            *)
THEOREM AnalysisTheorem == RaSpec => []AnalysisIsSound
<1>1. RaInit => RaInv /\ SnapInv
  BY RaInitInv, SnapInitInv
<1>2. RaInv /\ SnapInv /\ [RaNext]_raVars => RaInv' /\ SnapInv'
  BY RaStepKeepsInv, SnapStepKeepsInv
<1>3. RaInv /\ SnapInv => AnalysisIsSound
  <2>1. SUFFICES ASSUME RaInv, SnapInv PROVE SnapshotsAddUp
    BY RaInvIsSound DEF AnalysisIsSound
  <2> QED BY <2>1, SnapAddsUp DEF SnapInv, SnapshotsAddUp
<1> QED BY <1>1, <1>2, <1>3, PTL DEF RaSpec

-----------------------------------------------------------------------------
(***************************************************************************)
(* Rebalance.  The two loops of SlotsRebalance are taken as runs of their  *)
(* steps; the second ends because every round of it makes the tree smaller *)
(* or the sizes beyond the bounds less (Rest).  What it leaves is level    *)
(* (EndedIsFinal), and the plan made of it gives every group the slots     *)
(* that the numbers of moves say (PlanShares).                             *)
(***************************************************************************)
RbPlaced == rbSlot \in [RbSlots -> RbPlace]

(* Numbers of moves: what a group gives, or takes if negative.             *)
Moves == [RbGroups -> Int]
Sizes(m) == [g \in RbGroups |-> groupSize(g, m)]
MoveOk(m) == m \in Moves /\ \A g \in RbGroups : m[g] <= Cardinality(pendings(g))

(* The bounds: the slots fit in the groups up to the upper one.            *)
LEMMA BoundsAre ==
    /\ Cardinality(RbSlots) \in Nat /\ Cardinality(RbGroups) \in Nat \ {0}
    /\ lowerBound \in Nat /\ upperBound \in Nat
    /\ lowerBound <= upperBound /\ upperBound <= lowerBound + 1
    /\ Cardinality(RbSlots) <= Cardinality(RbGroups) * upperBound
<1> DEFINE c == Cardinality(RbSlots)
           n == Cardinality(RbGroups)
           l == c \div n
           u == (c + n - 1) \div n
<1>1. c \in Nat /\ n \in Nat \ {0}
  BY RebalanceAssumption, FS_CardinalityType, FS_EmptySet
<1>2. lowerBound = l /\ upperBound = u
  BY DEF lowerBound, upperBound, groupIds
<1> HIDE DEF c, n
<1>3. l \in Nat /\ n * l <= c /\ c < n * l + n
  BY <1>1
<1>4. c + n - 1 \in Nat
  BY <1>1
<1>5. u \in Nat /\ n * u <= c + n - 1 /\ c + n - 1 < n * u + n
  BY <1>1, <1>4
<1> HIDE DEF l, u
<1>6. l <= u /\ u <= l + 1 /\ c <= n * u
  BY <1>1, <1>3, <1>5
<1> QED BY <1>1, <1>2, <1>3, <1>5, <1>6 DEF c, n

(* The slots of a group.                                                   *)
LEMMA SlotsOfGroup ==
    ASSUME RbPlaced, NEW g
    PROVE  /\ Coming(g) \subseteq RbSlots /\ There(g) \subseteq RbSlots /\ pendings(g) \subseteq There(g)
           /\ IsFiniteSet(Coming(g)) /\ IsFiniteSet(There(g)) /\ IsFiniteSet(pendings(g))
           /\ Cardinality(Coming(g)) \in Nat /\ Cardinality(There(g)) \in Nat /\ Cardinality(pendings(g)) \in Nat
           /\ Cardinality(pendings(g)) <= Cardinality(There(g))
<1>1. Coming(g) \subseteq RbSlots /\ There(g) \subseteq RbSlots
  BY DEF Coming, There
<1>2. pendings(g) \subseteq There(g)
  BY DEF pendings
<1>3. IsFiniteSet(Coming(g)) /\ IsFiniteSet(There(g))
  BY <1>1, RebalanceAssumption, FS_Subset
<1>4. IsFiniteSet(pendings(g)) /\ Cardinality(pendings(g)) <= Cardinality(There(g))
  BY <1>2, <1>3, FS_Subset
<1> QED BY <1>1, <1>2, <1>3, <1>4, FS_CardinalityType

(* Sizes are numbers, and not negative if no group gives too much.         *)
LEMMA SizeType ==
    ASSUME RbPlaced, NEW m \in Moves, NEW g \in RbGroups
    PROVE  /\ groupSize(g, m) \in Int /\ g \in Nat \ {0}
           /\ MoveOk(m) => groupSize(g, m) \in Nat
<1>1. m[g] \in Int /\ g \in Nat \ {0}
  BY RebalanceAssumption DEF Moves
<1>2. /\ Cardinality(Coming(g)) \in Nat /\ Cardinality(There(g)) \in Nat /\ Cardinality(pendings(g)) \in Nat
      /\ Cardinality(pendings(g)) <= Cardinality(There(g))
  BY SlotsOfGroup
<1>3. MoveOk(m) => m[g] <= Cardinality(pendings(g))
  BY DEF MoveOk
<1> QED BY <1>1, <1>2, <1>3 DEF groupSize

(* The sizes as a function.                                                *)
LEMMA SizesAre ==
    ASSUME RbPlaced, NEW m, MoveOk(m)
    PROVE  Numbers(Sizes(m), RbGroups) /\ \A g \in RbGroups : Sizes(m)[g] = groupSize(g, m) /\ groupSize(g, m) \in Nat
<1>1. m \in Moves
  BY DEF MoveOk
<1>2. \A g \in RbGroups : Sizes(m)[g] = groupSize(g, m)
  BY DEF Sizes
<1>3. \A g \in RbGroups : groupSize(g, m) \in Nat
  BY <1>1, SizeType
<1> QED BY <1>2, <1>3, RebalanceAssumption DEF Numbers

(* The ends of the tree.                                                   *)
LEMMA LeftIs ==
    ASSUME RbPlaced, NEW m \in Moves, NEW T \in SUBSET RbGroups, T # {}
    PROVE  Left(T, m) \in T /\ \A h \in T : groupSize(Left(T, m), m) <= groupSize(h, m)
<1> DEFINE R == {p \in T \X T : Smaller(p[1], p[2], m)}
<1>1. \A g \in T : groupSize(g, m) \in Int /\ g \in Nat
  BY SizeType
<1>2. \A g, h \in T : <<g, h>> \in R <=> Smaller(g, h, m)
  OBVIOUS
<1> HIDE DEF R
<1>3. StrictOrder(R, T)
  BY <1>1, <1>2 DEF StrictOrder, Smaller
<1>4. IsFiniteSet(T)
  BY RebalanceAssumption, FS_Subset
<1>5. \E g \in T : \A h \in T \ {g} : Smaller(g, h, m)
  BY <1>2, <1>3, <1>4, FirstExists
<1>6. Left(T, m) \in T /\ \A h \in T \ {Left(T, m)} : Smaller(Left(T, m), h, m)
  BY <1>5 DEF Left
<1> QED BY <1>1, <1>6 DEF Smaller

(* The largest group of the tree.                                          *)
LEMMA RightIs ==
    ASSUME RbPlaced, NEW m \in Moves, NEW T \in SUBSET RbGroups, T # {}
    PROVE  Right(T, m) \in T /\ \A h \in T : groupSize(h, m) <= groupSize(Right(T, m), m)
<1> DEFINE R == {p \in T \X T : Smaller(p[2], p[1], m)}
<1>1. \A g \in T : groupSize(g, m) \in Int /\ g \in Nat
  BY SizeType
<1>2. \A g, h \in T : <<g, h>> \in R <=> Smaller(h, g, m)
  OBVIOUS
<1> HIDE DEF R
<1>3. StrictOrder(R, T)
  BY <1>1, <1>2 DEF StrictOrder, Smaller
<1>4. IsFiniteSet(T)
  BY RebalanceAssumption, FS_Subset
<1>5. \E g \in T : \A h \in T \ {g} : Smaller(h, g, m)
  BY <1>2, <1>3, <1>4, FirstExists
<1>6. Right(T, m) \in T /\ \A h \in T \ {Right(T, m)} : Smaller(h, Right(T, m), m)
  BY <1>5 DEF Right
<1> QED BY <1>1, <1>6 DEF Smaller

-----------------------------------------------------------------------------
(* The two loops, as runs of their steps.                                  *)
NoMoves == [g \in groupIds |-> 0]
IsDockRun(f) ==
    f = [n \in 0 .. Cardinality(Offline) |-> IF n = 0 THEN [g \in groupIds |-> 0] ELSE dockSlot(f[n - 1])]

(* Nothing moves.                                                          *)
LEMMA NoMovesAre ==
    ASSUME RbPlaced
    PROVE  NoMoves \in Moves /\ MoveOk(NoMoves) /\ \A g \in RbGroups : NoMoves[g] = 0
<1>1. NoMoves \in Moves /\ \A g \in RbGroups : NoMoves[g] = 0
  BY DEF NoMoves, Moves, groupIds
<1>2. \A g \in RbGroups : Cardinality(pendings(g)) \in Nat
  BY SlotsOfGroup
<1> QED BY <1>1, <1>2 DEF MoveOk

(* An offline slot: one group takes one more.                              *)
LEMMA DockSlotIs ==
    ASSUME RbPlaced, NEW m \in Moves
    PROVE  /\ dockSlot(m) \in Moves
           /\ \E l \in RbGroups : dockSlot(m)[l] = m[l] - 1 /\ \A g \in RbGroups \ {l} : dockSlot(m)[g] = m[g]
<1> DEFINE l == Left(RbGroups, m)
<1>1. l \in RbGroups
  BY LeftIs, RebalanceAssumption
<1>2. dockSlot(m) = [m EXCEPT ![l] = @ - 1]
  BY DEF dockSlot, groupIds
<1> HIDE DEF l
<1> QED BY <1>1, <1>2 DEF Moves

(* The first loop is a run of dockSlot.                                    *)
LEMMA DockRunExists ==
    ASSUME RbPlaced
    PROVE  \E f \in [0 .. Cardinality(Offline) -> Moves] :
              /\ f[0] = NoMoves /\ \A k \in 1 .. Cardinality(Offline) : f[k] = dockSlot(f[k - 1])
              /\ Docked = f[Cardinality(Offline)]
<1> DEFINE n == Cardinality(Offline)
           h == [m \in Moves |-> dockSlot(m)]
<1>1. n \in Nat
  BY SlotsOfGroup DEF Offline
<1>2. h \in [Moves -> Moves] /\ \A m \in Moves : h[m] = dockSlot(m)
  BY DockSlotIs
<1> HIDE DEF n, h
<1>3. PICK f \in [0 .. n -> Moves] : f[0] = NoMoves /\ \A k \in 1 .. n : f[k] = h[f[k - 1]]
  <2>1. NoMoves \in Moves /\ h \in [Moves -> Moves]
    BY <1>2, NoMovesAre
  <2>2. \E f : IsRun(f, Moves, NoMoves, h, n)
    BY <1>1, <2>1, IterExists
  <2> QED BY <2>2 DEF IsRun
<1>4. \A k \in 1 .. n : k - 1 \in 0 .. n /\ f[k] = dockSlot(f[k - 1])
  BY <1>1, <1>2, <1>3
<1>5. IsDockRun(f)
  <2> DEFINE e == [k \in 0 .. n |-> IF k = 0 THEN [g \in groupIds |-> 0] ELSE dockSlot(f[k - 1])]
  <2>1. \A k \in 0 .. n : k = 0 \/ k \in 1 .. n
    BY <1>1
  <2>2. \A k \in 0 .. n : f[k] = e[k]
    BY <1>3, <1>4, <2>1 DEF NoMoves
  <2>3. f = [k \in 0 .. n |-> f[k]] /\ e = [k \in 0 .. n |-> e[k]]
    OBVIOUS
  <2> HIDE DEF e
  <2>4. f = e
    BY <2>2, <2>3
  <2> QED BY <2>4 DEF e, n, IsDockRun
<1> DEFINE F == CHOOSE r : IsDockRun(r)
<1>6. IsDockRun(F)
  BY <1>5
<1>7. Docked = F[n]
  BY DEF Docked, IsDockRun, n
<1> HIDE DEF F
<1>8. /\ DOMAIN F = 0 .. n /\ F[0] = NoMoves /\ F = [k \in 0 .. n |-> F[k]]
      /\ \A k \in 1 .. n : F[k] = dockSlot(F[k - 1])
  <2>1. \A k \in 1 .. n : k \in 0 .. n /\ k # 0
    BY <1>1
  <2>2. 0 \in 0 .. n
    BY <1>1
  <2> QED BY <1>6, <2>1, <2>2 DEF IsDockRun, n, NoMoves
<1> DEFINE G == {k \in 0 .. n : F[k] = f[k]}
<1>9. 0 \in G
  BY <1>1, <1>3, <1>8
<1>10. ASSUME NEW k \in G, k < n
       PROVE  k + 1 \in G
  <2>1. k + 1 \in 1 .. n /\ k + 1 \in 0 .. n /\ (k + 1) - 1 = k /\ F[k] = f[k]
    BY <1>1, <1>10
  <2> QED BY <1>4, <1>8, <2>1
<1>11. G \in SUBSET (0 .. n)
  OBVIOUS
<1> HIDE DEF G
<1>12. n \in G
  BY <1>1, <1>9, <1>10, <1>11, FiniteInduction
<1>13. F[n] = f[n]
  BY <1>12 DEF G
<1> QED BY <1>3, <1>4, <1>7, <1>13 DEF n

(* A change of one number of moves, in what the sizes add up to.           *)
LEMMA SizesChange ==
    ASSUME RbPlaced, NEW m, MoveOk(m), NEW r, MoveOk(r), NEW l \in RbGroups,
           \A g \in RbGroups \ {l} : r[g] = m[g]
    PROVE  SumOver(Sizes(r), RbGroups) = SumOver(Sizes(m), RbGroups) + m[l] - r[l]
<1>1. /\ Numbers(Sizes(m), RbGroups) /\ \A g \in RbGroups : Sizes(m)[g] = groupSize(g, m) /\ groupSize(g, m) \in Nat
  BY SizesAre
<1>2. /\ Numbers(Sizes(r), RbGroups) /\ \A g \in RbGroups : Sizes(r)[g] = groupSize(g, r) /\ groupSize(g, r) \in Nat
  BY SizesAre
<1>3. \A g \in RbGroups \ {l} : Sizes(m)[g] = Sizes(r)[g]
  BY <1>1, <1>2 DEF groupSize
<1>4. SumOver(Sizes(r), RbGroups) + Sizes(m)[l] = SumOver(Sizes(m), RbGroups) + Sizes(r)[l]
  BY <1>1, <1>2, <1>3, SumChange
<1>5. SumOver(Sizes(r), RbGroups) \in Nat /\ SumOver(Sizes(m), RbGroups) \in Nat
  BY <1>1, <1>2, SumType
<1>6. m[l] \in Int /\ r[l] \in Int /\ Cardinality(Coming(l)) \in Nat /\ Cardinality(There(l)) \in Nat
  BY SlotsOfGroup DEF MoveOk, Moves
<1>7. groupSize(l, r) + r[l] = groupSize(l, m) + m[l]
  BY <1>6 DEF groupSize
<1> QED BY <1>1, <1>2, <1>4, <1>5, <1>6, <1>7

(* Where every offline slot goes: nothing is given, and the sizes grow by  *)
(* as many slots as are offline.                                           *)
LEMMA DockedIs ==
    ASSUME RbPlaced
    PROVE  /\ MoveOk(Docked) /\ \A g \in RbGroups : Docked[g] <= 0
           /\ SumOver(Sizes(Docked), RbGroups) = SumOver(Sizes(NoMoves), RbGroups) + Cardinality(Offline)
           /\ Offline = {} => Docked = NoMoves
<1> DEFINE n == Cardinality(Offline)
           s0 == SumOver(Sizes(NoMoves), RbGroups)
<1>1. n \in Nat
  BY SlotsOfGroup DEF Offline
<1>2. MoveOk(NoMoves) /\ s0 \in Nat
  BY NoMovesAre, SizesAre, SumType
<1>3. PICK f \in [0 .. n -> Moves] :
              /\ f[0] = NoMoves /\ \A k \in 1 .. n : f[k] = dockSlot(f[k - 1])
              /\ Docked = f[n]
  BY DockRunExists
<1> HIDE DEF n
<1> DEFINE Good(k) == /\ MoveOk(f[k]) /\ \A g \in RbGroups : f[k][g] <= 0
                      /\ SumOver(Sizes(f[k]), RbGroups) = s0 + k
           G == {k \in 0 .. n : Good(k)}
<1> HIDE DEF s0
<1>4. 0 \in G
  <2>1. SumOver(Sizes(f[0]), RbGroups) = s0 + 0
    BY <1>2, <1>3 DEF s0
  <2> QED BY <1>1, <1>2, <1>3, <2>1, NoMovesAre
<1>5. ASSUME NEW k \in G, k < n
      PROVE  k + 1 \in G
  <2>1. k + 1 \in 1 .. n /\ k + 1 \in 0 .. n /\ k \in 0 .. n /\ (k + 1) - 1 = k /\ Good(k)
    BY <1>1, <1>5
  <2> DEFINE m == f[k]
             r == f[k + 1]
  <2>2. m \in Moves /\ r = dockSlot(m)
    BY <1>3, <2>1
  <2>3. /\ MoveOk(m) /\ \A g \in RbGroups : m[g] <= 0
        /\ SumOver(Sizes(m), RbGroups) = s0 + k
    BY <2>1
  <2> HIDE DEF m, r
  <2>4. r \in Moves
    BY <2>2, DockSlotIs
  <2>5. PICK l \in RbGroups : r[l] = m[l] - 1 /\ \A g \in RbGroups \ {l} : r[g] = m[g]
    BY <2>2, DockSlotIs
  <2>6. \A g \in RbGroups : m[g] \in Int /\ r[g] \in Int /\ Cardinality(pendings(g)) \in Nat
    BY <2>2, <2>4, SlotsOfGroup DEF Moves
  <2>7. \A g \in RbGroups : r[g] <= 0
    BY <2>3, <2>5, <2>6
  <2>8. MoveOk(r)
    BY <2>4, <2>6, <2>7 DEF MoveOk
  <2>9. SumOver(Sizes(r), RbGroups) = SumOver(Sizes(m), RbGroups) + m[l] - r[l]
    BY <2>3, <2>5, <2>8, SizesChange
  <2>10. SumOver(Sizes(r), RbGroups) = s0 + (k + 1)
    BY <1>1, <1>2, <2>1, <2>3, <2>5, <2>6, <2>9
  <2>11. Good(k + 1)
    BY <2>7, <2>8, <2>10 DEF r
  <2> HIDE DEF Good
  <2> QED BY <2>1, <2>11
<1>6. G \in SUBSET (0 .. n)
  OBVIOUS
<1> HIDE DEF G
<1>7. n \in G
  BY <1>1, <1>4, <1>5, <1>6, FiniteInduction
<1>8. Good(n)
  BY <1>7 DEF G
<1>9. Offline = {} => n = 0
  BY FS_EmptySet DEF n
<1> QED BY <1>3, <1>8, <1>9 DEF n, s0

-----------------------------------------------------------------------------
(* States of the loop that levels the groups, and what a round of it does: *)
(* nothing once it has ended, or the largest group leaves the tree, or it  *)
(* gives a slot to the smallest.                                           *)
LoopStates == [tree: SUBSET RbGroups, moveout: Moves]

Ends(t, f, d) ==
    /\ \A h \in t.tree : groupSize(h, t.moveout) <= groupSize(f, t.moveout)
    /\ \A h \in t.tree \ {f} : groupSize(d, t.moveout) <= groupSize(h, t.moveout)

LoopEnded(t) ==
    \/ Cardinality(t.tree) < 2
    \/ \E f \in t.tree : \E d \in t.tree \ {f} : Ends(t, f, d) /\ IsLevel(f, d, t.moveout)

Leaves(t, u) ==
    \E f \in t.tree :
        /\ \A h \in t.tree : groupSize(h, t.moveout) <= groupSize(f, t.moveout)
        /\ t.moveout[f] = Cardinality(pendings(f))
        /\ u.tree = t.tree \ {f} /\ u.moveout = t.moveout

GivesTo(t, u, f, d) ==
    /\ Ends(t, f, d) /\ ~ IsLevel(f, d, t.moveout)
    /\ t.moveout[f] # Cardinality(pendings(f))
    /\ u.tree = t.tree
    /\ u.moveout[f] = t.moveout[f] + 1 /\ u.moveout[d] = t.moveout[d] - 1
    /\ \A g \in RbGroups \ {f, d} : u.moveout[g] = t.moveout[g]

Gives(t, u) == \E f \in t.tree : \E d \in t.tree \ {f} : GivesTo(t, u, f, d)

(* A round does one of these.                                              *)
LEMMA ExchangeIs ==
    ASSUME RbPlaced, NEW t \in LoopStates
    PROVE  /\ exchange(t) \in LoopStates
           /\ \/ LoopEnded(t) /\ exchange(t) = t
              \/ Leaves(t, exchange(t))
              \/ Gives(t, exchange(t))
<1> DEFINE T == t.tree
           m == t.moveout
           f == Right(T, m)
           d == Left(T \ {f}, m)
           r == [m EXCEPT ![f] = @ + 1, ![d] = @ - 1]
           u == [tree |-> T \ {f}, moveout |-> m]
           v == [tree |-> T, moveout |-> r]
<1>1. T \in SUBSET RbGroups /\ m \in Moves
  BY DEF LoopStates
<1>2. exchange(t) = IF Cardinality(T) < 2 THEN t
                    ELSE IF Cardinality(pendings(f)) = m[f] THEN u
                    ELSE IF IsLevel(f, d, m) THEN t ELSE v
  BY DEF exchange
<1>3. CASE Cardinality(T) < 2
  BY <1>2, <1>3 DEF LoopEnded
<1>4. CASE ~ (Cardinality(T) < 2)
  <2>1. IsFiniteSet(T) /\ Cardinality(T) \in Nat
    BY <1>1, RebalanceAssumption, FS_Subset, FS_CardinalityType
  <2>2. T # {}
    BY <1>4, <2>1, FS_EmptySet
  <2>3. f \in T /\ \A h \in T : groupSize(h, m) <= groupSize(f, m)
    BY <1>1, <2>2, RightIs
  <2> HIDE DEF T, m, f
  <2>4. T \ {f} # {}
    <3>1. Cardinality(T \ {f}) = Cardinality(T) - 1
      BY <2>1, <2>3, FS_RemoveElement
    <3>2. Cardinality(T \ {f}) # 0
      BY <1>4, <2>1, <3>1
    <3> QED BY <3>2, FS_EmptySet
  <2>5. d \in T \ {f} /\ \A h \in T \ {f} : groupSize(d, m) <= groupSize(h, m)
    <3> DEFINE X == T \ {f}
    <3>1. X \in SUBSET RbGroups /\ X # {}
      BY <1>1, <2>4
    <3> HIDE DEF X
    <3>2. Left(X, m) \in X /\ \A h \in X : groupSize(Left(X, m), m) <= groupSize(h, m)
      BY <1>1, <3>1, LeftIs
    <3> QED BY <3>2 DEF X
  <2> HIDE DEF d
  <2>6. f \in RbGroups /\ d \in RbGroups /\ f # d
    BY <1>1, <2>3, <2>5
  <2>7. /\ r \in Moves /\ r[f] = m[f] + 1 /\ r[d] = m[d] - 1
        /\ \A g \in RbGroups \ {f, d} : r[g] = m[g]
    BY <1>1, <2>6 DEF Moves
  <2> HIDE DEF r
  <2>8. /\ u \in LoopStates /\ v \in LoopStates
        /\ u.tree = T \ {f} /\ u.moveout = m /\ v.tree = T /\ v.moveout = r
    BY <1>1, <2>7 DEF LoopStates
  <2> HIDE DEF u, v
  <2>9. Ends(t, f, d)
    BY <2>3, <2>5 DEF Ends, T, m
  <2>10. CASE Cardinality(pendings(f)) = m[f]
    <3>1. exchange(t) = u
      BY <1>2, <1>4, <2>10
    <3>2. Leaves(t, u)
      BY <2>3, <2>8, <2>10 DEF Leaves, T, m
    <3> QED BY <2>8, <3>1, <3>2
  <2>11. CASE Cardinality(pendings(f)) # m[f] /\ IsLevel(f, d, m)
    <3>1. exchange(t) = t
      BY <1>2, <1>4, <2>11
    <3>2. LoopEnded(t)
      BY <2>3, <2>5, <2>9, <2>11 DEF LoopEnded, T, m
    <3> QED BY <3>1, <3>2
  <2>12. CASE Cardinality(pendings(f)) # m[f] /\ ~ IsLevel(f, d, m)
    <3>1. exchange(t) = v
      BY <1>2, <1>4, <2>12
    <3>2. GivesTo(t, v, f, d)
      BY <2>7, <2>8, <2>9, <2>12 DEF GivesTo, T, m
    <3>3. Gives(t, v)
      BY <2>3, <2>5, <3>2 DEF Gives, T
    <3> QED BY <2>8, <3>1, <3>3
  <2> QED BY <2>10, <2>11, <2>12
<1> QED BY <1>3, <1>4

Start == [tree |-> groupIds, moveout |-> Docked]
IsLoopRun(f) ==
    f = [n \in 0 .. MaxRounds |-> IF n = 0 THEN [tree |-> groupIds, moveout |-> Docked] ELSE exchange(f[n - 1])]

(* The state in which the second loop begins.                              *)
LEMMA StartIs ==
    ASSUME RbPlaced
    PROVE  /\ Start \in LoopStates /\ Start.tree = RbGroups /\ Start.moveout = Docked
           /\ MaxRounds \in Nat /\ MaxRounds = 2 * Cardinality(RbSlots) + Cardinality(RbGroups)
<1>1. Docked \in Moves
  BY DockedIs DEF MoveOk
<1>2. Start \in LoopStates /\ Start.tree = RbGroups /\ Start.moveout = Docked
  BY <1>1 DEF Start, LoopStates, groupIds
<1>3. MaxRounds = 2 * Cardinality(RbSlots) + Cardinality(RbGroups)
  BY DEF MaxRounds, groupIds
<1> QED BY <1>2, <1>3, BoundsAre

(* The second loop is a run of exchange.                                   *)
LEMMA LoopRunExists ==
    ASSUME RbPlaced
    PROVE  \E f \in [0 .. MaxRounds -> LoopStates] :
              /\ f[0] = Start /\ \A k \in 1 .. MaxRounds : f[k] = exchange(f[k - 1])
              /\ Leveled = f[MaxRounds].moveout
<1> DEFINE n == MaxRounds
           h == [t \in LoopStates |-> exchange(t)]
<1>1. n \in Nat /\ Start \in LoopStates
  BY StartIs
<1>2. h \in [LoopStates -> LoopStates] /\ \A t \in LoopStates : h[t] = exchange(t)
  BY ExchangeIs
<1> HIDE DEF n, h
<1>3. PICK f \in [0 .. n -> LoopStates] : f[0] = Start /\ \A k \in 1 .. n : f[k] = h[f[k - 1]]
  <2>1. \E f : IsRun(f, LoopStates, Start, h, n)
    BY <1>1, <1>2, IterExists
  <2> QED BY <2>1 DEF IsRun
<1>4. \A k \in 1 .. n : k - 1 \in 0 .. n /\ f[k] = exchange(f[k - 1])
  BY <1>1, <1>2, <1>3
<1>5. IsLoopRun(f)
  <2> DEFINE e == [k \in 0 .. n |-> IF k = 0 THEN Start ELSE exchange(f[k - 1])]
  <2>1. \A k \in 0 .. n : k = 0 \/ k \in 1 .. n
    BY <1>1
  <2>2. \A k \in 0 .. n : f[k] = e[k]
    BY <1>3, <1>4, <2>1
  <2>3. f = [k \in 0 .. n |-> f[k]] /\ e = [k \in 0 .. n |-> e[k]]
    OBVIOUS
  <2> HIDE DEF e
  <2>4. f = e
    BY <2>2, <2>3
  <2> QED BY <2>4 DEF e, n, IsLoopRun, Start
<1> DEFINE F == CHOOSE r : IsLoopRun(r)
<1>6. IsLoopRun(F)
  BY <1>5
<1>7. Leveled = F[n].moveout
  BY DEF Leveled, IsLoopRun, n
<1> HIDE DEF F
<1>8. /\ F[0] = Start /\ \A k \in 1 .. n : F[k] = exchange(F[k - 1])
  <2>1. \A k \in 1 .. n : k \in 0 .. n /\ k # 0
    BY <1>1
  <2>2. 0 \in 0 .. n
    BY <1>1
  <2>3. F = [k \in 0 .. n |-> IF k = 0 THEN Start ELSE exchange(F[k - 1])]
    BY <1>6 DEF IsLoopRun, n, Start
  <2> QED BY <2>1, <2>2, <2>3
<1> DEFINE G == {k \in 0 .. n : F[k] = f[k]}
<1>9. 0 \in G
  BY <1>1, <1>3, <1>8
<1>10. ASSUME NEW k \in G, k < n
       PROVE  k + 1 \in G
  <2>1. k + 1 \in 1 .. n /\ k + 1 \in 0 .. n /\ (k + 1) - 1 = k /\ F[k] = f[k]
    BY <1>1, <1>10
  <2> QED BY <1>4, <1>8, <2>1
<1>11. G \in SUBSET (0 .. n)
  OBVIOUS
<1> HIDE DEF G
<1>12. n \in G
  BY <1>1, <1>9, <1>10, <1>11, FiniteInduction
<1>13. F[n] = f[n]
  BY <1>12 DEF G
<1> QED BY <1>3, <1>4, <1>7, <1>13 DEF n

-----------------------------------------------------------------------------
(* What a round keeps: no group gives more than it may, those that left    *)
(* the tree give all they may and are not smaller than those in it, and    *)
(* the sizes add up to all slots that have a place.                        *)
LoopOk(t) ==
    /\ MoveOk(t.moveout)
    /\ \A g \in RbGroups \ t.tree : t.moveout[g] = Cardinality(pendings(g))
    /\ \A h \in RbGroups \ t.tree : \A g \in t.tree : groupSize(g, t.moveout) <= groupSize(h, t.moveout)
    /\ SumOver(Sizes(t.moveout), RbGroups) = SumOver(Sizes(NoMoves), RbGroups) + Cardinality(Offline)

(* What makes the loop end: groups in the tree, and slots beyond the       *)
(* bounds, those beyond the upper one twice.                               *)
Over(x, b) == IF x > b THEN x - b ELSE 0
Excess(m) == [g \in RbGroups |-> Over(groupSize(g, m), lowerBound) + Over(groupSize(g, m), upperBound)]
Rest(t) == Cardinality(t.tree) + SumOver(Excess(t.moveout), RbGroups)

(* What is beyond a bound is no more than all.                             *)
LEMMA OverType ==
    ASSUME NEW x \in Nat, NEW b \in Nat
    PROVE  Over(x, b) \in Nat /\ Over(x, b) <= x
BY DEF Over

(* Excesses are numbers.                                                   *)
LEMMA ExcessIs ==
    ASSUME RbPlaced, NEW m, MoveOk(m)
    PROVE  /\ Numbers(Excess(m), RbGroups)
           /\ \A g \in RbGroups : Excess(m)[g] = Over(groupSize(g, m), lowerBound) + Over(groupSize(g, m), upperBound)
<1>1. \A g \in RbGroups : Excess(m)[g] = Over(groupSize(g, m), lowerBound) + Over(groupSize(g, m), upperBound)
  BY DEF Excess
<1>2. ASSUME NEW g \in RbGroups
      PROVE  Over(groupSize(g, m), lowerBound) + Over(groupSize(g, m), upperBound) \in Nat
  <2>1. groupSize(g, m) \in Nat /\ lowerBound \in Nat /\ upperBound \in Nat
    BY SizesAre, BoundsAre
  <2>2. Over(groupSize(g, m), lowerBound) \in Nat /\ Over(groupSize(g, m), upperBound) \in Nat
    BY <2>1, OverType
  <2> QED BY <2>2
<1> QED BY <1>1, <1>2, RebalanceAssumption DEF Numbers

(* So is what is left to do, and no less than the tree is large.           *)
LEMMA RestType ==
    ASSUME RbPlaced, NEW t \in LoopStates, MoveOk(t.moveout)
    PROVE  IsFiniteSet(t.tree) /\ Cardinality(t.tree) \in Nat /\ Rest(t) \in Nat /\ Rest(t) >= Cardinality(t.tree)
<1>1. t.tree \in SUBSET RbGroups
  BY DEF LoopStates
<1>2. IsFiniteSet(t.tree) /\ Cardinality(t.tree) \in Nat
  BY <1>1, RebalanceAssumption, FS_Subset, FS_CardinalityType
<1>3. SumOver(Excess(t.moveout), RbGroups) \in Nat
  BY ExcessIs, SumType
<1> QED BY <1>2, <1>3 DEF Rest

(* A group leaves the tree.                                                *)
LEMMA LeavesKeeps ==
    ASSUME RbPlaced, NEW t \in LoopStates, NEW u \in LoopStates, LoopOk(t), Leaves(t, u)
    PROVE  LoopOk(u) /\ Rest(u) < Rest(t)
<1>1. PICK f \in t.tree :
        /\ \A h \in t.tree : groupSize(h, t.moveout) <= groupSize(f, t.moveout)
        /\ t.moveout[f] = Cardinality(pendings(f))
        /\ u.tree = t.tree \ {f} /\ u.moveout = t.moveout
  BY DEF Leaves
<1>2. MoveOk(t.moveout) /\ MoveOk(u.moveout)
  BY <1>1 DEF LoopOk
<1>3. \A g \in RbGroups \ u.tree : u.moveout[g] = Cardinality(pendings(g))
  BY <1>1 DEF LoopOk
<1>4. \A h \in RbGroups \ u.tree : \A g \in u.tree : groupSize(g, u.moveout) <= groupSize(h, u.moveout)
  BY <1>1 DEF LoopOk
<1>5. LoopOk(u)
  BY <1>1, <1>2, <1>3, <1>4 DEF LoopOk
<1>6. IsFiniteSet(t.tree) /\ Cardinality(t.tree) \in Nat /\ Rest(t) \in Nat
  BY <1>2, RestType
<1>7. Cardinality(t.tree \ {f}) = Cardinality(t.tree) - 1
  BY <1>6, FS_RemoveElement
<1>8. SumOver(Excess(t.moveout), RbGroups) \in Nat
  BY <1>2, ExcessIs, SumType
<1>9. Cardinality(u.tree) = Cardinality(t.tree) - 1
  BY <1>1, <1>7, Zenon
<1>10. SumOver(Excess(u.moveout), RbGroups) = SumOver(Excess(t.moveout), RbGroups)
  BY <1>1, Zenon
<1>11. Rest(u) < Rest(t)
  BY <1>6, <1>8, <1>9, <1>10 DEF Rest
<1> QED BY <1>5, <1>11

(* A slot given from a group to one with two slots less, with both on the  *)
(* side of the bounds that the loop asks for, is an excess less.           *)
LEMMA OverShrinks ==
    ASSUME NEW l \in Nat, NEW u \in Nat, l <= u, u <= l + 1, NEW x \in Nat, NEW y \in Nat,
           x > l, y < u, x > y + 1
    PROVE  (Over(x - 1, l) + Over(x - 1, u)) + (Over(y + 1, l) + Over(y + 1, u))
             < (Over(x, l) + Over(x, u)) + (Over(y, l) + Over(y, u))
BY DEF Over

(* A group gives a slot to another.                                        *)
LEMMA GivesKeeps ==
    ASSUME RbPlaced, NEW t \in LoopStates, NEW u \in LoopStates, LoopOk(t), Gives(t, u)
    PROVE  LoopOk(u) /\ Rest(u) < Rest(t)
<1>1. PICK f \in t.tree : \E d \in t.tree \ {f} : GivesTo(t, u, f, d)
  BY DEF Gives
<1>2. PICK d \in t.tree \ {f} : GivesTo(t, u, f, d)
  BY <1>1
<1> DEFINE m == t.moveout
           r == u.moveout
<1>3. m \in Moves /\ r \in Moves /\ t.tree \in SUBSET RbGroups /\ f \in RbGroups /\ d \in RbGroups /\ f # d
  BY <1>2 DEF LoopStates
<1>4. /\ r[f] = m[f] + 1 /\ r[d] = m[d] - 1 /\ \A g \in RbGroups \ {f, d} : r[g] = m[g]
      /\ m[f] # Cardinality(pendings(f)) /\ u.tree = t.tree
  BY <1>2 DEF GivesTo
<1>5. \A g \in RbGroups : m[g] \in Int /\ r[g] \in Int /\ Cardinality(pendings(g)) \in Nat
  BY <1>3, SlotsOfGroup DEF Moves
<1>6. MoveOk(m)
  BY DEF LoopOk
<1>7. MoveOk(r)
  <2>1. ASSUME NEW g \in RbGroups
        PROVE  r[g] <= Cardinality(pendings(g))
    <3>1. m[g] <= Cardinality(pendings(g)) /\ m[g] \in Int /\ Cardinality(pendings(g)) \in Nat
      BY <1>5, <1>6 DEF MoveOk
    <3>2. CASE g = f
      BY <1>4, <3>1, <3>2
    <3>3. CASE g = d
      BY <1>4, <3>1, <3>3
    <3>4. CASE g # f /\ g # d
      BY <1>4, <3>1, <3>4
    <3> QED BY <3>2, <3>3, <3>4
  <2> QED BY <1>3, <2>1 DEF MoveOk
<1>8. \A g \in RbGroups : groupSize(g, m) \in Nat /\ groupSize(g, r) \in Nat
  BY <1>6, <1>7, SizesAre
<1>9. /\ groupSize(f, r) = groupSize(f, m) - 1 /\ groupSize(d, r) = groupSize(d, m) + 1
      /\ \A g \in RbGroups \ {f, d} : groupSize(g, r) = groupSize(g, m)
  <2>1. \A g \in RbGroups : Cardinality(Coming(g)) \in Nat /\ Cardinality(There(g)) \in Nat
    BY SlotsOfGroup
  <2>2. \A g \in RbGroups : groupSize(g, r) + r[g] = groupSize(g, m) + m[g]
    BY <1>5, <2>1 DEF groupSize
  <2> QED BY <1>3, <1>4, <1>5, <1>8, <2>2
<1>10. /\ groupSize(f, m) > lowerBound /\ groupSize(d, m) < upperBound
       /\ groupSize(f, m) > groupSize(d, m) + 1
       /\ lowerBound \in Nat /\ upperBound \in Nat /\ lowerBound <= upperBound /\ upperBound <= lowerBound + 1
  <2>1. ~ IsLevel(f, d, m)
    BY <1>2 DEF GivesTo
  <2> QED BY <1>3, <1>8, <2>1, BoundsAre DEF IsLevel
<1>11. \A g \in RbGroups \ u.tree : r[g] = Cardinality(pendings(g))
  BY <1>3, <1>4 DEF LoopOk
<1>12. ASSUME NEW h \in RbGroups \ u.tree, NEW g \in u.tree
       PROVE  groupSize(g, r) <= groupSize(h, r)
  <2>1. h \notin t.tree /\ h # f /\ h # d /\ g \in t.tree /\ g \in RbGroups
    BY <1>2, <1>3, <1>4
  <2>2. groupSize(h, r) = groupSize(h, m) /\ groupSize(g, m) <= groupSize(h, m) /\ groupSize(f, m) <= groupSize(h, m)
    BY <1>9, <2>1 DEF LoopOk
  <2>3. CASE g = f
    BY <1>8, <1>9, <2>1, <2>2, <2>3
  <2>4. CASE g = d
    BY <1>3, <1>8, <1>9, <1>10, <2>1, <2>2, <2>4
  <2>5. CASE g # f /\ g # d
    BY <1>9, <2>1, <2>2, <2>5
  <2> QED BY <2>3, <2>4, <2>5
<1>13. /\ Numbers(Sizes(m), RbGroups) /\ \A g \in RbGroups : Sizes(m)[g] = groupSize(g, m)
       /\ Numbers(Sizes(r), RbGroups) /\ \A g \in RbGroups : Sizes(r)[g] = groupSize(g, r)
       /\ Numbers(Excess(m), RbGroups) /\ Numbers(Excess(r), RbGroups)
       /\ \A g \in RbGroups : Excess(m)[g] = Over(groupSize(g, m), lowerBound) + Over(groupSize(g, m), upperBound)
       /\ \A g \in RbGroups : Excess(r)[g] = Over(groupSize(g, r), lowerBound) + Over(groupSize(g, r), upperBound)
  BY <1>6, <1>7, SizesAre, ExcessIs
<1> DEFINE a == Sizes(m)
           b == Sizes(r)
           x == Excess(m)
           y == Excess(r)
<1> HIDE DEF a, b, x, y, m, r
<1>14. /\ \A g \in RbGroups \ {f, d} : a[g] = b[g]
       /\ \A g \in RbGroups \ {f, d} : x[g] = y[g]
  BY <1>9, <1>13 DEF a, b, x, y
<1>15. SumOver(b, RbGroups) + a[f] + a[d] = SumOver(a, RbGroups) + b[f] + b[d]
  BY <1>3, <1>13, <1>14, SumChanges DEF a, b
<1>16. SumOver(y, RbGroups) + x[f] + x[d] = SumOver(x, RbGroups) + y[f] + y[d]
  BY <1>3, <1>13, <1>14, SumChanges DEF x, y
<1>17. /\ SumOver(a, RbGroups) \in Nat /\ SumOver(b, RbGroups) \in Nat
       /\ SumOver(x, RbGroups) \in Nat /\ SumOver(y, RbGroups) \in Nat
       /\ x[f] \in Nat /\ x[d] \in Nat /\ y[f] \in Nat /\ y[d] \in Nat
  <2>1. x[f] \in Nat /\ x[d] \in Nat /\ y[f] \in Nat /\ y[d] \in Nat
    BY <1>3, <1>13 DEF x, y, Numbers
  <2> QED BY <1>13, <2>1, SumType DEF a, b, x, y
<1>18. SumOver(b, RbGroups) = SumOver(a, RbGroups)
  <2>1. /\ a[f] = groupSize(f, m) /\ b[f] = groupSize(f, m) - 1 /\ a[d] = groupSize(d, m) /\ b[d] = groupSize(d, m) + 1
        /\ groupSize(f, m) \in Nat /\ groupSize(d, m) \in Nat
    BY <1>3, <1>8, <1>9, <1>13 DEF a, b
  <2> QED BY <1>15, <1>17, <2>1
<1>19. y[f] + y[d] < x[f] + x[d]
  <2>1. /\ x[f] = Over(groupSize(f, m), lowerBound) + Over(groupSize(f, m), upperBound)
        /\ y[f] = Over(groupSize(f, m) - 1, lowerBound) + Over(groupSize(f, m) - 1, upperBound)
        /\ x[d] = Over(groupSize(d, m), lowerBound) + Over(groupSize(d, m), upperBound)
        /\ y[d] = Over(groupSize(d, m) + 1, lowerBound) + Over(groupSize(d, m) + 1, upperBound)
    BY <1>3, <1>9, <1>13 DEF x, y
  <2>2. groupSize(f, m) \in Nat /\ groupSize(d, m) \in Nat
    BY <1>3, <1>8
  <2> QED BY <1>10, <2>1, <2>2, OverShrinks
<1>20. SumOver(y, RbGroups) < SumOver(x, RbGroups)
  BY <1>16, <1>17, <1>19
<1>21. Rest(u) < Rest(t)
  <2>1. Cardinality(t.tree) \in Nat
    BY <1>6, RestType DEF m
  <2>2. Cardinality(u.tree) = Cardinality(t.tree)
    BY <1>4
  <2> QED BY <1>17, <1>20, <2>1, <2>2 DEF Rest, x, y, m, r
<1>22. LoopOk(u)
  <2>1. SumOver(Sizes(r), RbGroups) = SumOver(Sizes(m), RbGroups)
    BY <1>18 DEF a, b
  <2> QED BY <1>7, <1>11, <1>12, <2>1 DEF LoopOk, m, r
<1> QED BY <1>21, <1>22

-----------------------------------------------------------------------------
(* The slots of the groups and the offline ones are different slots.       *)
Held == [g \in RbGroups |-> Coming(g) \cup There(g)]

(* The slots of a group are none of another, nor offline.                  *)
LEMMA HeldIs ==
    ASSUME RbPlaced
    PROVE  /\ \A g \in RbGroups : /\ IsFiniteSet(Held[g]) /\ Held[g] \subseteq RbSlots /\ Held[g] \cap Offline = {}
                                  /\ Sizes(NoMoves)[g] = Cardinality(Held[g])
           /\ \A g, h \in RbGroups : g # h => Held[g] \cap Held[h] = {}
           /\ IsFiniteSet(Offline) /\ Cardinality(Offline) \in Nat /\ Offline \subseteq RbSlots
<1>1. \A g \in RbGroups : Held[g] = Coming(g) \cup There(g) /\ g # 0
  BY RebalanceAssumption DEF Held
<1>2. \A s \in RbSlots : rbSlot[s].target # 0 => rbSlot[s].target \in RbGroups
  BY DEF RbPlaced, RbPlace
<1>3. IsFiniteSet(Offline) /\ Cardinality(Offline) \in Nat /\ Offline \subseteq RbSlots
  BY SlotsOfGroup DEF Offline
<1>4. ASSUME NEW g \in RbGroups
      PROVE  /\ IsFiniteSet(Held[g]) /\ Held[g] \subseteq RbSlots /\ Held[g] \cap Offline = {}
             /\ Sizes(NoMoves)[g] = Cardinality(Held[g])
  <2> DEFINE A == Coming(g)
             B == There(g)
  <2>1. /\ IsFiniteSet(A) /\ IsFiniteSet(B) /\ A \subseteq RbSlots /\ B \subseteq RbSlots
        /\ Cardinality(A) \in Nat /\ Cardinality(B) \in Nat
    BY SlotsOfGroup
  <2>2. A \cap B = {} /\ (A \cup B) \cap Offline = {}
    BY <1>1 DEF Coming, There, Offline
  <2> HIDE DEF A, B
  <2>3. IsFiniteSet(A \cup B) /\ Cardinality(A \cup B) = Cardinality(A) + Cardinality(B) - Cardinality(A \cap B)
    BY <2>1, FS_Union
  <2>4. Cardinality(A \cap B) = 0
    BY <2>2, FS_EmptySet
  <2>5. Cardinality(A \cup B) = Cardinality(A) + Cardinality(B)
    BY <2>1, <2>3, <2>4
  <2>6. Sizes(NoMoves)[g] = Cardinality(A) + Cardinality(B)
    <3>1. NoMoves[g] = 0 /\ Sizes(NoMoves)[g] = groupSize(g, NoMoves)
      BY NoMovesAre DEF Sizes
    <3> QED BY <2>1, <3>1 DEF groupSize, A, B
  <2>7. Held[g] = A \cup B
    BY <1>1 DEF A, B
  <2> QED BY <2>1, <2>2, <2>3, <2>5, <2>6, <2>7
<1>5. \A g, h \in RbGroups : g # h => Held[g] \cap Held[h] = {}
  BY <1>1 DEF Coming, There
<1> QED BY <1>3, <1>4, <1>5

(* All of them together are slots.                                         *)
LEMMA SlotsPlaced ==
    ASSUME RbPlaced
    PROVE  /\ SumOver(Sizes(NoMoves), RbGroups) \in Nat
           /\ SumOver(Sizes(NoMoves), RbGroups) + Cardinality(Offline) <= Cardinality(RbSlots)
<1> DEFINE a == Sizes(NoMoves)
           U == UNION {Held[g] : g \in RbGroups}
<1>1. \A g \in RbGroups : /\ IsFiniteSet(Held[g]) /\ Held[g] \subseteq RbSlots /\ Held[g] \cap Offline = {}
                          /\ a[g] = Cardinality(Held[g])
  BY HeldIs
<1>2. /\ \A g, h \in RbGroups : g # h => Held[g] \cap Held[h] = {}
      /\ IsFiniteSet(Offline) /\ Cardinality(Offline) \in Nat /\ Offline \subseteq RbSlots
  BY HeldIs
<1> HIDE DEF a
<1>3. /\ Numbers(a, RbGroups) /\ IsFiniteSet(U) /\ SumOver(a, RbGroups) = Cardinality(U)
  <2>1. IsFiniteSet(RbGroups)
    BY RebalanceAssumption
  <2>2. AddsUpTo(a, RbGroups, Held)
    BY <1>1, <1>2, <2>1, SumOfSets
  <2> QED BY <2>2 DEF AddsUpTo
<1>4. U \cap Offline = {} /\ U \cup Offline \subseteq RbSlots
  BY <1>1, <1>2
<1> HIDE DEF U
<1>5. Cardinality(U \cup Offline) = Cardinality(U) + Cardinality(Offline) - Cardinality(U \cap Offline)
  BY <1>2, <1>3, FS_Union
<1>6. Cardinality(U \cap Offline) = 0 /\ Cardinality(U) \in Nat
  BY <1>3, <1>4, FS_EmptySet, FS_CardinalityType
<1>7. Cardinality(U \cup Offline) <= Cardinality(RbSlots)
  BY <1>4, RebalanceAssumption, FS_Subset
<1> QED BY <1>2, <1>3, <1>5, <1>6, <1>7 DEF a

(* A loop that has ended leaves the groups level.                          *)
Final(m) ==
    \A g, h \in RbGroups :
        groupSize(g, m) > groupSize(h, m) + 1 => groupSize(g, m) <= lowerBound \/ m[g] = Cardinality(pendings(g))

(* From LoopOk, when no round changes anything.                            *)
LEMMA EndedIsFinal ==
    ASSUME RbPlaced, NEW t \in LoopStates, LoopOk(t), LoopEnded(t)
    PROVE  Final(t.moveout)
<1> DEFINE m == t.moveout
<1>1. MoveOk(m) /\ t.tree \in SUBSET RbGroups
  BY DEF LoopOk, LoopStates
<1>2. \A g \in RbGroups : groupSize(g, m) \in Nat
  BY <1>1, SizesAre
<1>3. SUFFICES ASSUME NEW g \in RbGroups, NEW h \in RbGroups, groupSize(g, m) > groupSize(h, m) + 1,
                      groupSize(g, m) > lowerBound, m[g] # Cardinality(pendings(g))
               PROVE  FALSE
  BY <1>2, BoundsAre DEF Final
<1>4. g \in t.tree
  BY <1>3 DEF LoopOk
<1>5. h \in t.tree
  <2>1. SUFFICES ASSUME h \notin t.tree PROVE FALSE
    OBVIOUS
  <2>2. groupSize(g, m) <= groupSize(h, m)
    BY <1>4, <2>1 DEF LoopOk
  <2> QED BY <1>2, <1>3, <2>2
<1>6. g # h
  BY <1>2, <1>3
<1>7. CASE Cardinality(t.tree) < 2
  <2>1. IsFiniteSet(t.tree) /\ Cardinality(t.tree) \in Nat
    BY <1>1, RestType
  <2> DEFINE R == t.tree \ {g}
  <2>2. IsFiniteSet(R) /\ Cardinality(R) = Cardinality(t.tree) - 1 /\ h \in R
    BY <1>4, <1>5, <1>6, <2>1, FS_RemoveElement
  <2> HIDE DEF R
  <2>3. Cardinality(R) # 0 /\ Cardinality(R) \in Nat
    BY <2>2, FS_EmptySet, FS_CardinalityType
  <2> QED BY <1>7, <2>1, <2>2, <2>3
<1>8. ASSUME NEW f \in t.tree, NEW d \in t.tree \ {f}, Ends(t, f, d), IsLevel(f, d, m)
      PROVE  FALSE
  <2>1. /\ \A k \in t.tree : groupSize(k, m) <= groupSize(f, m)
        /\ \A k \in t.tree \ {f} : groupSize(d, m) <= groupSize(k, m)
        /\ f \in RbGroups /\ d \in RbGroups
    BY <1>1, <1>8 DEF Ends
  <2>2. /\ groupSize(f, m) \in Nat /\ groupSize(d, m) \in Nat /\ groupSize(g, m) \in Nat /\ groupSize(h, m) \in Nat
        /\ lowerBound \in Nat /\ upperBound \in Nat
    BY <1>2, <2>1, BoundsAre
  <2>3. h # f
    BY <1>3, <1>4, <2>1, <2>2
  <2>4. groupSize(g, m) <= groupSize(f, m) /\ groupSize(d, m) <= groupSize(h, m)
    BY <1>4, <1>5, <2>1, <2>3
  <2>5. groupSize(d, m) >= upperBound
    BY <1>3, <1>8, <2>2, <2>4 DEF IsLevel
  <2>6. ASSUME NEW k \in RbGroups
        PROVE  Sizes(m)[k] >= upperBound
    <3>1. Sizes(m)[k] = groupSize(k, m) /\ groupSize(k, m) \in Nat
      BY <1>1, SizesAre
    <3>2. CASE k \in t.tree /\ k # f
      BY <2>1, <2>2, <2>5, <3>1, <3>2
    <3>3. CASE k = f
      BY <2>1, <2>2, <2>5, <3>1, <3>3
    <3>4. CASE k \notin t.tree
      <4>1. groupSize(d, m) <= groupSize(k, m)
        BY <3>4 DEF LoopOk
      <4> QED BY <2>2, <2>5, <3>1, <4>1
    <3> QED BY <3>2, <3>3, <3>4
  <2>7. Sizes(m)[g] > upperBound
    <3>1. Sizes(m)[g] = groupSize(g, m)
      BY <1>1, SizesAre
    <3> QED BY <1>3, <2>2, <2>4, <2>5, <3>1
  <2>8. Numbers(Sizes(m), RbGroups)
    BY <1>1, SizesAre
  <2> DEFINE a == Sizes(m)
  <2> HIDE DEF a
  <2>9. SumOver(a, RbGroups) > Cardinality(RbGroups) * upperBound
    BY <2>2, <2>6, <2>7, <2>8, SumExceeds DEF a
  <2>10. SumOver(a, RbGroups) <= Cardinality(RbSlots) /\ SumOver(a, RbGroups) \in Nat
    <3>1. SumOver(a, RbGroups) = SumOver(Sizes(NoMoves), RbGroups) + Cardinality(Offline)
      BY DEF LoopOk, a
    <3>2. SumOver(a, RbGroups) \in Nat
      BY <2>8, SumType DEF a
    <3> QED BY <3>1, <3>2, SlotsPlaced
  <2>11. Cardinality(RbSlots) <= Cardinality(RbGroups) * upperBound /\ Cardinality(RbGroups) * upperBound \in Nat
         /\ Cardinality(RbSlots) \in Nat
    BY BoundsAre
  <2> HIDE DEF m
  <2> QED BY <2>9, <2>10, <2>11
<1> QED BY <1>7, <1>8 DEF LoopEnded

(* The loop begins as it should, with no more to do than MaxRounds.        *)
LEMMA StartOk ==
    ASSUME RbPlaced
    PROVE  LoopOk(Start) /\ Rest(Start) <= MaxRounds
<1>1. /\ Start \in LoopStates /\ Start.tree = RbGroups /\ Start.moveout = Docked
      /\ MaxRounds \in Nat /\ MaxRounds = 2 * Cardinality(RbSlots) + Cardinality(RbGroups)
  BY StartIs
<1>2. LoopOk(Start)
  BY <1>1, DockedIs DEF LoopOk
<1>3. MoveOk(Docked)
  BY DockedIs
<1> DEFINE a == Sizes(Docked)
           x == Excess(Docked)
<1>4. /\ Numbers(a, RbGroups) /\ Numbers(x, RbGroups)
      /\ \A g \in RbGroups : a[g] = groupSize(g, Docked) /\ groupSize(g, Docked) \in Nat
      /\ \A g \in RbGroups : x[g] = Over(groupSize(g, Docked), lowerBound) + Over(groupSize(g, Docked), upperBound)
  BY <1>3, SizesAre, ExcessIs
<1>5. SumOver(a, RbGroups) = SumOver(Sizes(NoMoves), RbGroups) + Cardinality(Offline)
  BY DockedIs
<1> HIDE DEF a, x
<1>6. SumOver(a, RbGroups) <= Cardinality(RbSlots) /\ SumOver(a, RbGroups) \in Nat
  BY <1>4, <1>5, SlotsPlaced, SumType
<1> DEFINE b == [g \in RbGroups |-> a[g] + a[g]]
           z == [g \in RbGroups |-> 0]
<1>7. /\ Numbers(b, RbGroups) /\ Numbers(z, RbGroups)
      /\ \A g \in RbGroups : a[g] + a[g] = b[g] + z[g]
      /\ \A g \in RbGroups : z[g] = 0
  BY <1>4, RebalanceAssumption DEF Numbers
<1> HIDE DEF b, z
<1>8. SumOver(a, RbGroups) + SumOver(a, RbGroups) = SumOver(b, RbGroups) + SumOver(z, RbGroups)
  BY <1>4, <1>7, SumsAddUp
<1>9. ASSUME NEW g \in RbGroups
      PROVE  x[g] \in Nat /\ x[g] <= b[g]
  <2>1. /\ a[g] \in Nat /\ lowerBound \in Nat /\ upperBound \in Nat
        /\ x[g] = Over(a[g], lowerBound) + Over(a[g], upperBound) /\ b[g] \in Nat
    BY <1>4, <1>7, BoundsAre DEF Numbers
  <2>2. /\ Over(a[g], lowerBound) \in Nat /\ Over(a[g], lowerBound) <= a[g]
        /\ Over(a[g], upperBound) \in Nat /\ Over(a[g], upperBound) <= a[g]
    BY <2>1, OverType
  <2>3. a[g] + a[g] = b[g]
    BY <1>7, <2>1
  <2> QED BY <2>1, <2>2, <2>3
<1>10. SumOver(x, RbGroups) <= SumOver(b, RbGroups)
  BY <1>7, <1>9, SumGrowsWith
<1>11. SumOver(x, RbGroups) \in Nat /\ SumOver(b, RbGroups) \in Nat /\ SumOver(z, RbGroups) \in Nat
  BY <1>4, <1>7, SumType
<1>12. SumOver(x, RbGroups) <= 2 * Cardinality(RbSlots)
  BY <1>6, <1>8, <1>10, <1>11, BoundsAre
<1>13. Rest(Start) = Cardinality(RbGroups) + SumOver(x, RbGroups)
  BY <1>1 DEF Rest, x
<1> QED BY <1>1, <1>2, <1>11, <1>12, <1>13, BoundsAre

(* The loop has ended after MaxRounds, and what it leaves.                 *)
LEMMA LeveledIs ==
    ASSUME RbPlaced
    PROVE  /\ MoveOk(Leveled) /\ Final(Leveled)
           /\ SumOver(Sizes(Leveled), RbGroups) = SumOver(Sizes(NoMoves), RbGroups) + Cardinality(Offline)
<1> DEFINE n == MaxRounds
<1>1. n \in Nat /\ Start \in LoopStates
  BY StartIs
<1>2. PICK f \in [0 .. n -> LoopStates] :
              /\ f[0] = Start /\ \A k \in 1 .. n : f[k] = exchange(f[k - 1])
              /\ Leveled = f[n].moveout
  BY LoopRunExists
<1> DEFINE Fixed(t) == LoopEnded(t) /\ exchange(t) = t
           Good(k) == LoopOk(f[k]) /\ (Fixed(f[k]) \/ Rest(f[k]) + k <= n)
           G == {k \in 0 .. n : Good(k)}
<1>3. LoopOk(Start) /\ Rest(Start) <= n /\ Rest(Start) \in Nat
  <2>1. LoopOk(Start) /\ Rest(Start) <= n
    BY StartOk
  <2> QED BY <1>1, <2>1, RestType DEF LoopOk
<1> HIDE DEF n
<1>4. 0 \in G
  BY <1>1, <1>2, <1>3
<1>5. ASSUME NEW k \in G, k < n
      PROVE  k + 1 \in G
  <2>1. k + 1 \in 1 .. n /\ k + 1 \in 0 .. n /\ k \in 0 .. n /\ (k + 1) - 1 = k /\ Good(k)
    BY <1>1, <1>5
  <2> DEFINE t == f[k]
             u == f[k + 1]
  <2>2. t \in LoopStates /\ u \in LoopStates /\ u = exchange(t)
    BY <1>2, <2>1
  <2>3. LoopOk(t) /\ (Fixed(t) \/ Rest(t) + k <= n)
    BY <2>1
  <2> HIDE DEF t, u
  <2>4. Fixed(t) \/ Leaves(t, u) \/ Gives(t, u)
    BY <2>2, ExchangeIs
  <2>5. CASE Fixed(t)
    <3>1. LoopOk(u) /\ Fixed(u)
      BY <2>2, <2>3, <2>5
    <3> QED BY <2>1, <3>1 DEF u
  <2>6. CASE ~ Fixed(t)
    <3>1. LoopOk(u) /\ Rest(u) < Rest(t)
      BY <2>2, <2>3, <2>4, <2>6, LeavesKeeps, GivesKeeps
    <3>2. Rest(u) \in Nat /\ Rest(t) \in Nat
      BY <2>2, <2>3, <3>1, RestType DEF LoopOk
    <3>3. Rest(u) + (k + 1) <= n
      BY <1>1, <2>1, <2>3, <2>6, <3>1, <3>2
    <3> QED BY <2>1, <3>1, <3>3 DEF u
  <2> QED BY <2>5, <2>6
<1>6. G \in SUBSET (0 .. n)
  OBVIOUS
<1> HIDE DEF G
<1>7. n \in G
  BY <1>1, <1>4, <1>5, <1>6, FiniteInduction
<1>8. Good(n)
  BY <1>7 DEF G
<1>9. f[n] \in LoopStates
  BY <1>1, <1>2
<1>10. LoopEnded(f[n])
  <2>1. CASE Rest(f[n]) + n <= n
    <3>1. /\ Cardinality(f[n].tree) \in Nat /\ Rest(f[n]) \in Nat /\ Rest(f[n]) >= Cardinality(f[n].tree)
      BY <1>8, <1>9, RestType DEF LoopOk
    <3>2. Cardinality(f[n].tree) < 2
      BY <1>1, <2>1, <3>1
    <3> QED BY <3>2 DEF LoopEnded
  <2> QED BY <1>8, <2>1
<1>11. Final(f[n].moveout)
  BY <1>8, <1>9, <1>10, EndedIsFinal
<1> QED BY <1>2, <1>8, <1>11 DEF LoopOk

-----------------------------------------------------------------------------
(* The slots in their order, and in the reverse one.                       *)
Asc  == {p \in RbSlots \X RbSlots : p[1] < p[2]}
Desc == {p \in RbSlots \X RbSlots : p[1] > p[2]}

(* Both are orders, and places in them are what the plan counts.           *)
LEMMA SlotOrders ==
    ASSUME NEW D \in SUBSET RbSlots
    PROVE  /\ IsFiniteSet(D) /\ StrictOrder(Asc, D) /\ StrictOrder(Desc, D)
           /\ \A s \in D : Place(s, D) = PlaceIn(s, D, Asc)
           /\ \A s \in D : Cardinality({t \in D : t >= s}) = PlaceIn(s, D, Desc)
<1>1. \A s \in D : s \in Nat /\ s \in RbSlots
  BY RebalanceAssumption
<1>2. \A s, t \in D : (<<s, t>> \in Asc <=> s < t) /\ (<<s, t>> \in Desc <=> s > t)
  BY <1>1 DEF Asc, Desc
<1>3. StrictOrder(Asc, D) /\ StrictOrder(Desc, D)
  BY <1>1, <1>2 DEF StrictOrder
<1>4. \A s \in D : {t \in D : t <= s} = {t \in D : t = s \/ <<t, s>> \in Asc}
  BY <1>1, <1>2
<1>5. \A s \in D : {t \in D : t >= s} = {t \in D : t = s \/ <<t, s>> \in Desc}
  BY <1>1, <1>2
<1>6. IsFiniteSet(D)
  BY RebalanceAssumption, FS_Subset
<1> QED BY <1>3, <1>4, <1>5, <1>6 DEF Place, PlaceIn

(* A place is a number from 1 to the size of the set.                      *)
LEMMA PlaceRange ==
    ASSUME NEW D, IsFiniteSet(D), NEW R, StrictOrder(R, D), NEW s \in D
    PROVE  PlaceIn(s, D, R) \in 1 .. Cardinality(D) /\ Cardinality(D) \in Nat
<1> DEFINE f == [x \in D |-> PlaceIn(x, D, R)]
<1>1. Cardinality(D) \in Nat /\ f \in Bijection(D, 1 .. Cardinality(D))
  BY PlacesFill
<1>2. f[s] = PlaceIn(s, D, R)
  OBVIOUS
<1> HIDE DEF f
<1>3. f[s] \in 1 .. Cardinality(D)
  BY <1>1 DEF Bijection, Injection
<1> QED BY <1>1, <1>2, <1>3

(* What a group gives: as many of its last pending slots as it has to.     *)
Giving(m) == [g \in RbGroups |-> IF m[g] > 0 THEN m[g] ELSE 0]

(* No slot if it has to give none, all that are pending if as many.        *)
LEMMA GivenIs ==
    ASSUME RbPlaced, NEW m, MoveOk(m), NEW g \in RbGroups
    PROVE  /\ Given(g, m) \subseteq pendings(g) /\ IsFiniteSet(Given(g, m))
           /\ Cardinality(Given(g, m)) = Giving(m)[g] /\ Giving(m)[g] \in Nat
           /\ m[g] <= 0 => Given(g, m) = {}
           /\ m[g] = Cardinality(pendings(g)) => Given(g, m) = pendings(g)
<1> DEFINE D == pendings(g)
           b == IF m[g] > 0 THEN m[g] ELSE 0
<1>1. D \subseteq RbSlots /\ IsFiniteSet(D) /\ Cardinality(D) \in Nat
  BY SlotsOfGroup
<1>2. m[g] \in Int /\ m[g] <= Cardinality(D)
  BY DEF MoveOk, Moves
<1>3. b \in Nat /\ 0 <= b /\ b <= Cardinality(D)
  BY <1>1, <1>2
<1>4. Given(g, m) = {s \in D : PlaceIn(s, D, Desc) <= m[g]}
  BY <1>1, SlotOrders DEF Given
<1>5. \A s \in D : PlaceIn(s, D, Desc) \in 1 .. Cardinality(D)
  BY <1>1, SlotOrders, PlaceRange
<1>6. Given(g, m) = {s \in D : PlaceIn(s, D, Desc) > 0 /\ PlaceIn(s, D, Desc) <= b}
  BY <1>1, <1>2, <1>4, <1>5
<1>7. Giving(m)[g] = b
  BY DEF Giving
<1> HIDE DEF D, b
<1>8. Cardinality({s \in D : PlaceIn(s, D, Desc) > 0 /\ PlaceIn(s, D, Desc) <= b}) = b - 0
  BY <1>1, <1>3, SlotOrders, PlacesCount
<1>9. Cardinality(Given(g, m)) = b
  BY <1>3, <1>6, <1>8
<1>10. Given(g, m) \subseteq D
  BY <1>4
<1>11. IsFiniteSet(Given(g, m))
  BY <1>1, <1>10, FS_Subset
<1>12. m[g] <= 0 => Given(g, m) = {}
  BY <1>1, <1>2, <1>4, <1>5
<1>13. m[g] = Cardinality(D) => Given(g, m) = D
  BY <1>1, <1>4, <1>5
<1> QED BY <1>3, <1>7, <1>9, <1>10, <1>11, <1>12, <1>13 DEF D

(* The slots that move are as many as the groups take.                     *)
Taking(m) == [g \in groupIds |-> Taken(g, m)]

(* A number of moves is what is given less what is taken.                  *)
LEMMA TakingIs ==
    ASSUME RbPlaced, NEW m, MoveOk(m)
    PROVE  /\ Numbers(Taking(m), RbGroups)
           /\ \A g \in RbGroups : /\ Taking(m)[g] = Taken(g, m) /\ Taken(g, m) \in Nat
                                  /\ Taken(g, m) > 0 <=> m[g] < 0
                                  /\ m[g] = Giving(m)[g] - Taken(g, m)
<1>1. \A g \in RbGroups : m[g] \in Int
  BY DEF MoveOk, Moves
<1>2. \A g \in RbGroups : Taking(m)[g] = Taken(g, m) /\ Giving(m)[g] = IF m[g] > 0 THEN m[g] ELSE 0
  BY DEF Taking, Giving, groupIds
<1>3. \A g \in RbGroups : /\ Taken(g, m) \in Nat
                          /\ Taken(g, m) > 0 <=> m[g] < 0
                          /\ m[g] = Giving(m)[g] - Taken(g, m)
  BY <1>1, <1>2 DEF Taken
<1> QED BY <1>2, <1>3, RebalanceAssumption DEF Numbers

SumsUp(m) == SumOver(Sizes(m), RbGroups) = SumOver(Sizes(NoMoves), RbGroups) + Cardinality(Offline)

(* As many slots are docked as all groups take together.                   *)
LEMMA DockingIs ==
    ASSUME RbPlaced, NEW m, MoveOk(m), SumsUp(m)
    PROVE  /\ docking(m) \subseteq RbSlots /\ IsFiniteSet(docking(m))
           /\ Cardinality(docking(m)) = SumOver(Taking(m), RbGroups)
<1> DEFINE X == [g \in RbGroups |-> Given(g, m)]
           U == UNION {X[g] : g \in RbGroups}
           a == Giving(m)
<1>1. \A g \in RbGroups : X[g] = Given(g, m)
  OBVIOUS
<1>2. \A g \in RbGroups : IsFiniteSet(X[g]) /\ a[g] = Cardinality(X[g]) /\ X[g] \subseteq Held[g]
  <2>1. TAKE g \in RbGroups
  <2>2. Given(g, m) \subseteq pendings(g) /\ IsFiniteSet(Given(g, m)) /\ Cardinality(Given(g, m)) = a[g]
    BY GivenIs
  <2>3. pendings(g) \subseteq Held[g]
    BY SlotsOfGroup DEF Held
  <2> QED BY <1>1, <2>2, <2>3
<1>3. docking(m) = Offline \cup U
  BY <1>1 DEF docking, groupIds
<1> HIDE DEF X, a
<1>4. /\ \A g, h \in RbGroups : g # h => Held[g] \cap Held[h] = {}
      /\ \A g \in RbGroups : Held[g] \subseteq RbSlots /\ Held[g] \cap Offline = {}
      /\ IsFiniteSet(Offline) /\ Cardinality(Offline) \in Nat /\ Offline \subseteq RbSlots
  BY HeldIs
<1>5. \A g, h \in RbGroups : g # h => X[g] \cap X[h] = {}
  BY <1>2, <1>4
<1>6. Numbers(a, RbGroups) /\ IsFiniteSet(U) /\ SumOver(a, RbGroups) = Cardinality(U)
  <2>1. IsFiniteSet(RbGroups)
    BY RebalanceAssumption
  <2>2. AddsUpTo(a, RbGroups, X)
    BY <1>2, <1>5, <2>1, SumOfSets
  <2> QED BY <2>2 DEF AddsUpTo
<1>7. U \cap Offline = {} /\ U \subseteq RbSlots
  BY <1>2, <1>4
<1> HIDE DEF U
<1>8. docking(m) \subseteq RbSlots
  BY <1>3, <1>4, <1>7
<1>9. IsFiniteSet(Offline \cup U)
      /\ Cardinality(Offline \cup U) = Cardinality(Offline) + Cardinality(U) - Cardinality(Offline \cap U)
  BY <1>4, <1>6, FS_Union
<1>10. Cardinality(Offline \cap U) = 0 /\ Cardinality(U) \in Nat
  BY <1>6, <1>7, FS_EmptySet, FS_CardinalityType
<1>11. Cardinality(docking(m)) = Cardinality(Offline) + SumOver(a, RbGroups) /\ IsFiniteSet(docking(m))
  BY <1>3, <1>4, <1>6, <1>9, <1>10
<1> DEFINE c == Sizes(m)
           d == Sizes(NoMoves)
           b == Taking(m)
<1>12. /\ Numbers(c, RbGroups) /\ Numbers(d, RbGroups) /\ Numbers(b, RbGroups)
  BY NoMovesAre, SizesAre, TakingIs
<1>13. ASSUME NEW g \in RbGroups
       PROVE  c[g] + a[g] = d[g] + b[g]
  <2>1. /\ Cardinality(Coming(g)) \in Nat /\ Cardinality(There(g)) \in Nat
        /\ c[g] = Cardinality(Coming(g)) + Cardinality(There(g)) - m[g]
        /\ d[g] = Cardinality(Coming(g)) + Cardinality(There(g)) - 0
    BY SlotsOfGroup, NoMovesAre DEF Sizes, groupSize
  <2>2. m[g] = a[g] - b[g]
    BY TakingIs DEF a
  <2>3. a[g] \in Nat /\ b[g] \in Nat
    BY <1>6, <1>12 DEF Numbers
  <2> QED BY <2>1, <2>2, <2>3
<1> HIDE DEF b, c, d
<1>14. SumOver(c, RbGroups) + SumOver(a, RbGroups) = SumOver(d, RbGroups) + SumOver(b, RbGroups)
  BY <1>6, <1>12, <1>13, SumsAddUp
<1>15. SumOver(c, RbGroups) = SumOver(d, RbGroups) + Cardinality(Offline)
  BY DEF SumsUp, c, d
<1>16. /\ SumOver(a, RbGroups) \in Nat /\ SumOver(b, RbGroups) \in Nat
       /\ SumOver(c, RbGroups) \in Nat /\ SumOver(d, RbGroups) \in Nat
  BY <1>6, <1>12, SumType
<1>17. Cardinality(Offline) + SumOver(a, RbGroups) = SumOver(b, RbGroups)
  BY <1>4, <1>14, <1>15, <1>16
<1> QED BY <1>8, <1>11, <1>17 DEF b

-----------------------------------------------------------------------------
(* What the groups before a group take, and where its own slots end.       *)
Below(g) == {h \in RbGroups : h < g}
TakenBefore(g, m) == SumOver(Taking(m), Below(g))

(* The shares of the groups follow one another.                            *)
LEMMA UpToIs ==
    ASSUME RbPlaced, NEW m, MoveOk(m), NEW g \in RbGroups
    PROVE  /\ UpTo(g, m) \in Nat /\ TakenBefore(g, m) \in Nat /\ Taken(g, m) \in Nat
           /\ UpTo(g, m) = Taken(g, m) + TakenBefore(g, m)
           /\ UpTo(g, m) <= SumOver(Taking(m), RbGroups)
           /\ \A h \in RbGroups : g < h => UpTo(g, m) <= TakenBefore(h, m)
<1> DEFINE a == Taking(m)
           E == {h \in RbGroups : h <= g}
<1>1. \A h \in RbGroups : h \in Nat
  BY RebalanceAssumption
<1>2. Numbers(a, RbGroups) /\ a[g] = Taken(g, m) /\ Taken(g, m) \in Nat
  BY TakingIs
<1>3. UpTo(g, m) = SumOver(a, E)
  BY DEF UpTo, Taking, groupIds
<1> HIDE DEF a
<1>4. g \in E /\ E \subseteq RbGroups /\ E \ {g} = Below(g)
  BY <1>1 DEF Below
<1>5. ASSUME NEW h \in RbGroups, g < h
      PROVE  E \subseteq Below(h) /\ Below(h) \subseteq RbGroups
  BY <1>1, <1>5 DEF Below
<1> HIDE DEF E
<1>6. \A S \in SUBSET RbGroups : Numbers(a, S) /\ SumOver(a, S) \in Nat
  <2>1. TAKE S \in SUBSET RbGroups
  <2>2. IsFiniteSet(S)
    BY RebalanceAssumption, FS_Subset
  <2>3. Numbers(a, S)
    BY <1>2, <2>2 DEF Numbers
  <2> QED BY <2>3, SumType
<1>7. Numbers(a, E)
  BY <1>4, <1>6
<1>8. SumOver(a, E) = a[g] + SumOver(a, E \ {g})
  BY <1>4, <1>7, SumTakeOut
<1>9. SumOver(a, E \ {g}) = SumOver(a, Below(g))
  BY <1>4, Zenon
<1>10. SumOver(a, E) \in Nat /\ SumOver(a, Below(g)) \in Nat
  BY <1>4, <1>6 DEF Below
<1>11. \A S \in SUBSET RbGroups : \A R \in SUBSET S : SumOver(a, R) <= SumOver(a, S)
  <2>1. TAKE S \in SUBSET RbGroups
  <2> TAKE R \in SUBSET S
  <2>2. Numbers(a, S)
    BY <1>6
  <2>3. \A x \in R : a[x] \in Nat /\ a[x] <= a[x]
    BY <2>2 DEF Numbers
  <2> QED BY <2>2, <2>3, SumGrowsWith
<1>12. SumOver(a, E) <= SumOver(a, RbGroups)
  BY <1>4, <1>11
<1>13. \A h \in RbGroups : g < h => SumOver(a, E) <= SumOver(a, Below(h))
  BY <1>5, <1>11
<1> QED BY <1>2, <1>3, <1>8, <1>9, <1>10, <1>12, <1>13 DEF TakenBefore, a

(* The groups in their order have a last one, before any other too.        *)
LEMMA LastGroup ==
    ASSUME NEW T \in SUBSET RbGroups, T # {}
    PROVE  /\ \E g \in T : \A h \in T : h <= g
           /\ \E g \in T : \A h \in T : g <= h
<1> DEFINE R == {p \in T \X T : p[1] < p[2]}
           Q == {p \in T \X T : p[1] > p[2]}
<1>1. \A h \in T : h \in Nat
  BY RebalanceAssumption
<1>2. \A g, h \in T : (<<g, h>> \in R <=> g < h) /\ (<<g, h>> \in Q <=> g > h)
  OBVIOUS
<1> HIDE DEF R, Q
<1>3. StrictOrder(R, T) /\ StrictOrder(Q, T)
  BY <1>1, <1>2 DEF StrictOrder
<1>4. IsFiniteSet(T)
  BY RebalanceAssumption, FS_Subset
<1>5. \E g \in T : \A h \in T \ {g} : <<g, h>> \in R
  BY <1>3, <1>4, FirstExists
<1>6. \E g \in T : \A h \in T \ {g} : <<g, h>> \in Q
  BY <1>3, <1>4, FirstExists
<1>7. \E g \in T : \A h \in T : g <= h
  <2>1. PICK g \in T : \A h \in T \ {g} : <<g, h>> \in R
    BY <1>5
  <2>2. ASSUME NEW h \in T
        PROVE  g <= h
    <3>1. CASE h = g
      BY <1>1, <3>1
    <3>2. CASE h # g
      <4>1. <<g, h>> \in R
        BY <2>1, <3>2
      <4> QED BY <1>1, <1>2, <4>1
    <3> QED BY <3>1, <3>2
  <2> QED BY <2>2
<1>8. \E g \in T : \A h \in T : h <= g
  <2>1. PICK g \in T : \A h \in T \ {g} : <<g, h>> \in Q
    BY <1>6
  <2>2. ASSUME NEW h \in T
        PROVE  h <= g
    <3>1. CASE h = g
      BY <1>1, <3>1
    <3>2. CASE h # g
      <4>1. <<g, h>> \in Q
        BY <2>1, <3>2
      <4> QED BY <1>1, <1>2, <4>1
    <3> QED BY <3>1, <3>2
  <2> QED BY <2>2
<1> QED BY <1>7, <1>8

(* Every place is in the share of one group.                               *)
InShare(p, g, m) == p <= UpTo(g, m) /\ p > TakenBefore(g, m)

(* There is one,                                                           *)
LEMMA ShareExists ==
    ASSUME RbPlaced, NEW m, MoveOk(m), NEW p \in 1 .. SumOver(Taking(m), RbGroups)
    PROVE  \E g \in RbGroups : InShare(p, g, m)
<1> DEFINE a == Taking(m)
           T == {g \in RbGroups : p <= UpTo(g, m)}
<1>1. \A h \in RbGroups : h \in Nat
  BY RebalanceAssumption
<1>2. p \in Nat /\ p >= 1 /\ SumOver(a, RbGroups) \in Nat /\ p <= SumOver(a, RbGroups)
  <2>1. SumOver(a, RbGroups) \in Nat
    BY TakingIs, SumType
  <2> QED BY <2>1
<1>3. T # {}
  <2>1. PICK g \in RbGroups : \A h \in RbGroups : h <= g
    BY LastGroup, RebalanceAssumption
  <2>2. {h \in groupIds : h <= g} = RbGroups
    BY <2>1 DEF groupIds
  <2>3. UpTo(g, m) = SumOver(a, RbGroups)
    BY <2>2, Zenon DEF UpTo, Taking
  <2> QED BY <1>2, <2>3
<1>4. PICK g \in T : \A h \in T : g <= h
  <2>1. T \in SUBSET RbGroups
    OBVIOUS
  <2> HIDE DEF T
  <2> QED BY <1>3, <2>1, LastGroup
<1>5. g \in RbGroups /\ p <= UpTo(g, m) /\ UpTo(g, m) \in Nat /\ TakenBefore(g, m) \in Nat
  BY <1>4, UpToIs
<1>6. CASE Below(g) = {}
  <2>1. SumOver(a, {}) = 0
    BY SumOfNone
  <2>2. TakenBefore(g, m) = 0
    BY <1>6, <2>1, Zenon DEF TakenBefore
  <2> QED BY <1>2, <1>5, <2>2 DEF InShare
<1>7. CASE Below(g) # {}
  <2>1. Below(g) \in SUBSET RbGroups
    BY DEF Below
  <2>2. PICK k \in Below(g) : \A h \in Below(g) : h <= k
    BY <1>7, <2>1, LastGroup
  <2>3. k \in RbGroups /\ k < g /\ k \notin T
    BY <1>1, <1>4, <1>5, <2>2 DEF Below
  <2>4. {h \in groupIds : h <= k} = Below(g)
    BY <1>1, <1>5, <2>2, <2>3 DEF Below, groupIds
  <2>5. UpTo(k, m) = TakenBefore(g, m)
    BY <2>4, Zenon DEF UpTo, Taking, TakenBefore
  <2>6. ~ (p <= UpTo(k, m))
    BY <2>3
  <2> QED BY <1>2, <1>5, <2>5, <2>6 DEF InShare
<1> QED BY <1>6, <1>7

(* and only one.                                                           *)
LEMMA ShareUnique ==
    ASSUME RbPlaced, NEW m, MoveOk(m), NEW p \in Nat, NEW g \in RbGroups, NEW h \in RbGroups,
           InShare(p, g, m), InShare(p, h, m)
    PROVE  g = h
<1>1. g \in Nat /\ h \in Nat
  BY RebalanceAssumption
<1>2. /\ UpTo(g, m) \in Nat /\ TakenBefore(g, m) \in Nat /\ (g < h => UpTo(g, m) <= TakenBefore(h, m))
      /\ UpTo(h, m) \in Nat /\ TakenBefore(h, m) \in Nat /\ (h < g => UpTo(h, m) <= TakenBefore(g, m))
  BY UpToIs
<1>3. ~ (g < h) /\ ~ (h < g)
  BY <1>2 DEF InShare
<1> QED BY <1>1, <1>3

(* The plan: every slot that moves goes to one group that takes, and every *)
(* group gets as many as it takes.                                         *)
LEMMA PlanIs ==
    ASSUME RbPlaced, NEW m, MoveOk(m), SumsUp(m)
    PROVE  /\ DOMAIN PlanFor(m) = docking(m)
           /\ \A s \in docking(m) : PlanFor(m)[s] \in RbGroups /\ m[PlanFor(m)[s]] < 0
           /\ \A g \in RbGroups : Cardinality({s \in docking(m) : PlanFor(m)[s] = g}) = Taken(g, m)
<1> DEFINE D == docking(m)
           P == PlanFor(m)
<1>1. D \subseteq RbSlots /\ IsFiniteSet(D) /\ Cardinality(D) = SumOver(Taking(m), RbGroups)
  BY DockingIs
<1>2. /\ StrictOrder(Asc, D) /\ \A s \in D : Place(s, D) = PlaceIn(s, D, Asc)
  BY <1>1, SlotOrders
<1>3. \A s \in D : Place(s, D) \in 1 .. Cardinality(D) /\ Cardinality(D) \in Nat
  BY <1>1, <1>2, PlaceRange
<1>4. DOMAIN P = D
  BY DEF PlanFor
<1>5. \A s \in D : P[s] = CHOOSE g \in RbGroups : Place(s, D) <= UpTo(g, m) /\ Place(s, D) > UpTo(g, m) - Taken(g, m)
  BY DEF PlanFor, groupIds
<1> HIDE DEF D, P
<1>6. \A g \in RbGroups : UpTo(g, m) - Taken(g, m) = TakenBefore(g, m)
  <2>1. TAKE g \in RbGroups
  <2>2. /\ UpTo(g, m) \in Nat /\ TakenBefore(g, m) \in Nat /\ Taken(g, m) \in Nat
        /\ UpTo(g, m) = Taken(g, m) + TakenBefore(g, m)
    BY UpToIs
  <2> QED BY <2>2
<1>7. ASSUME NEW s \in D
      PROVE  P[s] \in RbGroups /\ InShare(Place(s, D), P[s], m) /\ Place(s, D) \in Nat
  <2>1. Place(s, D) \in 1 .. SumOver(Taking(m), RbGroups) /\ Place(s, D) \in Nat
    BY <1>1, <1>3
  <2>2. \E g \in RbGroups : InShare(Place(s, D), g, m)
    BY <2>1, ShareExists
  <2>3. \E g \in RbGroups : Place(s, D) <= UpTo(g, m) /\ Place(s, D) > UpTo(g, m) - Taken(g, m)
    BY <1>6, <2>2 DEF InShare
  <2>4. /\ P[s] \in RbGroups
        /\ Place(s, D) <= UpTo(P[s], m) /\ Place(s, D) > UpTo(P[s], m) - Taken(P[s], m)
    BY <1>5, <2>3
  <2> QED BY <1>6, <2>1, <2>4 DEF InShare
<1>8. ASSUME NEW s \in D
      PROVE  m[P[s]] < 0
  <2> DEFINE g == P[s]
  <2>1. g \in RbGroups /\ InShare(Place(s, D), g, m) /\ Place(s, D) \in Nat
    BY <1>7
  <2> HIDE DEF g
  <2>2. /\ UpTo(g, m) \in Nat /\ TakenBefore(g, m) \in Nat /\ Taken(g, m) \in Nat
        /\ UpTo(g, m) = Taken(g, m) + TakenBefore(g, m)
    BY <2>1, UpToIs
  <2>3. Taken(g, m) > 0
    BY <2>1, <2>2 DEF InShare
  <2>4. m[g] < 0
    BY <2>1, <2>3, TakingIs
  <2> QED BY <2>4 DEF g
<1>9. ASSUME NEW g \in RbGroups
      PROVE  Cardinality({s \in D : P[s] = g}) = Taken(g, m)
  <2> DEFINE a == TakenBefore(g, m)
             b == UpTo(g, m)
  <2>1. /\ b \in Nat /\ a \in Nat /\ Taken(g, m) \in Nat /\ b = Taken(g, m) + a
        /\ b <= SumOver(Taking(m), RbGroups)
    BY UpToIs
  <2>2. \A s \in D : P[s] = g <=> InShare(Place(s, D), g, m)
    BY <1>7, ShareUnique
  <2>3. {s \in D : P[s] = g} = {s \in D : PlaceIn(s, D, Asc) > a /\ PlaceIn(s, D, Asc) <= b}
    BY <1>2, <2>2 DEF InShare
  <2> HIDE DEF a, b
  <2>4. a <= b /\ b <= Cardinality(D)
    BY <1>1, <2>1
  <2>5. Cardinality({s \in D : PlaceIn(s, D, Asc) > a /\ PlaceIn(s, D, Asc) <= b}) = b - a
    BY <1>1, <1>2, <2>1, <2>4, PlacesCount
  <2>6. b - a = Taken(g, m)
    BY <2>1
  <2> QED BY <2>3, <2>5, <2>6
<1> QED BY <1>4, <1>7, <1>8, <1>9 DEF D, P

-----------------------------------------------------------------------------
(* What a plan does to the groups.                                         *)
GoalIn(s, D, P) ==
    IF s \in D THEN P[s] ELSE IF rbSlot[s].target # 0 THEN rbSlot[s].target ELSE rbSlot[s].group

(* Where a slot will be, for the plan that is being stored.                *)
LEMMA GoalIs ==
    ASSUME \A s \in rbTodo : rbSlot[s].target = 0, NEW s \in RbSlots
    PROVE  Goal(s) = GoalIn(s, rbTodo, rbPlan)
<1>1. CASE s \in rbTodo
  BY <1>1 DEF Goal, GoalIn
<1>2. CASE s \notin rbTodo
  BY <1>2 DEF Goal, GoalIn
<1> QED BY <1>1, <1>2

(* It moves offline slots and pending ones, to groups that they are not of *)
(* and that take; no slot stays offline.                                   *)
LEMMA PlanSound ==
    ASSUME RbPlaced, NEW m, MoveOk(m), SumsUp(m)
    PROVE  /\ \A s \in docking(m) : rbSlot[s].target = 0 /\ rbSlot[s].group # PlanFor(m)[s]
           /\ \A s \in RbSlots : GoalIn(s, docking(m), PlanFor(m)) # 0
<1> DEFINE D == docking(m)
           P == PlanFor(m)
<1>1. D = Offline \cup UNION {Given(g, m) : g \in RbGroups}
  BY DEF docking, groupIds
<1>2. \A s \in D : P[s] \in RbGroups /\ m[P[s]] < 0 /\ P[s] # 0
  BY PlanIs, RebalanceAssumption
<1>3. \A g \in RbGroups : Given(g, m) \subseteq There(g) /\ (m[g] <= 0 => Given(g, m) = {}) /\ m[g] \in Int
  <2>1. TAKE g \in RbGroups
  <2>2. Given(g, m) \subseteq pendings(g) /\ (m[g] <= 0 => Given(g, m) = {})
    BY GivenIs
  <2> QED BY <2>2, SlotsOfGroup DEF MoveOk, Moves
<1> HIDE DEF D, P
<1>4. ASSUME NEW s \in D
      PROVE  rbSlot[s].target = 0 /\ rbSlot[s].group # P[s]
  <2>1. CASE s \in Offline
    BY <1>2, <2>1 DEF Offline, There
  <2>2. ASSUME NEW g \in RbGroups, s \in Given(g, m)
        PROVE  rbSlot[s].target = 0 /\ rbSlot[s].group # P[s]
    <3>1. rbSlot[s].target = 0 /\ rbSlot[s].group = g
      BY <1>3, <2>2 DEF There
    <3>2. ~ (m[g] <= 0)
      BY <1>3, <2>2
    <3>3. P[s] # g
      BY <1>2, <1>3, <3>2
    <3> QED BY <3>1, <3>3
  <2> QED BY <1>1, <2>1, <2>2
<1>5. ASSUME NEW s \in RbSlots
      PROVE  GoalIn(s, D, P) # 0
  <2>1. s \notin D => s \notin Offline
    BY <1>1
  <2> QED BY <1>2, <2>1 DEF GoalIn, Offline, There
<1> QED BY <1>4, <1>5 DEF D, P

(* A group will have as many slots as the moves leave it.                  *)
LEMMA PlanShares ==
    ASSUME RbPlaced, NEW m, MoveOk(m), SumsUp(m), NEW g \in RbGroups
    PROVE  Cardinality({s \in RbSlots : GoalIn(s, docking(m), PlanFor(m)) = g}) = groupSize(g, m)
<1> DEFINE D == docking(m)
           P == PlanFor(m)
           A == Held[g]
           B == Given(g, m)
           C == {s \in D : P[s] = g}
           W == {s \in RbSlots : GoalIn(s, D, P) = g}
<1>1. D = Offline \cup UNION {Given(h, m) : h \in RbGroups} /\ D \subseteq RbSlots /\ IsFiniteSet(D)
  BY DockingIs DEF docking, groupIds
<1>2. \A h \in RbGroups : Given(h, m) \subseteq Held[h]
  <2>1. TAKE h \in RbGroups
  <2>2. Given(h, m) \subseteq pendings(h)
    BY GivenIs
  <2> QED BY <2>2, SlotsOfGroup DEF Held
<1>3. /\ IsFiniteSet(A) /\ A \subseteq RbSlots /\ A \cap Offline = {} /\ Sizes(NoMoves)[g] = Cardinality(A)
      /\ \A h \in RbGroups : h # g => Held[h] \cap A = {}
  BY HeldIs
<1>4. A = {s \in RbSlots : \/ rbSlot[s].target = g
                           \/ rbSlot[s].target = 0 /\ rbSlot[s].group = g} /\ g # 0
  BY RebalanceAssumption DEF Held, Coming, There
<1>5. A \cap D = B /\ B \subseteq A
  BY <1>1, <1>2, <1>3
<1>6. \A s \in D : s \in C <=> P[s] = g
  OBVIOUS
<1>7. \A s \in RbSlots : s \in W <=> IF s \in D THEN s \in C ELSE s \in A
  BY <1>4, <1>6 DEF GoalIn
<1>8. W = (A \ B) \cup C /\ (A \ B) \cap C = {} /\ C \subseteq D
  BY <1>1, <1>3, <1>5, <1>7
<1>9. Cardinality(C) = Taken(g, m) /\ Cardinality(B) = Giving(m)[g] /\ Giving(m)[g] \in Nat
  BY PlanIs, GivenIs
<1>10. m[g] = Giving(m)[g] - Taken(g, m) /\ Taken(g, m) \in Nat
  BY TakingIs
<1>11. /\ Cardinality(Coming(g)) \in Nat /\ Cardinality(There(g)) \in Nat
       /\ groupSize(g, m) = Cardinality(Coming(g)) + Cardinality(There(g)) - m[g]
       /\ Cardinality(A) = Cardinality(Coming(g)) + Cardinality(There(g)) - 0
  BY <1>3, SlotsOfGroup, NoMovesAre DEF groupSize, Sizes
<1> HIDE DEF A, B, C, D, W
<1>12. IsFiniteSet(B) /\ IsFiniteSet(C) /\ A \cap B = B
  BY <1>1, <1>3, <1>5, <1>8, FS_Subset
<1> DEFINE E == A \ B
<1>13. IsFiniteSet(E) /\ Cardinality(E) = Cardinality(A) - Cardinality(A \cap B)
  BY <1>3, FS_Difference
<1>14. Cardinality(A \cap B) = Cardinality(B)
  BY <1>12
<1>15. W = E \cup C /\ E \cap C = {}
  BY <1>8
<1> HIDE DEF E
<1>16. Cardinality(E \cup C) = Cardinality(E) + Cardinality(C) - Cardinality(E \cap C) /\ Cardinality(E \cap C) = 0
  BY <1>12, <1>13, <1>15, FS_Union, FS_EmptySet
<1>17. Cardinality(W) = Cardinality(E \cup C)
  BY <1>15
<1>18. Cardinality(W) = groupSize(g, m)
  BY <1>9, <1>10, <1>11, <1>13, <1>14, <1>16, <1>17
<1> QED BY <1>18 DEF W, D, P

(* Groups that are level, with no slot offline, are left as they are.      *)
LEMMA LevelStays ==
    ASSUME RbPlaced, Offline = {},
           \A g, h \in RbGroups : groupSize(g, NoMoves) > groupSize(h, NoMoves) + 1 =>
              groupSize(g, NoMoves) <= lowerBound \/ pendings(g) = {}
    PROVE  DOMAIN plans = {}
<1> DEFINE n == MaxRounds
<1>1. n \in Nat /\ Start.moveout = NoMoves
  BY StartIs, DockedIs
<1>2. PICK f \in [0 .. n -> LoopStates] :
              /\ f[0] = Start /\ \A k \in 1 .. n : f[k] = exchange(f[k - 1])
              /\ Leveled = f[n].moveout
  BY LoopRunExists
<1> HIDE DEF n
<1> DEFINE G == {k \in 0 .. n : f[k].moveout = NoMoves}
<1>3. 0 \in G
  BY <1>1, <1>2
<1>4. ASSUME NEW k \in G, k < n
      PROVE  k + 1 \in G
  <2>1. k + 1 \in 1 .. n /\ k + 1 \in 0 .. n /\ k \in 0 .. n /\ (k + 1) - 1 = k /\ f[k].moveout = NoMoves
    BY <1>1, <1>4
  <2> DEFINE t == f[k]
             u == f[k + 1]
  <2>2. t \in LoopStates /\ u \in LoopStates /\ u = exchange(t) /\ t.moveout = NoMoves
    BY <1>2, <2>1
  <2> HIDE DEF t, u
  <2>3. u = t \/ Leaves(t, u) \/ Gives(t, u)
    BY <2>2, ExchangeIs
  <2>4. ~ Gives(t, u)
    <3>1. SUFFICES ASSUME NEW a \in t.tree, NEW d \in t.tree \ {a}, GivesTo(t, u, a, d)
                   PROVE  FALSE
      BY DEF Gives
    <3>2. a \in RbGroups /\ d \in RbGroups
      BY <2>2 DEF LoopStates
    <3>3. ~ IsLevel(a, d, NoMoves) /\ Cardinality(pendings(a)) # 0
      BY <2>2, <3>1, <3>2, NoMovesAre DEF GivesTo
    <3>4. groupSize(a, NoMoves) \in Nat /\ groupSize(d, NoMoves) \in Nat /\ lowerBound \in Nat /\ upperBound \in Nat
      BY <3>2, NoMovesAre, SizesAre, BoundsAre
    <3>5. groupSize(a, NoMoves) > groupSize(d, NoMoves) + 1 /\ ~ (groupSize(a, NoMoves) <= lowerBound)
      BY <3>3, <3>4 DEF IsLevel
    <3>6. pendings(a) = {}
      BY <3>2, <3>5
    <3> QED BY <3>3, <3>6, FS_EmptySet
  <2>5. u.moveout = NoMoves
    BY <2>2, <2>3, <2>4 DEF Leaves
  <2> QED BY <2>1, <2>5 DEF u
<1>5. G \in SUBSET (0 .. n)
  OBVIOUS
<1> HIDE DEF G
<1>6. n \in G
  BY <1>1, <1>3, <1>4, <1>5, FiniteInduction
<1>7. Leveled = NoMoves
  BY <1>2, <1>6 DEF G
<1>8. \A g \in RbGroups : Given(g, NoMoves) = {}
  <2>1. TAKE g \in RbGroups
  <2>2. MoveOk(NoMoves) /\ NoMoves[g] <= 0
    BY NoMovesAre
  <2> QED BY <2>2, GivenIs
<1>9. docking(NoMoves) = {}
  BY <1>8 DEF docking, groupIds
<1>10. DOMAIN PlanFor(NoMoves) = docking(NoMoves)
  BY DEF PlanFor
<1> QED BY <1>7, <1>9, <1>10 DEF plans

-----------------------------------------------------------------------------
(* The inductive invariant.  While a plan is being stored, and when it has *)
(* been, the groups will be level once all slots have moved; a group that  *)
(* is too large all the same has given all it may, and takes no slot of    *)
(* the plan.                                                               *)
WillBeLevel ==
    /\ \A s \in RbSlots : Goal(s) # 0
    /\ \A g, h \in RbGroups :
          Share(g) > Share(h) + 1 =>
             \/ Share(g) <= lowerBound
             \/ pendings(g) \subseteq rbTodo /\ \A s \in rbTodo : rbPlan[s] # g

RbInv ==
    /\ RbTypeOK
    /\ \A s \in rbTodo : rbSlot[s].target = 0 /\ rbSlot[s].group # rbPlan[s]
    /\ rbLevel => rbTodo = {}
    /\ rbTodo # {} \/ rbLevel => WillBeLevel

(* The next slot to store is one of those left.                            *)
LEMMA FirstIs ==
    ASSUME NEW S \in SUBSET RbSlots, S # {}
    PROVE  First(S) \in S
<1>1. \A s \in S : s \in Nat /\ s \in RbSlots
  BY RebalanceAssumption
<1>2. PICK s \in S : \A t \in S \ {s} : <<s, t>> \in Asc
  BY SlotOrders, FirstExists
<1>3. ASSUME NEW t \in S
      PROVE  s <= t
  <2>1. CASE t = s
    BY <1>1, <2>1
  <2>2. CASE t # s
    <3>1. <<s, t>> \in Asc
      BY <1>2, <2>2
    <3>2. s < t
      BY <3>1 DEF Asc
    <3> QED BY <1>1, <3>2
  <2> QED BY <2>1, <2>2
<1>4. \E x \in S : \A t \in S : x <= t
  BY <1>3
<1> QED BY <1>4 DEF First

(* A new plan.                                                             *)
LEMMA RebalancePlans ==
    ASSUME RbPlaced, SlotsRebalance
    PROVE  RbTypeOK' /\ Sound' /\ WillBeLevel'
<1> DEFINE m == Leveled
           D == docking(m)
           P == PlanFor(m)
<1>1. MoveOk(m) /\ Final(m) /\ SumsUp(m)
  BY LeveledIs DEF SumsUp
<1>2. /\ DOMAIN P = D /\ D \subseteq RbSlots
      /\ \A s \in D : P[s] \in RbGroups /\ m[P[s]] < 0
  BY <1>1, PlanIs, DockingIs
<1>3. /\ \A s \in D : rbSlot[s].target = 0 /\ rbSlot[s].group # P[s]
      /\ \A s \in RbSlots : GoalIn(s, D, P) # 0
  BY <1>1, PlanSound
<1>4. \A g \in RbGroups : Cardinality({s \in RbSlots : GoalIn(s, D, P) = g}) = groupSize(g, m)
  BY <1>1, PlanShares
<1>5. \A g \in RbGroups : m[g] = Cardinality(pendings(g)) => pendings(g) \subseteq D /\ \A s \in D : P[s] # g
  <2>1. SUFFICES ASSUME NEW g \in RbGroups, m[g] = Cardinality(pendings(g))
                 PROVE  pendings(g) \subseteq D /\ \A s \in D : P[s] # g
    OBVIOUS
  <2>2. Given(g, m) = pendings(g)
    BY <1>1, <2>1, GivenIs
  <2>3. pendings(g) \subseteq D
    BY <2>2 DEF docking, groupIds
  <2>4. Cardinality(pendings(g)) \in Nat
    BY SlotsOfGroup
  <2> QED BY <1>2, <2>1, <2>3, <2>4
<1>6. PICK p : p = P
  OBVIOUS
<1>7. PICK d : d = D
  OBVIOUS
<1>8. PICK r : r = m
  OBVIOUS
<1>9. rbPlan' = p /\ rbTodo' = d /\ rbSlot' = rbSlot
  BY <1>2, <1>6, <1>7 DEF SlotsRebalance, plans
<1> HIDE DEF m, D, P
<1>10. RbTypeOK'
  BY <1>2, <1>6, <1>7, <1>9 DEF RbTypeOK, RbPlaced
<1>11. \A s \in RbSlots : Goal(s)' = GoalIn(s, d, p)
  <2>1. TAKE s \in RbSlots
  <2>2. CASE s \in d
    BY <1>3, <1>7, <1>9, <2>2 DEF Goal, GoalIn
  <2>3. CASE s \notin d
    BY <1>9, <2>3 DEF Goal, GoalIn
  <2> QED BY <2>2, <2>3
<1>12. Sound'
  <2>1. \A s \in d : rbSlot'[s].target = 0 /\ rbSlot'[s].group # p[s]
    BY <1>3, <1>6, <1>7, <1>9
  <2>2. \A s \in RbSlots : Goal(s)' # 0
    BY <1>3, <1>6, <1>7, <1>11
  <2> QED BY <1>9, <2>1, <2>2 DEF Sound
<1>13. \A g \in RbGroups : Share(g)' = groupSize(g, r)
  <2>1. TAKE g \in RbGroups
  <2>2. {s \in RbSlots : Goal(s)' = g} = {s \in RbSlots : GoalIn(s, D, P) = g}
    BY <1>6, <1>7, <1>11
  <2> QED BY <1>4, <1>8, <2>2 DEF Share
<1>14. \A g \in RbGroups : pendings(g)' = pendings(g)
  BY <1>9 DEF pendings, Coming, There, lowerBound, groupIds
<1>15. lowerBound' = lowerBound
  BY DEF lowerBound, groupIds
<1>16. ASSUME NEW g \in RbGroups, NEW h \in RbGroups, groupSize(g, r) > groupSize(h, r) + 1
       PROVE  \/ groupSize(g, r) <= lowerBound
              \/ pendings(g) \subseteq d /\ \A s \in d : p[s] # g
  BY <1>1, <1>5, <1>6, <1>7, <1>8, <1>16 DEF Final
<1>17. ASSUME NEW g \in RbGroups, NEW h \in RbGroups, Share(g)' > Share(h)' + 1
       PROVE  \/ Share(g)' <= lowerBound'
              \/ pendings(g)' \subseteq rbTodo' /\ \A s \in rbTodo' : rbPlan'[s] # g
  BY <1>9, <1>13, <1>14, <1>15, <1>16, <1>17
<1>18. WillBeLevel'
  BY <1>12, <1>17 DEF WillBeLevel, Sound
<1> QED BY <1>10, <1>12, <1>18

(* A plan that was stored is not revised.                                  *)
LEMMA RebalanceAgain ==
    ASSUME RbInv, rbLevel
    PROVE  DOMAIN plans = {}
<1>1. RbPlaced /\ rbTodo = {} /\ WillBeLevel
  BY DEF RbInv, RbTypeOK, RbPlaced
<1>2. \A s \in RbSlots : Goal(s) = GoalIn(s, {}, rbPlan)
  BY <1>1, GoalIs
<1>3. Offline = {}
  BY <1>1, <1>2 DEF WillBeLevel, GoalIn, Offline, There
<1>4. \A g \in RbGroups : Share(g) = groupSize(g, NoMoves)
  <2>1. TAKE g \in RbGroups
  <2>2. {s \in RbSlots : Goal(s) = g} = Held[g]
    <3>1. g # 0
      BY RebalanceAssumption
    <3> QED BY <1>2, <3>1 DEF GoalIn, Held, Coming, There
  <2>3. Sizes(NoMoves)[g] = Cardinality(Held[g]) /\ Sizes(NoMoves)[g] = groupSize(g, NoMoves)
    BY <1>1, HeldIs DEF Sizes
  <2> QED BY <2>2, <2>3 DEF Share
<1>5. \A g, h \in RbGroups : groupSize(g, NoMoves) > groupSize(h, NoMoves) + 1 =>
              groupSize(g, NoMoves) <= lowerBound \/ pendings(g) = {}
  BY <1>1, <1>4 DEF WillBeLevel
<1> QED BY <1>1, <1>3, <1>5, LevelStays

(* A slot of the plan is stored.                                           *)
LEMMA StoreKeeps ==
    ASSUME RbInv, StoreSlot
    PROVE  RbInv'
<1>1. PICK s : s = First(rbTodo)
  OBVIOUS
<1>2. s \in rbTodo /\ s \in RbSlots /\ rbTodo \subseteq RbSlots
  BY <1>1, FirstIs DEF RbInv, RbTypeOK, StoreSlot
<1>3. PICK p : p = rbPlan[s]
  OBVIOUS
<1>4. p \in RbGroups /\ p # 0
  BY <1>2, <1>3, RebalanceAssumption DEF RbInv, RbTypeOK
<1>5. /\ rbSlot' = [rbSlot EXCEPT ![s].target = p] /\ rbTodo' = rbTodo \ {s} /\ rbPlan' = rbPlan
      /\ rbLevel' = (rbTodo' = {}) /\ rbTodo # {}
  BY <1>1, <1>3 DEF StoreSlot
<1>6. /\ rbSlot' \in [RbSlots -> RbPlace]
      /\ rbSlot'[s].target = p /\ rbSlot'[s].group = rbSlot[s].group
      /\ \A t \in RbSlots \ {s} : rbSlot'[t] = rbSlot[t]
  BY <1>2, <1>4, <1>5 DEF RbInv, RbTypeOK, RbPlace
<1>7. \A t \in rbTodo : rbSlot[t].target = 0 /\ rbSlot[t].group # rbPlan[t]
  BY DEF RbInv
<1>8. WillBeLevel
  BY <1>5 DEF RbInv
<1>9. RbTypeOK'
  BY <1>5, <1>6 DEF RbInv, RbTypeOK
<1>10. \A t \in rbTodo' : rbSlot'[t].target = 0 /\ rbSlot'[t].group # rbPlan'[t]
  BY <1>2, <1>5, <1>6, <1>7
<1>11. ASSUME NEW t \in RbSlots
       PROVE  Goal(t)' = Goal(t)
  <2>1. Goal(t) = GoalIn(t, rbTodo, rbPlan)
    BY <1>7, GoalIs
  <2>2. CASE t = s
    BY <1>2, <1>3, <1>4, <1>5, <1>6, <2>1, <2>2 DEF Goal, GoalIn
  <2>3. CASE t # s /\ t \in rbTodo
    BY <1>5, <1>6, <1>7, <2>1, <2>3 DEF Goal, GoalIn
  <2>4. CASE t # s /\ t \notin rbTodo
    BY <1>5, <1>6, <2>1, <2>4 DEF Goal, GoalIn
  <2> QED BY <2>2, <2>3, <2>4
<1>12. \A g : Share(g)' = Share(g)
  BY <1>11 DEF Share
<1>13. ASSUME NEW g \in RbGroups, g # p
       PROVE  pendings(g)' \subseteq pendings(g) \ {s}
  <2>1. g # 0
    BY RebalanceAssumption
  <2>2. \A t \in RbSlots : t \in There(g)' <=> t \in There(g) \ {s}
    BY <1>4, <1>6 DEF There
  <2>3. There(g)' = There(g) \ {s}
    BY <2>2 DEF There
  <2>4. \A t \in RbSlots : t \in Coming(g)' <=> t \in Coming(g)
    BY <1>2, <1>6, <1>7, <1>13, <2>1 DEF Coming
  <2>5. Coming(g)' = Coming(g)
    BY <2>4 DEF Coming
  <2>6. RbPlaced
    BY DEF RbInv, RbTypeOK, RbPlaced
  <2>7. IsFiniteSet(There(g)) /\ Cardinality(Coming(g)) \in Nat
    BY <2>6, SlotsOfGroup
  <2>8. SUFFICES ASSUME NEW t \in pendings(g)'
                 PROVE  t \in pendings(g) \ {s}
    OBVIOUS
  <2> DEFINE A == {x \in There(g) : x <= t}
             B == {x \in There(g) \ {s} : x <= t}
  <2>9. t \in There(g) /\ t # s /\ Cardinality(Coming(g)) + Cardinality(B) > lowerBound
    <3>1. t \in There(g)' /\ Cardinality(Coming(g)') + Cardinality({x \in There(g)' : x <= t}) > lowerBound
      BY <2>8 DEF pendings, lowerBound, groupIds
    <3> QED BY <2>3, <2>5, <3>1
  <2>10. A \in SUBSET There(g) /\ B \in SUBSET A
    OBVIOUS
  <2>11. t \in pendings(g) <=> Cardinality(Coming(g)) + Cardinality(A) > lowerBound
    BY <2>9 DEF pendings
  <2> HIDE DEF A, B
  <2>12. IsFiniteSet(A) /\ Cardinality(A) \in Nat
    BY <2>7, <2>10, FS_Subset, FS_CardinalityType
  <2>13. Cardinality(B) <= Cardinality(A) /\ Cardinality(B) \in Nat
    BY <2>10, <2>12, FS_Subset, FS_CardinalityType
  <2>14. Cardinality(Coming(g)) + Cardinality(A) > lowerBound
    BY <2>7, <2>9, <2>12, <2>13, BoundsAre
  <2> QED BY <2>9, <2>11, <2>14
<1>14. ASSUME NEW g \in RbGroups, NEW h \in RbGroups, Share(g)' > Share(h)' + 1
       PROVE  \/ Share(g)' <= lowerBound'
              \/ pendings(g)' \subseteq rbTodo' /\ \A t \in rbTodo' : rbPlan'[t] # g
  <2>1. lowerBound' = lowerBound
    BY DEF lowerBound, groupIds
  <2>2. Share(g)' = Share(g) /\ Share(h)' = Share(h)
    BY <1>12
  <2>3. \/ Share(g) <= lowerBound
        \/ pendings(g) \subseteq rbTodo /\ \A t \in rbTodo : rbPlan[t] # g
    BY <1>8, <1>14, <2>2 DEF WillBeLevel
  <2>4. CASE pendings(g) \subseteq rbTodo /\ \A t \in rbTodo : rbPlan[t] # g
    <3>1. g # p
      BY <1>2, <1>3, <2>4
    <3>2. pendings(g)' \subseteq pendings(g) \ {s}
      BY <1>13, <3>1
    <3> QED BY <1>5, <2>4, <3>2
  <2> QED BY <2>1, <2>2, <2>3, <2>4
<1>15. \A t \in RbSlots : Goal(t)' # 0
  BY <1>8, <1>11 DEF WillBeLevel
<1>16. WillBeLevel'
  BY <1>14, <1>15 DEF WillBeLevel
<1> QED BY <1>5, <1>9, <1>10, <1>16 DEF RbInv

(* A write fails: the plan is given up.                                    *)
LEMMA FailKeeps ==
    ASSUME RbInv, StoreSlotFails
    PROVE  RbInv'
<1>1. PICK s : s = First(rbTodo)
  OBVIOUS
<1>2. s \in rbTodo /\ s \in RbSlots
  BY <1>1, FirstIs DEF RbInv, RbTypeOK, StoreSlotFails
<1>3. PICK p : p = rbPlan[s]
  OBVIOUS
<1>4. p \in RbGroups
  BY <1>2, <1>3 DEF RbInv, RbTypeOK
<1>5. /\ rbSlot' = rbSlot \/ rbSlot' = [rbSlot EXCEPT ![s].target = p]
      /\ rbTodo' = {} /\ rbPlan' = rbPlan /\ rbLevel' = rbLevel /\ rbTodo # {}
  BY <1>1, <1>3 DEF StoreSlotFails
<1>6. rbSlot' \in [RbSlots -> RbPlace]
  BY <1>2, <1>4, <1>5 DEF RbInv, RbTypeOK, RbPlace
<1>7. ~ rbLevel
  BY <1>5 DEF RbInv
<1>8. RbTypeOK'
  BY <1>5, <1>6 DEF RbInv, RbTypeOK
<1> QED BY <1>5, <1>7, <1>8 DEF RbInv

(* An action ends: nothing is said of the level any more.                  *)
LEMMA MovedKeeps ==
    ASSUME RbInv, NEW s \in RbSlots, SlotMoved(s)
    PROVE  RbInv'
<1>1. /\ rbSlot' = [rbSlot EXCEPT ![s] = [group |-> rbSlot[s].target, target |-> 0]]
      /\ rbTodo = {} /\ rbTodo' = {} /\ rbPlan' = rbPlan /\ rbLevel' = FALSE /\ rbSlot[s].target # 0
  BY DEF SlotMoved
<1>2. rbSlot[s].target \in RbGroups
  BY <1>1 DEF RbInv, RbTypeOK, RbPlace
<1>3. [group |-> rbSlot[s].target, target |-> 0] \in RbPlace
  BY <1>2 DEF RbPlace
<1>4. RbTypeOK'
  BY <1>1, <1>3 DEF RbInv, RbTypeOK
<1> QED BY <1>1, <1>4 DEF RbInv

(* Every step keeps the invariant.                                         *)
LEMMA RbStep ==
    ASSUME RbInv, [RbNext]_rbVars
    PROVE  RbInv'
<1>1. CASE SlotsRebalance
  <2>1. RbPlaced
    BY DEF RbInv, RbTypeOK, RbPlaced
  <2>2. RbTypeOK' /\ Sound' /\ WillBeLevel'
    BY <1>1, <2>1, RebalancePlans
  <2>3. rbLevel' => rbTodo' = {}
    BY <1>1 DEF SlotsRebalance
  <2> QED BY <2>2, <2>3 DEF RbInv, Sound
<1>2. CASE UNCHANGED rbVars
  <2>1. \A g : Share(g)' = Share(g) /\ pendings(g)' = pendings(g)
    BY <1>2 DEF rbVars, Share, Goal, pendings, Coming, There, lowerBound, groupIds
  <2>2. \A s \in RbSlots : Goal(s)' = Goal(s)
    BY <1>2 DEF rbVars, Goal
  <2>3. lowerBound' = lowerBound
    BY DEF lowerBound, groupIds
  <2>4. WillBeLevel => WillBeLevel'
    BY <1>2, <2>1, <2>2, <2>3 DEF rbVars, WillBeLevel
  <2> QED BY <1>2, <2>4 DEF rbVars, RbInv, RbTypeOK
<1> QED BY <1>1, <1>2, StoreKeeps, FailKeeps, MovedKeeps DEF RbNext

(* No plan has been made.                                                  *)
LEMMA RbStart ==
    ASSUME RbInit
    PROVE  RbInv
<1>1. rbSlot \in [RbSlots -> RbPlace]
  BY DEF RbInit
<1>2. DOMAIN rbPlan = {} /\ rbTodo = {} /\ rbLevel = FALSE
  BY DEF RbInit
<1> QED BY <1>1, <1>2 DEF RbInv, RbTypeOK

(* Rebalancing: plans of SlotsRebalance move only slots that are offline   *)
(* or beyond the lower bound of their group, leave none offline and level  *)
(* the groups that have servers; called again over a plan that was stored  *)
(* it plans nothing (topom_slots.go:540-728).  For any slots, groups and   *)
(* calls, with writes that fail at any slot.                               *)
THEOREM PlansTheorem == RbSpec => PlansAreGood
<1>1. RbInit => RbInv
  BY RbStart
<1>2. RbInv /\ [RbNext]_rbVars => RbInv'
  BY RbStep
<1>3. RbInv => RbTypeOK
  BY DEF RbInv
<1>4. ASSUME RbInv, [RbNext]_rbVars, rbCalls' # rbCalls
      PROVE  Sound' /\ Level' /\ (rbLevel => DOMAIN rbPlan' = {})
  <2>1. SlotsRebalance
    BY <1>4 DEF RbNext, rbVars, StoreSlot, StoreSlotFails, SlotMoved
  <2>2. RbPlaced
    BY <1>4 DEF RbInv, RbTypeOK, RbPlaced
  <2>3. Sound' /\ WillBeLevel'
    BY <2>1, <2>2, RebalancePlans
  <2>4. Level'
    BY <2>3 DEF WillBeLevel, Level
  <2>5. rbLevel => DOMAIN rbPlan' = {}
    BY <1>4, <2>1, RebalanceAgain DEF SlotsRebalance
  <2> QED BY <2>3, <2>4, <2>5
<1>5. RbInv /\ [RbNext]_rbVars => [rbCalls' # rbCalls => Sound']_rbVars
  BY <1>4
<1>6. RbInv /\ [RbNext]_rbVars => [rbCalls' # rbCalls => Level']_rbVars
  BY <1>4
<1>7. RbInv /\ [RbNext]_rbVars => [rbLevel /\ rbCalls' # rbCalls => DOMAIN rbPlan' = {}]_rbVars
  BY <1>4
<1> QED BY <1>1, <1>2, <1>3, <1>5, <1>6, <1>7, PTL
        DEF RbSpec, PlansAreGood, PlansAreSound, PlansAreLevel, RebalancedStays
=============================================================================
