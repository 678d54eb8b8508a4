----------------------------- MODULE RDBAnalysis -----------------------------
(***************************************************************************)
(* The analysis of RDB files in the dashboard                              *)
(* (pkg/topom/topom_rdb_analysis.go, _remote_fetch.go): calls bring a file *)
(* that is there, uploaded or fetched from a server, jobs parse it, and    *)
(* the registry keeps what is done.  Fetches are bounded; the limit of     *)
(* jobs is looked at before a job is listed, so that calls that overlap go *)
(* beyond it.  A job is named by the call that started it.                 *)
(***************************************************************************)
EXTENDS Naturals, Sequences, FiniteSets, Subsequences, Sums

CONSTANTS
    RaCalls,        \* calls of the three start methods, each made once
    RaConcurrent,   \* config.RDBAnalysisMaxConcurrentJobs
    RaRetained,     \* config.RDBAnalysisMaxJobsRetained
    RaFetches,      \* config.RDBAnalysisRemoteFetchMaxConcurrent
    RaObjects,      \* objects a file may hold: [key, size, db, type], a key as its parts
    MaxRaObjects,   \* bound: objects of a file
    TopN, MaxDepth  \* RDBAnalysisOptions

ASSUME RDBAnalysisAssumption ==
    /\ IsFiniteSet(RaCalls)
    /\ RaConcurrent \in Nat \ {0} /\ RaRetained \in Nat \ {0} /\ RaFetches \in Nat \ {0}
    /\ RaObjects \subseteq [key: Seq(STRING), size: Nat, db: Nat, type: STRING]
    /\ MaxRaObjects \in Nat /\ TopN \in Nat \ {0} /\ MaxDepth \in Nat \ {0}

VARIABLES
    raFile,         \* the objects of the file
    raCall,         \* where every call is, and how it comes by its file
    raTemp,         \* temporary files, by their calls
    raJobs,         \* RDBAnalysisManager.jobs, the oldest first
    raStatus,       \* RDBAnalysisJob.Status
    raCancelled,    \* jobs whose context is cancelled
    raRemoving,     \* calls of Remove that have taken their job from the list
    raRead,         \* objects a job has read
    raSnap,         \* its rdbAnalysisSnapshot
    raActive        \* remoteFetchActive

raVars == <<raFile, raCall, raTemp, raJobs, raStatus, raCancelled, raRemoving, raRead, raSnap, raActive>>

EmptySnap == [total |-> 0, types |-> << >>, dbs |-> << >>, prefixes |-> << >>, flame |-> << >>, top |-> << >>]

RaInit ==
    /\ raFile \in UNION {[1 .. n -> RaObjects] : n \in 0 .. MaxRaObjects}
    /\ \A i, j \in DOMAIN raFile : raFile[i] = raFile[j] => i = j
    /\ raCall = [c \in RaCalls |-> [stage |-> "new", kind |-> "none"]]
    /\ raTemp = {}
    /\ raJobs = << >>
    /\ raStatus = [c \in RaCalls |-> "none"]
    /\ raCancelled = {}
    /\ raRemoving = {}
    /\ raRead = [c \in RaCalls |-> 0]
    /\ raSnap = [c \in RaCalls |-> EmptySnap]
    /\ raActive = 0

Listed  == {raJobs[i] : i \in DOMAIN raJobs}
Running == {c \in Listed : raStatus[c] \in {"queued", "running"}}
Ended(c) == raStatus[c] \in {"done", "error", "canceled"}

Stage(c, stage, kind) == raCall' = [raCall EXCEPT ![c] = [stage |-> stage, kind |-> kind]]

-----------------------------------------------------------------------------
(* How a call comes by its file.                                           *)

StartWorkspace(c) ==
    /\ raCall[c].stage = "new"
    /\ Stage(c, "file", "workspace")
    /\ UNCHANGED <<raFile, raRemoving, raTemp, raJobs, raStatus, raCancelled, raRead, raSnap, raActive>>

(* The upload is copied; it may fail or be too large, and is removed then. *)
StartUpload(c) ==
    /\ raCall[c].stage = "new"
    /\ Stage(c, "copy", "upload")
    /\ raTemp' = raTemp \cup {c}
    /\ UNCHANGED <<raFile, raRemoving, raJobs, raStatus, raCancelled, raRead, raSnap, raActive>>

acquireRemoteFetch(c) ==
    /\ raCall[c].stage = "new"
    /\ raActive < RaFetches
    /\ raActive' = raActive + 1
    /\ Stage(c, "fetch", "remote")
    /\ UNCHANGED <<raFile, raRemoving, raTemp, raJobs, raStatus, raCancelled, raRead, raSnap>>

(* The server answers, with another status or too large a file, or not.    *)
fetchFails(c) ==
    /\ raCall[c].stage = "fetch"
    /\ raActive' = raActive - 1
    /\ Stage(c, "end", "remote")
    /\ UNCHANGED <<raFile, raRemoving, raTemp, raJobs, raStatus, raCancelled, raRead, raSnap>>

fetchRemoteRDB(c) ==
    /\ raCall[c].stage = "fetch"
    /\ raTemp' = raTemp \cup {c}
    /\ Stage(c, "copy", "remote")
    /\ UNCHANGED <<raFile, raRemoving, raJobs, raStatus, raCancelled, raRead, raSnap, raActive>>

(* io.Copy of an upload or a fetch, and the deferred releaseRemoteFetch.   *)
CopyEnds(c) ==
    /\ raCall[c].stage = "copy"
    /\ \/ Stage(c, "file", raCall[c].kind) /\ UNCHANGED raTemp
       \/ Stage(c, "end", raCall[c].kind) /\ raTemp' = raTemp \ {c}
    /\ raActive' = IF raCall[c].kind = "remote" THEN raActive - 1 ELSE raActive
    /\ UNCHANGED <<raFile, raRemoving, raJobs, raStatus, raCancelled, raRead, raSnap>>

-----------------------------------------------------------------------------
(* startJob: the limit is checked in a critical section of its own, ...    *)
checkConcurrentLimit(c) ==
    /\ raCall[c].stage = "file"
    /\ Cardinality(Running) < RaConcurrent
    /\ Stage(c, "checked", raCall[c].kind)
    /\ UNCHANGED <<raFile, raRemoving, raTemp, raJobs, raStatus, raCancelled, raRead, raSnap, raActive>>

rejectJob(c) ==
    /\ raCall[c].stage = "file"
    /\ Cardinality(Running) >= RaConcurrent
    /\ Stage(c, "end", raCall[c].kind)
    /\ raTemp' = raTemp \ {c}
    /\ UNCHANGED <<raFile, raRemoving, raJobs, raStatus, raCancelled, raRead, raSnap, raActive>>

(* pruneLocked: the oldest jobs that have ended go, as many as there are   *)
(* too many.                                                               *)
pruneLocked(jobs) ==
    LET done == OnlyIn(jobs, {c \in RaCalls : Ended(c)})
        over == IF Len(jobs) > RaRetained THEN Len(jobs) - RaRetained ELSE 0
    IN  {done[i] : i \in 1 .. IF over < Len(done) THEN over ELSE Len(done)}

(* ... and the job is listed in the next.                                  *)
startJob(c) ==
    LET gone == pruneLocked(Append(raJobs, c))
    IN  /\ raCall[c].stage = "checked"
        /\ Stage(c, "end", raCall[c].kind)
        /\ raStatus' = [raStatus EXCEPT ![c] = "queued"]
        /\ raJobs' = OnlyIn(Append(raJobs, c), RaCalls \ gone)
        /\ raTemp' = raTemp \ gone
        /\ UNCHANGED <<raFile, raRemoving, raCancelled, raRead, raSnap, raActive>>

-----------------------------------------------------------------------------
RaCancel(c) ==
    /\ c \in Running
    /\ raCancelled' = raCancelled \cup {c}
    /\ UNCHANGED <<raFile, raRemoving, raCall, raTemp, raJobs, raStatus, raRead, raSnap, raActive>>

(* Remove of a job that may be running: it leaves the list under the lock, *)
(* and then it is cancelled and its file removed.                          *)
RaRemove(c) ==
    /\ c \in Listed
    /\ raJobs' = OnlyIn(raJobs, RaCalls \ {c})
    /\ raRemoving' = raRemoving \cup {c}
    /\ UNCHANGED <<raFile, raCall, raTemp, raCancelled, raStatus, raRead, raSnap, raActive>>

RaRemoveRest(c) ==
    /\ c \in raRemoving
    /\ raRemoving' = raRemoving \ {c}
    /\ raCancelled' = raCancelled \cup {c}
    /\ raTemp' = raTemp \ {c}
    /\ UNCHANGED <<raFile, raCall, raJobs, raStatus, raRead, raSnap, raActive>>

RaClose ==
    /\ Listed # {}
    /\ raCancelled' = raCancelled \cup Listed
    /\ UNCHANGED <<raFile, raRemoving, raCall, raTemp, raJobs, raStatus, raRead, raSnap, raActive>>

-----------------------------------------------------------------------------
(* rdbAnalysisSnapshot.add.                                                *)

(* A statistic is a function to sizes that grows when it is added to.      *)
Plus(f, K, size) ==
    [k \in DOMAIN f \cup K |-> (IF k \in DOMAIN f THEN f[k] ELSE 0) + (IF k \in K THEN size ELSE 0)]

Least(m, n) == IF m < n THEN m ELSE n

(* The larger comes first, and then the key that was seen first (for the   *)
(* order of names).                                                        *)
Before(a, b) == raFile[a].size > raFile[b].size \/ (raFile[a].size = raFile[b].size /\ a < b)

(* Mutant: the list is cut before the new entry finds its place.           *)
addTopKeyBySize_CutsFirst(list, i) == IF Len(list) < TopN THEN Append(list, i) ELSE list

(* The list is sorted, and cut to TopN.                                    *)
addTopKeyBySize(list, i) ==
    LET ahead  == OnlyIn(list, {j \in DOMAIN raFile : Before(j, i)})
        behind == OnlyIn(list, {j \in DOMAIN raFile : ~ Before(j, i)})
        all    == ahead \o <<i>> \o behind
    IN  SubSeq(all, 1, Least(Len(all), TopN))

(* analysisPrefixes: the last part of a key is in no prefix.               *)
analysisPrefixes(o) == {<<o.db>> \o SubSeq(o.key, 1, d) : d \in 1 .. Least(Len(o.key) - 1, MaxDepth)}

(* The nodes rdbAnalysisFlameBuilder.add walks through, the root first.    *)
flamePath(o) == {SubSeq(<<o.db>> \o o.key, 1, d) : d \in 0 .. Least(Len(o.key) + 1, MaxDepth + 1)}

addObject(snap, i) ==
    LET o == raFile[i]
    IN  [total    |-> snap.total + o.size,
         types    |-> Plus(snap.types, {o.type}, o.size),
         dbs      |-> Plus(snap.dbs, {o.db}, o.size),
         prefixes |-> Plus(snap.prefixes, analysisPrefixes(o), o.size),
         flame    |-> Plus(snap.flame, flamePath(o), o.size),
         top      |-> addTopKeyBySize(snap.top, i)]

-----------------------------------------------------------------------------
(* runJob and parseJob.                                                    *)

(* The file may be gone: the job was removed before it began.  Objects     *)
(* that accept turns down are not in raFile.                               *)
runJob(c) ==
    /\ raStatus[c] = "queued"
    /\ raStatus' = [raStatus EXCEPT ![c] = "running"]
    /\ UNCHANGED <<raFile, raRemoving, raCall, raTemp, raJobs, raCancelled, raRead, raSnap, raActive>>

parseJob(c) ==
    /\ raStatus[c] = "running"
    /\ c \notin raCancelled /\ raRead[c] < Len(raFile)
    /\ raRead' = [raRead EXCEPT ![c] = @ + 1]
    /\ raSnap' = [raSnap EXCEPT ![c] = addObject(@, raRead[c] + 1)]
    /\ UNCHANGED <<raFile, raRemoving, raCall, raTemp, raJobs, raStatus, raCancelled, raActive>>

(* Mutant: a job that is cancelled leaves its status.                      *)
runJobEnds_Silent(c) ==
    /\ raStatus[c] = "running" /\ c \notin raCancelled
    /\ \/ raStatus' = [raStatus EXCEPT ![c] = "error"]
       \/ raRead[c] = Len(raFile) /\ raStatus' = [raStatus EXCEPT ![c] = "done"]
    /\ UNCHANGED <<raFile, raRemoving, raCall, raTemp, raJobs, raCancelled, raRead, raSnap, raActive>>

(* A cancel counts before an error.                                        *)
runJobEnds(c) ==
    /\ raStatus[c] = "running"
    /\ \/ c \in raCancelled /\ raStatus' = [raStatus EXCEPT ![c] = "canceled"]
       \/ c \notin raCancelled /\ raStatus' = [raStatus EXCEPT ![c] = "error"]
       \/ /\ c \notin raCancelled /\ raRead[c] = Len(raFile)
          /\ raStatus' = [raStatus EXCEPT ![c] = "done"]
    /\ UNCHANGED <<raFile, raRemoving, raCall, raTemp, raJobs, raCancelled, raRead, raSnap, raActive>>

-----------------------------------------------------------------------------
RunRa(c) == runJob(c) \/ parseJob(c) \/ runJobEnds(c)

CallRa(c) ==
    \/ fetchFails(c) \/ fetchRemoteRDB(c) \/ CopyEnds(c)
    \/ checkConcurrentLimit(c) \/ rejectJob(c) \/ startJob(c)

RaNext ==
    \/ \E c \in RaCalls : \/ StartWorkspace(c) \/ StartUpload(c) \/ acquireRemoteFetch(c)
                          \/ CallRa(c) \/ RunRa(c) \/ RaCancel(c) \/ RaRemove(c) \/ RaRemoveRest(c)
    \/ RaClose

RaSpec == RaInit /\ [][RaNext]_raVars

-----------------------------------------------------------------------------
(* Properties.                                                             *)

(* Types of the variables.                                                 *)
RaTypeOK ==
    /\ raTemp \subseteq RaCalls /\ raCancelled \subseteq RaCalls
    /\ raStatus \in [RaCalls -> {"none", "queued", "running", "done", "error", "canceled"}]
    /\ Len(raJobs) = Cardinality(Listed)
    /\ raRead \in [RaCalls -> 0 .. MaxRaObjects]
    /\ raActive \in 0 .. RaFetches

(* Every temporary file is of a call under way or of a job in the list:    *)
(* none is left when a copy fails, a job is turned down, pruned or removed *)
(* (topom_rdb_analysis.go:229-258, 297-320, 336-436).                      *)
TempFilesOwned == \A c \in raTemp : raCall[c].stage # "end" \/ c \in Listed \cup raRemoving

(* Slots for fetches are given back, however a fetch ends                  *)
(* (topom_rdb_analysis_remote_fetch.go:72-170).                            *)
FetchesCounted == raActive = Cardinality({c \in RaCalls : raCall[c].kind = "remote" /\ raCall[c].stage \in {"fetch", "copy"}})

(* No job that runs is dropped from the list to make room for others, so   *)
(* that it can still be cancelled (topom_rdb_analysis.go:406-436).         *)
RunningIsListed == \A c \in RaCalls : raStatus[c] \in {"queued", "running"} => c \in Listed \cup raRemoving \cup raCancelled

(* The nodes right below one of the flame graph.                           *)
Children(flame, p) == {q \in DOMAIN flame : Len(q) = Len(p) + 1 /\ SubSeq(q, 1, Len(p)) = p}

AddsUp(snap, read) ==
    /\ SumOver(snap.types, DOMAIN snap.types) = snap.total
    /\ SumOver(snap.dbs, DOMAIN snap.dbs) = snap.total
    /\ read > 0 => snap.flame[<< >>] = snap.total
    /\ \A p \in DOMAIN snap.flame : SumOver(snap.flame, Children(snap.flame, p)) <= snap.flame[p]
    /\ \A p \in DOMAIN snap.prefixes : p \in DOMAIN snap.flame /\ snap.prefixes[p] <= snap.flame[p]
    /\ Len(snap.top) = Least(read, TopN)
    /\ \A n \in DOMAIN snap.top :
          \A i \in 1 .. read : Before(i, snap.top[n]) => \E m \in 1 .. n - 1 : snap.top[m] = i

(* What a job shows at any time is consistent: types, databases and the    *)
(* flame graph sum up to the same total, no node is smaller than its       *)
(* children or than the prefix of its name, and the top list, kept object  *)
(* by object, is that of all objects read (topom_rdb_analysis.go:587-640,  *)
(* 692-810).                                                               *)
SnapshotsAddUp == \A c \in RaCalls : AddsUp(raSnap[c], raRead[c])

(* Every call returns and every job ends, removed or not                   *)
(* (topom_rdb_analysis.go:480-497).                                        *)
RaJobsEnd ==
    []<>(\A c \in RaCalls : /\ raCall[c].stage \in {"new", "end"}
                            /\ Ended(c) \/ raStatus[c] = "none")

(* The registry loses nothing: files, slots for fetches and jobs that run  *)
(* are all accounted for.                                                  *)
RegistryIsSound == RaTypeOK /\ TempFilesOwned /\ FetchesCounted /\ RunningIsListed

(* It loses nothing, and what it shows of a job adds up.                   *)
AnalysisIsSound == RegistryIsSound /\ SnapshotsAddUp
=============================================================================
