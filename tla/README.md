# A verification project for Codis

Codis spreads the keys of one Redis name space over 1024 slots and the slots
over groups of Redis servers. Proxies forward requests; a dashboard keeps the
map of slots to groups in a coordinator (ZooKeeper, etcd, Consul or files),
moves slots between groups while clients use them, promotes replicas, and tells
the proxies about all of it. This directory holds TLA+ models of the parts of
that system where steps of several actors meet, the TLC runs that check them on
small instances, and proofs that TLAPS checks for every instance.

All paths below are relative to `src/`.

## 1. Inventory

| Part | Source | State | Operations | Meets |
|---|---|---|---|---|
| Slot migration | `pkg/topom/topom_slots.go`, `topom_action.go`, `context.go` | `SlotMapping.Action` of each slot; plans and executors of the round | create, remove, prepare, complete an action; assign; the loop of rounds | store, every proxy (`FillSlots`), source and target servers |
| Groups, promotion | `pkg/topom/topom_group.go` | `Group.Servers`, `Promoting`, `OutOfSync` | create, remove, add and delete server, promote, resync | store, proxies, slot migration |
| Replica sync, sentinels | `topom_group.go:352-608`, `topom_sentinel.go`, `pkg/utils/redis/sentinel.go` | `GroupServer.Action`, `ha.masters`, `Sentinel.OutOfSync` | sync actions, switch of masters, rewatch | servers (`SLAVEOF`), promotion |
| Proxies, as seen by the dashboard | `topom_proxy.go` | registered proxies | create, online, reinit, remove, resync of slots | proxies over HTTP |
| Store and cache | `topom_cache.go`, `topom.go`, `pkg/models` | one record per slot, group, proxy; a cache of them | load, update, delete, dirty, refill | coordinator |
| Slot table of a proxy | `pkg/proxy/router.go`, `slots.go`, `proxy.go` | backend, migration source, lock and reference count of each slot | `FillSlot`, `SwitchMasters`, dispatch | dashboard, sessions, connections |
| Forwarding, migration of keys | `pkg/proxy/forward.go`, `extern/redis-8.6.3/src/slots.c`, `slots_async.c` | keys of the servers, requests that hold a slot, the batch of each source | pull a key, wrap a command, move a slot | executors of the dashboard |
| Backend connections | `pkg/proxy/backend.go` | input queue, tasks, retry delay, pools with reference counts | push, write, read, reconnect, close | slot table, sessions, ACL |
| Sessions | `pkg/proxy/session.go`, `request.go`, `session_auth.go` | queue of tasks, identity, broken flag | read, dispatch, coalesce, write, close | router, clients |
| Hot key cache | `pkg/proxy/hot_key_cache.go`, `hot_key_cache_broadcast.go`, `pkg/topom/topom_hot_key_cache.go` | entries, versions of keys, slots and databases, queue of broadcasts | look up, store, invalidate, broadcast | sessions, `FillSlot`, other proxies |
| ACL, QPS limit, AUTH guard | `topom_acl.go`, `topom_qps_limit.go`, `pkg/proxy/acl*.go`, `qps_limiter.go`, `auth_bruteforce.go` | revisions, users, tokens, failures by address | update, sync, authenticate, allow | store, servers, proxies, sessions |
| Point in time recovery | `topom_pitr*.go` | jobs and their steps, a lock per server | create, run, cancel, remove, close | servers, files |
| RDB analysis | `topom_rdb_analysis*.go` | jobs | start, run, cancel, remove, prune | files, remote servers |
| Rebalance | `topom_slots.go:547-715` | none (computes a plan) | `SlotsRebalance` | slot migration |
| Coordinators | `pkg/models/{zk,etcd,consul,fs}` | connections, ephemeral nodes | create, update, delete, watch | external services |
| Redis client pool | `pkg/utils/redis/client.go` | idle clients, what a client has queued, its database | get, put, do, pipeline, select, clean up, close | migration, statistics, recovery |
| codis-ha | `cmd/ha/main.go` | none but the picture of the round | remove proxies and replicas, promote | API of the dashboard, servers |
| Admin API, statistics, commands | `topom_api.go`, `topom_stats.go`, `proxy_api.go`, `cmd` | reports | HTTP routes, command lines | all of the above |

What is hard: the dashboard is one process with one lock (`Topom.mu`), but each
of its handlers alternates writes of the store with calls to all proxies, any of
which may fail, succeed without saying so, or take effect later, and the process
may exit between any two of them. Proxies answer clients all the while. The
correctness of the data path rests on what the handlers guarantee about the
tables of all proxies at once. The hazards met in reading the code are listed,
with their lines, in `PROJECT.json`.

What makes the parts correct:

* migration and promotion: at any time one server at most is served for a slot
  by all proxies together; keys are pulled from where they are; what was begun
  is finished, also by another dashboard;
* groups: a group that slots depend on is never emptied;
* forwarding: a key is never lost nor seen in an older version;
* connections and sessions: each request is answered once, in order, and a
  closed connection leaves none behind; a session ends when its client does;
* hot key cache: no value is served that is older than the last write through
  the same proxy, and other proxies are told;
* ACL: an update is in force everywhere once it is reported so, and what was
  authorised under an older revision does not outlive it;
* QPS limit and AUTH guard: the rate and the number of guesses are bounded
  however sessions overlap;
* replica sync and sentinels: replicas follow the master their group has, and
  the watchers of sentinels end up with the master these agree on;
* client pool: a goroutine gets the replies to its own commands, from the
  database it selected;
* jobs (PITR, RDB analysis): each reaches a terminal state, recovery jobs and
  fetches keep their limits (the one of analysis jobs is looked at before a job is
  listed, and calls that overlap go beyond it: nothing is claimed of it), no file is
  left behind or cut without a snapshot;
* rebalance: plans are level, move no more than they must and are final;
* codis-ha: no master is removed, and every group that has a server codis-ha takes
  gets a master.

## 2. Modules

| Module | What it is |
|---|---|
| `Topology` | slot migration, groups, promotion, assignment, registration of proxies, the store and the tables of the proxies |
| `ExclusiveRouting` | what the control plane promises to the data path; `Topology` implements it and `SlotData` is built on it |
| `TopologyInv` | the inductive invariants of `Topology` (`IInv`, and `LoopInv` of its executors) and the mapping to `ExclusiveRouting` |
| `TopologyProofs` | theorems and proofs |
| `TopologyLive` | `Topology` with a bounded number of failures, fairness and liveness |
| `SlotData` | the keys of a slot on its servers while it moves: requests of proxies, both methods of migration, executors |
| `SlotDataInv` | the inductive invariants of `SlotData`: of its types, of the sync method and of the semi-async method, without and with deletions |
| `SlotDataProofs` | its theorems and proofs |
| `BackendConn` | connections of a proxy to a server: pushes, writer, readers, probes, the shared pool and fills of slots |
| `Session` | a client session: reader, writer, the queue between them, commands that are split |
| `HotKeyCache` | hot key caches of the proxies and the invalidations between them |
| `ProxyACL` | the ACL in a proxy: snapshots, identities of sessions, pools of users |
| `QPSLimit` | the token bucket of a proxy and the updates of its limit |
| `AuthGuard` | AUTH and the guard against guessing |
| `ClientPool` | the pool of Redis clients |
| `PITR` | point in time recovery jobs |
| `RDBAnalysis` | analysis jobs, their files, and the totals they gather |
| `GroupSync` | replica sync actions against promotions, sentinels and restarts |
| `SentinelWatch` | a process that follows sentinels |
| `ACL` | the ACL in the dashboard, servers and proxies |
| `Rebalance` | `SlotsRebalance` as operators, and its plan carried out |
| `HealthyChecker` | codis-ha |
| `Subsequences` | the part of a list that is in a set, which several modules use |
| `Sums` | sums over finite sets, as numbers of pairs |
| `SubsequenceProofs` | facts about both: induction, lists without repetitions or in an order, sums, places in an order |
| `AccessProofs` | theorems and proofs about `ProxyACL`, `QPSLimit` and `AuthGuard` |
| `SessionProofs` | about `Session` and `HotKeyCache` |
| `PoolProofs` | about `ClientPool` and `BackendConn` |
| `JobProofs` | about `PITR`, `RDBAnalysis` and `Rebalance` |
| `GroupProofs` | about `GroupSync`, `ACL`, `HealthyChecker` and `SentinelWatch` |
| `MCTopology`, `MCTopologyLive`, `MCSlotData`, `MCProxy`, `MCDashboard` | instances for TLC |

### Topology

State. `slots`, `order`, `group` and `proxy` are the records of the store:
`slots[s]` is a `models.SlotMapping` and `order` lists the slots with an action
by `Action.Index` (only comparisons of indices matter, and a new index is
greater than all others); `group[g]` is a `models.Group` with its first server
apart, because the code gives `Servers[0]` its meaning of master, and with the
address `Promoting.Index` points at. `table[p]` is the slot table of a proxy,
each entry with the backend, the migration source and the lock that
`context.toSlot` computed. `queue[p]` holds the `FillSlots` calls that reached
the proxy and are not applied, and `reply[p]` what the dashboard knows of its own
call. That a proxy applies them in the order they were sent is an assumption:
`Proxy.mu` serialises them, but each comes by a connection and a goroutine of its
own and has no sequence number (`proxy.go:290-302`), so that the code counts on a
call that timed out having come to the mutex before the next one does. `op` is the handler that holds `Topom.mu`:
its place (`pc`) and working copy (`op.m` or `op.g`). `round`, `plans` and `run`
are the local variables of `ProcessSlotAction` and the state of each
`processSlotAction`; `disabled` is the switch of the operator.

Actions. A handler of the code is a chain of steps: it starts with `op = Idle`
(the lock is free), each store write is a step that ends well (`...StoreOk`) or
not (`...StoreFail`, with the write made or not), each resync is a `Send`
followed by one `FillSlots`, `FillSlotsFails` or `FillSlotsAnswerLost` for each
proxy, and then `...SyncOk` or `...SyncFail`. The `fallthrough`s of the code are
the disjuncts that continue with the next state. So `SlotActionPrepareFilter`
runs pending, preparing, prepared, migrating; `SlotActionComplete` runs
migrating, finished, nothing; `GroupPromoteServer` runs nothing, preparing,
prepared, finished, nothing; and each can stop at each of its steps and be taken
up again from what the store holds.

The cache of the dashboard is not a variable. Each handler marks dirty what it
modified (`defer s.dirty...Cache`) and `newContext` reloads what is dirty, so
that a handler begins with what the store holds; within a handler the working
copy is `op.m` or `op.g`. A second dashboard is excluded by the lock in the
coordinator; `doc/tutorial_zh.md` (2.5.1) requires that the old one has exited
before its lock is removed by hand, which is `RestartDashboard`.

Abstractions. A multi-slot `FillSlots` call is applied in one step; the code
applies it slot after slot under `Proxy.mu`, and no property relates the entries
of two slots of one proxy. Replica addresses for reads (`ReplicaGroups`), data
centers and the forward method are left out. Multi-slot operations of operators
(`SlotCreateActionSome`, `SlotCreateActionRange`, `ResyncGroupAll`, lists passed
to `SlotsAssignGroup`) are sequences of the single ones. `ExecutorReturns` is
any outcome of a move of keys. The sentinels of a promotion are left out.

`Reassign` says whether operators assign slots that are in use. The code allows
it: `SlotsAssignGroup` looks at the action of its argument (`topom_slots.go:480`)
and not at the slot, stores the new owner first and tells the proxies after.
There is no barrier, so that routing cannot be exclusive; what is left is that
the group is flagged (`DriftIsFlagged`) and that groups in use stay
(`GroupsInUse`). These two, and the types, are proved with and without it; the
exclusive-routing results are stated for `~Reassign`, where only offline slots
are assigned.

### ExclusiveRouting

The contract between the two halves of the system. A slot has an owner and,
while it is "moving", a source; a proxy routes a slot to its owner and pulls
from its source, or does not route it at all. Owner and source change only while
nobody routes the slot (`Begin`, `Switch`), proxies may learn late that a slot
has "moved", and it settles when nobody pulls any more. `TopologyInv` maps the
state of `Topology` to it: a slot moves from the write of "prepared" to the
write of "finished", and a registered proxy routes what its table serves
unlocked. `ImplementsExclusiveRouting` is checked and proved.

### SlotData

State. The control plane is the state of `ExclusiveRouting`; `came` remembers
the source after the move is over (a proxy that has not learnt of it still pulls
from there). `data[a][k]` is the value of a key on a server, numbered by the
write that made it, and `last[k]` the value after the last write, wherever it
was run: a write that goes to the wrong server shows as a difference of the two.
`req[p]` is the request in hand of a proxy: waiting for `Slot.lock`, waiting for
the source under the read lock, or queued at the owner and counted in
`Slot.refs`. `batch[a]` is the `slotsmgrtAsyncClient` of a source: keys of the
iterator, keys not visited, keys sent, messages the target has not run.

Actions. `Forward`, `Pull`, `slotsmgrtExecWrapperCommand`, `Serve` are the steps
of `forwardSync` and `forwardSemiAsync`; `FillSlots` is `Router.fillSlot`, which
waits in `Slot.blockAndWait` for those requests. `slotsmgrt` restores the keys
of a tag at the target and removes them at the source; `slotsmgrtFails` is its
error path, with nothing done, the answer lost, or the restore still under way.
`MigrateSlotAsync`, `BatchNext`, `BatchRestore`, `slotsmgrtAsyncComplete` and
`unlinkSlotsmgrtAsyncCachedClient` are the life of a batch. `ExecutorDone` is an
executor that is told that no key is left.

A restore the source gave up may still run (`LateRestore`, at most `MaxLate` at
a time). If it overwrites a newer value, or comes to a server the slot has left,
which the code cannot prevent, a write is lost or a copy stays; `overrun` records
it, and `NewestKept`, `SentFindsNewest` and `NothingLeft` are stated for as long
as it has not happened.

Abstractions. A server runs one command at a time; a SLOTSMGRT command keeps
source and target busy until it ends, so it is one step. Commands are a read, a
write, a deletion, and a script (`EVAL`), which writes and is not flagged as
such. Left out: promotions (`Switch`), expiry and eviction, databases other than
one, reads from replicas, ACL checks before the wrapper. Commands have a hash key (the test `len(hkey) != 0` of
`forward.go:52` and `117` is for those without). A message of a batch
that the target has not run when the batch is aborted is dropped; a late run is
modelled for the sync method only. `Lose` ends a request that was never run; one
that is run after the proxy gave it up is not modelled.

### Parts of a proxy

Each module keeps the variables of its part under a prefix of its own, so that
`MCProxy` can extend all of them.

`BackendConn`. `bcReq` says of each request where it is: chosen a connection
(`SlotForward` under the lock of its slot, `dispatchAddr` and `KeepAlive` under
`Router.mu`), pushed, done. A connection is an incarnation of `BackendConn` with
its `input`, the place of `run` (`bcRun`), `state`, `closed` and one reader with
its `tasks` for every round of dialling. Failures are those of a dial, a write
and a read; `Drain` and `DelayAnswer` are what `run` does with the input then.
`blockAndWait` and `fillSlot` release and retain the connection, which is closed
with its last reference. Of the connections a slot retains only that of its backend
is modelled; its migration source and its replica groups (`router.go:336-367`) are
retained and released likewise. `bcPanic` records what the Go runtime would stop at: a
push into a closed channel, a reference count below zero, a request answered
twice. Requests of `dispatchAddr` and INFO probes hold no slot and may be left
unanswered in a connection that is closed, so that liveness is stated for those
that do.

`Session`. `loopReader` decodes a command, splits it into parts, pushes it and
dispatches the parts one by one; `loopWriter` takes the first command out of the
queue (`PopFront`, `ssTask`), waits for all its parts, joins and writes. So the one
it waits for is not in `Buffered()` any more when the reader looks at
`session_max_pipeline`, and with M allowed M + 2 commands may be waiting for their
replies. `ssParked` is the writer in `cond.Wait`. Either side
of the connection closes by itself, clients leave and QUIT, and
`session_break_on_failure` is on or off.

`HotKeyCache`. A GET looks the key up under a token (versions of key, slot and
database), is sent, and stores what it read if the token still holds; check and
store are two steps, as in the code. Writes bump the version, remove the entry
and queue an invalidation; the reporter merges what is queued, sends it to the
dashboard, which calls every other proxy. Fills of the slot change its version.
`hkGap` and `hkLost` record the two ways the code allows an old value: the gap
between check and store, and an invalidation that is dropped.

`ProxyACL`. `SetACL` replaces the snapshot, marks sessions one by one and closes
the pools; AUTH reads the snapshot and sets the identity later; a command passes
`isACLAuthorized`, reads the identity, gets a pool and a connection and pushes.
While the ACL is off, or when the identity is gone, a command is a plain one, and
SELECT takes the session to any database (`PlainCommand`). One user and one address
are enough for every order of these. A proxy compares no revisions: a `SetACL` that
comes late puts an older one back, and an identity of it counts again although its
session has selected another database meanwhile. `paBack` records that revisions
went back, and `BoundStaysInDb` is stated for as long as they have not.

`QPSLimit`. Sessions read the clock, then get the lock: `Allow` refills with a
time that may be older than the last. `UpdateProxyQPSLimit` stores the limit and
sends it; a call that is given up arrives later (`qlLate`). `qlWindow` is any
window of time and what was let through in it.

`AuthGuard`. `BeforeAuth`, the comparison and `RecordAuthFailure` are separate
steps with one reading of the clock. The records are those of the map, with
expiry, lock and eviction.

`ClientPool`. A client is its queue of replies owed, whether they are flushed,
the database it believes in and the one its connection is in. Goroutines stop at
any error and put the client back, as the callers do.

### Parts of the dashboard, and codis-ha

`PITR`. A job goes through nine steps, between which its context is looked at
and within which polls have deadlines. `Create` takes the lock of the server,
`Remove` looks at the state and deletes in two critical sections, `Cancel` and
`Close` come at any time, and servers come up when their process manager likes.
What a step does to files is whether a snapshot was made and the file cut; the
search for the place to cut is left out.

`RDBAnalysis`. The three ways to start a job, each with its file; the limit of
fetches, which is kept, and that of jobs, which is looked at once, in a critical
section before the one that lists the job (`topom_rdb_analysis.go:338`), and can be
overrun; `Remove`, `Cancel`, `Close`, pruning. The file
is a sequence of objects, and the snapshot of a job (totals by type, database and
prefix, flame graph, top keys) is computed as `addObject` does.

`GroupSync`. `ProcessSyncAction` prepares the pending action with the smallest
index, reads its master, sends SLAVEOF without the lock and completes.
Promotions are their beginning, exchange and end; `Failover` is the sentinels, in
any state of a promotion, since it goes on when the group could not be taken from
them (`topom_group.go:283-285`), `trySwitchGroupMaster` the dashboard that learns of
it. `gsStray` marks servers
that an executor of before a change told something else, and masters whose
`SLAVEOF NO ONE` failed, which the code only logs.

`SentinelWatch`. Goroutines of `Subscribe`, one per sentinel, the trigger, the
fetch by a majority with at most ten tries, `SwitchMasters`. A promotion takes
the group from the sentinels and `ResyncSentinels` gives it back.

`ACL`. A call goes through servers, the store and proxies, and can fail or be cut
off after each. `acStray` holds users that calls which failed left behind. A call of
`SetACL` that the dashboard gave up, or was in when it exited, is in `acLate` and may
be run by its proxy at any later time (`LateSetACL`), over a newer ACL too, since the
proxy compares no revisions (`acl.go:43`, `router.go:127-143`); `acOver` has the
proxies that run by such a call until they are sent the ACL again. Of servers it is
assumed that what a failed call sent them is run before it returns: the connection is
closed, and a command that waits in its socket is not modelled.

`Rebalance`. `plans` is the plan: slots that are on their way count for their
target, those of groups without servers stay where they are, offline slots are
docked one by one (`dockSlot`), then the largest and the smallest group exchange
until level (`exchange`, a round of the loop; one that has ended stays as it is, and
`MaxRounds` of them are always enough). It is stored slot by slot, and called again
over what is there.

`HealthyChecker`. A round takes a picture and acts on it once: proxies that are
down, then replicas, then masters. Operators, who promote, resync and add servers,
and failures come in between. `haLink` is the link of a replica to its master as the
replica reports it. It goes down some time after the master died, or with a master
that runs (`LinkFails`); a replica that was restarted, or became one, while its master
is down has never been connected and reports -1 seconds
(`extern/redis-8.6.3/src/server.c:2385`, `6623-6625`). codis-ha picks a replica of the
dead master only if the link has been down for 0 to 65534 seconds
(`cmd/ha/main.go:334-339`), so that a group all of whose replicas are of the other
kind ("out") is given up in every round; `GroupsAreLed` says so. The SHUTDOWN that
follows a removal is not covered by a property: an operator may have added the server
again and promoted it by then, and nobody looks.

`MCProxy` and `MCDashboard` put the parts side by side. They share no variable,
so that their interleavings say nothing: a behaviour is one of the part in
`focus`, from every initial state of that part, while the others stay as they
began. In `MCDashboard` at most one slot is on its way when rebalance begins, and
the first recovery job is on the first of two servers that are alike.

## 3. Runs

| Run | Instance | Checks |
|---|---|---|
| `promote` | 1 slot, 2 groups (one with a replica), 2 proxies, 1 late call of each | `RoutingAgreement`, `PromotionBarrier`, `ImplementsExclusiveRouting` |
| `parallel` | 2 slots, 3 groups, 1 proxy, `Parallel` 2 | `ExecutorsApart`, `IInv` |
| `edit` | 1 slot, 2 groups of one server, 1 proxy, 1 late call, `Reassign`, group editing | `GroupsInUse`, `DriftIsFlagged` |
| `live` | 1 slot, 2 groups, 1 proxy, 1 late call, 2 failures | `MigrationEnds`, `PromotionEnds`, `LocksAreReleased` |
| `sync` | sync method, 1 slot, 2 keys of a tag, writes and deletions of one and both, 2 servers, 2 proxies, 2 writes, 2 failures, 1 late restore; ends with an overrun | `TypeOK`, `NewestKept`, `SyncInv` |
| `semi` | semi-async method, 2 keys, reads and writes of single keys, 2 proxies, 2 writes, 2 failures, fairness | `NewestKept`, `SentFindsNewest`, `NothingLeft`, `MovingKeysAreStill`, `RequestsEnd`, `MovesEnd` |
| `proxy` | 2 requests, 2 slots and 2 incarnations of a connection; 3 commands of up to 2 parts, with `session_max_pipeline` 0; 2 proxies, 2 keys and a cache of one entry; 3 overlapping `SetACL` of 3 revisions, one of which is off; 2 callers of a bucket; 3 sessions of 2 addresses; 2 goroutines with 2 clients | `ConnectionsAreSound`, `SlotsGoOn`; `SessionIsSound`, `SessionGoesOn`; `CacheIsSound`, `BroadcastsReach`; `ACLIsKept`; `LimitIsKept`; `GuardHolds`; `ClientsAreClean` |
| `dashboard` | 2 recovery jobs on 2 servers; 2 analysis calls at limits of one; groups of 3 and 1 servers; 3 sentinels; 2 servers and a proxy under ACL; 4 slots in 3 groups and one without servers; groups of 3 and 2 servers under codis-ha | `RecoveryIsSafe`, `PtJobsEnd`; `AnalysisIsSound`, `RaJobsEnd`; `ReplicasFollow`, `SyncsAreTaken`; `SentinelsAreFollowed`; `ServersAgree`; `PlansAreGood`; `LeadersAreKept`, `GroupsAreLed` |
| `script`, `aborted`, `revoked`, `cancelled` | | violated, see below |

The properties of the last two passing runs are conjunctions of named parts; each
part has its comment in the module. In short:

* `ConnectionsAreSound`: a connection is closed only when no request of a slot is
  on it or on its way to it, nothing panics, and one that says it is connected
  has a writer. `SlotsGoOn`: every request of a slot is answered and every fill
  gets through.
* `SessionIsSound`: replies are in order, one for each command, good only when
  all parts are, no part is answered after it, and at most `session_max_pipeline` + 2
  commands wait for theirs. `SessionGoesOn`: no wake-up is
  lost, and both goroutines end.
* `CacheIsSound`: nothing cached is older than the last write the proxy has
  invalidated the key for, nor than the last fill, but for the gap between check
  and store. `BroadcastsReach`: all proxies are told unless a call is lost.
* `ACLIsKept`: pools of users are of the revision in force once no `SetACL` is
  under way, a command passes only with a revision that was in force since it was
  read, and goes to the database its user is bound to unless revisions went back.
* `LimitIsKept`: the rate over any window is bounded although clocks are read
  early, and an update reported ready is in force unless a call that was given up
  overwrites it.
* `GuardHolds`: an address compares no more wrong passwords than the limit and
  one for each session that had entered before, and a lock lasts.
* `ClientsAreClean`: replies and databases are a goroutine's own, and no client
  is shared or lost.
* `RecoveryIsSafe`: one job per server, within the limit; what was cut has its
  snapshot; outcomes are true. `PtJobsEnd`: jobs that are not cancelled end.
* `AnalysisIsSound`: files, slots for fetches and running jobs are accounted for,
  and totals, flame graph and top keys agree. `RaJobsEnd`: calls and jobs end.
* `ReplicasFollow`: a server shown as synced replicates the master its group has,
  and a master replicates none, except where a stale executor told it otherwise.
  `SyncsAreTaken`: no action waits for ever.
* `SentinelsAreFollowed`: a fetch is never behind a majority, and the watcher
  ends with the master the sentinels agree on.
* `ServersAgree`: once a call went through, servers and proxies have the users of
  the ACL but for proxies that run a `SetACL` given up before, removed users are gone,
  and a revision names one ACL.
* `PlansAreGood`: plans move only what is free to move, leave no slot offline,
  level the groups as far as slots may be moved, and are not revised.
* `LeadersAreKept`: codis-ha removes no master from its group, however old its
  picture. `GroupsAreLed`: a group gets a master that runs, or all its servers that
  run are replicas that codis-ha does not take.

Violations. The four runs that fail show where the code departs from what its
documents and comments say; `PROJECT.json` quotes the lines.

* `script`: the wrapper holds back what is flagged `CMD_WRITE`, and `EVAL` is
  not. A script changes a key that was sent; the source then deletes it with
  what the script wrote. The server of Redis 3.2.11 held back whatever is not
  `CMD_READONLY`.
* `aborted`: a batch restores a key at the target and times out; a client
  deletes the key at the source; the target's copy is now the key's value.
* `revoked`: a command takes a connection from the pool of its user, `SetACL`
  closes the pool, and the command is pushed into a closed channel.
* `cancelled`: a recovery job that is cancelled between two steps keeps its state
  for ever, and with it the lock of its server and its place under the limit.

Two more disagreements are met in the models and not the subject of a run. A
command on two keys of a tag is forwarded to the target because the first does
not exist at the source, where the second still is (`slots_async.c:688`,
`SlotData` with `MultiKey` and the semi-async method). And codis-ha, after a
promotion, takes the other replicas for failed, which still follow the old master,
and removes and shuts them down one after the other (`cmd/ha/main.go:285`), where
`doc/tutorial_zh.md:486` leaves them to the administrator.

Bounds. Routing is a statement about one slot and two proxies, so one slot and
two proxies show every way to break it; the second slot matters for parallel
rounds only, and needs three groups for two plans that do not share one. A
replica in one group is enough for a promotion at the source and, on the way
back, at the target. `MaxLate` bounds the calls that are outstanding at a proxy
after their timeout; one late call meets each later step. The proofs have none of
these bounds. Proxies are symmetric in `promote` and `sync`, the two runs without
liveness that have two of them. Deadlock is allowed in `proxy`, `dashboard` and
the runs of the same modules only, where the requests, calls and jobs of an
instance are finite and may all be done; in the others operators can always act.

For the keys of a slot, two servers let it go and come back, which is where a
copy left behind would matter; two proxies let one request wait while another
is served and a fill waits for one of them; two keys are needed for commands on
several keys of a tag and for batches that are partly sent; two writes are one
that a move carries and one that may be lost behind it, and two failures let a
retry fail again.

For the parts of a proxy, two of each actor that competes and one failure: one
request fills the input while another waits, two fills make a connection close
and another open, a cache of one entry evicts, a queue of one drops. Limits of
one or two are reached in every run; with larger ones they would not be. For the
services of the dashboard, a call and one that overlaps it, one failure or restart
in each, and as many servers as a majority, a promotion or an exchange needs.
A session with `session_max_pipeline` 0 reaches its bound with three commands, and
three calls of `SetACL` are what it takes for a revision to be put back after the
ACL was off. `HealthyChecker` was also run with two calls of operators, and nothing
new came of it.

Fairness (`TopologyLive`). A handler that holds the lock goes on and a proxy
applies the calls it received: weak fairness. Whoever waits for `Topom.mu` gets
it, since a Go mutex hands the lock to a waiter that starves: strong fairness of
the actions that begin with the lock free. An executor that is run again and
again finds the slot empty at last. A promotion that failed halfway is repeated
by its operator; nothing else in the code does it, and until then the slots of
the group stay blocked. Failures are finite (`MaxFaults`): a proxy that is
registered and never answers stops every migration, by design of the barrier.

Fairness (`SlotData`). Servers run what they are sent, executors are run again
until they report no key, and a proxy is told to route a slot again after it was
locked, all weakly fair; the last two are what `Topology` shows (`MigrationEnds`,
`LocksAreReleased`). A request gets `Slot.lock` if the slot is unlocked again
and again (strong fairness of `Forward`), because a `sync.RWMutex` lets the
waiting readers in before the next writer. `RequestsEnd` has as its premise that
slots do not begin to move for ever. Nothing is assumed of clients.

Fairness (`MCProxy`, `MCDashboard`). Goroutines that can run do, weakly fair each:
writers and readers of connections, whose dials, writes and reads have timeouts;
loops of sessions; the reporter of invalidations; jobs, whose polls and fetches
have deadlines; the loops of the dashboard and of codis-ha. Two things the code does
not see to are assumed of recovery jobs: that `redis-check-aof` and
`pitr_restart_command` end by themselves, for neither has a timeout and only a cancel
kills them (`topom_pitr_run.go:421-425`, `493-494`). A replica notices that its master
is gone (`repl-timeout`). Backends answer the
parts of a command (`SlotsGoOn` is why). For replica sync, a promotion that began
is ended (`PromotionEnds`), since none is taken up meanwhile. For sentinels, a
majority of them answers. Nothing is assumed of clients, of operators, of servers
that are down, or of calls between proxies and dashboard, which may be lost.

## 4. Proofs

Each theorem holds for all constants that satisfy the assumption of its module
(`TopologyAssumption`, `SlotDataAssumption`, ...), which TLC evaluates in the runs.
The assumptions say no more than what the code starts from: counts are numbers,
limits are at least one, the sets of proxies, sessions, slots, calls, servers and
sentinels that are counted are finite, no server is in two groups, a group that
replica sync or codis-ha looks at has a server, and a watcher has a sentinel. Where a theorem needs more it says so in
its statement.

### Topology

* `Inductive`: `Spec => []IInv`, and from it `TypeCorrect`, `GroupsStay`
  (`GroupsInUse`) and `DriftIsVisible` (`DriftIsFlagged`), with and without
  `Reassign`;
* for `~Reassign`: `RoutesAgree`, `BarrierHolds`, `PullsAreRight` (a proxy pulls
  from where the keys are), `ExecutorsStayApart` (`ExecutorsApart`, for any
  `Parallel`) and `Refinement` (`ImplementsExclusiveRouting`).

Argument. `RoutingAgreement` is not inductive: a late call may break it in one
step. `IInv` therefore speaks of every entry a proxy uses or will use
(`Entries`: its table and the calls in its queue), and says of each that, if it
serves, it agrees with the store (`EntriesInv`, by `Exact`). That in turn is kept
by a change of the store only if no entry serves the slot at that moment, or if
the new mapping agrees with the old entries. So the invariant also says what the
handler knows when it is about to write: `SlotOpInv` and `GroupOpInv` relate the
working copy to the store and say `Parked` (no entry serves) before the write of
"prepared" and `Drained` (no entry pulls) before the action ends. These come
from `ReplyInv`: a call that succeeded was applied after every earlier call of
that proxy, so that nothing late is left behind it. `GoneInv` covers proxies
that are not registered. With `Reassign` an entry may disagree, but then the slot
is `Excused`: its group is flagged, and the flag goes only after a resync that
made the entries exact again (`InSync`); with `~Reassign` nothing is excused and
`Good` is `Exact`. The invariant is checked by the run `parallel`.

`ExecutorsApart` needs `LoopInv` besides: the slots of a round migrate between
groups of their own (`LiveInv`), an executor runs only while its groups are not
promoted (`ExecInv`), and a handler that is under way either prepares a slot that
the plans accept or completes one whose task is done (`HandlerInv`).

In the proof, each action preserves each part that it can disturb; actions that
leave the store alone share the lemmas about entries (`EntriesOf` of an append,
of a head that is applied, of a dropped call).

### SlotData

* `DataTypes`: `Spec => []TypeOK`, with both methods. Values are numbered up to
  `MaxWrites`, which bounds the writes that were run and those under way together;
  `TypeInv` therefore counts the proxies that are writing;
* with the sync method (`Sync`) and any number of late restores: `SyncInductive`,
  `SyncKeepsNewest`, `SyncServesNewest`, `SyncLeavesNothing`;
* without scripts (`"script" \notin Commands`), with both methods:
  `KeysAreStill` (`MovingKeysAreStill`);
* with the semi-async method and reads and writes of single keys (`Semi`):
  `SemiInductive`, `SemiKeepsNewest`, `SemiServesNewest`, `SemiLeavesNothing`. The
  hypothesis leaves out what the runs `script` and `aborted` and the wrapper at
  `slots_async.c:688` show not to be kept: scripts, deletions while a batch is cut
  off, and commands on several keys;
* with the semi-async method, commands on single keys, deletions among them
  (`Single`), and behaviours in which no batch is cut off (`NoneGivenUp`):
  `CleanInductive` and `CleanKeepsNewest` (`NewestKept`, `SentFindsNewest` and
  `NothingLeft`). Requests may still be lost. So the run `aborted` needs the batch
  that it cuts off: without one, no deleted key comes back.

Argument, sync. The keys of a slot are nowhere but at its owner and, while it
moves, at its source, and what is at the source is the newest (`KeysInv`). No
request is run at the source of a moving slot: a slot begins to move when nobody
routes it, hence nobody holds it, and a request that holds a route goes to the
owner (`RouteInv`). A request is sent only after the keys of its tag have left the
source, and nothing puts them back (`RequestInv`). A proxy that pulls after the
move is over pulls from a server that has none of the keys (`SourceInv` with
`KeysInv`), and a slot is over only after its source was found empty
(`DrainedInv`). One lemma, `HandOver`, covers every way in which keys change
servers, with and without the answer. A late restore either brings the newest
value to the owner of the slot, and then keeps all of this (`LateRestoreKeeps`);
or it overruns, of which `overrun` keeps the record (`OverrunStays`). So the
invariant is `overrun \/ Intact`, and `StepIntact` shows that a step from an
intact state is intact or an overrun.

Argument, semi-async. A key of a batch belongs to a slot that moves from the
source of the batch to its target, and the source has it until the batch is over
(`BatchOk`, `StillInv`). That the source may then delete it is `WireOk`: either
the target has the value and no message for the key is left, or the last message
for it that is on its way has the value; an invariant about the target alone is
not kept, because a key may be sent again after a batch was cut off. And a request
goes to the owner of a moving slot only when the source has not its key
(`GoneOk`). A deletion at the source makes the value at the owner count, which
must then be none; that is `CleanInv`: what the source has is not at the owner,
unless the batch of the source has sent it, and what is in the batch the source
refuses to delete. Every step keeps `CleanInv` but the end of a batch that is cut
off (`StepClean`), which leaves at the owner what it has restored.

### Parts of a proxy

* `ACLTheorem` (`ACLIsKept`). A command remembers the revisions in force since it
  was read; from the check of its identity on, `SetACL` can mark the identity
  stale but not replace it (`SessionOk`), so that the one it goes on with is among
  them. A session that has an identity in force is in the database of its user, or
  its identity is of a revision other than the one in force, or older ones were put
  back (`Strayed`, `ForwardOk`); a revision names one ACL, which the module assumes
  and `ACL` shows (`RevisionsNameOneACL`).
* `LimitTheorem` (`LimitIsKept`). The bound on a window follows from a potential:
  tokens left and commands passed together are no more than a second's tokens and
  those of the time between the beginning of the window and the last refill
  (`QlPaid`), and no refill is ahead of the clock (`QlTimes`). A call that was given
  up is behind the dashboard's revision or says what it believes (`QlForce`).
* `GuardTheorem` (`GuardHolds`, an invariant and an action property). Guesses are
  the failures of the record until it locks; after that every guess takes one of
  the sessions that are inside (`GuessesOk`).
* `SessionTheorem` (`SessionIsSound`). The command in the hands of the writer, if any,
  and the queue are the run of commands that follows the replies, up to the one in
  the hands of the reader (`SsOrder`); and the reader went on only while the queue
  was within the limit.
* `CacheTheorem` (`CacheIsSound`). A request whose token still holds read a value
  no older than any invalidation that was counted (`HkFresh`), whether it was seen
  or is between its two steps (`Told`); the list of a cache is that of its entries
  (`HkLists`).
* `ClientsTheorem` (`ClientsAreClean`). A client is in the pool or with one
  goroutine (`CpPlaces`), what is owed are the replies not received (`ClientOk`),
  and a goroutine that has met no error finds its own commands only (`CpOwn`).
* `ConnectionsTheorem` (`ConnectionsAreSound`). The reference count of the pool is
  the number of slots that have the connection (`BcCounts`), a request of a slot
  that is not answered holds such a slot (`BcHolds`), and a request waits in one
  place at a time (`BcPlaces`); so it is neither answered twice nor pushed into a
  connection that is closed.

### Parts of the dashboard, and codis-ha

* `RecoveryTheorem` (`RecoveryIsSafe`). What a job has done is told by its step
  (`JobOk`); the lock of a server names the job that is listed, and a call of
  `Remove` is between its sections only for jobs that are over (`RegistryOk`).
* `AnalysisTheorem` (`AnalysisIsSound`). A call that is not over has no job, and
  has no file before it copied or fetched one (`RaInv`). What a job shows is what
  the objects read so far sum up to (`SnapInv`): an object adds its size to every
  total once, and to a path of the flame graph, whose nodes are the prefixes of one
  another (`PlusSum`, `PlusAddsUp`). The top list is the first `TopN` of the objects
  read in the order of their sizes; inserting one where it belongs and cutting what
  is too long keeps that, because what is cut off comes after all the others
  (`InsertKeepsTop`).
* `PlansTheorem` (`PlansAreGood`, types and action properties). The loop over the
  tree ends after `MaxRounds` rounds: in each a group leaves the tree, or the slots
  beyond the bounds get fewer, those beyond the upper bound counted twice (`Rest`,
  `OverShrinks`; once is not enough, as a slot may go from above the upper bound to
  a group between the bounds). A group that left the tree has given all it may and
  is no smaller than those that are in it (`LoopOk`), so that the loop leaves the
  groups level (`EndedIsFinal`): were the smallest group at the upper bound and
  another two slots larger, there would be more slots than there are
  (`SumExceeds`). The groups take together as many slots as are offline or given
  (`DockingIs`), every place in the list of those falls to one group (`ShareExists`,
  `ShareUnique`), and so each ends with the size the loop gave it (`PlanShares`).
  The level is the inductive invariant's (`RbInv`): while a plan is stored slot by
  slot, what a slot will be is the same before and after its write, and a group that
  is too large all the same gets no slot of the plan, so that it has none to give
  afterwards either. From that a second call plans nothing (`RebalanceAgain`).
* `ReplicasTheorem` (`ReplicasFollow`). A server that is shown as synced, or is
  going to be because its executor succeeded, replicates the master its group has
  or that the sentinels elected (`GsFollow`); actions that wait have indices of
  their own (`GsQueue`).
* `ServersTheorem` (`ServersAgree`). Servers and proxies that a call is through
  with have its ACL, but for proxies in `acOver` (`AcDone`), what a
  server has besides is recorded as left behind (`AcStrays`), and neither a proxy nor a
  call that was given up is ahead of the dashboard, nor that ahead of the store
  (`AcRevs`).
* `LeadersTheorem` (`LeadersAreKept`, an invariant and an action property). Every
  change of a list, by codis-ha or an operator, is a removal of another server than
  the first, a permutation, or an addition of a server of the same group that the
  list has not (`GroupWrittenHa`), whatever the picture says (`HaInv`).
* `FetchesTheorem`: `FetchesSeeMajority` and the types, the safety part of
  `SentinelsAreFollowed`. While a fetch asks, a majority of the sentinels has
  reached its floor: they only go on to later epochs, and where the group is taken
  from them the floor is gone too (`SnInv`). Two majorities have a sentinel in
  common, and one that has a later epoch than 0 monitors the group.

### How lists, sums and loops are reasoned about

Code that walks a list and drops some of it is modelled with `OnlyIn` of
`Subsequences`, a recursive function with a set as its test; `SelectSeq` takes an
operator, which the provers cannot instantiate. `SubsequenceProofs` shows what it
returns (`OnlyInIs`) from `FiniteInduction`: a set of numbers up to n that has 0
and with each of its numbers below n the next has n as well, else adding one would
map a finite set one to one into a smaller one. The least element of a set of
numbers (`LeastExists`), by which the smallest index or the first group is chosen,
follows from it too. With sets of subsets in the place of sets of numbers it
becomes an induction over a finite set (`SetInduction`).

A sum over a finite set is the number of pairs of an element and a number from 1 to
its own (`SumOver` of `Sums`): no fold, and the theorems about cardinality apply. So
sums change by what one element changes (`SumChange`), add up (`SumsAddUp`), and
count the elements of disjoint sets (`SumOfSets`). The place of an element in an
order is a cardinality as well, and the elements of a finite set have the places
from 1 to its size, each one (`PlacesFill`, `PlacesCount`).

A loop is a recursive function of the number of its rounds; that there is one
(`IterExists`) and what its rounds keep is again `FiniteInduction`.

### Only model-checked

* Liveness and fairness (`MigrationEnds`, `RequestsEnd`, `SlotsGoOn`, `PtJobsEnd`,
  `GroupsAreLed`, `MastersFollowed` of `SentinelsAreFollowed` and the others), for
  which no prover is at hand.
* `SlotData` with the semi-async method and more than the theorems allow: scripts,
  commands on several keys, deletions after a batch was cut off. There the promises
  are not kept (section 3).

## 5. Plan

1. Done: `Topology` with its abstract specification, liveness and proofs.
2. Done: `SlotData`, both methods, on top of `ExclusiveRouting`.
3. Done: replica sync and sentinels (`GroupSync`, `SentinelWatch`), connections
   and sessions, the hot key cache, jobs, ACL, QPS limit, AUTH guard, client pool,
   rebalance, codis-ha.
4. Done: proofs of the safety of all parts but what is under "Only model-checked".
5. Done: the semi-async method with deletions, as long as no batch is cut off.

Not modelled, and why. The coordinators are clients of external services;
`Topology` takes from them that a record is written whole, and that a write may
have been made although it failed. The admin API, statistics, configuration and
command lines are input and output around the handlers. Reads from replicas
(`EnableReplicaGroups`, `ReplicaGroups`) have no promise to check: a replica may
be behind. Parsing of RDB files, the search for a place in an append only file,
disk space and the tables of commands are conversions without state. Expiry and
eviction of keys are the servers' own.
