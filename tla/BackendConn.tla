----------------------------- MODULE BackendConn -----------------------------
(***************************************************************************)
(* The connections of a proxy to one codis-server (pkg/proxy/backend.go):  *)
(* the goroutines that write requests to it and read their answers, the    *)
(* reference counted pool the connections are kept in, and the slots that  *)
(* share them (slots.go, router.go).                                       *)
(*                                                                         *)
(* A connection is an incarnation of BackendConn: fillSlot releases one    *)
(* and retains the next.  The pool has one address and one connection per  *)
(* address (backend_primary_parallel = 1, one database).  Of what a slot   *)
(* retains only its backend is kept; its migration source and its replica  *)
(* groups are retained and released in the same way, each in a pool.       *)
(***************************************************************************)
EXTENDS Naturals, Sequences, FiniteSets

CONSTANTS
    Reqs,           \* requests, each made once
    Probes,         \* those that may be sent to an address or by KeepAlive
    PoolSlots,      \* the slots that use the address
    MaxConns,       \* bound: incarnations of the connection
    InputCap,       \* the capacity of BackendConn.input (1024)
    MaxPipeline,    \* config.BackendMaxPipeline: the capacity of tasks
    FreeRetries,    \* failures before delayBeforeRetry waits (10)
    MaxFaults,      \* bound: failures of dials, writes and reads
    MaxFills        \* bound: fills of slots

ASSUME BackendConnAssumption ==
    /\ Probes \subseteq Reqs
    /\ IsFiniteSet(PoolSlots) /\ PoolSlots # {}
    /\ MaxConns \in Nat \ {0} /\ InputCap \in Nat \ {0} /\ MaxPipeline \in Nat \ {0}
    /\ FreeRetries \in Nat /\ MaxFaults \in Nat /\ MaxFills \in Nat

Conns == 1 .. MaxConns

VARIABLES
    bcReq,          \* every request: where it is, what for and on which connection
    bcInput,        \* BackendConn.input
    bcReaders,      \* the readers of the rounds: their tasks, are these open, is it decoding
    bcRun,          \* where BackendConn.run is
    bcFails,        \* BackendConn.retry.fails
    bcState,        \* BackendConn.state
    bcClosed,       \* BackendConn.closed, and close(input)
    bcPool,         \* sharedBackendConnPool: the connection (0: none) and its refcnt
    bcSlot,         \* Slot: lock.hold, refs and backend.bc
    bcMu,           \* the slots Router.mu is locked for
    bcFaults,
    bcFills,
    bcPanic         \* has the proxy panicked

bcConnVars == <<bcInput, bcReaders, bcRun, bcFails, bcState, bcClosed>>
bcVars     == <<bcReq, bcConnVars, bcPool, bcSlot, bcMu, bcFaults, bcFills, bcPanic>>

NoReq == [at |-> "new", kind |-> "none", conn |-> 0, ok |-> FALSE]

BcInit ==
    /\ bcReq = [r \in Reqs |-> NoReq]
    /\ bcInput = [c \in Conns |-> << >>]
    /\ bcReaders = [c \in Conns |-> << >>]
    /\ bcRun = [c \in Conns |-> IF c = 1 THEN "dial" ELSE "none"]
    /\ bcFails = [c \in Conns |-> 0]
    /\ bcState = [c \in Conns |-> "zero"]
    /\ bcClosed = [c \in Conns |-> FALSE]
    /\ bcPool = [conn |-> 1, refcnt |-> Cardinality(PoolSlots)]
    /\ bcSlot = [s \in PoolSlots |-> [hold |-> FALSE, refs |-> {}, conn |-> 1]]
    /\ bcMu = {}
    /\ bcFaults = 0
    /\ bcFills = 0
    /\ bcPanic = FALSE

-----------------------------------------------------------------------------
(* Requests come to the connection.                                        *)

Choose(r, kind, c) == bcReq' = [bcReq EXCEPT ![r] = [NoReq EXCEPT !.at = "chosen", !.kind = kind, !.conn = c]]

(* Those that hold Router.mu for reading until they have pushed.           *)
Readers == {r \in Reqs : bcReq[r].at = "chosen" /\ bcReq[r].kind \in {"addr", "ping", "info"}}

(* forwardSync.process under Slot.lock; PushBack comes after the unlock.   *)
SlotForward(r, s) ==
    /\ bcReq[r] = NoReq
    /\ ~ bcSlot[s].hold
    /\ bcSlot[s].conn # 0
    /\ Choose(r, "slot", bcSlot[s].conn)
    /\ bcSlot' = [bcSlot EXCEPT ![s].refs = @ \cup {r}]
    /\ UNCHANGED <<bcConnVars, bcPool, bcMu, bcFills, bcFaults, bcPanic>>

(* Router.dispatchAddr: PING, INFO and SLOTSINFO of a client.              *)
dispatchAddr(r) ==
    /\ bcReq[r] = NoReq
    /\ bcMu = {}
    /\ bcPool.conn # 0
    /\ bcState[bcPool.conn] = "connected"
    /\ Choose(r, "addr", bcPool.conn)
    /\ UNCHANGED <<bcConnVars, bcPool, bcSlot, bcMu, bcFills, bcFaults, bcPanic>>

(* Router.KeepAlive, which asks a connection that is stale for INFO.       *)
KeepAlive(r) ==
    /\ bcReq[r] = NoReq
    /\ bcMu = {}
    /\ bcPool.conn # 0
    /\ bcInput[bcPool.conn] = << >>
    /\ Choose(r, IF bcState[bcPool.conn] = "stale" THEN "info" ELSE "ping", bcPool.conn)
    /\ UNCHANGED <<bcConnVars, bcPool, bcSlot, bcMu, bcFills, bcFaults, bcPanic>>

(* A send to a channel that is closed panics, also when it was waiting.    *)
PushBack(r) ==
    LET c == bcReq[r].conn
    IN  /\ bcReq[r].at = "chosen"
        /\ \/ /\ bcClosed[c]
              /\ bcPanic' = TRUE
              /\ UNCHANGED bcInput
           \/ /\ ~ bcClosed[c]
              /\ Len(bcInput[c]) < InputCap
              /\ bcInput' = [bcInput EXCEPT ![c] = Append(@, r)]
              /\ UNCHANGED bcPanic
        /\ bcReq' = [bcReq EXCEPT ![r].at = "pushed"]
        /\ UNCHANGED <<bcReaders, bcRun, bcFails, bcState, bcClosed, bcPool, bcSlot, bcMu, bcFills, bcFaults>>

(* BackendConn.setResponse of some requests.  A WaitGroup that is done     *)
(* more often than it was added to panics.                                 *)
setResponse(R, ok) ==
    /\ bcReq' = [r \in Reqs |-> IF r \in R THEN [bcReq[r] EXCEPT !.at = "done", !.ok = ok] ELSE bcReq[r]]
    /\ bcSlot' = [s \in PoolSlots |-> [bcSlot[s] EXCEPT !.refs = @ \ R]]
    /\ bcPanic' = (bcPanic \/ \E r \in R : bcReq[r].at = "done")

InRange(q) == {q[i] : i \in 1 .. Len(q)}
CanFault   == bcFaults < MaxFaults
Round(c)   == Len(bcReaders[c])

-----------------------------------------------------------------------------
(* BackendConn.run and loopWriter.                                         *)

(* newBackendReader: dial, AUTH and SELECT, and a reader with new tasks.   *)
Connect(c) ==
    /\ bcRun[c] = "dial"
    /\ bcRun' = [bcRun EXCEPT ![c] = "loop"]
    /\ bcReaders' = [bcReaders EXCEPT ![c] = Append(@, [q |-> << >>, open |-> TRUE, up |-> TRUE])]
    /\ bcState' = [bcState EXCEPT ![c] = "connected"]
    /\ bcFails' = [bcFails EXCEPT ![c] = 0]
    /\ UNCHANGED <<bcReq, bcInput, bcClosed, bcPool, bcSlot, bcMu, bcFills, bcFaults, bcPanic>>

ConnectFails(c) ==
    /\ bcRun[c] = "dial"
    /\ CanFault /\ bcFaults' = bcFaults + 1
    /\ bcRun' = [bcRun EXCEPT ![c] = "drain"]
    /\ UNCHANGED <<bcReq, bcInput, bcReaders, bcFails, bcState, bcClosed, bcPool, bcSlot, bcMu, bcFills, bcPanic>>

(* A request is written and handed to the reader, or it is a read of a     *)
(* session that is broken and is not sent.                                 *)
Write(c) ==
    LET r == Head(bcInput[c])
    IN  /\ bcRun[c] = "loop"
        /\ bcInput[c] # << >>
        /\ \/ /\ Len(bcReaders[c][Round(c)].q) < MaxPipeline
              /\ bcReaders' = [bcReaders EXCEPT ![c][Round(c)].q = Append(@, r)]
              /\ UNCHANGED <<bcReq, bcSlot, bcPanic>>
           \/ setResponse({r}, FALSE) /\ UNCHANGED bcReaders
        /\ bcInput' = [bcInput EXCEPT ![c] = Tail(@)]
        /\ UNCHANGED <<bcRun, bcFails, bcState, bcClosed, bcPool, bcMu, bcFills, bcFaults>>

(* loopWriter returns: its deferred calls set the state to 0 and close     *)
(* tasks before input is drained.                                          *)
LeaveLoop(c, next) ==
    /\ bcRun' = [bcRun EXCEPT ![c] = next]
    /\ bcState' = [bcState EXCEPT ![c] = "zero"]
    /\ bcReaders' = [bcReaders EXCEPT ![c][Round(c)].open = FALSE]

(* A write fails at once when the reader has closed the socket.            *)
WriteFails(c) ==
    /\ bcRun[c] = "loop"
    /\ bcInput[c] # << >>
    /\ \/ bcReaders[c][Round(c)].up /\ CanFault /\ bcFaults' = bcFaults + 1
       \/ ~ bcReaders[c][Round(c)].up /\ UNCHANGED bcFaults
    /\ setResponse({Head(bcInput[c])}, FALSE)
    /\ bcInput' = [bcInput EXCEPT ![c] = Tail(@)]
    /\ LeaveLoop(c, "drain")
    /\ UNCHANGED <<bcFails, bcClosed, bcPool, bcMu, bcFills>>

(* input is closed and empty; run finds closed set.                        *)
WriterEnds(c) ==
    /\ bcRun[c] = "loop"
    /\ bcInput[c] = << >> /\ bcClosed[c]
    /\ LeaveLoop(c, "exit")
    /\ UNCHANGED <<bcReq, bcInput, bcFails, bcClosed, bcPool, bcSlot, bcMu, bcFills, bcFaults, bcPanic>>

(* Mutant: what is in input is dropped.                                    *)
Drain_Drops(c) ==
    /\ bcRun[c] = "drain"
    /\ bcInput' = [bcInput EXCEPT ![c] = << >>]
    /\ bcRun' = [bcRun EXCEPT ![c] = "delay"]
    /\ bcFails' = [bcFails EXCEPT ![c] = IF @ > FreeRetries THEN @ ELSE @ + 1]
    /\ UNCHANGED <<bcReq, bcReaders, bcState, bcClosed, bcPool, bcSlot, bcMu, bcFills, bcFaults, bcPanic>>

(* The first deferred call of loopWriter and the head of delayBeforeRetry. *)
(* fails stops to matter above FreeRetries.                                *)
Drain(c) ==
    /\ bcRun[c] = "drain"
    /\ setResponse(InRange(bcInput[c]), FALSE)
    /\ bcInput' = [bcInput EXCEPT ![c] = << >>]
    /\ bcRun' = [bcRun EXCEPT ![c] = "delay"]
    /\ bcFails' = [bcFails EXCEPT ![c] = IF @ > FreeRetries THEN @ ELSE @ + 1]
    /\ UNCHANGED <<bcReaders, bcState, bcClosed, bcPool, bcMu, bcFills, bcFaults>>

(* delayBeforeRetry answers what comes while it waits.                     *)
DelayAnswer(c) ==
    /\ bcRun[c] = "delay"
    /\ bcFails[c] > FreeRetries
    /\ ~ bcClosed[c]
    /\ bcInput[c] # << >>
    /\ setResponse({Head(bcInput[c])}, FALSE)
    /\ bcInput' = [bcInput EXCEPT ![c] = Tail(@)]
    /\ UNCHANGED <<bcReaders, bcRun, bcFails, bcState, bcClosed, bcPool, bcMu, bcFills, bcFaults>>

(* run looks at closed and not at input: what came since the drain is      *)
(* never answered if the connection has been closed as well.               *)
DelayEnds(c) ==
    /\ bcRun[c] = "delay"
    /\ bcRun' = [bcRun EXCEPT ![c] = IF bcClosed[c] THEN "exit" ELSE "dial"]
    /\ UNCHANGED <<bcReq, bcInput, bcReaders, bcFails, bcState, bcClosed, bcPool, bcSlot, bcMu, bcFills, bcFaults, bcPanic>>

-----------------------------------------------------------------------------
(* loopReader of round i.                                                  *)

Pop(c, i)     == bcReaders' = [bcReaders EXCEPT ![c][i].q = Tail(@)]
HasTask(c, i) == bcReaders[c][i].q # << >>

(* MASTERDOWN and LOADING make the connection stale, whatever its round.   *)
Read(c, i) ==
    /\ HasTask(c, i) /\ bcReaders[c][i].up
    /\ Pop(c, i)
    /\ setResponse({Head(bcReaders[c][i].q)}, TRUE)
    /\ bcState' \in {bcState, [bcState EXCEPT ![c] = IF @ = "connected" THEN "stale" ELSE @]}
    /\ UNCHANGED <<bcInput, bcRun, bcFails, bcClosed, bcPool, bcMu, bcFills, bcFaults>>

ReadFails(c, i) ==
    /\ HasTask(c, i) /\ bcReaders[c][i].up
    /\ CanFault /\ bcFaults' = bcFaults + 1
    /\ bcReaders' = [bcReaders EXCEPT ![c][i].q = Tail(@), ![c][i].up = FALSE]
    /\ setResponse({Head(bcReaders[c][i].q)}, FALSE)
    /\ UNCHANGED <<bcInput, bcRun, bcFails, bcState, bcClosed, bcPool, bcMu, bcFills>>

(* The socket is closed: the rest of tasks, until the writer closes it.    *)
ReadRest(c, i) ==
    /\ HasTask(c, i) /\ ~ bcReaders[c][i].up
    /\ Pop(c, i)
    /\ setResponse({Head(bcReaders[c][i].q)}, FALSE)
    /\ UNCHANGED <<bcInput, bcRun, bcFails, bcState, bcClosed, bcPool, bcMu, bcFills, bcFaults>>

(* The callback of KeepAlive once its INFO is answered: the server may say *)
(* that it is loading or has lost its master.                              *)
KeepAliveCallback(r) ==
    /\ bcReq[r].kind = "info" /\ bcReq[r].at = "done"
    /\ bcReq' = [bcReq EXCEPT ![r].at = "seen"]
    /\ \/ /\ bcReq[r].ok
          /\ bcState' = [bcState EXCEPT ![bcReq[r].conn] = IF @ = "stale" THEN "connected" ELSE @]
       \/ UNCHANGED bcState
    /\ UNCHANGED <<bcInput, bcReaders, bcRun, bcFails, bcClosed, bcPool, bcSlot, bcMu, bcFills, bcFaults, bcPanic>>

-----------------------------------------------------------------------------
(* Router.fillSlot under Router.mu.                                        *)

(* Mutant: Router.KeepAlive gives Router.mu back before it pushes.         *)
blockAndWait_NoReaders(s) ==
    /\ bcMu = {}
    /\ bcMu' = {s}
    /\ bcFills < MaxFills /\ bcFills' = bcFills + 1
    /\ bcSlot' = [bcSlot EXCEPT ![s].hold = TRUE]
    /\ UNCHANGED <<bcReq, bcConnVars, bcPool, bcFaults, bcPanic>>

(* Router.mu is taken, and Slot.lock unless the slot holds it already.     *)
blockAndWait(s) ==
    /\ bcMu = {} /\ Readers = {}
    /\ bcMu' = {s}
    /\ bcFills < MaxFills /\ bcFills' = bcFills + 1
    /\ bcSlot' = [bcSlot EXCEPT ![s].hold = TRUE]
    /\ UNCHANGED <<bcReq, bcConnVars, bcPool, bcFaults, bcPanic>>

NextConn == CHOOSE c \in Conns : bcRun[c] = "none" /\ \A d \in Conns : d < c => bcRun[d] # "none"

released(held) == IF held THEN bcPool.refcnt - 1 ELSE bcPool.refcnt

(* sharedBackendConn.Release, and then sharedBackendConnPool.Retain if the *)
(* slot has a backend again.                                               *)
ReleaseRetain(s, again) ==
    LET held   == bcSlot[s].conn # 0
        left   == released(held)
        closes == held /\ left = 0
        kept   == IF closes THEN 0 ELSE bcPool.conn
        fresh  == again /\ kept = 0
        now    == IF fresh THEN NextConn ELSE kept
    IN  /\ fresh => \E c \in Conns : bcRun[c] = "none"
        /\ bcPool' = [conn |-> now, refcnt |-> IF again THEN left + 1 ELSE left]
        /\ bcClosed' = [c \in Conns |-> bcClosed[c] \/ (closes /\ c = bcPool.conn)]
        /\ bcRun' = [c \in Conns |-> IF fresh /\ c = now THEN "dial" ELSE bcRun[c]]
        /\ bcPanic' = (bcPanic \/ (held /\ bcPool.refcnt = 0))
        /\ \E locked \in BOOLEAN :
              bcSlot' = [bcSlot EXCEPT ![s].conn = IF again THEN now ELSE 0, ![s].hold = locked]

fillSlot(s, again) ==
    /\ bcMu = {s}
    /\ bcSlot[s].refs = {}
    /\ bcMu' = {}
    /\ ReleaseRetain(s, again)
    /\ UNCHANGED <<bcReq, bcInput, bcReaders, bcFails, bcState, bcFaults, bcFills>>

-----------------------------------------------------------------------------
Writer(c) ==
    \/ Connect(c) \/ ConnectFails(c)
    \/ Write(c) \/ WriteFails(c) \/ WriterEnds(c)
    \/ Drain(c) \/ DelayAnswer(c) \/ DelayEnds(c)

Reader(c, i) == Read(c, i) \/ ReadFails(c, i) \/ ReadRest(c, i)

BcNext ==
    \/ \E r \in Reqs : \/ \E s \in PoolSlots : SlotForward(r, s)
                       \/ PushBack(r) \/ KeepAliveCallback(r)
    \/ \E r \in Probes : dispatchAddr(r) \/ KeepAlive(r)
    \/ \E c \in Conns : Writer(c) \/ \E i \in 1 .. Round(c) : Reader(c, i)
    \/ \E s \in PoolSlots : \/ blockAndWait(s)
                            \/ \E again \in BOOLEAN : fillSlot(s, again)

BcSpec == BcInit /\ [][BcNext]_bcVars

-----------------------------------------------------------------------------
(* Properties.                                                             *)

(* Types of the variables.                                                 *)
BcTypeOK ==
    /\ bcReq \in [Reqs -> [at: {"new", "chosen", "pushed", "done", "seen"},
                           kind: {"none", "slot", "addr", "ping", "info"},
                           conn: 0 .. MaxConns, ok: BOOLEAN]]
    /\ bcInput \in [Conns -> Seq(Reqs)]
    /\ \A c \in Conns : \A i \in 1 .. Round(c) :
          /\ bcReaders[c][i].q \in Seq(Reqs)
          /\ bcReaders[c][i].open \in BOOLEAN /\ bcReaders[c][i].up \in BOOLEAN
    /\ bcRun \in [Conns -> {"none", "dial", "loop", "drain", "delay", "exit"}]
    /\ bcFails \in [Conns -> 0 .. FreeRetries + 1]
    /\ bcState \in [Conns -> {"zero", "connected", "stale"}]
    /\ bcClosed \in [Conns -> BOOLEAN]
    /\ bcPool \in [conn: 0 .. MaxConns, refcnt: 0 .. Cardinality(PoolSlots)]
    /\ bcSlot \in [PoolSlots -> [hold: BOOLEAN, refs: SUBSET Reqs, conn: 0 .. MaxConns]]
    /\ bcMu \in {{}} \cup {{s} : s \in PoolSlots}
    /\ bcFaults \in 0 .. MaxFaults /\ bcFills \in 0 .. MaxFills
    /\ bcPanic \in BOOLEAN

(* Nothing is sent to a connection that was closed, none is released more  *)
(* often than it was retained and no request is answered twice, whichever  *)
(* of the goroutines that fail meets it first (backend.go:77-82, 255-264,  *)
(* 431-452).                                                               *)
NoPanic == ~ bcPanic

(* A connection is closed only when no request of a slot is on it or on    *)
(* its way to it: requests of all slots that share it were waited for, so  *)
(* that none can be left in its input (backend.go:271, slots.go:53-59).    *)
ClosedIsIdle ==
    \A c \in Conns : bcClosed[c] =>
        \A r \in Reqs : bcReq[r].conn = c /\ bcReq[r].kind = "slot" => bcReq[r].at = "done"

(* A connection that says it is connected, or stale, has a writer that     *)
(* takes what is pushed, whatever the readers of earlier rounds and the    *)
(* callbacks of KeepAlive do to its state (backend.go:130, 308-318, 359).  *)
ConnectedHasWriter == \A c \in Conns : bcState[c] # "zero" => bcRun[c] = "loop"

(* Every request of a slot is answered, whatever fails                     *)
(* (backend.go:290-383).                                                   *)
SlotRequestsEnd == []<>(\A r \in Reqs : bcReq[r].kind = "slot" => bcReq[r].at = "done")

(* fillSlot gets through: requests that are stuck would keep Router.mu     *)
(* locked for ever (slots.go:53-59).                                       *)
FillsEnd == []<>(bcMu = {})

(* Connections are safe to share and to close: the three facts above, for  *)
(* any order of pushes, failures, probes and fills.                        *)
ConnectionsAreSound == BcTypeOK /\ NoPanic /\ ClosedIsIdle /\ ConnectedHasWriter

(* No request and no fill hangs: one would hold up the other               *)
(* (slots.go:53-59).                                                       *)
SlotsGoOn == SlotRequestsEnd /\ FillsEnd
=============================================================================
