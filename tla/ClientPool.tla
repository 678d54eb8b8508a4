------------------------------ MODULE ClientPool ------------------------------
(***************************************************************************)
(* The pool of Redis clients that goroutines of the dashboard share        *)
(* (pkg/utils/redis/client.go): migrations of several slots, statistics    *)
(* and point in time recovery take a client, select a database, send       *)
(* commands one by one or pipelined, and put the client back.              *)
(*                                                                         *)
(* There is one address.  A command is known by its sender and by whether  *)
(* it was sent by Do.                                                      *)
(***************************************************************************)
EXTENDS Naturals, Sequences, FiniteSets, Subsequences

CONSTANTS
    CpUsers,        \* goroutines
    CpDbs,          \* databases, 0 among them
    MaxClients,     \* bound: clients at a time
    MaxQueued,      \* bound: commands of a pipeline
    MaxCpGets,      \* bound: calls of GetClient
    MaxCpFaults     \* bound: errors of commands and of connections

ASSUME ClientPoolAssumption ==
    /\ 0 \in CpDbs /\ CpDbs \subseteq Nat
    /\ MaxClients \in Nat \ {0} /\ MaxQueued \in Nat /\ MaxCpGets \in Nat /\ MaxCpFaults \in Nat

VARIABLES
    cpClient,       \* the clients
    cpPool,         \* Pool.pool of the address
    cpClosed,       \* Pool.closed
    cpUser,         \* goroutines: where they are and the client they have
    cpReply,        \* the last reply a goroutine was given
    cpGets, cpFaults

cpVars == <<cpClient, cpPool, cpClosed, cpUser, cpReply, cpGets, cpFaults>>

Clients  == 1 .. MaxClients
Unopened == [open |-> FALSE, cmds |-> <<>>, recv |-> 0, flushed |-> FALSE, owed |-> 0,
             db |-> 0, connDb |-> 0, old |-> FALSE]
NoUse    == [at |-> "idle", client |-> 0]
NoReply  == [by |-> "none", do |-> TRUE]
CpFault  == cpFaults < MaxCpFaults /\ cpFaults' = cpFaults + 1

CpInit ==
    /\ cpClient = [c \in Clients |-> Unopened]
    /\ cpPool = <<>> /\ cpClosed = FALSE
    /\ cpUser = [u \in CpUsers |-> NoUse]
    /\ cpReply = [u \in CpUsers |-> NoReply]
    /\ cpGets = 0 /\ cpFaults = 0

Pooled    == {cpPool[i] : i \in DOMAIN cpPool}
Has(u)    == cpClient[cpUser[u].client]
Busy(u)   == cpUser[u].at = "busy" /\ Has(u).open

(* Mutant: replies that are owed do not matter.                            *)
isRecyclable_Owed(c) == cpClient[c].open /\ ~ cpClient[c].old

(* Pipeline.Send and Pipeline.Recv agree, and it has not been idle for the *)
(* timeout.                                                                *)
isRecyclable(c) == cpClient[c].open /\ cpClient[c].owed = 0 /\ ~ cpClient[c].old

-----------------------------------------------------------------------------
(* The pool.                                                               *)

(* The first that is recyclable; those before it are closed.               *)
getClientFromCache(u, n) ==
    /\ cpUser' = [cpUser EXCEPT ![u] = [at |-> "busy", client |-> cpPool[n]]]
    /\ cpPool' = SubSeq(cpPool, n + 1, Len(cpPool))
    /\ cpClient' = [c \in Clients |-> IF \E i \in 1 .. n - 1 : cpPool[i] = c THEN Unopened ELSE cpClient[c]]

GetClient(u) ==
    /\ cpUser[u] = NoUse /\ ~ cpClosed
    /\ cpGets < MaxCpGets /\ cpGets' = cpGets + 1
    /\ \/ \E n \in DOMAIN cpPool :
             /\ isRecyclable(cpPool[n]) /\ \A i \in 1 .. n - 1 : ~ isRecyclable(cpPool[i])
             /\ getClientFromCache(u, n)
       \/ /\ \A n \in DOMAIN cpPool : ~ isRecyclable(cpPool[n])
          /\ cpUser' = [cpUser EXCEPT ![u].at = "dial"]
          /\ cpPool' = <<>>
          /\ cpClient' = [c \in Clients |-> IF c \in Pooled THEN Unopened ELSE cpClient[c]]
    /\ cpReply' = [cpReply EXCEPT ![u] = NoReply]
    /\ UNCHANGED <<cpClosed, cpFaults>>

(* NewClientWithAuthIdentity, without the lock of the pool.                *)
NewClient(u) ==
    /\ cpUser[u].at = "dial"
    /\ \/ \E c \in Clients :
             /\ ~ cpClient[c].open /\ \A v \in CpUsers : cpUser[v].client # c
             /\ cpClient' = [cpClient EXCEPT ![c] = [Unopened EXCEPT !.open = TRUE]]
             /\ cpUser' = [cpUser EXCEPT ![u] = [at |-> "busy", client |-> c]]
             /\ UNCHANGED cpFaults
       \/ CpFault /\ cpUser' = [cpUser EXCEPT ![u] = NoUse] /\ UNCHANGED cpClient
    /\ UNCHANGED <<cpPool, cpClosed, cpReply, cpGets>>

kept(c) == isRecyclable(c) /\ ~ cpClosed

(* A goroutine puts its client back when it is done or has met an error.   *)
PutClient(u) ==
    LET c == cpUser[u].client
    IN  /\ \/ cpUser[u].at = "failed"
           \/ cpUser[u].at = "busy" /\ Has(u).cmds = <<>>
        /\ cpUser' = [cpUser EXCEPT ![u] = NoUse]
        /\ \/ kept(c) /\ cpPool' = <<c>> \o cpPool /\ UNCHANGED cpClient
           \/ ~ kept(c) /\ cpClient' = [cpClient EXCEPT ![c] = Unopened] /\ UNCHANGED cpPool
        /\ UNCHANGED <<cpClosed, cpReply, cpGets, cpFaults>>

Cleanup ==
    /\ ~ cpClosed
    /\ \E c \in Pooled : ~ isRecyclable(c)
    /\ cpPool' = OnlyIn(cpPool, {c \in Pooled : isRecyclable(c)})
    /\ cpClient' = [c \in Clients |-> IF c \in Pooled /\ ~ isRecyclable(c) THEN Unopened ELSE cpClient[c]]
    /\ UNCHANGED <<cpClosed, cpUser, cpReply, cpGets, cpFaults>>

PoolClose ==
    /\ ~ cpClosed /\ cpClosed' = TRUE
    /\ cpPool' = <<>>
    /\ cpClient' = [c \in Clients |-> IF c \in Pooled THEN Unopened ELSE cpClient[c]]
    /\ UNCHANGED <<cpUser, cpReply, cpGets, cpFaults>>

(* A client of the pool has not been used for the timeout.                 *)
Age ==
    /\ \E c \in Pooled : ~ cpClient[c].old /\ cpClient' = [cpClient EXCEPT ![c].old = TRUE]
    /\ UNCHANGED <<cpPool, cpClosed, cpUser, cpReply, cpGets, cpFaults>>

-----------------------------------------------------------------------------
(* Commands.                                                               *)

(* What becomes of a client and its goroutine; the bound of the faults.    *)
Set(u, client) == cpClient' = [cpClient EXCEPT ![cpUser[u].client] = client]
Goes(u) == UNCHANGED <<cpUser, cpFaults>>
Stops(u) == CpFault /\ cpUser' = [cpUser EXCEPT ![u].at = "failed"]

(* n replies have been received; after the last one resetPipeline.         *)
Received(client, n) ==
    IF client.recv + n = Len(client.cmds)
    THEN [client EXCEPT !.cmds = <<>>, !.recv = 0, !.flushed = FALSE, !.owed = @ - n]
    ELSE [client EXCEPT !.recv = @ + n, !.owed = @ - n]

Queued(u, do) ==
    [Has(u) EXCEPT !.cmds = Append(@, [by |-> u, do |-> do]), !.owed = @ + 1]

ClientSend(u) ==
    /\ Busy(u) /\ ~ Has(u).flushed /\ Len(Has(u).cmds) < MaxQueued
    /\ Set(u, Queued(u, FALSE)) /\ Goes(u)
    /\ UNCHANGED <<cpPool, cpClosed, cpReply, cpGets>>

(* A failure of the connection closes the client (handleCommandError).     *)
Broken(u) == [Has(u) EXCEPT !.open = FALSE]

Flush(u) ==
    /\ Busy(u) /\ Has(u).cmds # <<>> /\ ~ Has(u).flushed
    /\ \/ Set(u, [Has(u) EXCEPT !.flushed = TRUE]) /\ Goes(u)
       \/ Set(u, Broken(u)) /\ Stops(u)
    /\ UNCHANGED <<cpPool, cpClosed, cpReply, cpGets>>

(* An error that is the reply of a command leaves the client open.         *)
Receive(u) ==
    /\ Busy(u) /\ Has(u).flushed
    /\ Set(u, Received(Has(u), 1))
    /\ \/ Goes(u) /\ cpReply' = [cpReply EXCEPT ![u] = Has(u).cmds[Has(u).recv + 1]]
       \/ Stops(u) /\ UNCHANGED cpReply
    /\ UNCHANGED <<cpPool, cpClosed, cpGets>>

(* Do: with a pipeline that has not been flushed, its replies are received *)
(* up to the last, which is returned, or to the first that is an error;    *)
(* one that has been flushed must have been received.                      *)
Do(u) ==
    LET queued == [Queued(u, TRUE) EXCEPT !.flushed = TRUE]
    IN  /\ Busy(u)
        /\ \/ /\ Has(u).flushed
              /\ Stops(u) /\ UNCHANGED <<cpClient, cpReply>>
           \/ /\ ~ Has(u).flushed
              /\ Set(u, Received(queued, Len(queued.cmds))) /\ Goes(u)
              /\ cpReply' = [cpReply EXCEPT ![u] = queued.cmds[Len(queued.cmds)]]
           \/ /\ ~ Has(u).flushed
              /\ \E n \in DOMAIN queued.cmds : Set(u, Received(queued, n))
              /\ Stops(u) /\ UNCHANGED cpReply
           \/ /\ ~ Has(u).flushed
              /\ Set(u, Broken(u))
              /\ Stops(u) /\ UNCHANGED cpReply
        /\ UNCHANGED <<cpPool, cpClosed, cpGets>>

(* An error closes the client.                                             *)
Select(u, d) ==
    /\ Busy(u) /\ Has(u).cmds = <<>> /\ Has(u).db # d
    /\ \/ Set(u, [Has(u) EXCEPT !.db = d, !.connDb = d]) /\ Goes(u)
       \/ Set(u, Broken(u)) /\ Stops(u)
    /\ UNCHANGED <<cpPool, cpClosed, cpReply, cpGets>>

-----------------------------------------------------------------------------
CpNext ==
    \/ \E u \in CpUsers :
          \/ GetClient(u) \/ NewClient(u) \/ PutClient(u)
          \/ ClientSend(u) \/ Flush(u) \/ Receive(u) \/ Do(u)
          \/ \E d \in CpDbs : Select(u, d)
    \/ Cleanup \/ PoolClose \/ Age

CpSpec == CpInit /\ [][CpNext]_cpVars

-----------------------------------------------------------------------------
(* Properties.                                                             *)

(* Types of the variables; a client is with one goroutine or once in the   *)
(* pool (client.go:548-588).                                               *)
CpTypeOK ==
    /\ cpUser \in [CpUsers -> [at: {"idle", "dial", "busy", "failed"}, client: 0 .. MaxClients]]
    /\ \A i, j \in DOMAIN cpPool : i # j => cpPool[i] # cpPool[j]
    /\ \A u \in CpUsers : cpUser[u].client \notin Pooled
    /\ \A u, v \in CpUsers : u # v /\ cpUser[u].client # 0 => cpUser[u].client # cpUser[v].client

(* The replies a goroutine is given are those of its own commands,         *)
(* whatever a goroutine that met an error left unread in the client it put *)
(* back (client.go:102-112, 206-236).                                      *)
RepliesAreOwn ==
    \A u \in CpUsers : cpUser[u].at = "busy" /\ cpReply[u] # NoReply => cpReply[u].by = u

(* Client.Database is the database the connection is in, so that a         *)
(* migration that selects a database on a client others have used moves    *)
(* the keys of that one (client.go:245-256, topom_slots.go:394-425).       *)
InTheirDb == \A c \in Clients : cpClient[c].open => cpClient[c].db = cpClient[c].connDb

(* No client stays open that nobody has, also when the pool is closed      *)
(* while goroutines dial or put clients back (client.go:506-523, 575-588). *)
NoneLeaks ==
    /\ cpClosed => cpPool = <<>>
    /\ \A c \in Clients : cpClient[c].open => c \in Pooled \/ \E u \in CpUsers : cpUser[u].client = c

(* A client serves one goroutine at a time, which gets the replies to its  *)
(* own commands from the database it selected, and no client is lost.      *)
ClientsAreClean == CpTypeOK /\ RepliesAreOwn /\ InTheirDb /\ NoneLeaks
=============================================================================
