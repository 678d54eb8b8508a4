------------------------------- MODULE Session -------------------------------
(***************************************************************************)
(* A client session of a proxy (pkg/proxy/session.go, request.go): a       *)
(* goroutine that reads commands and dispatches them, one that writes the  *)
(* replies in the order of the commands, and the RequestChan between them. *)
(* Commands on several keys are split into sub-requests, which backends    *)
(* answer in any order (BackendConn shows that they do answer).            *)
(***************************************************************************)
EXTENDS Naturals, Sequences

CONSTANTS
    MaxCmds,        \* bound: commands a client sends
    MaxSubs,        \* bound: keys of MGET, MSET, DEL and EXISTS
    MaxPipelineLen  \* config.SessionMaxPipeline

ASSUME SessionAssumption ==
    /\ MaxCmds \in Nat \ {0} /\ MaxSubs \in Nat \ {0} /\ MaxPipelineLen \in Nat

Cmds == 1 .. MaxCmds

VARIABLES
    ssBreak,        \* config.SessionBreakOnFailure
    ssSent,         \* commands the client has sent
    ssGone,         \* has the client closed its side
    ssRead,         \* commands the reader has decoded
    ssReader,       \* where loopReader is
    ssWriter,       \* where loopWriter is
    ssQuit,         \* Session.quit
    ssConn,         \* is the connection open, for the reader and for the writer
    ssSub,          \* the sub-requests of every command
    ssErr,          \* has dispatching the command failed
    ssTasks,        \* RequestChan.data
    ssTask,         \* the command the writer has popped, 0 for none
    ssClosed,       \* RequestChan.closed
    ssParked,       \* is the writer in cond.Wait
    ssReplies       \* what the client was sent: commands and are they errors

ssVars == <<ssBreak, ssSent, ssGone, ssRead, ssReader, ssWriter, ssQuit, ssConn, ssSub, ssErr,
            ssTasks, ssTask, ssClosed, ssParked, ssReplies>>

SsInit ==
    /\ ssBreak \in BOOLEAN
    /\ ssSent = 0 /\ ssGone = FALSE
    /\ ssRead = 0
    /\ ssReader = "decode" /\ ssWriter = "pop"
    /\ ssQuit = FALSE
    /\ ssConn = [reader |-> TRUE, writer |-> TRUE]
    /\ ssSub = [c \in Cmds |-> << >>]
    /\ ssErr = [c \in Cmds |-> FALSE]
    /\ ssTasks = << >> /\ ssTask = 0 /\ ssClosed = FALSE /\ ssParked = FALSE
    /\ ssReplies = << >>

(* The client.                                                             *)
Send ==
    /\ ssSent < MaxCmds /\ ~ ssGone
    /\ ssSent' = ssSent + 1
    /\ UNCHANGED <<ssBreak, ssGone, ssRead, ssReader, ssWriter, ssQuit, ssConn, ssSub, ssErr,
                   ssTasks, ssTask, ssClosed, ssParked, ssReplies>>

Leave ==
    /\ ~ ssGone
    /\ ssGone' = TRUE
    /\ UNCHANGED <<ssBreak, ssSent, ssRead, ssReader, ssWriter, ssQuit, ssConn, ssSub, ssErr,
                   ssTasks, ssTask, ssClosed, ssParked, ssReplies>>

-----------------------------------------------------------------------------
(* RequestChan.                                                            *)

(* Mutant: the waiting writer is not signalled.                            *)
ChanPush_NoSignal(c) == ssTasks' = Append(ssTasks, c) /\ UNCHANGED ssParked

(* lockedPushBack and Close wake the writer; lockedPopFront parks it when  *)
(* there is nothing to pop and the channel is open.                        *)
ChanPush(c) == ssTasks' = Append(ssTasks, c) /\ ssParked' = FALSE
ChanPop     == ~ ssParked /\ ssTasks # << >> /\ ssTasks' = Tail(ssTasks)

ChanClose == ssClosed' = TRUE /\ ssParked' = FALSE

TooMany == Len(ssTasks) > MaxPipelineLen

ChanWait ==
    /\ ssWriter \in {"pop", "rest"}
    /\ ssTasks = << >> /\ ~ ssClosed /\ ~ ssParked
    /\ ssParked' = TRUE
    /\ UNCHANGED <<ssBreak, ssSent, ssGone, ssRead, ssReader, ssWriter, ssQuit, ssConn, ssSub, ssErr,
                   ssTasks, ssTask, ssClosed, ssReplies>>

-----------------------------------------------------------------------------
(* loopReader.                                                             *)

(* It returns: CloseReaderWithError, and then tasks.Close.                 *)
EndReader ==
    /\ ssReader' = "end"
    /\ ssConn' = [ssConn EXCEPT !.reader = FALSE]
    /\ ChanClose

(* The client is gone, has sent what cannot be decoded, or the connection  *)
(* was closed by the writer; what the decoder has buffered by then may     *)
(* still be decoded.                                                       *)
DecodeFails ==
    /\ ssReader = "decode"
    /\ ssGone \/ ~ ssConn.reader
    /\ EndReader
    /\ UNCHANGED <<ssBreak, ssSent, ssGone, ssRead, ssWriter, ssQuit, ssSub, ssErr, ssTasks, ssTask, ssReplies>>

(* Too many commands wait for their replies: the session ends.             *)
TooManyPipelined ==
    /\ ssReader = "decode"
    /\ ssRead < ssSent
    /\ TooMany
    /\ ssRead' = ssRead + 1
    /\ EndReader
    /\ UNCHANGED <<ssBreak, ssSent, ssGone, ssWriter, ssQuit, ssSub, ssErr, ssTasks, ssTask, ssReplies>>

(* handleRequest of a command with n keys; 0 for one the proxy answers     *)
(* itself, such as QUIT, AUTH and SELECT.                                  *)
Decode(n, quit) ==
    /\ ssReader = "decode"
    /\ ssRead < ssSent
    /\ ~ TooMany
    /\ quit => n = 0
    /\ ssRead' = ssRead + 1
    /\ ssQuit' = quit
    /\ ssSub' = [ssSub EXCEPT ![ssRead + 1] = [i \in 1 .. n |-> "todo"]]
    /\ ssReader' = "handle"
    /\ UNCHANGED <<ssBreak, ssSent, ssGone, ssWriter, ssConn, ssErr, ssTasks, ssTask, ssClosed, ssParked, ssReplies>>

Todo(c) == {i \in DOMAIN ssSub[c] : ssSub[c][i] = "todo"}
Out(c)  == {i \in DOMAIN ssSub[c] : ssSub[c][i] = "out"}

(* Router.dispatch of the next key: it is pushed to a backend, or its slot *)
(* is not ready and the keys that follow are not dispatched.               *)
Dispatch ==
    /\ ssReader = "handle"
    /\ Todo(ssRead) # {} /\ ~ ssErr[ssRead]
    /\ LET i == CHOOSE j \in Todo(ssRead) : \A k \in Todo(ssRead) : j <= k
       IN  \/ ssSub' = [ssSub EXCEPT ![ssRead][i] = "out"] /\ UNCHANGED ssErr
           \/ ssErr' = [ssErr EXCEPT ![ssRead] = TRUE] /\ UNCHANGED ssSub
    /\ UNCHANGED <<ssBreak, ssSent, ssGone, ssRead, ssReader, ssWriter, ssQuit, ssConn,
                   ssTasks, ssTask, ssClosed, ssParked, ssReplies>>

(* The command goes to the writer, handled or not.                         *)
Handled ==
    /\ ssReader = "handle"
    /\ Todo(ssRead) = {} \/ ssErr[ssRead]
    /\ ChanPush(ssRead)
    /\ ssReader' = IF ssQuit \/ (ssErr[ssRead] /\ ssBreak) THEN "return" ELSE "decode"
    /\ UNCHANGED <<ssBreak, ssSent, ssGone, ssRead, ssWriter, ssQuit, ssConn, ssSub, ssErr, ssTask, ssClosed, ssReplies>>

ReaderReturns ==
    /\ ssReader = "return"
    /\ EndReader
    /\ UNCHANGED <<ssBreak, ssSent, ssGone, ssRead, ssWriter, ssQuit, ssSub, ssErr, ssTasks, ssTask, ssReplies>>

(* A backend answers.                                                      *)
AnswerSub(c, i) ==
    /\ i \in Out(c)
    /\ \E a \in {"ok", "err"} : ssSub' = [ssSub EXCEPT ![c][i] = a]
    /\ UNCHANGED <<ssBreak, ssSent, ssGone, ssRead, ssReader, ssWriter, ssQuit, ssConn, ssErr,
                   ssTasks, ssTask, ssClosed, ssParked, ssReplies>>

-----------------------------------------------------------------------------
(* loopWriter.                                                             *)

(* Mutant: the writer does not wait for the sub-requests.                  *)
BatchWait_None(c) == TRUE

BatchWait(c) == Out(c) = {}

(* Request.Coalesce and Request.Err: all sub-requests, unless dispatching  *)
(* failed, when the reply is the error of handleRequest.                   *)
Coalesce(c) == ssErr[c] \/ \A i \in DOMAIN ssSub[c] : ssSub[c][i] = "ok"

(* The deferred call: CloseWithError breaks the session, and the rest of   *)
(* the tasks is popped, which ends when the reader closes them.            *)
EndWriter ==
    /\ ssWriter' = "rest"
    /\ ssConn' = [reader |-> FALSE, writer |-> FALSE]

Reply(c) ==
    ssReplies' = Append(ssReplies, [cmd |-> c, ok |-> ~ ssErr[c] /\ Coalesce(c)])

(* PopFront takes the command off the channel before its reply is waited   *)
(* for: Buffered does not count it any more.                               *)
PopFront ==
    /\ ssWriter = "pop"
    /\ ChanPop
    /\ ssTask' = Head(ssTasks)
    /\ ssWriter' = "reply"
    /\ UNCHANGED <<ssBreak, ssSent, ssGone, ssRead, ssReader, ssQuit, ssConn, ssSub, ssErr,
                   ssClosed, ssParked, ssReplies>>

(* A reply is written, also when it is an error; with BreakOnFailure an    *)
(* error of a backend ends the session after it.                           *)
WriteReply ==
    /\ ssWriter = "reply"
    /\ BatchWait(ssTask)
    /\ Reply(ssTask)
    /\ ssTask' = 0
    /\ \/ ssBreak /\ ~ Coalesce(ssTask) /\ EndWriter
       \/ ~ (ssBreak /\ ~ Coalesce(ssTask)) /\ ssWriter' = "pop" /\ UNCHANGED ssConn
    /\ UNCHANGED <<ssBreak, ssSent, ssGone, ssRead, ssReader, ssQuit, ssSub, ssErr, ssTasks, ssClosed, ssParked>>

(* The client takes no more replies.                                       *)
WriteReplyFails ==
    /\ ssWriter = "reply" /\ ssGone
    /\ BatchWait(ssTask)
    /\ ssTask' = 0
    /\ EndWriter
    /\ UNCHANGED <<ssBreak, ssSent, ssGone, ssRead, ssReader, ssQuit, ssSub, ssErr, ssTasks, ssClosed, ssParked, ssReplies>>

WriterReturns ==
    /\ ssWriter = "pop"
    /\ ssTasks = << >> /\ ssClosed /\ ~ ssParked
    /\ EndWriter
    /\ UNCHANGED <<ssBreak, ssSent, ssGone, ssRead, ssReader, ssQuit, ssSub, ssErr, ssTasks, ssTask,
                   ssClosed, ssParked, ssReplies>>

PopFrontAllVoid ==
    /\ ssWriter = "rest"
    /\ ChanPop
    /\ UNCHANGED <<ssBreak, ssSent, ssGone, ssRead, ssReader, ssWriter, ssQuit, ssConn, ssSub, ssErr,
                   ssTask, ssClosed, ssParked, ssReplies>>

(* The session leaves the registry.                                        *)
Unregister ==
    /\ ssWriter = "rest"
    /\ ssTasks = << >> /\ ssClosed /\ ~ ssParked
    /\ ssWriter' = "end"
    /\ UNCHANGED <<ssBreak, ssSent, ssGone, ssRead, ssReader, ssQuit, ssConn, ssSub, ssErr,
                   ssTasks, ssTask, ssClosed, ssParked, ssReplies>>

-----------------------------------------------------------------------------
ReadLoop ==
    \/ DecodeFails \/ TooManyPipelined
    \/ \E n \in 0 .. MaxSubs, quit \in BOOLEAN : Decode(n, quit)
    \/ Dispatch \/ Handled \/ ReaderReturns

WriteLoop == ChanWait \/ PopFront \/ WriteReply \/ WriteReplyFails \/ WriterReturns \/ PopFrontAllVoid \/ Unregister

SsNext ==
    \/ Send \/ Leave
    \/ ReadLoop \/ WriteLoop
    \/ \E c \in Cmds, i \in 1 .. MaxSubs : AnswerSub(c, i)

SsSpec == SsInit /\ [][SsNext]_ssVars

-----------------------------------------------------------------------------
(* Properties.                                                             *)

(* Types of the variables; RequestChan holds at most SessionMaxPipeline    *)
(* commands and the one that was read last (session.go:191).               *)
SsTypeOK ==
    /\ ssBreak \in BOOLEAN /\ ssGone \in BOOLEAN /\ ssQuit \in BOOLEAN
    /\ ssSent \in 0 .. MaxCmds /\ ssRead \in 0 .. MaxCmds
    /\ ssReader \in {"decode", "handle", "return", "end"}
    /\ ssWriter \in {"pop", "reply", "rest", "end"}
    /\ ssConn \in [reader: BOOLEAN, writer: BOOLEAN]
    /\ \A c \in Cmds : ssSub[c] \in Seq({"todo", "out", "ok", "err"}) /\ Len(ssSub[c]) <= MaxSubs
    /\ ssErr \in [Cmds -> BOOLEAN]
    /\ ssTasks \in Seq(Cmds) /\ Len(ssTasks) <= MaxPipelineLen + 1
    /\ ssTask \in 0 .. MaxCmds
    /\ ssClosed \in BOOLEAN /\ ssParked \in BOOLEAN
    /\ ssReplies \in Seq([cmd: Cmds, ok: BOOLEAN])

(* Replies come in the order of the commands, one to each, and each tells  *)
(* the truth: it is good only when every sub-request was answered well.    *)
(* No backend answers a sub-request after the reply, also when dispatching *)
(* failed half way and the rest was never sent (session.go:253-267,        *)
(* 445-605).                                                               *)
RepliesAreTrue ==
    \A n \in DOMAIN ssReplies :
        /\ ssReplies[n].cmd = n
        /\ Out(n) = {}
        /\ ssReplies[n].ok => \A i \in DOMAIN ssSub[n] : ssSub[n][i] = "ok"

(* While a session goes on, at most session_max_pipeline + 2 commands that *)
(* were read have no reply: the check is made before the command is pushed *)
(* and lets one more than the limit into the channel, and the one the      *)
(* writer has popped is not counted (session.go:191, request.go:133-146).  *)
PipelineIsBounded ==
    ssWriter \in {"pop", "reply"} /\ ssReader # "end" => ssRead - Len(ssReplies) <= MaxPipelineLen + 2

(* A command that was read gets its reply or the session ends: no wake-up  *)
(* of the writer is lost (request.go:111-135).                             *)
CommandsEnd == []<>(Len(ssReplies) >= ssRead \/ ssWriter = "end")

(* When the client has left, or QUIT was read, both goroutines end and the *)
(* session leaves the registry, whichever of them fails first              *)
(* (session.go:149-159, 213-220).                                          *)
SessionEnds == []<>(ssGone \/ ssQuit => ssReader = "end" /\ ssWriter = "end")

(* Replies are in order and true, and at most session_max_pipeline + 2     *)
(* commands wait for theirs (session.go:191).                              *)
SessionIsSound == SsTypeOK /\ RepliesAreTrue /\ PipelineIsBounded

(* A session answers, and ends when it should.                             *)
SessionGoesOn == CommandsEnd /\ SessionEnds
=============================================================================
