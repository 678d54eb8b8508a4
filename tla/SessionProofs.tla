---------------------------- MODULE SessionProofs ----------------------------
(***************************************************************************)
(* A session answers every command with its own reply, for any number of   *)
(* commands, keys and pipelined commands (Session), and the cache of hot   *)
(* keys it reads from holds nothing stale but for its one window, for any  *)
(* number of proxies, keys and requests (HotKeyCache).                     *)
(***************************************************************************)
EXTENDS Session, HotKeyCache, SubsequenceProofs

SubStates == {"todo", "out", "ok", "err"}
Replies   == [cmd: Cmds, ok: BOOLEAN]

SsTypes ==
    /\ ssBreak \in BOOLEAN /\ ssGone \in BOOLEAN /\ ssQuit \in BOOLEAN
    /\ ssSent \in 0 .. MaxCmds /\ ssRead \in 0 .. MaxCmds
    /\ ssReader \in {"decode", "handle", "return", "end"}
    /\ ssWriter \in {"pop", "reply", "rest", "end"}
    /\ ssConn \in [reader: BOOLEAN, writer: BOOLEAN]
    /\ DOMAIN ssSub = Cmds
    /\ \A c \in Cmds : \E n \in 0 .. MaxSubs : ssSub[c] \in [1 .. n -> SubStates]
    /\ ssErr \in [Cmds -> BOOLEAN]
    /\ ssTasks \in Seq(Cmds) /\ ssTask \in 0 .. MaxCmds
    /\ ssClosed \in BOOLEAN /\ ssParked \in BOOLEAN
    /\ ssReplies \in Seq(Replies)

(* The reader is ahead of the replies, and lets no more commands wait than *)
(* it may.                                                                 *)
SsAhead ==
    /\ ssRead <= ssSent
    /\ Len(ssReplies) <= ssRead
    /\ Len(ssTasks) <= MaxPipelineLen + 1
    /\ ssReader = "handle" => Len(ssReplies) < ssRead /\ Len(ssTasks) <= MaxPipelineLen

(* The commands in the writer's hand: the one it has popped.               *)
InHand == IF ssWriter = "reply" THEN 1 ELSE 0

(* While the writer writes, the command in its hand and then the tasks are *)
(* the commands that follow those that have their replies, up to the one   *)
(* that is being handled.                                                  *)
SsOrder ==
    ssWriter \in {"pop", "reply"} =>
        /\ ssWriter = "reply" => ssTask = Len(ssReplies) + 1
        /\ \A i \in 1 .. Len(ssTasks) : ssTasks[i] = Len(ssReplies) + InHand + i
        /\ Len(ssReplies) + InHand + Len(ssTasks) <= ssRead
        /\ ssReader \in {"decode", "return"} => Len(ssReplies) + InHand + Len(ssTasks) = ssRead
        /\ ssReader = "handle" => Len(ssReplies) + InHand + Len(ssTasks) + 1 = ssRead

(* The inductive invariant of Session.                                     *)
SsInv == SsTypes /\ SsAhead /\ SsOrder /\ RepliesAreTrue

LEMMA SsConstants ==
    /\ MaxCmds \in Nat /\ MaxCmds > 0 /\ MaxSubs \in Nat /\ MaxSubs > 0 /\ MaxPipelineLen \in Nat
BY SessionAssumption

LEMMA SsNumbers ==
    ASSUME SsTypes
    PROVE  /\ ssRead \in Nat /\ ssRead <= MaxCmds /\ ssSent \in Nat /\ ssSent <= MaxCmds
           /\ Len(ssTasks) \in Nat /\ Len(ssReplies) \in Nat /\ InHand \in {0, 1}
           /\ DOMAIN ssReplies = 1 .. Len(ssReplies)
BY SsConstants DEF SsTypes, InHand

(* Steps that leave what was read, the tasks, the replies and the          *)
(* sub-requests.                                                           *)
LEMMA SsStays ==
    ASSUME SsInv, SsTypes',
           ssRead' = ssRead, ssSent <= ssSent', ssTasks' = ssTasks, ssTask' = ssTask,
           ssReplies' = ssReplies, ssSub' = ssSub, ssReader' \in {ssReader, "end"}, ssWriter' \in {ssWriter, "rest", "end"}
    PROVE  SsInv'
<1>1. SsAhead'
  BY SsNumbers DEF SsInv, SsAhead, SsTypes
<1>2. SsOrder'
  BY DEF SsInv, SsOrder, InHand
<1>3. RepliesAreTrue'
  BY DEF SsInv, RepliesAreTrue, Out
<1> QED BY <1>1, <1>2, <1>3 DEF SsInv

LEMMA SsInitInv ==
    ASSUME SsInit
    PROVE  SsInv
<1>1. \A c \in Cmds : ssSub[c] \in [1 .. 0 -> SubStates] /\ 0 \in 0 .. MaxSubs
  BY SsConstants DEF SsInit
<1>2. SsTypes
  <2>1. 0 \in 0 .. MaxCmds
    BY SsConstants
  <2>2. ssTasks \in Seq(Cmds) /\ ssReplies \in Seq(Replies)
    BY DEF SsInit
  <2>3. DOMAIN ssSub = Cmds /\ ssErr \in [Cmds -> BOOLEAN] /\ ssConn \in [reader: BOOLEAN, writer: BOOLEAN]
    BY DEF SsInit
  <2>4. \A c \in Cmds : \E n \in 0 .. MaxSubs : ssSub[c] \in [1 .. n -> SubStates]
    BY <1>1
  <2> QED BY <2>1, <2>2, <2>3, <2>4 DEF SsInit, SsTypes
<1>3. SsAhead /\ SsOrder /\ RepliesAreTrue
  BY SsConstants DEF SsInit, SsAhead, SsOrder, InHand, RepliesAreTrue
<1> QED BY <1>2, <1>3 DEF SsInv

LEMMA ClientKeepsInv ==
    ASSUME SsInv, Send \/ Leave \/ ChanWait \/ Unregister \/ WriterReturns \/ DecodeFails \/ ReaderReturns
    PROVE  SsInv'
<1>1. SsTypes /\ ssSent \in Nat /\ (ssSent < MaxCmds => ssSent + 1 \in 0 .. MaxCmds)
  BY SsNumbers, SsConstants DEF SsInv
<1>2. CASE Send
  <2>1. SsTypes' /\ ssSent <= ssSent'
    BY <1>1, <1>2 DEF Send, SsTypes
  <2> QED BY <1>2, <2>1, SsStays DEF Send
<1>3. CASE Leave
  <2>1. SsTypes'
    BY <1>1, <1>3 DEF Leave, SsTypes
  <2> QED BY <1>1, <1>3, <2>1, SsStays DEF Leave
<1>4. CASE ChanWait
  <2>1. SsTypes'
    BY <1>1, <1>4 DEF ChanWait, SsTypes
  <2> QED BY <1>1, <1>4, <2>1, SsStays DEF ChanWait
<1>5. CASE Unregister
  <2>1. SsTypes'
    BY <1>1, <1>5 DEF Unregister, SsTypes
  <2> QED BY <1>1, <1>5, <2>1, SsStays DEF Unregister
<1>6. CASE WriterReturns
  <2>1. SsTypes'
    BY <1>1, <1>6 DEF WriterReturns, EndWriter, SsTypes
  <2> QED BY <1>1, <1>6, <2>1, SsStays DEF WriterReturns, EndWriter
<1>7. CASE DecodeFails
  <2>1. SsTypes'
    BY <1>1, <1>7 DEF DecodeFails, EndReader, ChanClose, SsTypes
  <2> QED BY <1>1, <1>7, <2>1, SsStays DEF DecodeFails, EndReader
<1>8. CASE ReaderReturns
  <2>1. SsTypes'
    BY <1>1, <1>8 DEF ReaderReturns, EndReader, ChanClose, SsTypes
  <2> QED BY <1>1, <1>8, <2>1, SsStays DEF ReaderReturns, EndReader
<1> QED BY <1>2, <1>3, <1>4, <1>5, <1>6, <1>7, <1>8

(* The sub-requests of commands that have their replies stay.              *)
LEMMA RepliesStay ==
    ASSUME SsInv, ssReplies' = ssReplies, \A n \in DOMAIN ssReplies : ssSub'[n] = ssSub[n]
    PROVE  RepliesAreTrue'
BY DEF SsInv, RepliesAreTrue, Out

LEMMA TooManyKeepsInv ==
    ASSUME SsInv, TooManyPipelined
    PROVE  SsInv'
<1>1. /\ ssRead' = ssRead + 1 /\ ssRead < ssSent /\ ssReader' = "end"
      /\ ssConn' = [ssConn EXCEPT !.reader = FALSE] /\ ssClosed' = TRUE /\ ssParked' = FALSE
      /\ UNCHANGED <<ssBreak, ssSent, ssGone, ssWriter, ssQuit, ssSub, ssErr, ssTasks, ssTask, ssReplies>>
  BY DEF TooManyPipelined, EndReader, ChanClose
<1>2. ssRead' \in 0 .. MaxCmds /\ ssRead <= ssRead' /\ ssRead' <= ssSent
  BY <1>1, SsNumbers, SsConstants DEF SsInv
<1>3. SsTypes'
  BY <1>1, <1>2 DEF SsInv, SsTypes
<1>4. SsAhead' /\ SsOrder'
  BY <1>1, SsNumbers DEF SsInv, SsAhead, SsOrder, InHand
<1>5. RepliesAreTrue'
  BY <1>1, RepliesStay
<1> QED BY <1>3, <1>4, <1>5 DEF SsInv

LEMMA DecodeKeepsInv ==
    ASSUME SsInv, NEW n \in 0 .. MaxSubs, NEW quit \in BOOLEAN, Decode(n, quit)
    PROVE  SsInv'
<1>1. /\ ssReader = "decode" /\ ssRead' = ssRead + 1 /\ ssRead < ssSent /\ ~ TooMany /\ ssQuit' = quit /\ ssReader' = "handle"
      /\ ssSub' = [ssSub EXCEPT ![ssRead + 1] = [i \in 1 .. n |-> "todo"]]
      /\ UNCHANGED <<ssBreak, ssSent, ssGone, ssWriter, ssConn, ssErr, ssTasks, ssTask, ssClosed, ssParked, ssReplies>>
  BY DEF Decode
<1>2. ssRead' \in 0 .. MaxCmds /\ ssRead' \in Cmds /\ ssRead' <= ssSent /\ Len(ssReplies) < ssRead'
  BY <1>1, SsNumbers, SsConstants DEF SsInv, SsAhead, Cmds
<1>3. /\ DOMAIN ssSub' = Cmds /\ ssSub'[ssRead'] = [i \in 1 .. n |-> "todo"]
      /\ \A c \in Cmds : c # ssRead' => ssSub'[c] = ssSub[c]
  BY <1>1, <1>2 DEF SsInv, SsTypes
<1>4. \A c \in Cmds : \E m \in 0 .. MaxSubs : ssSub'[c] \in [1 .. m -> SubStates]
  <2>1. ssSub'[ssRead'] \in [1 .. n -> SubStates]
    BY <1>3 DEF SubStates
  <2> QED BY <1>3, <2>1 DEF SsInv, SsTypes
<1>5. SsTypes'
  BY <1>1, <1>2, <1>3, <1>4 DEF SsInv, SsTypes
<1>6. SsAhead' /\ SsOrder'
  <2>1. Len(ssTasks) <= MaxPipelineLen /\ MaxPipelineLen <= MaxPipelineLen + 1
    BY <1>1, SsNumbers, SsConstants DEF TooMany, SsInv
  <2> QED BY <1>1, <1>2, <2>1, SsNumbers DEF SsInv, SsAhead, SsOrder, InHand
<1>7. RepliesAreTrue'
  <2>1. \A m \in DOMAIN ssReplies : m \in Cmds /\ m # ssRead'
    BY <1>2, SsNumbers, SsConstants DEF SsInv, SsAhead, Cmds
  <2> QED BY <1>1, <1>3, <2>1, RepliesStay
<1> QED BY <1>5, <1>6, <1>7 DEF SsInv

(* A sub-request of a command that has no reply changes.                   *)
LEMMA SubKeepsInv ==
    ASSUME SsInv, NEW c \in Cmds, NEW i, NEW a \in SubStates,
           c \notin DOMAIN ssReplies, ssSub' = [ssSub EXCEPT ![c][i] = a],
           UNCHANGED <<ssBreak, ssSent, ssGone, ssRead, ssReader, ssWriter, ssQuit, ssConn, ssErr,
                       ssTasks, ssTask, ssClosed, ssParked, ssReplies>>
    PROVE  SsInv'
<1>1. PICK n \in 0 .. MaxSubs : ssSub[c] \in [1 .. n -> SubStates]
  BY DEF SsInv, SsTypes
<1>2. /\ DOMAIN ssSub' = Cmds /\ ssSub'[c] = [ssSub[c] EXCEPT ![i] = a]
      /\ \A d \in Cmds : d # c => ssSub'[d] = ssSub[d]
  BY DEF SsInv, SsTypes
<1>3. ssSub'[c] \in [1 .. n -> SubStates]
  BY <1>1, <1>2
<1>4. SsTypes'
  <2>1. \A d \in Cmds : \E m \in 0 .. MaxSubs : ssSub'[d] \in [1 .. m -> SubStates]
    BY <1>2, <1>3 DEF SsInv, SsTypes
  <2> QED BY <1>2, <2>1 DEF SsInv, SsTypes
<1>5. SsAhead' /\ SsOrder'
  BY DEF SsInv, SsAhead, SsOrder, InHand
<1>6. RepliesAreTrue'
  <2>1. \A m \in DOMAIN ssReplies : m \in Cmds /\ m # c
    BY SsNumbers, SsConstants DEF SsInv, SsAhead, Cmds
  <2> QED BY <1>2, <2>1, RepliesStay
<1> QED BY <1>4, <1>5, <1>6 DEF SsInv

LEMMA DispatchKeepsInv ==
    ASSUME SsInv, Dispatch
    PROVE  SsInv'
<1>1. ssRead \in Cmds /\ ssRead \notin DOMAIN ssReplies
  BY SsNumbers, SsConstants DEF SsInv, SsAhead, Dispatch, Cmds
<1>2. CASE ssErr' = [ssErr EXCEPT ![ssRead] = TRUE] /\ UNCHANGED ssSub
  <2>1. SsTypes'
    BY <1>2 DEF SsInv, SsTypes, Dispatch
  <2>2. ssSent <= ssSent'
    BY SsNumbers DEF SsInv, Dispatch
  <2> QED BY <1>2, <2>1, <2>2, SsStays DEF Dispatch
<1>3. ASSUME NEW i, ssSub' = [ssSub EXCEPT ![ssRead][i] = "out"], UNCHANGED ssErr
      PROVE  SsInv'
  <2>1. "out" \in SubStates
    BY DEF SubStates
  <2> QED BY <1>1, <1>3, <2>1, SubKeepsInv DEF Dispatch
<1> QED BY <1>2, <1>3 DEF Dispatch

LEMMA AnswerKeepsInv ==
    ASSUME SsInv, NEW c \in Cmds, NEW i, AnswerSub(c, i)
    PROVE  SsInv'
<1>1. c \notin DOMAIN ssReplies
  BY DEF SsInv, RepliesAreTrue, AnswerSub
<1>2. PICK a \in {"ok", "err"} : ssSub' = [ssSub EXCEPT ![c][i] = a]
  BY DEF AnswerSub
<1>3. a \in SubStates
  BY <1>2 DEF SubStates
<1> QED BY <1>1, <1>2, <1>3, SubKeepsInv DEF AnswerSub

LEMMA HandledKeepsInv ==
    ASSUME SsInv, Handled
    PROVE  SsInv'
<1>1. /\ ssReader = "handle" /\ ssTasks' = Append(ssTasks, ssRead) /\ ssParked' = FALSE
      /\ ssReader' \in {"return", "decode"}
      /\ UNCHANGED <<ssBreak, ssSent, ssGone, ssRead, ssWriter, ssQuit, ssConn, ssSub, ssErr, ssTask, ssClosed, ssReplies>>
  BY DEF Handled, ChanPush
<1>2. ssRead \in Cmds
  BY <1>1, SsNumbers, SsConstants DEF SsInv, SsAhead, Cmds
<1>3. /\ ssTasks' \in Seq(Cmds) /\ Len(ssTasks') = Len(ssTasks) + 1
      /\ ssTasks'[Len(ssTasks) + 1] = ssRead
      /\ \A i \in 1 .. Len(ssTasks) : ssTasks'[i] = ssTasks[i]
  BY <1>1, <1>2, AppendProperties DEF SsInv, SsTypes
<1>4. SsTypes'
  BY <1>1, <1>3 DEF SsInv, SsTypes
<1>5. SsAhead'
  BY <1>1, <1>3, SsNumbers, SsConstants DEF SsInv, SsAhead
<1>6. SsOrder'
  <2>1. SUFFICES ASSUME ssWriter \in {"pop", "reply"}
                 PROVE  /\ \A i \in 1 .. Len(ssTasks') : ssTasks'[i] = Len(ssReplies) + InHand + i
                        /\ Len(ssReplies) + InHand + Len(ssTasks') = ssRead
    <3>1. InHand' = InHand
      BY <1>1 DEF InHand
    <3> QED BY <1>1, <3>1, SsNumbers DEF SsInv, SsOrder
  <2>2. /\ Len(ssReplies) + InHand + Len(ssTasks) + 1 = ssRead
        /\ \A i \in 1 .. Len(ssTasks) : ssTasks[i] = Len(ssReplies) + InHand + i
    BY <1>1, <2>1 DEF SsInv, SsOrder
  <2>3. InHand \in Nat /\ ssRead = Len(ssReplies) + InHand + (Len(ssTasks) + 1)
    BY <2>2, SsNumbers DEF SsInv
  <2>4. ASSUME NEW i \in 1 .. Len(ssTasks')
        PROVE  ssTasks'[i] = Len(ssReplies) + InHand + i
    <3>1. CASE i = Len(ssTasks) + 1
      BY <1>3, <2>3, <3>1
    <3>2. CASE i \in 1 .. Len(ssTasks)
      BY <1>3, <2>2, <3>2
    <3> QED BY <1>3, <3>1, <3>2, SsNumbers DEF SsInv
  <2> QED BY <1>3, <2>3, <2>4
<1>7. RepliesAreTrue'
  BY <1>1, RepliesStay
<1> QED BY <1>4, <1>5, <1>6, <1>7 DEF SsInv

(* The first task is taken.                                                *)
LEMMA PopIs ==
    ASSUME SsInv, ChanPop
    PROVE  /\ ssTasks' \in Seq(Cmds) /\ Len(ssTasks') = Len(ssTasks) - 1 /\ Len(ssTasks) > 0
           /\ \A i \in 1 .. Len(ssTasks') : ssTasks'[i] = ssTasks[i + 1]
           /\ Head(ssTasks) = ssTasks[1] /\ ssTasks[1] \in Cmds
BY HeadTailProperties, EmptySeq DEF ChanPop, SsInv, SsTypes

(* The writer takes a task into its hand.                                  *)
LEMMA PopFrontKeepsInv ==
    ASSUME SsInv, PopFront
    PROVE  SsInv'
<1>1. /\ ssWriter = "pop" /\ ssWriter' = "reply" /\ ChanPop /\ ssTask' = Head(ssTasks)
      /\ UNCHANGED <<ssBreak, ssSent, ssGone, ssRead, ssReader, ssQuit, ssConn, ssSub, ssErr,
                     ssClosed, ssParked, ssReplies>>
  BY DEF PopFront
<1>2. /\ ssTasks' \in Seq(Cmds) /\ Len(ssTasks') = Len(ssTasks) - 1 /\ Len(ssTasks) > 0
      /\ \A i \in 1 .. Len(ssTasks') : ssTasks'[i] = ssTasks[i + 1]
      /\ ssTask' = ssTasks[1] /\ ssTask' \in 0 .. MaxCmds
  BY <1>1, PopIs, SsConstants DEF Cmds
<1>3. SsTypes'
  BY <1>1, <1>2 DEF SsInv, SsTypes
<1>4. InHand = 0 /\ InHand' = 1
  BY <1>1 DEF InHand
<1>5. /\ \A i \in 1 .. Len(ssTasks) : ssTasks[i] = Len(ssReplies) + i
      /\ Len(ssReplies) + Len(ssTasks) <= ssRead
      /\ ssReader \in {"decode", "return"} => Len(ssReplies) + Len(ssTasks) = ssRead
      /\ ssReader = "handle" => Len(ssReplies) + Len(ssTasks) + 1 = ssRead
  BY <1>1, <1>4, SsNumbers DEF SsInv, SsOrder
<1>6. SsAhead'
  BY <1>1, <1>2, SsNumbers, SsConstants DEF SsInv, SsAhead
<1>7. SsOrder'
  <2>1. \A i \in 1 .. Len(ssTasks') : ssTasks'[i] = Len(ssReplies) + 1 + i
    BY <1>2, <1>5, SsNumbers DEF SsInv
  <2>2. ssTask' = Len(ssReplies) + 1
    BY <1>2, <1>5, SsNumbers DEF SsInv
  <2> QED BY <1>1, <1>2, <1>4, <1>5, <2>1, <2>2, SsNumbers DEF SsInv, SsOrder
<1>8. RepliesAreTrue'
  BY <1>1, RepliesStay
<1> QED BY <1>3, <1>6, <1>7, <1>8 DEF SsInv

(* What the writer had in its hand, or the first task, is dropped.         *)
LEMMA DropKeepsInv ==
    ASSUME SsInv, WriteReplyFails \/ PopFrontAllVoid
    PROVE  SsInv'
<1>1. /\ ssTasks' \in Seq(Cmds) /\ Len(ssTasks') <= Len(ssTasks) /\ Len(ssTasks') \in Nat
      /\ ssTask' \in 0 .. MaxCmds /\ ssWriter' = "rest" /\ ssConn' \in [reader: BOOLEAN, writer: BOOLEAN]
      /\ UNCHANGED <<ssBreak, ssSent, ssGone, ssRead, ssReader, ssQuit, ssSub, ssErr, ssClosed, ssParked, ssReplies>>
  <2>1. CASE WriteReplyFails
    <3>1. 0 \in 0 .. MaxCmds
      BY SsConstants
    <3> QED BY <2>1, <3>1, SsNumbers DEF WriteReplyFails, EndWriter, SsInv, SsTypes
  <2>2. CASE PopFrontAllVoid
    <3>1. ssTasks' \in Seq(Cmds) /\ Len(ssTasks') = Len(ssTasks) - 1 /\ Len(ssTasks) > 0
      BY <2>2, PopIs DEF PopFrontAllVoid
    <3> QED BY <2>2, <3>1, SsNumbers DEF PopFrontAllVoid, SsInv, SsTypes
  <2> QED BY <2>1, <2>2
<1>2. SsTypes'
  BY <1>1 DEF SsInv, SsTypes
<1>3. SsAhead' /\ SsOrder'
  BY <1>1, SsNumbers, SsConstants DEF SsInv, SsAhead, SsOrder
<1>4. RepliesAreTrue'
  BY <1>1, RepliesStay
<1> QED BY <1>2, <1>3, <1>4 DEF SsInv

LEMMA WriteKeepsInv ==
    ASSUME SsInv, WriteReply
    PROVE  SsInv'
<1> DEFINE c == ssTask
           r == [cmd |-> c, ok |-> ~ ssErr[c] /\ Coalesce(c)]
<1>1. /\ ssWriter = "reply" /\ Out(c) = {} /\ ssReplies' = Append(ssReplies, r) /\ ssTask' = 0
      /\ UNCHANGED <<ssBreak, ssSent, ssGone, ssRead, ssReader, ssQuit, ssSub, ssErr, ssTasks, ssClosed, ssParked>>
  BY DEF WriteReply, BatchWait, Reply
<1>2. ssWriter' \in {"pop", "rest"} /\ ssConn' \in [reader: BOOLEAN, writer: BOOLEAN]
  <2>1. CASE EndWriter
    BY <2>1 DEF EndWriter
  <2>2. CASE ssWriter' = "pop" /\ UNCHANGED ssConn
    BY <2>2 DEF SsInv, SsTypes
  <2> QED BY <2>1, <2>2 DEF WriteReply
<1>3. InHand = 1 /\ InHand' = 0
  BY <1>1, <1>2 DEF InHand
<1>4. /\ c = Len(ssReplies) + 1 /\ c <= ssRead
      /\ \A i \in 1 .. Len(ssTasks) : ssTasks[i] = Len(ssReplies) + 1 + i
      /\ Len(ssReplies) + 1 + Len(ssTasks) <= ssRead
      /\ ssReader \in {"decode", "return"} => Len(ssReplies) + 1 + Len(ssTasks) = ssRead
      /\ ssReader = "handle" => Len(ssReplies) + 1 + Len(ssTasks) + 1 = ssRead
  BY <1>1, <1>3, SsNumbers DEF SsInv, SsOrder
<1>5. c \in Cmds
  BY <1>4, SsNumbers, SsConstants DEF SsInv, Cmds
<1>6. r \in Replies /\ r.cmd = c /\ (r.ok => \A i \in DOMAIN ssSub[c] : ssSub[c][i] = "ok")
  BY <1>5 DEF Replies, Coalesce, SsInv, SsTypes
<1> HIDE DEF r, c
<1>7. /\ ssReplies' \in Seq(Replies) /\ Len(ssReplies') = Len(ssReplies) + 1
      /\ ssReplies'[Len(ssReplies) + 1] = r
      /\ \A i \in 1 .. Len(ssReplies) : ssReplies'[i] = ssReplies[i]
      /\ DOMAIN ssReplies' = 1 .. Len(ssReplies')
  BY <1>1, <1>6, AppendProperties DEF SsInv, SsTypes
<1>8. SsTypes'
  <2>1. 0 \in 0 .. MaxCmds
    BY SsConstants
  <2> QED BY <1>1, <1>2, <1>7, <2>1 DEF SsInv, SsTypes
<1>9. SsAhead'
  BY <1>1, <1>4, <1>7, SsNumbers, SsConstants DEF SsInv, SsAhead
<1>10. SsOrder'
  BY <1>1, <1>2, <1>3, <1>4, <1>7, SsNumbers DEF SsInv, SsOrder
<1>11. RepliesAreTrue'
  <2>1. ASSUME NEW n \in DOMAIN ssReplies'
        PROVE  /\ ssReplies'[n].cmd = n /\ Out(n)' = {}
               /\ ssReplies'[n].ok => \A i \in DOMAIN ssSub'[n] : ssSub'[n][i] = "ok"
    <3>1. CASE n = Len(ssReplies) + 1
      BY <1>1, <1>4, <1>6, <1>7, <3>1 DEF Out
    <3>2. CASE n \in 1 .. Len(ssReplies)
      BY <1>1, <1>7, <3>2, SsNumbers DEF SsInv, RepliesAreTrue, Out
    <3> QED BY <1>7, <3>1, <3>2, SsNumbers DEF SsInv
  <2> QED BY <2>1 DEF RepliesAreTrue
<1> QED BY <1>8, <1>9, <1>10, <1>11 DEF SsInv

LEMMA SsStepKeepsInv ==
    ASSUME SsInv, [SsNext]_ssVars
    PROVE  SsInv'
<1>1. CASE UNCHANGED ssVars
  BY <1>1 DEF ssVars, SsInv, SsTypes, SsAhead, SsOrder, InHand, RepliesAreTrue, Out
<1>2. CASE SsNext
  BY <1>2, ClientKeepsInv, TooManyKeepsInv, DecodeKeepsInv, DispatchKeepsInv, HandledKeepsInv,
     AnswerKeepsInv, PopFrontKeepsInv, WriteKeepsInv, DropKeepsInv
     DEF SsNext, ReadLoop, WriteLoop
<1> QED BY <1>1, <1>2

LEMMA SsInvIsSound ==
    ASSUME SsInv
    PROVE  SessionIsSound
<1>1. ASSUME NEW c \in Cmds
      PROVE  ssSub[c] \in Seq({"todo", "out", "ok", "err"}) /\ Len(ssSub[c]) <= MaxSubs
  <2>1. PICK n \in 0 .. MaxSubs : ssSub[c] \in [1 .. n -> SubStates]
    BY DEF SsInv, SsTypes
  <2>2. n \in Nat /\ n <= MaxSubs
    BY SsConstants
  <2>3. ssSub[c] \in Seq(SubStates) /\ Len(ssSub[c]) = n
    BY <2>1, <2>2, SeqDef, LenProperties
  <2> QED BY <2>2, <2>3 DEF SubStates
<1>2. SsTypeOK
  BY <1>1 DEF SsInv, SsTypes, SsAhead, SsTypeOK, Replies
<1>3. PipelineIsBounded
  BY SsNumbers, SsConstants DEF SsInv, SsTypes, SsAhead, SsOrder, PipelineIsBounded
<1> QED BY <1>2, <1>3 DEF SessionIsSound, SsInv

(* A session is sound, for any number of commands, keys and pipelined      *)
(* commands: the replies come in the order of the commands, none before    *)
(* the last sub-request was answered, and no more commands than            *)
(* session_max_pipeline and two wait, the one that was read last and the   *)
(* one in the writer's hand (session.go:149-267, request.go:108-170).      *)
THEOREM SessionTheorem == SsSpec => []SessionIsSound
<1>1. SsInit => SsInv
  BY SsInitInv
<1>2. SsInv /\ [SsNext]_ssVars => SsInv'
  BY SsStepKeepsInv
<1>3. SsInv => SessionIsSound
  BY SsInvIsSound
<1> QED BY <1>1, <1>2, <1>3, PTL DEF SsSpec

-----------------------------------------------------------------------------
(* HotKeyCache.                                                            *)

HkStages == {"new", "token", "plain", "sent", "read", "checked", "ran", "bumped", "done"}
HkReqSet == [stage: HkStages, op: {"get", "set", "eval", "failed"}, proxy: HkProxies, key: HkKeys,
             val: Nat, sv: Nat, cv: Nat]
HkEvents == [key: HkKeys, val: Nat]
HkCalls  == [to: HkProxies, what: HkEvents, stage: {"call", "bumped"}]

HkTypes ==
    /\ hkData \in [HkKeys -> Nat]
    /\ hkReq \in [HkReqs -> HkReqSet]
    /\ hkEntries \in [HkProxies -> [HkKeys -> [val: Nat, sv: Nat]]]
    /\ hkLru \in [HkProxies -> Seq(HkKeys)]
    /\ hkVersion \in [HkProxies -> Nat]
    /\ hkSlotVersion \in [HkProxies -> Nat \ {0}]
    /\ hkSlot \in [HkProxies -> {"stable", "migrating", "held", "filling"}]
    /\ hkQueue \in [HkProxies -> Seq(HkEvents)]
    /\ hkPending \in [HkProxies -> SUBSET HkEvents]
    /\ hkCalls \subseteq HkCalls
    /\ hkSeen \in [HkProxies -> [HkKeys -> Nat]]
    /\ hkGap \in [HkProxies -> SUBSET HkKeys]

(* The list of a cache is that of its entries.                             *)
ListOk(p) ==
    /\ Distinct(hkLru[p]) /\ Len(hkLru[p]) <= MaxEntries
    /\ Elements(hkLru[p]) = {k \in HkKeys : hkEntries[p][k] # None0}

HkLists == \A p \in HkProxies : ListOk(p) /\ Len(hkQueue[p]) <= QueueSize

(* No invalidation is for a write that has not been run.                   *)
HkPast ==
    /\ \A q \in HkReqs : hkReq[q].stage \in {"ran", "bumped"} => hkReq[q].val <= hkData[hkReq[q].key]
    /\ \A p \in HkProxies : /\ \A i \in 1 .. Len(hkQueue[p]) : hkQueue[p][i].val <= hkData[hkQueue[p][i].key]
                            /\ \A e \in hkPending[p] : e.val <= hkData[e.key]
                            /\ \A k \in HkKeys : hkSeen[p][k] <= hkData[k]
    /\ \A c \in hkCalls : c.what.val <= hkData[c.what.key]

(* What invalidations whose version was counted stand for at a proxy.      *)
Told(p, k, v) ==
    \/ v = hkSeen[p][k]
    \/ \E q \in HkReqs : hkReq[q].stage = "bumped" /\ hkReq[q].proxy = p /\ hkReq[q].key = k /\ hkReq[q].val = v
    \/ \E c \in hkCalls : c.stage = "bumped" /\ c.to = p /\ c.what.key = k /\ c.what.val = v

(* A request with a token whose versions have not changed: the slot is as  *)
(* it was, and what was read is no older than any invalidation.            *)
Fresh(r) ==
    r.stage \in {"token", "read", "checked"} =>
        /\ r.sv # 0 /\ r.cv <= hkVersion[r.proxy]
        /\ r.cv = hkVersion[r.proxy] =>
              /\ r.sv = hkSlotVersion[r.proxy] /\ hkSlot[r.proxy] = "stable"
              /\ r.stage # "token" => \A v \in Nat : Told(r.proxy, r.key, v) => v <= r.val

HkFresh == \A q \in HkReqs : Fresh(hkReq[q])

(* The inductive invariant of HotKeyCache.                                 *)
HkInv == HkTypes /\ HkLists /\ HkPast /\ HkFresh /\ StaleOnlyByGap

LEMMA HkConstants ==
    /\ MaxEntries \in Nat /\ MaxEntries >= 1 /\ QueueSize \in Nat
    /\ NoHkReq \in HkReqSet /\ NoHkReq.stage = "new"
<1>1. MaxEntries \in Nat /\ MaxEntries >= 1 /\ QueueSize \in Nat /\ HkProxies # {} /\ HkKeys # {}
  BY HotKeyCacheAssumption
<1>2. (CHOOSE p \in HkProxies : TRUE) \in HkProxies /\ (CHOOSE k \in HkKeys : TRUE) \in HkKeys
  BY <1>1
<1> DEFINE p0 == CHOOSE p \in HkProxies : TRUE
           k0 == CHOOSE k \in HkKeys : TRUE
<1>3. NoHkReq = [stage |-> "new", op |-> "get", proxy |-> p0, key |-> k0, val |-> 0, sv |-> 0, cv |-> 0]
  BY DEF NoHkReq
<1>4. p0 \in HkProxies /\ k0 \in HkKeys
  BY <1>2
<1> HIDE DEF p0, k0
<1> QED BY <1>1, <1>3, <1>4 DEF HkReqSet, HkStages

LEMMA HkInitInv ==
    ASSUME HkInit
    PROVE  HkInv
<1>1. /\ << >> \in Seq(HkKeys) /\ << >> \in Seq(HkEvents) /\ Len(<< >>) = 0
      /\ Distinct(<< >>) /\ Elements(<< >>) = {}
  <2>1. << >> \in Seq(HkKeys) /\ << >> \in Seq(HkEvents) /\ Len(<< >>) = 0
    BY EmptySeq
  <2> QED BY <2>1 DEF Distinct, Elements
<1>2. None0 \in [val: Nat, sv: Nat]
  BY DEF None0
<1>3. HkTypes
  BY <1>1, <1>2, HkConstants DEF HkInit, HkTypes, HkCalls
<1>4. HkLists
  BY <1>1, HkConstants DEF HkInit, HkLists, ListOk
<1>5. HkPast /\ HkFresh
  BY <1>1, HkConstants DEF HkInit, HkPast, HkFresh, Fresh
<1>6. StaleOnlyByGap
  BY DEF HkInit, StaleOnlyByGap, Current
<1> QED BY <1>3, <1>4, <1>5, <1>6 DEF HkInv

-----------------------------------------------------------------------------
(* What the steps have in common.                                          *)

(* removeElement keeps the list that of the entries.                       *)
LEMMA RemoveIs ==
    ASSUME HkInv, NEW p \in HkProxies, NEW K \in SUBSET HkKeys, Remove(p, K)
    PROVE  /\ hkEntries' \in [HkProxies -> [HkKeys -> [val: Nat, sv: Nat]]]
           /\ hkLru' \in [HkProxies -> Seq(HkKeys)]
           /\ \A o \in HkProxies, k \in HkKeys :
                 hkEntries'[o][k] = IF o = p /\ k \in K THEN None0 ELSE hkEntries[o][k]
           /\ \A o \in HkProxies : ListOk(o)'
<1> DEFINE new == Without(hkLru[p], K)
<1>1. /\ hkEntries \in [HkProxies -> [HkKeys -> [val: Nat, sv: Nat]]]
      /\ hkLru \in [HkProxies -> Seq(HkKeys)] /\ \A o \in HkProxies : ListOk(o)
  BY DEF HkInv, HkTypes, HkLists
<1>2. None0 \in [val: Nat, sv: Nat]
  BY DEF None0
<1>3. /\ hkEntries' \in [HkProxies -> [HkKeys -> [val: Nat, sv: Nat]]]
      /\ \A o \in HkProxies, k \in HkKeys :
            hkEntries'[o][k] = IF o = p /\ k \in K THEN None0 ELSE hkEntries[o][k]
  BY <1>1, <1>2 DEF Remove
<1>4. /\ new \in Seq(HkKeys) /\ Len(new) <= Len(hkLru[p]) /\ Distinct(new)
      /\ Elements(new) = Elements(hkLru[p]) \cap (HkKeys \ K)
  <2>1. hkLru[p] \in Seq(HkKeys) /\ Distinct(hkLru[p])
    BY <1>1 DEF ListOk
  <2> QED BY <2>1, OnlyInIs DEF Without
<1>5. hkLru' = [hkLru EXCEPT ![p] = new]
  BY DEF Remove
<1> HIDE DEF new
<1>6. hkLru' \in [HkProxies -> Seq(HkKeys)] /\ \A o \in HkProxies : hkLru'[o] = IF o = p THEN new ELSE hkLru[o]
  BY <1>1, <1>4, <1>5
<1>7. ASSUME NEW o \in HkProxies
      PROVE  ListOk(o)'
  <2>1. CASE o # p
    BY <1>1, <1>3, <1>6, <2>1 DEF ListOk
  <2>2. CASE o = p
    <3>1. Elements(new) = {k \in HkKeys : hkEntries'[p][k] # None0}
      BY <1>1, <1>3, <1>4 DEF ListOk
    <3>2. Len(new) <= MaxEntries
      <4>1. Len(new) \in Nat /\ Len(hkLru[p]) \in Nat
        BY <1>1, <1>4, LenProperties
      <4> QED BY <1>1, <1>4, <4>1, HkConstants DEF ListOk
    <3> QED BY <1>4, <1>6, <2>2, <3>1, <3>2 DEF ListOk
  <2> QED BY <2>1, <2>2
<1> QED BY <1>3, <1>6, <1>7

(* store keeps it so too, and within the limit.                            *)
LEMMA StoreIs ==
    ASSUME HkInv, NEW p \in HkProxies, NEW k \in HkKeys, NEW e \in [val: Nat, sv: Nat], e # None0,
           store(p, k, e)
    PROVE  /\ hkEntries' \in [HkProxies -> [HkKeys -> [val: Nat, sv: Nat]]]
           /\ hkLru' \in [HkProxies -> Seq(HkKeys)]
           /\ hkEntries'[p][k] = e
           /\ \A o \in HkProxies, l \in HkKeys :
                 o # p \/ l # k => hkEntries'[o][l] = hkEntries[o][l] \/ hkEntries'[o][l] = None0
           /\ \A o \in HkProxies : ListOk(o)'
<1> DEFINE lru  == <<k>> \o Without(hkLru[p], {k})
           n    == IF Len(lru) > MaxEntries THEN MaxEntries ELSE Len(lru)
           kept == SubSeq(lru, 1, n)
           gone == {lru[i] : i \in n + 1 .. Len(lru)}
<1>1. /\ hkEntries \in [HkProxies -> [HkKeys -> [val: Nat, sv: Nat]]]
      /\ hkLru \in [HkProxies -> Seq(HkKeys)] /\ \A o \in HkProxies : ListOk(o)
  BY DEF HkInv, HkTypes, HkLists
<1>2. lru \in Seq(HkKeys) /\ Distinct(lru) /\ Elements(lru) = Elements(hkLru[p]) \cup {k}
  <2>1. hkLru[p] \in Seq(HkKeys) /\ Distinct(hkLru[p])
    BY <1>1 DEF ListOk
  <2> DEFINE S == HkKeys \ {k}
  <2>2. lru = <<k>> \o OnlyIn(hkLru[p], S) /\ S = HkKeys \ {k}
    BY DEF Without
  <2> HIDE DEF S
  <2>3. /\ <<k>> \o OnlyIn(hkLru[p], S) \in Seq(HkKeys)
        /\ Distinct(<<k>> \o OnlyIn(hkLru[p], S))
        /\ Elements(<<k>> \o OnlyIn(hkLru[p], S)) = Elements(hkLru[p]) \cup {k}
    BY <2>1, <2>2, ToFrontIs
  <2> HIDE DEF lru
  <2> QED BY <2>2, <2>3, Zenon
<1>3. lru[1] = k /\ Len(lru) \in Nat /\ Len(lru) >= 1
  <2>1. Without(hkLru[p], {k}) \in Seq(HkKeys)
    BY <1>1, OnlyInIs DEF Without
  <2>2. <<k>> \in Seq(HkKeys) /\ Len(<<k>>) = 1 /\ <<k>>[1] = k /\ Len(Without(hkLru[p], {k})) \in Nat
    BY <2>1, LenProperties
  <2>3. /\ Len(lru) = 1 + Len(Without(hkLru[p], {k}))
        /\ \A i \in 1 .. 1 + Len(Without(hkLru[p], {k})) :
              lru[i] = IF i <= 1 THEN <<k>>[i] ELSE Without(hkLru[p], {k})[i - 1]
    BY <2>1, <2>2, ConcatProperties
  <2>4. 1 \in 1 .. 1 + Len(Without(hkLru[p], {k}))
    BY <2>2
  <2> HIDE DEF lru
  <2> QED BY <2>2, <2>3, <2>4
<1> HIDE DEF lru
<1>4. n \in 0 .. Len(lru) /\ n >= 1 /\ n <= MaxEntries /\ n \in Nat
  BY <1>3, HkConstants
<1> HIDE DEF n
<1>5. kept \in Seq(HkKeys) /\ Len(kept) = n /\ Distinct(kept) /\ Elements(kept) = Elements(lru) \ gone
  BY <1>2, <1>4, FrontIs
<1>6. k \notin gone
  <2>1. ASSUME NEW i \in n + 1 .. Len(lru)
        PROVE  lru[i] # k
    <3>1. i \in 1 .. Len(lru) /\ 1 \in 1 .. Len(lru) /\ i # 1
      BY <1>3, <1>4
    <3> QED BY <1>2, <1>3, <3>1 DEF Distinct
  <2> QED BY <2>1
<1>7. /\ hkLru' = [hkLru EXCEPT ![p] = kept]
      /\ hkEntries' = [hkEntries EXCEPT ![p] =
                          [l \in HkKeys |-> IF l = k THEN e ELSE IF l \in gone THEN None0 ELSE hkEntries[p][l]]]
  BY <1>5 DEF store, lru, n
<1> HIDE DEF kept, gone
<1>8. None0 \in [val: Nat, sv: Nat]
  BY DEF None0
<1>9. /\ hkEntries' \in [HkProxies -> [HkKeys -> [val: Nat, sv: Nat]]]
      /\ hkLru' \in [HkProxies -> Seq(HkKeys)]
      /\ \A o \in HkProxies : hkLru'[o] = IF o = p THEN kept ELSE hkLru[o]
      /\ \A o \in HkProxies, l \in HkKeys :
            hkEntries'[o][l] = IF o = p THEN IF l = k THEN e ELSE IF l \in gone THEN None0 ELSE hkEntries[p][l]
                                        ELSE hkEntries[o][l]
  BY <1>1, <1>5, <1>7, <1>8
<1>10. ASSUME NEW o \in HkProxies
       PROVE  ListOk(o)'
  <2>1. CASE o # p
    BY <1>1, <1>9, <2>1 DEF ListOk
  <2>2. CASE o = p
    <3>1. Elements(kept) = {l \in HkKeys : hkEntries'[p][l] # None0}
      <4>1. Elements(hkLru[p]) = {l \in HkKeys : hkEntries[p][l] # None0}
        BY <1>1 DEF ListOk
      <4>2. \A l : l \in Elements(kept) <=> (l = k \/ l \in Elements(hkLru[p])) /\ l \notin gone
        BY <1>2, <1>5
      <4>3. \A l \in HkKeys : hkEntries'[p][l] # None0 <=> l = k \/ (hkEntries[p][l] # None0 /\ l \notin gone)
        BY <1>6, <1>9
      <4> QED BY <1>6, <4>1, <4>2, <4>3
    <3> QED BY <1>4, <1>5, <1>9, <2>2, <3>1 DEF ListOk
  <2> QED BY <2>1, <2>2
<1> QED BY <1>9, <1>10

(* A request that takes a new record.                                      *)
LEMMA ReqIs ==
    ASSUME HkInv, NEW q \in HkReqs, NEW r \in HkReqSet, hkReq' = [hkReq EXCEPT ![q] = r]
    PROVE  hkReq' \in [HkReqs -> HkReqSet] /\ \A o \in HkReqs : hkReq'[o] = IF o = q THEN r ELSE hkReq[o]
BY DEF HkInv, HkTypes

(* A request that goes to another stage.                                   *)
LEMMA AtIs ==
    ASSUME HkInv, NEW q \in HkReqs, NEW s \in HkStages, At(q, s)
    PROVE  /\ hkReq' \in [HkReqs -> HkReqSet]
           /\ \A o \in HkReqs : o # q => hkReq'[o] = hkReq[o]
           /\ hkReq'[q].stage = s
           /\ hkReq'[q].proxy = hkReq[q].proxy /\ hkReq'[q].key = hkReq[q].key /\ hkReq'[q].val = hkReq[q].val
           /\ hkReq'[q].sv = hkReq[q].sv /\ hkReq'[q].cv = hkReq[q].cv
<1> DEFINE r == [hkReq[q] EXCEPT !.stage = s]
<1>1. hkReq \in [HkReqs -> HkReqSet] /\ hkReq[q] \in HkReqSet
  BY DEF HkInv, HkTypes
<1>2. r \in HkReqSet /\ r.stage = s /\ r.proxy = hkReq[q].proxy /\ r.key = hkReq[q].key /\ r.val = hkReq[q].val
      /\ r.sv = hkReq[q].sv /\ r.cv = hkReq[q].cv
  BY <1>1 DEF HkReqSet
<1>3. hkReq' = [hkReq EXCEPT ![q] = r]
  BY DEF At
<1> HIDE DEF r
<1> QED BY <1>2, <1>3, ReqIs

Tokens == {"token", "read", "checked"}

(* Fresh stays for requests that keep their token, when a proxy that       *)
(* counts no version is told of nothing new.                               *)
LEMMA FreshKept ==
    ASSUME HkInv, hkReq' \in [HkReqs -> HkReqSet],
           hkVersion' \in [HkProxies -> Nat],
           NEW R,
           \A q \in HkReqs \ R :
              hkReq'[q].stage \in Tokens =>
                 /\ hkReq[q].stage \in Tokens
                 /\ hkReq[q].stage = "token" => hkReq'[q].stage = "token"
                 /\ hkReq'[q].proxy = hkReq[q].proxy /\ hkReq'[q].key = hkReq[q].key
                 /\ hkReq'[q].val = hkReq[q].val /\ hkReq'[q].sv = hkReq[q].sv /\ hkReq'[q].cv = hkReq[q].cv,
           \A p \in HkProxies :
              /\ hkVersion'[p] >= hkVersion[p]
              /\ hkVersion'[p] = hkVersion[p] =>
                    /\ hkSlotVersion'[p] = hkSlotVersion[p] /\ hkSlot'[p] = hkSlot[p]
                    /\ \A k \in HkKeys, v \in Nat : Told(p, k, v)' => Told(p, k, v)
    PROVE  \A q \in HkReqs \ R : Fresh(hkReq[q])'
<1>1. SUFFICES ASSUME NEW q \in HkReqs, q \notin R, hkReq'[q].stage \in Tokens
               PROVE  Fresh(hkReq[q])'
  BY DEF Fresh, Tokens
<1>2. /\ Fresh(hkReq[q]) /\ hkReq[q] \in HkReqSet /\ hkVersion \in [HkProxies -> Nat]
  BY <1>1 DEF HkInv, HkTypes, HkFresh
<1>3. /\ hkReq[q].proxy \in HkProxies /\ hkReq[q].key \in HkKeys /\ hkReq[q].cv \in Nat
  BY <1>2 DEF HkReqSet
<1> PICK p \in HkProxies, k \in HkKeys : p = hkReq[q].proxy /\ k = hkReq[q].key
  BY <1>3
<1>4. /\ hkReq[q].stage \in Tokens
      /\ hkReq[q].stage = "token" => hkReq'[q].stage = "token"
      /\ hkReq'[q].proxy = p /\ hkReq'[q].key = k
      /\ hkReq'[q].val = hkReq[q].val /\ hkReq'[q].sv = hkReq[q].sv /\ hkReq'[q].cv = hkReq[q].cv
  BY <1>1
<1>5. /\ hkReq[q].sv # 0 /\ hkReq[q].cv <= hkVersion[p]
      /\ hkReq[q].cv = hkVersion[p] =>
            /\ hkReq[q].sv = hkSlotVersion[p] /\ hkSlot[p] = "stable"
            /\ hkReq[q].stage # "token" => \A v \in Nat : Told(p, k, v) => v <= hkReq[q].val
  BY <1>2, <1>4 DEF Fresh, Tokens
<1>6. hkVersion'[p] \in Nat /\ hkVersion[p] \in Nat
      /\ hkVersion'[p] >= hkVersion[p]
  BY <1>2, <1>3
<1>7. hkReq[q].cv <= hkVersion'[p]
      /\ (hkReq[q].cv = hkVersion'[p] => hkVersion'[p] = hkVersion[p])
  BY <1>3, <1>5, <1>6
<1>8. hkReq[q].cv = hkVersion'[p] =>
            /\ hkReq[q].sv = hkSlotVersion'[p] /\ hkSlot'[p] = "stable"
            /\ hkReq'[q].stage # "token" => \A v \in Nat : Told(p, k, v)' => v <= hkReq[q].val
  <2>1. SUFFICES ASSUME hkReq[q].cv = hkVersion'[p]
                 PROVE  /\ hkReq[q].sv = hkSlotVersion'[p] /\ hkSlot'[p] = "stable"
                        /\ hkReq'[q].stage # "token" => \A v \in Nat : Told(p, k, v)' => v <= hkReq[q].val
    OBVIOUS
  <2>2. hkVersion'[p] = hkVersion[p] /\ hkReq[q].cv = hkVersion[p]
    BY <1>7, <2>1
  <2>3. hkSlotVersion'[p] = hkSlotVersion[p] /\ hkSlot'[p] = hkSlot[p]
        /\ \A v \in Nat : Told(p, k, v)' => Told(p, k, v)
    BY <1>3, <2>2
  <2> QED BY <1>4, <1>5, <2>2, <2>3
<1> QED BY <1>4, <1>5, <1>7, <1>8 DEF Fresh

(* No entry becomes stale when those that stay are left as they are.       *)
LEMMA StaleKept ==
    ASSUME HkInv,
           \A p \in HkProxies, k \in HkKeys :
              \/ hkEntries'[p][k] = None0
              \/ /\ hkEntries'[p][k] = hkEntries[p][k] /\ hkSeen'[p][k] = hkSeen[p][k]
                 /\ \/ hkSlot'[p] = "filling"
                    \/ hkSlotVersion'[p] = hkSlotVersion[p] /\ hkSlot'[p] = hkSlot[p]
                 /\ k \in hkGap[p] => k \in hkGap'[p]
    PROVE  StaleOnlyByGap'
<1>1. SUFFICES ASSUME NEW p \in HkProxies, NEW k \in HkKeys
               PROVE  Current(p, k)' \/ k \in hkGap'[p]
  BY DEF StaleOnlyByGap
<1>2. Current(p, k) \/ k \in hkGap[p]
  BY DEF HkInv, StaleOnlyByGap
<1> QED BY <1>2 DEF Current

LEMMA CacheOnlyKeeps ==
    ASSUME HkInv, hkEntries' \in [HkProxies -> [HkKeys -> [val: Nat, sv: Nat]]],
           hkLru' \in [HkProxies -> Seq(HkKeys)], \A o \in HkProxies : ListOk(o)',
           \A p \in HkProxies, k \in HkKeys : hkEntries'[p][k] = hkEntries[p][k] \/ hkEntries'[p][k] = None0,
           UNCHANGED <<hkData, hkReq, hkVersion, hkSlotVersion, hkSlot, hkQueue, hkPending, hkCalls, hkSeen, hkGap>>
    PROVE  HkInv'
<1>1. HkTypes'
  BY DEF HkInv, HkTypes
<1>2. HkLists' /\ HkPast'
  BY DEF HkInv, HkLists, HkPast
<1>3. HkFresh'
  BY DEF HkInv, HkFresh, Fresh, Told
<1>4. StaleOnlyByGap'
  BY StaleKept
<1> QED BY <1>1, <1>2, <1>3, <1>4 DEF HkInv

LEMMA ExpireKeepsInv ==
    ASSUME HkInv, NEW p \in HkProxies, NEW k \in HkKeys, Expire(p, k)
    PROVE  HkInv'
<1>1. {k} \in SUBSET HkKeys /\ Remove(p, {k})
  BY DEF Expire
<1>2. /\ hkEntries' \in [HkProxies -> [HkKeys -> [val: Nat, sv: Nat]]]
      /\ hkLru' \in [HkProxies -> Seq(HkKeys)] /\ \A o \in HkProxies : ListOk(o)'
      /\ \A o \in HkProxies, l \in HkKeys : hkEntries'[o][l] = hkEntries[o][l] \/ hkEntries'[o][l] = None0
  BY <1>1, RemoveIs
<1>3. UNCHANGED <<hkData, hkReq, hkVersion, hkSlotVersion, hkSlot, hkQueue, hkPending, hkCalls, hkSeen, hkGap>>
  BY DEF Expire
<1> QED BY <1>2, <1>3, CacheOnlyKeeps

(* Requests move, and nothing else does.                                   *)
LEMMA ReqOnlyKeeps ==
    ASSUME HkInv, NEW q \in HkReqs, hkReq' \in [HkReqs -> HkReqSet],
           \A o \in HkReqs : o # q => hkReq'[o] = hkReq[o],
           hkReq'[q].stage \notin {"ran", "bumped"},
           Fresh(hkReq[q])',
           UNCHANGED <<hkData, hkEntries, hkVersion, hkSlotVersion, hkSlot, hkQueue, hkPending, hkCalls, hkSeen, hkGap>>,
           hkLru' \in [HkProxies -> Seq(HkKeys)], \A o \in HkProxies : ListOk(o)'
    PROVE  HkInv'
<1>1. HkTypes'
  BY DEF HkInv, HkTypes
<1>2. HkLists'
  BY DEF HkInv, HkLists
<1>3. HkPast'
  BY DEF HkInv, HkPast
<1>4. \A p \in HkProxies, k \in HkKeys, v \in Nat : Told(p, k, v)' => Told(p, k, v)
  BY DEF Told
<1>5. \A o \in HkReqs \ {q} : Fresh(hkReq[o])'
  <2>1. hkVersion' \in [HkProxies -> Nat] /\ \A p \in HkProxies : hkVersion'[p] >= hkVersion[p]
    BY <1>1 DEF HkTypes
  <2> QED BY <1>4, <2>1, FreshKept
<1>6. HkFresh'
  BY <1>5 DEF HkFresh
<1>7. StaleOnlyByGap'
  BY StaleKept
<1> QED BY <1>1, <1>2, <1>3, <1>6, <1>7 DEF HkInv

LEMMA GetKeepsHk ==
    ASSUME HkInv, NEW q \in HkReqs, NEW p \in HkProxies, NEW k \in HkKeys, Get(q, p, k)
    PROVE  HkInv'
<1> DEFINE r == [stage |-> IF hkSlot[p] = "stable" THEN "token" ELSE "plain", op |-> "get",
                 proxy |-> p, key |-> k, val |-> 0, sv |-> hkSlotVersion[p], cv |-> hkVersion[p]]
<1>1. /\ hkVersion[p] \in Nat /\ hkSlotVersion[p] \in Nat /\ hkSlotVersion[p] # 0
      /\ hkLru \in [HkProxies -> Seq(HkKeys)] /\ \A o \in HkProxies : ListOk(o)
  BY DEF HkInv, HkTypes, HkLists
<1>2. /\ r \in HkReqSet /\ r.stage = (IF hkSlot[p] = "stable" THEN "token" ELSE "plain") /\ r.proxy = p
      /\ r.sv = hkSlotVersion[p] /\ r.cv = hkVersion[p]
  BY <1>1 DEF HkReqSet, HkStages
<1>3. hkReq' = [hkReq EXCEPT ![q] = r]
  BY DEF Get
<1> HIDE DEF r
<1>4. hkReq' \in [HkReqs -> HkReqSet] /\ \A o \in HkReqs : hkReq'[o] = IF o = q THEN r ELSE hkReq[o]
  BY <1>2, <1>3, ReqIs
<1>5. /\ UNCHANGED <<hkData, hkEntries, hkVersion, hkSlotVersion, hkSlot, hkQueue, hkPending, hkCalls, hkSeen, hkGap>>
      /\ UNCHANGED hkLru
  BY DEF Get, hkCacheVars
<1>6. hkReq'[q] = r /\ hkReq'[q].stage \notin {"ran", "bumped"}
  BY <1>2, <1>4
<1>7. Fresh(hkReq[q])'
  BY <1>1, <1>2, <1>5, <1>6 DEF Fresh
<1>8. hkLru' \in [HkProxies -> Seq(HkKeys)] /\ \A o \in HkProxies : ListOk(o)'
  BY <1>1, <1>5 DEF ListOk
<1> QED BY <1>4, <1>5, <1>6, <1>7, <1>8, ReqOnlyKeeps

LEMMA HitKeepsHk ==
    ASSUME HkInv, NEW q \in HkReqs, NEW p \in HkProxies, NEW k \in HkKeys, Hit(q, p, k)
    PROVE  HkInv'
<1> DEFINE r   == [NoHkReq EXCEPT !.stage = "done", !.proxy = p, !.key = k]
           S   == HkKeys \ {k}
           new == <<k>> \o OnlyIn(hkLru[p], S)
<1>1. r \in HkReqSet /\ r.stage = "done"
  BY HkConstants DEF HkReqSet, HkStages
<1>2. hkReq' = [hkReq EXCEPT ![q] = r]
  BY DEF Hit
<1> HIDE DEF r
<1>3. hkReq' \in [HkReqs -> HkReqSet] /\ \A o \in HkReqs : hkReq'[o] = IF o = q THEN r ELSE hkReq[o]
  BY <1>1, <1>2, ReqIs
<1>4. /\ hkLru' = [hkLru EXCEPT ![p] = new] /\ S = HkKeys \ {k}
      /\ UNCHANGED <<hkData, hkEntries, hkVersion, hkSlotVersion, hkSlot, hkQueue, hkPending, hkCalls, hkSeen, hkGap>>
  BY DEF Hit, Without
<1>5. /\ hkLru \in [HkProxies -> Seq(HkKeys)] /\ \A o \in HkProxies : ListOk(o)
  BY DEF HkInv, HkTypes, HkLists
<1>6. hkLru[p] \in Seq(HkKeys) /\ Distinct(hkLru[p])
  BY <1>5 DEF ListOk
<1> HIDE DEF S
<1>7. k \in Elements(hkLru[p])
  BY <1>5 DEF Hit, ListOk
<1>8. /\ new \in Seq(HkKeys) /\ Distinct(new) /\ Len(new) = Len(hkLru[p]) /\ Elements(new) = Elements(hkLru[p])
  <2>1. /\ new \in Seq(HkKeys) /\ Distinct(new) /\ Elements(new) = Elements(hkLru[p]) \cup {k}
        /\ Len(new) = IF k \in Elements(hkLru[p]) THEN Len(hkLru[p]) ELSE Len(hkLru[p]) + 1
    BY <1>4, <1>6, ToFrontIs
  <2> HIDE DEF new
  <2> QED BY <1>7, <2>1
<1> HIDE DEF new
<1>9. hkLru' \in [HkProxies -> Seq(HkKeys)] /\ \A o \in HkProxies : hkLru'[o] = IF o = p THEN new ELSE hkLru[o]
  BY <1>4, <1>5, <1>8
<1>10. ASSUME NEW o \in HkProxies
       PROVE  ListOk(o)'
  BY <1>4, <1>5, <1>8, <1>9 DEF ListOk
<1>11. hkReq'[q].stage \notin {"ran", "bumped"} /\ Fresh(hkReq[q])'
  BY <1>1, <1>3 DEF Fresh
<1> QED BY <1>3, <1>4, <1>9, <1>10, <1>11, ReqOnlyKeeps

LEMMA UpdateKeepsHk ==
    ASSUME HkInv, NEW q \in HkReqs, NEW p \in HkProxies, NEW k \in HkKeys, NEW op \in {"set", "eval"},
           Update(q, p, k, op)
    PROVE  HkInv'
<1> DEFINE r == [NoHkReq EXCEPT !.stage = "sent", !.op = op, !.proxy = p, !.key = k]
<1>1. r \in HkReqSet /\ r.stage = "sent"
  BY HkConstants DEF HkReqSet, HkStages
<1>2. hkReq' = [hkReq EXCEPT ![q] = r]
  BY DEF Update
<1> HIDE DEF r
<1>3. hkReq' \in [HkReqs -> HkReqSet] /\ \A o \in HkReqs : hkReq'[o] = IF o = q THEN r ELSE hkReq[o]
  BY <1>1, <1>2, ReqIs
<1>4. /\ UNCHANGED <<hkData, hkEntries, hkVersion, hkSlotVersion, hkSlot, hkQueue, hkPending, hkCalls, hkSeen, hkGap>>
      /\ UNCHANGED hkLru
  BY DEF Update, hkCacheVars
<1>5. hkReq'[q].stage \notin {"ran", "bumped"} /\ Fresh(hkReq[q])'
  BY <1>1, <1>3 DEF Fresh
<1>6. hkLru' \in [HkProxies -> Seq(HkKeys)] /\ \A o \in HkProxies : ListOk(o)'
  BY <1>4 DEF ListOk, HkInv, HkTypes, HkLists
<1> QED BY <1>3, <1>4, <1>5, <1>6, ReqOnlyKeeps

LEMMA CheckKeepsHk ==
    ASSUME HkInv, NEW q \in HkReqs, hotKeyCacheStore(q)
    PROVE  HkInv'
<1> PICK s \in {"checked", "done"} : At(q, s)
  BY DEF hotKeyCacheStore
<1>1. /\ hkReq' \in [HkReqs -> HkReqSet]
      /\ \A o \in HkReqs : o # q => hkReq'[o] = hkReq[o]
      /\ hkReq'[q].stage = s
      /\ hkReq'[q].proxy = hkReq[q].proxy /\ hkReq'[q].key = hkReq[q].key /\ hkReq'[q].val = hkReq[q].val
      /\ hkReq'[q].sv = hkReq[q].sv /\ hkReq'[q].cv = hkReq[q].cv
  BY AtIs DEF HkStages
<1>2. /\ UNCHANGED <<hkData, hkEntries, hkVersion, hkSlotVersion, hkSlot, hkQueue, hkPending, hkCalls, hkSeen, hkGap>>
      /\ UNCHANGED hkLru
  BY DEF hotKeyCacheStore, hkCacheVars
<1>3. hkLru' \in [HkProxies -> Seq(HkKeys)] /\ \A o \in HkProxies : ListOk(o)'
  BY <1>2 DEF ListOk, HkInv, HkTypes, HkLists
<1>4. Fresh(hkReq[q])'
  <2>1. \A p \in HkProxies, k \in HkKeys, v \in Nat : Told(p, k, v)' => Told(p, k, v)
    <3>1. \A o \in HkReqs : hkReq'[o].stage = "bumped" => hkReq'[o] = hkReq[o]
      BY <1>1
    <3> QED BY <1>2, <3>1 DEF Told
  <2>2. hkVersion' \in [HkProxies -> Nat] /\ \A p \in HkProxies : hkVersion'[p] >= hkVersion[p]
    BY <1>2 DEF HkInv, HkTypes
  <2>3. hkReq[q].stage = "read"
    BY DEF hotKeyCacheStore
  <2>4. \A o \in HkReqs \ {} : Fresh(hkReq[o])'
    BY <1>1, <1>2, <2>1, <2>2, <2>3, FreshKept DEF Tokens
  <2> QED BY <2>4
<1>5. hkReq'[q].stage \notin {"ran", "bumped"}
  BY <1>1
<1> QED BY <1>1, <1>2, <1>3, <1>4, <1>5, ReqOnlyKeeps

LEMMA RunKeepsHk ==
    ASSUME HkInv, NEW q \in HkReqs, RunRequest(q)
    PROVE  HkInv'
<1>1. /\ hkReq[q] \in HkReqSet /\ hkReq[q].key \in HkKeys /\ hkReq[q].proxy \in HkProxies /\ hkReq[q].cv \in Nat
      /\ hkReq[q].stage \in {"token", "plain", "sent"}
      /\ hkData \in [HkKeys -> Nat] /\ hkReq \in [HkReqs -> HkReqSet]
      /\ UNCHANGED <<hkEntries, hkLru, hkVersion, hkSlotVersion, hkSlot, hkQueue, hkPending, hkCalls, hkSeen, hkGap>>
  <2>1. hkReq[q] \in HkReqSet
    BY DEF HkInv, HkTypes
  <2> QED BY <2>1 DEF RunRequest, HkInv, HkTypes, HkReqSet, hkCacheVars
<1> PICK k \in HkKeys, p \in HkProxies : k = hkReq[q].key /\ p = hkReq[q].proxy
  BY <1>1
<1>2. hkLru' \in [HkProxies -> Seq(HkKeys)] /\ \A o \in HkProxies : ListOk(o)'
  BY <1>1 DEF ListOk, HkInv, HkTypes, HkLists
<1>3. CASE /\ hkReq[q].op = "get"
           /\ hkReq' = [hkReq EXCEPT ![q].stage = IF @ = "token" THEN "read" ELSE "done", ![q].val = hkData[k]]
           /\ UNCHANGED hkData
  <2> DEFINE s == IF hkReq[q].stage = "token" THEN "read" ELSE "done"
             r == [hkReq[q] EXCEPT !.stage = s, !.val = hkData[k]]
  <2>1. /\ r \in HkReqSet /\ r.stage = s /\ r.val = hkData[k] /\ r.proxy = p /\ r.key = k
        /\ r.sv = hkReq[q].sv /\ r.cv = hkReq[q].cv
    BY <1>1 DEF HkReqSet, HkStages
  <2>2. hkReq' = [hkReq EXCEPT ![q] = r]
    BY <1>1, <1>3
  <2> HIDE DEF r
  <2>3. hkReq' \in [HkReqs -> HkReqSet] /\ \A o \in HkReqs : hkReq'[o] = IF o = q THEN r ELSE hkReq[o]
    BY <2>1, <2>2, ReqIs
  <2>4. hkReq'[q] = r /\ hkReq'[q].stage \notin {"ran", "bumped"} /\ \A o \in HkReqs : o # q => hkReq'[o] = hkReq[o]
    BY <2>1, <2>3
  <2>5. \A v \in Nat : Told(p, k, v) => v <= hkData[k]
    <3>1. HkPast
      BY DEF HkInv
    <3> QED BY <3>1 DEF Told, HkPast
  <2>6. \A v \in Nat : Told(p, k, v)' => Told(p, k, v)
    BY <1>1, <2>4 DEF Told
  <2>7. Fresh(hkReq[q])'
    <3>1. CASE s = "done"
      BY <2>1, <2>4, <3>1 DEF Fresh
    <3>2. CASE hkReq[q].stage = "token"
      <4>1. Fresh(hkReq[q])
        BY DEF HkInv, HkFresh
      <4>2. /\ hkReq[q].sv # 0 /\ hkReq[q].cv <= hkVersion[p]
            /\ hkReq[q].cv = hkVersion[p] => hkReq[q].sv = hkSlotVersion[p] /\ hkSlot[p] = "stable"
        BY <3>2, <4>1 DEF Fresh
      <4> QED BY <1>1, <2>1, <2>4, <2>5, <2>6, <4>2 DEF Fresh
    <3> QED BY <3>1, <3>2
  <2> QED BY <1>1, <1>2, <1>3, <2>3, <2>4, <2>7, ReqOnlyKeeps
<1>4. ASSUME NEW op \in {hkReq[q].op, "failed"},
             hkReq' = [hkReq EXCEPT ![q].stage = "ran", ![q].val = hkData[k] + 1, ![q].op = op],
             hkData' = [hkData EXCEPT ![k] = @ + 1]
      PROVE  HkInv'
  <2> DEFINE r == [hkReq[q] EXCEPT !.stage = "ran", !.val = hkData[k] + 1, !.op = op]
  <2>1. r \in HkReqSet /\ r.stage = "ran" /\ r.val = hkData[k] + 1 /\ r.key = k
    <3>1. op \in {"get", "set", "eval", "failed"} /\ hkData[k] + 1 \in Nat
      BY <1>1 DEF HkReqSet
    <3> QED BY <1>1, <3>1 DEF HkReqSet, HkStages
  <2>2. hkReq' = [hkReq EXCEPT ![q] = r]
    BY <1>1, <1>4
  <2> HIDE DEF r
  <2>3. hkReq' \in [HkReqs -> HkReqSet] /\ \A o \in HkReqs : hkReq'[o] = IF o = q THEN r ELSE hkReq[o]
    BY <2>1, <2>2, ReqIs
  <2>4. hkReq'[q] = r /\ \A o \in HkReqs : o # q => hkReq'[o] = hkReq[o]
    BY <2>3
  <2>5. /\ hkData' \in [HkKeys -> Nat] /\ \A l \in HkKeys : hkData[l] \in Nat /\ hkData[l] <= hkData'[l]
        /\ hkData'[k] = hkData[k] + 1
    BY <1>1, <1>4
  <2>6. HkTypes'
    BY <1>1, <1>2, <2>3, <2>5 DEF HkInv, HkTypes
  <2>7. HkLists'
    BY <1>1, <1>2 DEF HkInv, HkLists
  <2>8. HkPast'
    <3>1. \A o \in HkReqs : hkReq'[o].stage \in {"ran", "bumped"} => hkReq'[o].val <= hkData'[hkReq'[o].key]
      <4>1. ASSUME NEW o \in HkReqs, o # q, hkReq[o].stage \in {"ran", "bumped"}
            PROVE  hkReq[o].val <= hkData'[hkReq[o].key]
        <5>1. hkReq[o] \in HkReqSet /\ hkReq[o].val <= hkData[hkReq[o].key]
          BY <1>1, <4>1 DEF HkInv, HkPast
        <5>2. hkReq[o].val \in Nat /\ hkReq[o].key \in HkKeys
          BY <5>1 DEF HkReqSet
        <5> QED BY <2>5, <5>1, <5>2
      <4>2. r.val <= hkData'[r.key]
        BY <2>1, <2>5
      <4> QED BY <2>4, <4>1, <4>2
    <3>2. ASSUME NEW o \in HkProxies
          PROVE  /\ \A i \in 1 .. Len(hkQueue[o]) : hkQueue[o][i].val <= hkData'[hkQueue[o][i].key]
                 /\ \A e \in hkPending[o] : e.val <= hkData'[e.key]
                 /\ \A l \in HkKeys : hkSeen[o][l] <= hkData'[l]
      <4>1. \A e \in HkEvents : e.val \in Nat /\ e.key \in HkKeys
        BY DEF HkEvents
      <4>2. \A e \in HkEvents : e.val <= hkData[e.key] => e.val <= hkData'[e.key]
        BY <2>5, <4>1
      <4>3. \A i \in 1 .. Len(hkQueue[o]) : hkQueue[o][i] \in HkEvents /\ hkQueue[o][i].val <= hkData[hkQueue[o][i].key]
        <5>1. hkQueue[o] \in Seq(HkEvents)
          BY DEF HkInv, HkTypes
        <5>2. \A i \in 1 .. Len(hkQueue[o]) : hkQueue[o][i] \in HkEvents
          BY <5>1, ElementOfSeq
        <5> QED BY <5>2 DEF HkInv, HkPast
      <4>4. \A e \in hkPending[o] : e \in HkEvents /\ e.val <= hkData[e.key]
        BY DEF HkInv, HkTypes, HkPast
      <4>5. \A l \in HkKeys : hkSeen[o][l] \in Nat /\ hkSeen[o][l] <= hkData[l]
        BY DEF HkInv, HkTypes, HkPast
      <4>6. \A l \in HkKeys : hkSeen[o][l] <= hkData'[l]
        BY <2>5, <4>5
      <4> QED BY <4>2, <4>3, <4>4, <4>6
    <3>3. ASSUME NEW c \in hkCalls
          PROVE  c.what.val <= hkData'[c.what.key]
      <4>1. c \in HkCalls /\ c.what.val <= hkData[c.what.key]
        BY DEF HkInv, HkTypes, HkPast
      <4>2. c.what.val \in Nat /\ c.what.key \in HkKeys
        BY <4>1 DEF HkCalls, HkEvents
      <4> QED BY <2>5, <4>1, <4>2
    <3> QED BY <1>1, <3>1, <3>2, <3>3 DEF HkPast
  <2>9. HkFresh'
    <3>1. \A o \in HkProxies, l \in HkKeys, v \in Nat : Told(o, l, v)' => Told(o, l, v)
      BY <1>1, <2>1, <2>4 DEF Told
    <3>2. hkVersion' \in [HkProxies -> Nat] /\ \A o \in HkProxies : hkVersion'[o] >= hkVersion[o]
      BY <1>1 DEF HkInv, HkTypes
    <3>3. \A o \in HkReqs \ {} : Fresh(hkReq[o])'
      BY <1>1, <2>1, <2>3, <2>4, <3>1, <3>2, FreshKept DEF Tokens
    <3> QED BY <3>3 DEF HkFresh
  <2>10. StaleOnlyByGap'
    BY <1>1, StaleKept
  <2> QED BY <2>6, <2>7, <2>8, <2>9, <2>10 DEF HkInv
<1> QED BY <1>3, <1>4 DEF RunRequest

LEMMA StoreKeepsHk ==
    ASSUME HkInv, NEW q \in HkReqs, StoreChecked(q)
    PROVE  HkInv'
<1>1. hkReq[q] \in HkReqSet /\ hkReq[q].stage = "checked" /\ Fresh(hkReq[q])
  BY DEF StoreChecked, HkInv, HkTypes, HkFresh
<1>2. /\ hkReq[q].key \in HkKeys /\ hkReq[q].proxy \in HkProxies /\ hkReq[q].cv \in Nat
      /\ hkReq[q].val \in Nat /\ hkReq[q].sv \in Nat
  BY <1>1 DEF HkReqSet
<1> PICK k \in HkKeys, p \in HkProxies : k = hkReq[q].key /\ p = hkReq[q].proxy
  BY <1>2
<1> DEFINE e == [val |-> hkReq[q].val, sv |-> hkReq[q].sv]
<1>3. /\ hkReq[q].sv # 0 /\ hkReq[q].cv <= hkVersion[p]
      /\ hkReq[q].cv = hkVersion[p] =>
            /\ hkReq[q].sv = hkSlotVersion[p] /\ hkSlot[p] = "stable"
            /\ \A v \in Nat : Told(p, k, v) => v <= hkReq[q].val
  BY <1>1 DEF Fresh
<1>4. e \in [val: Nat, sv: Nat] /\ e # None0 /\ e.val = hkReq[q].val /\ e.sv = hkReq[q].sv
  BY <1>2, <1>3 DEF None0
<1>5. /\ store(p, k, e) /\ At(q, "done")
      /\ hkGap' = [hkGap EXCEPT ![p] = IF hkVersion[p] # hkReq[q].cv THEN @ \cup {k} ELSE @ \ {k}]
      /\ UNCHANGED <<hkData, hkVersion, hkSlotVersion, hkSlot, hkQueue, hkPending, hkCalls, hkSeen>>
  BY DEF StoreChecked
<1> HIDE DEF e
<1>6. /\ hkEntries' \in [HkProxies -> [HkKeys -> [val: Nat, sv: Nat]]]
      /\ hkLru' \in [HkProxies -> Seq(HkKeys)]
      /\ hkEntries'[p][k] = e
      /\ \A o \in HkProxies, l \in HkKeys :
            o # p \/ l # k => hkEntries'[o][l] = hkEntries[o][l] \/ hkEntries'[o][l] = None0
      /\ \A o \in HkProxies : ListOk(o)'
  BY <1>4, <1>5, StoreIs
<1>7. /\ hkReq' \in [HkReqs -> HkReqSet] /\ hkReq'[q].stage = "done"
      /\ \A o \in HkReqs : o # q => hkReq'[o] = hkReq[o]
  BY <1>5, AtIs DEF HkStages
<1>8. hkGap \in [HkProxies -> SUBSET HkKeys] /\ hkGap' \in [HkProxies -> SUBSET HkKeys]
  BY <1>5 DEF HkInv, HkTypes
<1>9. /\ \A o \in HkProxies, l \in HkKeys : o # p \/ l # k => (l \in hkGap[o] => l \in hkGap'[o])
      /\ hkVersion[p] # hkReq[q].cv => k \in hkGap'[p]
  BY <1>5, <1>8
<1>10. HkTypes'
  BY <1>5, <1>6, <1>7, <1>8 DEF HkInv, HkTypes
<1>11. HkLists' /\ HkPast'
  BY <1>5, <1>6, <1>7 DEF HkInv, HkLists, HkPast
<1>12. HkFresh'
  <2>1. \A o \in HkProxies, l \in HkKeys, v \in Nat : Told(o, l, v)' => Told(o, l, v)
    BY <1>5, <1>7 DEF Told
  <2>2. hkVersion' \in [HkProxies -> Nat] /\ \A o \in HkProxies : hkVersion'[o] >= hkVersion[o]
    BY <1>5 DEF HkInv, HkTypes
  <2>3. \A o \in HkReqs \ {} : Fresh(hkReq[o])'
    BY <1>5, <1>7, <2>1, <2>2, FreshKept DEF Tokens
  <2> QED BY <2>3 DEF HkFresh
<1>13. StaleOnlyByGap'
  <2>1. SUFFICES ASSUME NEW o \in HkProxies, NEW l \in HkKeys
                 PROVE  Current(o, l)' \/ l \in hkGap'[o]
    BY DEF StaleOnlyByGap
  <2>2. CASE o # p \/ l # k
    <3>1. Current(o, l) \/ l \in hkGap[o]
      BY DEF HkInv, StaleOnlyByGap
    <3> QED BY <1>5, <1>6, <1>9, <2>2, <3>1 DEF Current
  <2>3. CASE o = p /\ l = k /\ hkVersion[p] # hkReq[q].cv
    BY <1>9, <2>3
  <2>4. CASE o = p /\ l = k /\ hkVersion[p] = hkReq[q].cv
    <3>1. Told(p, k, hkSeen[p][k]) /\ hkSeen[p][k] \in Nat
      BY DEF Told, HkInv, HkTypes
    <3>2. hkSeen[p][k] <= hkReq[q].val /\ hkReq[q].sv = hkSlotVersion[p]
      BY <1>3, <2>4, <3>1
    <3>3. e.val >= hkSeen[p][k] /\ e.sv = hkSlotVersion[p]
      BY <1>2, <1>4, <3>1, <3>2
    <3> QED BY <1>5, <1>6, <2>4, <3>3 DEF Current
  <2> QED BY <2>2, <2>3, <2>4
<1> QED BY <1>10, <1>11, <1>12, <1>13 DEF HkInv

LEMMA BumpIs ==
    ASSUME HkInv, NEW p \in HkProxies, Bump(p)
    PROVE  /\ hkVersion' \in [HkProxies -> Nat]
           /\ \A o \in HkProxies : hkVersion'[o] >= hkVersion[o]
           /\ \A o \in HkProxies : hkVersion'[o] = hkVersion[o] => o # p
BY DEF Bump, HkInv, HkTypes

LEMMA InvalidateBumpKeepsHk ==
    ASSUME HkInv, NEW q \in HkReqs, InvalidateBump(q)
    PROVE  HkInv'
<1>1. hkReq[q] \in HkReqSet /\ hkReq[q].stage = "ran" /\ hkReq[q].proxy \in HkProxies
  <2>1. hkReq[q] \in HkReqSet
    BY DEF HkInv, HkTypes
  <2> QED BY <2>1 DEF InvalidateBump, HkReqSet
<1>2. /\ At(q, "bumped") /\ Bump(hkReq[q].proxy)
      /\ UNCHANGED <<hkData, hkEntries, hkLru, hkSlotVersion, hkSlot, hkQueue, hkPending, hkCalls, hkSeen, hkGap>>
  BY DEF InvalidateBump, hkCacheVars
<1>3. /\ hkReq' \in [HkReqs -> HkReqSet] /\ hkReq'[q].stage = "bumped"
      /\ hkReq'[q].proxy = hkReq[q].proxy /\ hkReq'[q].key = hkReq[q].key /\ hkReq'[q].val = hkReq[q].val
      /\ \A o \in HkReqs : o # q => hkReq'[o] = hkReq[o]
  BY <1>2, AtIs DEF HkStages
<1>4. /\ hkVersion' \in [HkProxies -> Nat]
      /\ \A o \in HkProxies : hkVersion'[o] >= hkVersion[o]
      /\ \A o \in HkProxies : hkVersion'[o] = hkVersion[o] => o # hkReq[q].proxy
  BY <1>1, <1>2, BumpIs
<1>5. HkTypes'
  BY <1>2, <1>3, <1>4 DEF HkInv, HkTypes
<1>6. HkLists'
  BY <1>2 DEF HkInv, HkLists, ListOk
<1>7. HkPast'
  BY <1>1, <1>2, <1>3 DEF HkInv, HkPast
<1>8. HkFresh'
  <2>1. \A o \in HkProxies, l \in HkKeys, v \in Nat : o # hkReq[q].proxy => (Told(o, l, v)' => Told(o, l, v))
    BY <1>2, <1>3 DEF Told
  <2>2. \A o \in HkReqs \ {} : Fresh(hkReq[o])'
    BY <1>2, <1>3, <1>4, <2>1, FreshKept DEF Tokens
  <2> QED BY <2>2 DEF HkFresh
<1>9. StaleOnlyByGap'
  BY <1>2, StaleKept
<1> QED BY <1>5, <1>6, <1>7, <1>8, <1>9 DEF HkInv

LEMMA LargerIs ==
    ASSUME NEW m \in Nat, NEW n \in Nat
    PROVE  Larger(m, n) \in Nat /\ (Larger(m, n) = m \/ Larger(m, n) = n)
BY DEF Larger

(* The write an invalidation of some keys is for is seen.                  *)
SeenWith(p, k, v) == [hkSeen EXCEPT ![p][k] = Larger(@, v)]

LEMMA SeenIs ==
    ASSUME HkInv, NEW p \in HkProxies, NEW k \in HkKeys, NEW v \in Nat, v <= hkData[k],
           hkSeen' = SeenWith(p, k, v)
    PROVE  /\ hkSeen' \in [HkProxies -> [HkKeys -> Nat]]
           /\ \A o \in HkProxies, l \in HkKeys : hkSeen'[o][l] <= hkData[l]
           /\ \A o \in HkProxies, l \in HkKeys : o # p \/ l # k => hkSeen'[o][l] = hkSeen[o][l]
           /\ hkSeen'[p][k] = hkSeen[p][k] \/ hkSeen'[p][k] = v
<1>1. hkSeen \in [HkProxies -> [HkKeys -> Nat]] /\ \A o \in HkProxies, l \in HkKeys : hkSeen[o][l] <= hkData[l]
  BY DEF HkInv, HkTypes, HkPast
<1> DEFINE f == [hkSeen[p] EXCEPT ![k] = Larger(hkSeen[p][k], v)]
<1>2. /\ f \in [HkKeys -> Nat] /\ \A l \in HkKeys : l # k => f[l] = hkSeen[p][l]
      /\ f[k] = hkSeen[p][k] \/ f[k] = v
  <2>1. hkSeen[p] \in [HkKeys -> Nat] /\ hkSeen[p][k] \in Nat
    BY <1>1
  <2>2. Larger(hkSeen[p][k], v) \in Nat /\ (Larger(hkSeen[p][k], v) = hkSeen[p][k] \/ Larger(hkSeen[p][k], v) = v)
    BY <2>1, LargerIs
  <2> QED BY <2>1, <2>2
<1>3. hkSeen' = [hkSeen EXCEPT ![p] = f]
  BY DEF SeenWith
<1> HIDE DEF f
<1>4. hkSeen' \in [HkProxies -> [HkKeys -> Nat]] /\ \A o \in HkProxies : hkSeen'[o] = IF o = p THEN f ELSE hkSeen[o]
  BY <1>1, <1>2, <1>3
<1> QED BY <1>1, <1>2, <1>4

LEMMA InvalidateRemoveKeepsHk ==
    ASSUME HkInv, NEW q \in HkReqs, InvalidateRemove(q)
    PROVE  HkInv'
<1>1. hkReq[q] \in HkReqSet /\ hkReq[q].stage = "bumped" /\ hkReq[q].val <= hkData[hkReq[q].key]
  BY DEF InvalidateRemove, HkInv, HkTypes, HkPast
<1>2. hkReq[q].key \in HkKeys /\ hkReq[q].proxy \in HkProxies /\ hkReq[q].val \in Nat
  BY <1>1 DEF HkReqSet
<1> PICK k \in HkKeys, p \in HkProxies, v \in Nat : k = hkReq[q].key /\ p = hkReq[q].proxy /\ v = hkReq[q].val
  BY <1>2
<1> DEFINE e == [key |-> k, val |-> v]
           K == Plan(q)
<1>3. K \in SUBSET HkKeys /\ k \in K
  BY DEF Plan
<1>4. e \in HkEvents /\ e.key = k /\ e.val = v
  BY DEF HkEvents
<1>5. /\ Remove(p, K) /\ At(q, "done")
      /\ hkSeen' = SeenWith(p, k, v)
      /\ \/ Len(hkQueue[p]) < QueueSize /\ hkQueue' = [hkQueue EXCEPT ![p] = Append(@, e)]
         \/ UNCHANGED hkQueue
      /\ hkGap' = [hkGap EXCEPT ![p] = @ \ K]
      /\ UNCHANGED <<hkData, hkVersion, hkSlotVersion, hkSlot, hkPending, hkCalls>>
  BY DEF InvalidateRemove, SeenWith
<1> HIDE DEF e, K
<1>6. /\ hkEntries' \in [HkProxies -> [HkKeys -> [val: Nat, sv: Nat]]]
      /\ hkLru' \in [HkProxies -> Seq(HkKeys)]
      /\ \A o \in HkProxies, l \in HkKeys :
            hkEntries'[o][l] = IF o = p /\ l \in K THEN None0 ELSE hkEntries[o][l]
      /\ \A o \in HkProxies : ListOk(o)'
  BY <1>3, <1>5, RemoveIs
<1>7. /\ hkReq' \in [HkReqs -> HkReqSet] /\ hkReq'[q].stage = "done"
      /\ \A o \in HkReqs : o # q => hkReq'[o] = hkReq[o]
  BY <1>5, AtIs DEF HkStages
<1>8. /\ hkSeen' \in [HkProxies -> [HkKeys -> Nat]]
      /\ \A o \in HkProxies, l \in HkKeys : hkSeen'[o][l] <= hkData[l]
      /\ \A o \in HkProxies, l \in HkKeys : o # p \/ l # k => hkSeen'[o][l] = hkSeen[o][l]
      /\ hkSeen'[p][k] = hkSeen[p][k] \/ hkSeen'[p][k] = v
  BY <1>1, <1>5, SeenIs
<1>9. /\ hkGap' \in [HkProxies -> SUBSET HkKeys]
      /\ \A o \in HkProxies, l \in HkKeys : l \in hkGap[o] /\ (o # p \/ l \notin K) => l \in hkGap'[o]
  BY <1>5 DEF HkInv, HkTypes
<1>10. /\ hkQueue' \in [HkProxies -> Seq(HkEvents)]
       /\ \A o \in HkProxies : Len(hkQueue'[o]) <= QueueSize
       /\ \A o \in HkProxies : \A i \in 1 .. Len(hkQueue'[o]) : hkQueue'[o][i].val <= hkData[hkQueue'[o][i].key]
  <2>1. /\ hkQueue \in [HkProxies -> Seq(HkEvents)] /\ hkQueue[p] \in Seq(HkEvents)
        /\ \A o \in HkProxies : Len(hkQueue[o]) <= QueueSize
        /\ \A o \in HkProxies : \A i \in 1 .. Len(hkQueue[o]) : hkQueue[o][i].val <= hkData[hkQueue[o][i].key]
    BY DEF HkInv, HkTypes, HkLists, HkPast
  <2>2. CASE UNCHANGED hkQueue
    BY <2>1, <2>2
  <2>3. CASE Len(hkQueue[p]) < QueueSize /\ hkQueue' = [hkQueue EXCEPT ![p] = Append(@, e)]
    <3> DEFINE new == Append(hkQueue[p], e)
    <3>1. Len(hkQueue[p]) \in Nat
      BY <2>1, LenProperties
    <3>2. /\ new \in Seq(HkEvents) /\ Len(new) = Len(hkQueue[p]) + 1
          /\ \A i \in 1 .. Len(hkQueue[p]) : new[i] = hkQueue[p][i]
          /\ new[Len(hkQueue[p]) + 1] = e
      BY <1>4, <2>1, AppendProperties
    <3>3. hkQueue' = [hkQueue EXCEPT ![p] = new]
      BY <2>3
    <3> HIDE DEF new
    <3>4. hkQueue' \in [HkProxies -> Seq(HkEvents)] /\ \A o \in HkProxies : hkQueue'[o] = IF o = p THEN new ELSE hkQueue[o]
      BY <2>1, <3>2, <3>3
    <3>5. Len(new) <= QueueSize
      BY <2>3, <3>1, <3>2, HkConstants
    <3>6. \A i \in 1 .. Len(new) : new[i].val <= hkData[new[i].key]
      <4>1. \A i \in 1 .. Len(new) : i \in 1 .. Len(hkQueue[p]) \/ i = Len(hkQueue[p]) + 1
        BY <3>1, <3>2
      <4>2. e.val <= hkData[e.key]
        BY <1>1, <1>4
      <4> QED BY <2>1, <3>2, <4>1, <4>2
    <3> QED BY <2>1, <3>4, <3>5, <3>6
  <2> QED BY <1>5, <2>2, <2>3
<1>11. HkTypes'
  BY <1>5, <1>6, <1>7, <1>8, <1>9, <1>10 DEF HkInv, HkTypes
<1>12. HkLists'
  BY <1>6, <1>10 DEF HkLists
<1>13. HkPast'
  BY <1>5, <1>7, <1>8, <1>10 DEF HkInv, HkPast
<1>14. HkFresh'
  <2>1. Told(p, k, v)
    BY <1>1 DEF Told
  <2>2. ASSUME NEW o \in HkProxies, NEW l \in HkKeys, NEW w \in Nat, Told(o, l, w)'
        PROVE  Told(o, l, w)
    <3>1. CASE w = hkSeen'[o][l]
      BY <1>8, <2>1, <3>1 DEF Told
    <3>2. CASE w # hkSeen'[o][l]
      BY <1>5, <1>7, <2>2, <3>2 DEF Told
    <3> QED BY <3>1, <3>2
  <2>3. hkVersion' \in [HkProxies -> Nat] /\ \A o \in HkProxies : hkVersion'[o] >= hkVersion[o]
    BY <1>5 DEF HkInv, HkTypes
  <2>4. \A o \in HkReqs \ {} : Fresh(hkReq[o])'
    BY <1>5, <1>7, <2>2, <2>3, FreshKept DEF Tokens
  <2> QED BY <2>4 DEF HkFresh
<1>15. StaleOnlyByGap'
  BY <1>3, <1>5, <1>6, <1>8, <1>9, StaleKept
<1> QED BY <1>11, <1>12, <1>13, <1>14, <1>15 DEF HkInv

LEMMA MergeKeepsHk ==
    ASSUME HkInv, NEW p \in HkProxies, mergePending(p)
    PROVE  HkInv'
<1>1. /\ hkQueue \in [HkProxies -> Seq(HkEvents)] /\ hkPending \in [HkProxies -> SUBSET HkEvents]
      /\ \A o \in HkProxies : Len(hkQueue[o]) <= QueueSize
      /\ \A o \in HkProxies : \A i \in 1 .. Len(hkQueue[o]) : hkQueue[o][i].val <= hkData[hkQueue[o][i].key]
      /\ \A o \in HkProxies : \A e \in hkPending[o] : e.val <= hkData[e.key]
  BY DEF HkInv, HkTypes, HkLists, HkPast
<1> DEFINE h == Head(hkQueue[p])
           t == Tail(hkQueue[p])
<1>2. /\ h \in HkEvents /\ h = hkQueue[p][1] /\ t \in Seq(HkEvents) /\ Len(t) = Len(hkQueue[p]) - 1
      /\ \A i \in 1 .. Len(t) : t[i] = hkQueue[p][i + 1]
      /\ Len(hkQueue[p]) \in Nat /\ Len(hkQueue[p]) >= 1
  <2>1. hkQueue[p] \in Seq(HkEvents) /\ hkQueue[p] # << >>
    BY <1>1 DEF mergePending
  <2>2. Len(hkQueue[p]) \in Nat /\ Len(hkQueue[p]) # 0
    BY <2>1, LenProperties, EmptySeq
  <2> QED BY <2>1, <2>2, HeadTailProperties, ElementOfSeq
<1>3. /\ hkPending' = [hkPending EXCEPT ![p] = hkPending[p] \cup {h}]
      /\ hkQueue' = [hkQueue EXCEPT ![p] = t]
      /\ UNCHANGED <<hkData, hkReq, hkEntries, hkLru, hkVersion, hkSlotVersion, hkSlot, hkCalls, hkSeen, hkGap>>
  BY DEF mergePending, hkCacheVars
<1> HIDE DEF h, t
<1>4. /\ \A i \in 1 .. Len(t) : i + 1 \in 1 .. Len(hkQueue[p])
      /\ 1 \in 1 .. Len(hkQueue[p]) /\ Len(t) <= QueueSize
  BY <1>1, <1>2, HkConstants
<1>5. h.val <= hkData[h.key] /\ \A i \in 1 .. Len(t) : t[i].val <= hkData[t[i].key]
  BY <1>1, <1>2, <1>4
<1>6. /\ hkPending' \in [HkProxies -> SUBSET HkEvents] /\ hkQueue' \in [HkProxies -> Seq(HkEvents)]
      /\ \A o \in HkProxies : hkQueue'[o] = IF o = p THEN t ELSE hkQueue[o]
      /\ \A o \in HkProxies : hkPending'[o] = IF o = p THEN hkPending[p] \cup {h} ELSE hkPending[o]
  BY <1>1, <1>2, <1>3
<1>7. HkTypes'
  BY <1>3, <1>6 DEF HkInv, HkTypes
<1>8. HkLists'
  BY <1>1, <1>3, <1>4, <1>6 DEF HkInv, HkLists, ListOk
<1>9. HkPast'
  BY <1>1, <1>3, <1>5, <1>6 DEF HkInv, HkPast
<1>10. HkFresh'
  BY <1>3 DEF HkInv, HkFresh, Fresh, Told
<1>11. StaleOnlyByGap'
  BY <1>3, StaleKept
<1> QED BY <1>7, <1>8, <1>9, <1>10, <1>11 DEF HkInv

(* Calls that are made, or lost, tell no proxy of anything yet.            *)
LEMMA CallsKeepHk ==
    ASSUME HkInv, hkCalls' \subseteq HkCalls,
           \A c \in hkCalls' : c \in hkCalls \/ (c.stage = "call" /\ c.what.val <= hkData[c.what.key]),
           hkPending' \in [HkProxies -> SUBSET HkEvents],
           \A p \in HkProxies : hkPending'[p] \subseteq hkPending[p],
           UNCHANGED <<hkData, hkReq, hkEntries, hkLru, hkVersion, hkSlotVersion, hkSlot, hkQueue, hkSeen, hkGap>>
    PROVE  HkInv'
<1>1. HkTypes'
  BY DEF HkInv, HkTypes
<1>2. HkLists'
  BY DEF HkInv, HkLists, ListOk
<1>3. HkPast'
  BY DEF HkInv, HkPast
<1>4. HkFresh'
  <2>1. \A o \in HkProxies, l \in HkKeys, v \in Nat : Told(o, l, v)' => Told(o, l, v)
    BY DEF Told
  <2>2. hkVersion' \in [HkProxies -> Nat] /\ \A o \in HkProxies : hkVersion'[o] >= hkVersion[o]
    BY DEF HkInv, HkTypes
  <2>3. \A o \in HkReqs \ {} : Fresh(hkReq[o])'
    BY <1>1, <2>1, <2>2, FreshKept DEF HkTypes
  <2> QED BY <2>3 DEF HkFresh
<1>5. StaleOnlyByGap'
  BY StaleKept
<1> QED BY <1>1, <1>2, <1>3, <1>4, <1>5 DEF HkInv

LEMMA FlushKeepsHk ==
    ASSUME HkInv, NEW p \in HkProxies, flushPending(p)
    PROVE  HkInv'
<1>1. /\ hkPending \in [HkProxies -> SUBSET HkEvents] /\ hkCalls \subseteq HkCalls
      /\ \A e \in hkPending[p] : e \in HkEvents /\ e.val <= hkData[e.key]
  BY DEF HkInv, HkTypes, HkPast
<1>2. /\ hkPending' = [hkPending EXCEPT ![p] = {}]
      /\ \/ hkCalls' = hkCalls \cup [to: HkProxies \ {p}, what: hkPending[p], stage: {"call"}]
         \/ UNCHANGED hkCalls
      /\ UNCHANGED <<hkData, hkReq, hkEntries, hkLru, hkVersion, hkSlotVersion, hkSlot, hkQueue, hkSeen, hkGap>>
  BY DEF flushPending, hkCacheVars
<1>3. hkPending' \in [HkProxies -> SUBSET HkEvents] /\ \A o \in HkProxies : hkPending'[o] \subseteq hkPending[o]
  BY <1>1, <1>2
<1>4. ASSUME NEW c \in [to: HkProxies \ {p}, what: hkPending[p], stage: {"call"}]
      PROVE  c \in HkCalls /\ c.stage = "call" /\ c.what.val <= hkData[c.what.key]
  BY <1>1 DEF HkCalls
<1>5. /\ hkCalls' \subseteq HkCalls
      /\ \A c \in hkCalls' : c \in hkCalls \/ (c.stage = "call" /\ c.what.val <= hkData[c.what.key])
  BY <1>1, <1>2, <1>4
<1> QED BY <1>2, <1>3, <1>5, CallsKeepHk

LEMMA LoseCallKeepsHk ==
    ASSUME HkInv, NEW c \in hkCalls, LoseCall(c)
    PROVE  HkInv'
<1>1. /\ hkCalls' = hkCalls \ {c} /\ UNCHANGED hkPending
      /\ UNCHANGED <<hkData, hkReq, hkEntries, hkLru, hkVersion, hkSlotVersion, hkSlot, hkQueue, hkSeen, hkGap>>
  BY DEF LoseCall, hkCacheVars
<1>2. hkPending' \in [HkProxies -> SUBSET HkEvents] /\ hkCalls' \subseteq HkCalls
      /\ \A o \in HkProxies : hkPending'[o] \subseteq hkPending[o]
  BY <1>1 DEF HkInv, HkTypes
<1> QED BY <1>1, <1>2, CallsKeepHk

LEMMA RemoteBumpKeepsHk ==
    ASSUME HkInv, NEW c \in hkCalls, RemoteBump(c)
    PROVE  HkInv'
<1> DEFINE d == [c EXCEPT !.stage = "bumped"]
<1>1. c \in HkCalls /\ c.to \in HkProxies /\ hkCalls \subseteq HkCalls /\ c.what.val <= hkData[c.what.key]
  <2>1. c \in HkCalls /\ hkCalls \subseteq HkCalls /\ c.what.val <= hkData[c.what.key]
    BY DEF HkInv, HkTypes, HkPast
  <2> QED BY <2>1 DEF HkCalls
<1>2. d \in HkCalls /\ d.to = c.to /\ d.what = c.what
  BY <1>1 DEF HkCalls
<1>3. /\ Bump(c.to) /\ hkCalls' = (hkCalls \ {c}) \cup {d}
      /\ UNCHANGED <<hkData, hkReq, hkEntries, hkLru, hkSlotVersion, hkSlot, hkQueue, hkPending, hkSeen, hkGap>>
  BY DEF RemoteBump, hkCacheVars
<1> HIDE DEF d
<1>4. /\ hkVersion' \in [HkProxies -> Nat]
      /\ \A o \in HkProxies : hkVersion'[o] >= hkVersion[o]
      /\ \A o \in HkProxies : hkVersion'[o] = hkVersion[o] => o # c.to
  BY <1>1, <1>3, BumpIs
<1>5. HkTypes'
  BY <1>1, <1>2, <1>3, <1>4 DEF HkInv, HkTypes
<1>6. HkLists'
  BY <1>3 DEF HkInv, HkLists, ListOk
<1>7. HkPast'
  BY <1>1, <1>2, <1>3 DEF HkInv, HkPast
<1>8. HkFresh'
  <2>1. \A o \in HkProxies, l \in HkKeys, v \in Nat : o # c.to => (Told(o, l, v)' => Told(o, l, v))
    BY <1>2, <1>3 DEF Told
  <2>2. \A o \in HkReqs \ {} : Fresh(hkReq[o])'
    BY <1>3, <1>4, <1>5, <2>1, FreshKept DEF HkTypes
  <2> QED BY <2>2 DEF HkFresh
<1>9. StaleOnlyByGap'
  BY <1>3, StaleKept
<1> QED BY <1>5, <1>6, <1>7, <1>8, <1>9 DEF HkInv

LEMMA RemoteRemoveKeepsHk ==
    ASSUME HkInv, NEW c \in hkCalls, RemoteRemove(c)
    PROVE  HkInv'
<1>1. c \in HkCalls /\ hkCalls \subseteq HkCalls /\ c.what.val <= hkData[c.what.key] /\ c.stage = "bumped"
  BY DEF RemoteRemove, HkInv, HkTypes, HkPast
<1>2. c.to \in HkProxies /\ c.what.key \in HkKeys /\ c.what.val \in Nat
  BY <1>1 DEF HkCalls, HkEvents
<1> PICK k \in HkKeys, p \in HkProxies, v \in Nat : k = c.what.key /\ p = c.to /\ v = c.what.val
  BY <1>2
<1>3. {k} \in SUBSET HkKeys /\ Remove(p, {k})
  BY DEF RemoteRemove
<1>4. /\ hkSeen' = SeenWith(p, k, v)
      /\ hkGap' = [hkGap EXCEPT ![p] = @ \ {k}]
      /\ hkCalls' = hkCalls \ {c}
      /\ UNCHANGED <<hkData, hkReq, hkVersion, hkSlotVersion, hkSlot, hkQueue, hkPending>>
  BY DEF RemoteRemove, SeenWith
<1>5. /\ hkEntries' \in [HkProxies -> [HkKeys -> [val: Nat, sv: Nat]]]
      /\ hkLru' \in [HkProxies -> Seq(HkKeys)]
      /\ \A o \in HkProxies, l \in HkKeys :
            hkEntries'[o][l] = IF o = p /\ l = k THEN None0 ELSE hkEntries[o][l]
      /\ \A o \in HkProxies : ListOk(o)'
  BY <1>3, RemoveIs
<1>6. /\ hkSeen' \in [HkProxies -> [HkKeys -> Nat]]
      /\ \A o \in HkProxies, l \in HkKeys : hkSeen'[o][l] <= hkData[l]
      /\ \A o \in HkProxies, l \in HkKeys : o # p \/ l # k => hkSeen'[o][l] = hkSeen[o][l]
      /\ hkSeen'[p][k] = hkSeen[p][k] \/ hkSeen'[p][k] = v
  BY <1>1, <1>4, SeenIs
<1>7. /\ hkGap' \in [HkProxies -> SUBSET HkKeys]
      /\ \A o \in HkProxies, l \in HkKeys : l \in hkGap[o] /\ (o # p \/ l # k) => l \in hkGap'[o]
  BY <1>4 DEF HkInv, HkTypes
<1>8. HkTypes'
  BY <1>4, <1>5, <1>6, <1>7 DEF HkInv, HkTypes
<1>9. HkLists'
  BY <1>4, <1>5 DEF HkInv, HkLists
<1>10. HkPast'
  BY <1>4, <1>6 DEF HkInv, HkPast
<1>11. HkFresh'
  <2>1. Told(p, k, v)
    BY <1>1 DEF Told
  <2>2. ASSUME NEW o \in HkProxies, NEW l \in HkKeys, NEW w \in Nat, Told(o, l, w)'
        PROVE  Told(o, l, w)
    <3>1. CASE w = hkSeen'[o][l]
      BY <1>6, <2>1, <3>1 DEF Told
    <3>2. CASE w # hkSeen'[o][l]
      BY <1>4, <2>2, <3>2 DEF Told
    <3> QED BY <3>1, <3>2
  <2>3. hkVersion' \in [HkProxies -> Nat] /\ \A o \in HkProxies : hkVersion'[o] >= hkVersion[o]
    BY <1>4 DEF HkInv, HkTypes
  <2>4. \A o \in HkReqs \ {} : Fresh(hkReq[o])'
    BY <1>4, <1>8, <2>2, <2>3, FreshKept DEF HkTypes
  <2> QED BY <2>4 DEF HkFresh
<1>12. StaleOnlyByGap'
  BY <1>4, <1>5, <1>6, <1>7, StaleKept
<1> QED BY <1>8, <1>9, <1>10, <1>11, <1>12 DEF HkInv

LEMMA FillVersionsKeepsHk ==
    ASSUME HkInv, NEW p \in HkProxies, FillVersions(p)
    PROVE  HkInv'
<1>1. /\ Bump(p)
      /\ hkSlot' = [hkSlot EXCEPT ![p] = "filling"]
      /\ hkSlotVersion' = [hkSlotVersion EXCEPT ![p] = @ + 1]
      /\ UNCHANGED <<hkData, hkReq, hkEntries, hkLru, hkQueue, hkPending, hkCalls, hkSeen, hkGap>>
  BY DEF FillVersions, hkCacheVars
<1>2. /\ hkVersion' \in [HkProxies -> Nat]
      /\ \A o \in HkProxies : hkVersion'[o] >= hkVersion[o]
      /\ \A o \in HkProxies : hkVersion'[o] = hkVersion[o] => o # p
  BY <1>1, BumpIs
<1>3. /\ hkSlot' \in [HkProxies -> {"stable", "migrating", "held", "filling"}]
      /\ hkSlotVersion' \in [HkProxies -> Nat \ {0}]
      /\ \A o \in HkProxies : o # p => hkSlot'[o] = hkSlot[o] /\ hkSlotVersion'[o] = hkSlotVersion[o]
      /\ hkSlot'[p] = "filling"
  BY <1>1 DEF HkInv, HkTypes
<1>4. HkTypes'
  BY <1>1, <1>2, <1>3 DEF HkInv, HkTypes
<1>5. HkLists' /\ HkPast'
  BY <1>1 DEF HkInv, HkLists, ListOk, HkPast
<1>6. HkFresh'
  <2>1. \A o \in HkProxies, l \in HkKeys, v \in Nat : Told(o, l, v)' => Told(o, l, v)
    BY <1>1 DEF Told
  <2>2. \A o \in HkReqs \ {} : Fresh(hkReq[o])'
    BY <1>1, <1>2, <1>3, <1>4, <2>1, FreshKept DEF HkTypes
  <2> QED BY <2>2 DEF HkFresh
<1>7. StaleOnlyByGap'
  BY <1>1, <1>3, StaleKept
<1> QED BY <1>4, <1>5, <1>6, <1>7 DEF HkInv

LEMMA FillRemoveKeepsHk ==
    ASSUME HkInv, NEW p \in HkProxies, NEW s \in {"stable", "migrating", "held"}, FillRemove(p, s)
    PROVE  HkInv'
<1>1. /\ HkKeys \in SUBSET HkKeys /\ Remove(p, HkKeys)
      /\ hkSlot[p] = "filling" /\ hkSlot' = [hkSlot EXCEPT ![p] = s]
      /\ hkGap' = [hkGap EXCEPT ![p] = {}]
      /\ UNCHANGED <<hkData, hkReq, hkVersion, hkSlotVersion, hkQueue, hkPending, hkCalls, hkSeen>>
  BY DEF FillRemove
<1>2. /\ hkEntries' \in [HkProxies -> [HkKeys -> [val: Nat, sv: Nat]]]
      /\ hkLru' \in [HkProxies -> Seq(HkKeys)]
      /\ \A o \in HkProxies, l \in HkKeys : hkEntries'[o][l] = IF o = p THEN None0 ELSE hkEntries[o][l]
      /\ \A o \in HkProxies : ListOk(o)'
  BY <1>1, RemoveIs
<1>3. /\ hkSlot' \in [HkProxies -> {"stable", "migrating", "held", "filling"}]
      /\ hkGap' \in [HkProxies -> SUBSET HkKeys]
      /\ \A o \in HkProxies : o # p => hkSlot'[o] = hkSlot[o] /\ hkGap'[o] = hkGap[o]
  BY <1>1 DEF HkInv, HkTypes
<1>4. HkTypes'
  BY <1>1, <1>2, <1>3 DEF HkInv, HkTypes
<1>5. HkLists' /\ HkPast'
  BY <1>1, <1>2 DEF HkInv, HkLists, HkPast
<1>6. HkFresh'
  <2>1. SUFFICES ASSUME NEW q \in HkReqs
                 PROVE  Fresh(hkReq[q])'
    BY DEF HkFresh
  <2>2. Fresh(hkReq[q]) /\ hkReq[q].proxy \in HkProxies
    <3>1. hkReq[q] \in HkReqSet /\ Fresh(hkReq[q])
      BY DEF HkInv, HkTypes, HkFresh
    <3> QED BY <3>1 DEF HkReqSet
  <2>3. CASE hkReq[q].proxy = p
    BY <1>1, <2>2, <2>3 DEF Fresh
  <2>4. CASE hkReq[q].proxy # p
    BY <1>1, <1>3, <2>2, <2>4 DEF Fresh, Told
  <2> QED BY <2>3, <2>4
<1>7. StaleOnlyByGap'
  BY <1>1, <1>2, <1>3, StaleKept
<1> QED BY <1>4, <1>5, <1>6, <1>7 DEF HkInv

-----------------------------------------------------------------------------
LEMMA HkStepKeepsInv ==
    ASSUME HkInv, [HkNext]_hkVars
    PROVE  HkInv'
<1>1. CASE UNCHANGED hkVars
  <2>1. UNCHANGED <<hkData, hkReq, hkEntries, hkLru, hkVersion, hkSlotVersion, hkSlot, hkQueue, hkPending,
                    hkCalls, hkSeen, hkGap>>
    BY <1>1 DEF hkVars, hkCacheVars
  <2>2. HkTypes' /\ HkLists' /\ HkPast'
    BY <2>1 DEF HkInv, HkTypes, HkLists, ListOk, HkPast
  <2>3. HkFresh'
    BY <2>1 DEF HkInv, HkFresh, Fresh, Told
  <2>4. StaleOnlyByGap'
    BY <2>1, StaleKept
  <2> QED BY <2>2, <2>3, <2>4 DEF HkInv
<1>2. CASE HkNext
  BY <1>2, GetKeepsHk, HitKeepsHk, UpdateKeepsHk, RunKeepsHk, CheckKeepsHk, StoreKeepsHk,
     InvalidateBumpKeepsHk, InvalidateRemoveKeepsHk, MergeKeepsHk, FlushKeepsHk, FillVersionsKeepsHk,
     FillRemoveKeepsHk, ExpireKeepsInv, RemoteBumpKeepsHk, RemoteRemoveKeepsHk, LoseCallKeepsHk DEF HkNext
<1> QED BY <1>1, <1>2

LEMMA HkInvSound ==
    ASSUME HkInv
    PROVE  CacheIsSound
<1>1. HkTypes /\ HkLists /\ StaleOnlyByGap
  BY DEF HkInv
<1>2. \A q \in HkReqs : hkReq[q].stage \in HkStages
  BY <1>1 DEF HkTypes, HkReqSet
<1>3. \A p \in HkProxies : DOMAIN hkLru[p] = 1 .. Len(hkLru[p])
  BY <1>1, LenProperties DEF HkTypes
<1>4. HkTypeOK
  BY <1>1, <1>2, <1>3 DEF HkTypeOK, HkTypes, HkLists, ListOk, HkStages, Elements, Distinct
<1> QED BY <1>1, <1>4 DEF CacheIsSound

(* What a proxy has cached is no older than the last write it has          *)
(* invalidated the key for, and than the last fill of its slot, but for    *)
(* the window between the comparison of the versions and the store; the    *)
(* cache and the queue of broadcasts stay within their limits, and the     *)
(* list of the cache is that of its entries (hot_key_cache.go:353-366).    *)
THEOREM CacheTheorem == HkSpec => []CacheIsSound
<1>1. HkInit => HkInv
  BY HkInitInv
<1>2. HkInv /\ [HkNext]_hkVars => HkInv'
  BY HkStepKeepsInv
<1>3. HkInv => CacheIsSound
  BY HkInvSound
<1> QED BY <1>1, <1>2, <1>3, PTL DEF HkSpec
=============================================================================
