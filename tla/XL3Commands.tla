---------------------------- MODULE XL3Commands ----------------------------
(***************************************************************************)
(* Commands and answers on the link to one XL3.                            *)
(*                                                                         *)
(* A command thread sends numbered request packets (XL3Model::SendCommand) *)
(* and takes answers from two queues, fRecvQueue for packets and           *)
(* fRecvCmdQueue for the acknowledgements of queued reads and writes.  The *)
(* event loop fills both (XL3Link::ProcessPacket).  The XL3 answers in its *)
(* own time: an answer may come after the command that asked for it has    *)
(* timed out, and is then found by a later command.  Packet numbers wrap.  *)
(*                                                                         *)
(* One thread at a time uses a link, and only while it is connected: that  *)
(* is MutualExclusion and BoardsStayConnected of Connections.              *)
(***************************************************************************)
EXTENDS Integers, Sequences, SequencesExt

CONSTANTS
  NumMod,       \* packet numbers are taken modulo NumMod (65536)
  Window,       \* how far back a number counts as "too high" (5000)
  MaxTries,     \* the packets SendCommand looks at before it gives up (100)
  NumReads,     \* the reads one queueing command asks for
  MaxCommands   \* bound on the commands of a behaviour

ASSUME XL3CommandsAssumption ==
  /\ NumMod \in Nat \ {0, 1} /\ Window \in 0..NumMod
  /\ MaxTries \in Nat \ {0} /\ NumReads \in Nat \ {0} /\ MaxCommands \in Nat \ {0}

VARIABLES
  fCommandNum,    \* XL3Model::fCommandNum
  toBoard,        \* requests on their way to the XL3
  boardWork,      \* reads and writes the XL3 has queued and not yet done
  fromBoard,      \* packets on their way back
  fRecvQueue,     \* XL3Link::fRecvQueue
  fRecvCmdQueue,  \* XL3Link::fRecvCmdQueue
  pc,             \* where the command thread is
  request,        \* the request it is working on
  tries,          \* numPackets of SendCommand, or cmdNum of GetMultiFCResults
  blocked,        \* it has found its queue empty and waits on fRecvQueueCond
  outcome,        \* how its last command ended
  received,       \* the identities of the answers its last command took
  sent            \* the number of commands so far; it gives requests identities

client == <<pc, request, tries, blocked, outcome, received>>
wire == <<toBoard, boardWork, fromBoard>>
queues == <<fRecvQueue, fRecvCmdQueue>>
vars == <<fCommandNum, wire, queues, client, sent>>

(***************************************************************************)
(* The kinds of command, by what SendCommand and its caller wait for:      *)
(*   fast   the answer, a packet of the same type and number               *)
(*   queue  the answer and then NumReads acknowledgements; the caller      *)
(*          passes GetMultiFCResults the number of the last command        *)
(*          (XL3QueueRW, ReadOutBundles)                                   *)
(*   read   the same, but the caller passes the number in the answer       *)
(*          (CrateCBal)                                                    *)
(*   quiet  nothing: withResponse is 0 (the crate settings of CrateInit)   *)
(***************************************************************************)
Kinds == {"fast", "queue", "read", "quiet"}

Identities == 1..MaxCommands

Request == [type : Kinds, num : 0..(NumMod - 1), id : Identities]

\* An acknowledgement: number and identity of the request, and which read it was.
Ack == [num : 0..(NumMod - 1), cmdNum : 0..(NumReads - 1), id : Identities]

\* A packet from the XL3 is an answer or carries acknowledgements.
Packet == [type : Kinds \cup {"acks"}, num : 0..(NumMod - 1),
           id : Identities, acks : Seq(Ack)]

NoRequest == [type |-> "fast", num |-> 0, id |-> 1]

Outcomes == {"none", "ok", "timed out", "too many", "too high", "wrong command"}

TypeOK ==
  /\ fCommandNum \in 0..(NumMod - 1)
  /\ toBoard \in Seq(Request) /\ boardWork \in Seq(Ack) /\ fromBoard \in Seq(Packet)
  /\ fRecvQueue \in Seq(Packet) /\ fRecvCmdQueue \in Seq(Ack)
  /\ pc \in {"idle", "answer", "acks"}
  /\ request \in Request
  /\ tries \in 0..(MaxTries + NumReads)
  /\ blocked \in BOOLEAN
  /\ outcome \in Outcomes
  /\ received \in Seq(Identities)
  /\ sent \in 0..MaxCommands

\* The session may have sent any number of commands before, all of them answered.
Init ==
  /\ fCommandNum \in 0..(NumMod - 1)
  /\ toBoard = <<>> /\ boardWork = <<>> /\ fromBoard = <<>>
  /\ fRecvQueue = <<>> /\ fRecvCmdQueue = <<>>
  /\ pc = "idle" /\ request = NoRequest /\ tries = 0 /\ blocked = FALSE
  /\ outcome = "none" /\ received = <<>> /\ sent = 0

-----------------------------------------------------------------------------
\* The command ends: it returns, or an exception leaves it.
End(result) ==
  /\ pc' = "idle"
  /\ outcome' = result
  /\ blocked' = FALSE

\* Slip: the number is not advanced, or is advanced and not reduced.  (As in the
\* other modules a slip is a plausible mistake, which no specification uses.)
Unadvanced == fCommandNum
Unreduced == fCommandNum + 1

\* fCommandNum++; fCommandNum %= 65536.
NextCommandNum == (fCommandNum + 1) % NumMod

\* SendCommand up to the loop, and SendPacket.
Send(kind) ==
  /\ pc = "idle"
  /\ sent < MaxCommands
  /\ sent' = sent + 1
  /\ request' = [type |-> kind, num |-> fCommandNum, id |-> sent + 1]
  /\ fCommandNum' = NextCommandNum
  /\ toBoard' = Append(toBoard, request')
  /\ tries' = 0
  /\ received' = <<>>
  /\ blocked' = FALSE
  /\ IF kind = "quiet" THEN pc' = "idle" /\ outcome' = "ok"
                       ELSE pc' = "answer" /\ outcome' = "none"
  /\ UNCHANGED <<boardWork, fromBoard, queues>>

\* Slip: the distance is taken without a look at which number is greater.
TooHighEitherWay(num) == num # request.num /\ (NumMod - num) + request.num < Window + NumMod

\* A number is taken for too high when it is greater than the one expected and a
\* short way behind it, round the wrap.
TooHigh(num) == num > request.num /\ (NumMod - num) + request.num < Window

\* Slip: only the type is compared.
IsOfType(p) == p.type = request.type

\* The loop of SendCommand ends.
IsAnswer(p) == p.type = request.type /\ p.num = request.num

\* One turn of the loop of SendCommand whose GetNextPacket finds a packet.
TakePacket ==
  /\ pc = "answer"
  /\ fRecvQueue # <<>>
  /\ fRecvQueue' = Tail(fRecvQueue)
  /\ LET p == Head(fRecvQueue) IN
       IF tries + 1 > MaxTries
         THEN End("too many") /\ UNCHANGED <<tries, received>>
       ELSE IF TooHigh(p.num)
         THEN End("too high") /\ UNCHANGED tries /\ received' = <<p.id>>
       ELSE IF ~IsAnswer(p)
         THEN /\ tries' = tries + 1
              /\ blocked' = FALSE
              /\ UNCHANGED <<pc, outcome, received>>
       ELSE IF request.type \in {"queue", "read"}
         THEN \* the caller goes on to GetMultiFCResults
              /\ pc' = "acks" /\ tries' = 0 /\ blocked' = FALSE
              /\ UNCHANGED <<outcome, received>>
       ELSE End("ok") /\ UNCHANGED tries /\ received' = <<p.id>>
  /\ UNCHANGED <<fCommandNum, wire, fRecvCmdQueue, request, sent>>

\* Slip: GetLastCommandNum gives the number to come.
NumberToCome == IF request.type = "queue" THEN fCommandNum ELSE request.num

\* The packetNum argument of GetMultiFCResults, after packetNum %= 65536, which
\* leaves a negative number as it is.
ExpectedNum == IF request.type = "queue" THEN fCommandNum - 1 ELSE request.num

\* One turn of the loop of GetMultiFCResults whose GetNextCmdAck finds an
\* acknowledgement.  The flag started is never set, so those of other packets are
\* always skipped.
TakeAck ==
  /\ pc = "acks"
  /\ fRecvCmdQueue # <<>>
  /\ fRecvCmdQueue' = Tail(fRecvCmdQueue)
  /\ LET a == Head(fRecvCmdQueue) IN
       IF a.num # ExpectedNum
         THEN blocked' = FALSE /\ UNCHANGED <<pc, outcome, tries, received>>
       ELSE IF a.cmdNum # tries
         THEN End("wrong command") /\ UNCHANGED <<tries, received>>
       ELSE /\ tries' = tries + 1
            /\ received' = Append(received, a.id)
            /\ IF tries' = NumReads THEN End("ok")
                                    ELSE blocked' = FALSE /\ UNCHANGED <<pc, outcome>>
  /\ UNCHANGED <<fCommandNum, wire, fRecvQueue, request, sent>>

\* GetNextPacket or GetNextCmdAck finds its queue empty and waits.
Block ==
  /\ ~blocked
  /\ \/ pc = "answer" /\ fRecvQueue = <<>>
     \/ pc = "acks" /\ fRecvCmdQueue = <<>>
  /\ blocked' = TRUE
  /\ UNCHANGED <<fCommandNum, wire, queues, pc, request, tries, outcome, received, sent>>

\* Slip: the wait starts again.
WaitAgain ==
  /\ blocked
  /\ blocked' = FALSE
  /\ UNCHANGED <<fCommandNum, wire, queues, pc, request, tries, outcome, received, sent>>

\* The wait times out.  The queue is not looked at again, although a packet may
\* have been put in it since.
TimeOut ==
  /\ blocked
  /\ End("timed out")
  /\ UNCHANGED <<fCommandNum, wire, queues, request, tries, received, sent>>

-----------------------------------------------------------------------------
\* The XL3 takes a request.  It answers with the same type and number, and queues
\* the reads it is asked for; whether it answers crate settings makes no difference.
BoardAnswers ==
  /\ toBoard # <<>>
  /\ toBoard' = Tail(toBoard)
  /\ LET r == Head(toBoard)
         acks == [i \in 1..NumReads |-> [num |-> r.num, cmdNum |-> i - 1, id |-> r.id]]
     IN /\ \/ fromBoard' = Append(fromBoard, [type |-> r.type, num |-> r.num,
                                              id |-> r.id, acks |-> <<>>])
           \/ r.type = "quiet" /\ UNCHANGED fromBoard
        /\ boardWork' = IF r.type \in {"queue", "read"} THEN boardWork \o acks
                                                        ELSE boardWork
  /\ UNCHANGED <<fCommandNum, queues, client, sent>>

\* The XL3 has done some of the queued work and acknowledges it in one packet.
BoardAcknowledges ==
  /\ \E n \in 1..Len(boardWork) :
       /\ fromBoard' = Append(fromBoard, [type |-> "acks", num |-> 0, id |-> boardWork[n].id,
                                          acks |-> SubSeq(boardWork, 1, n)])
       /\ boardWork' = SubSeq(boardWork, n + 1, Len(boardWork))
  /\ UNCHANGED <<fCommandNum, toBoard, queues, client, sent>>

\* The event loop receives a packet: ProcessPacket.
ProcessPacket ==
  /\ fromBoard # <<>>
  /\ fromBoard' = Tail(fromBoard)
  /\ LET p == Head(fromBoard) IN
       IF p.type = "acks"
         THEN fRecvCmdQueue' = fRecvCmdQueue \o p.acks /\ UNCHANGED fRecvQueue
         ELSE fRecvQueue' = Append(fRecvQueue, p) /\ UNCHANGED fRecvCmdQueue
  /\ UNCHANGED <<fCommandNum, toBoard, boardWork, client, sent>>

\* The XL3 drops the connection, or restarts, and connects again.  What was on the
\* wire is lost; the queues keep what they had (GenericLink::AcceptCallback).
Reconnect ==
  /\ toBoard' = <<>> /\ fromBoard' = <<>> /\ boardWork' = <<>>
  /\ UNCHANGED <<fCommandNum, queues, client, sent>>

ClientStep == TakePacket \/ TakeAck \/ Block \/ TimeOut

Next ==
  \/ \E kind \in Kinds : Send(kind)
  \/ ClientStep
  \/ BoardAnswers \/ BoardAcknowledges \/ ProcessPacket \/ Reconnect

Spec == Init /\ [][Next]_vars

\* The command thread is scheduled and its timed waits end.  Nothing is asked of
\* the XL3 or of the network.
FairSpec == Spec /\ WF_vars(ClientStep)

-----------------------------------------------------------------------------
\* A command that returns has taken its own answers and no others: its packet, or
\* each of its acknowledgements in order (XL3Model.cpp:69-80 and 100-117).
AnswersAreOwn ==
  outcome = "ok" /\ request.type # "quiet" =>
    received = [i \in 1..(IF request.type = "fast" THEN 1 ELSE NumReads) |-> request.id]

\* The answers not yet taken.
PacketsDue ==
  {p \in Range(fRecvQueue) \cup Range(fromBoard) : p.type # "acks"}

\* A command that returns leaves no late answer of an earlier command behind it, so
\* the link is in step again whatever timed out before.
BackInStep ==
  outcome = "ok" /\ request.type # "quiet" =>
    /\ \A p \in PacketsDue : p.id > request.id
    /\ \A r \in Range(toBoard) : r.id > request.id

\* No command waits for ever, even for an XL3 that never answers.
EveryCommandEnds == pc # "idle" ~> pc = "idle"

\* SendCommand gives up with "Packet Num too high" over a late answer to an earlier
\* command only when the number has wrapped since that command; over the others it
\* tries again, as the comment in SendCommand says it does over all of them.
LateAnswersAreSkipped ==
  outcome = "too high" =>
    \A i \in 1..Len(received) :
      received[i] < request.id => request.num < request.id - received[i]

\* GetMultiFCResults throws away no acknowledgement of its own command, unless it was
\* passed GetLastCommandNum and the number has wrapped at that command.
OwnAcksAreKept ==
  [][TakeAck /\ Head(fRecvCmdQueue).id = request.id
       => \/ received' = Append(received, request.id)
          \/ request.type = "queue" /\ request.num = NumMod - 1]_vars
=============================================================================
