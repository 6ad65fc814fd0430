------------------------- MODULE XL3CommandsProofs -------------------------
(***************************************************************************)
(* Proofs about XL3Commands: any modulus of the packet numbers, any window *)
(* and number of tries, any number of reads and commands.                  *)
(***************************************************************************)
EXTENDS XL3Commands, SequenceTheorems, TLAPS

-----------------------------------------------------------------------------
(***************************************************************************)
(* What is in a queue.                                                     *)
(***************************************************************************)
LEMMA RangeOfAppend ==
  ASSUME NEW S, NEW s \in Seq(S), NEW e \in S
  PROVE  /\ Append(s, e) \in Seq(S)
         /\ Range(Append(s, e)) = Range(s) \cup {e}
<1>1. /\ Append(s, e) \in Seq(S) /\ Len(Append(s, e)) = Len(s) + 1
      /\ \A i \in 1..Len(s) : Append(s, e)[i] = s[i]
      /\ Append(s, e)[Len(s) + 1] = e
  OBVIOUS
<1>2. \A i \in 1..Len(Append(s, e)) : i \in 1..Len(s) \/ i = Len(s) + 1
  BY <1>1
<1>3. Range(Append(s, e)) \subseteq Range(s) \cup {e}
  BY <1>1, <1>2 DEF Range
<1>4. Range(s) \subseteq Range(Append(s, e))
  BY <1>1 DEF Range
<1>5. e \in Range(Append(s, e))
  BY <1>1 DEF Range
<1> QED
  BY <1>1, <1>3, <1>4, <1>5

LEMMA RangeOfConcat ==
  ASSUME NEW S, NEW s \in Seq(S), NEW t \in Seq(S)
  PROVE  /\ s \o t \in Seq(S)
         /\ Range(s \o t) = Range(s) \cup Range(t)
<1>1. s \o t \in Seq(S) /\ Len(s \o t) = Len(s) + Len(t)
  BY ConcatProperties
<1>2. \A i \in 1..Len(s) : (s \o t)[i] = s[i]
  OBVIOUS
<1>3. \A i \in 1..Len(t) : (s \o t)[Len(s) + i] = t[i]
  OBVIOUS
<1>4. \A i \in 1..Len(s \o t) : i \in 1..Len(s) \/ i - Len(s) \in 1..Len(t)
  BY <1>1
<1>5. Range(s \o t) \subseteq Range(s) \cup Range(t)
  <2> SUFFICES ASSUME NEW i \in 1..Len(s \o t)
               PROVE  (s \o t)[i] \in Range(s) \cup Range(t)
    BY <1>1 DEF Range
  <2>1. CASE i \in 1..Len(s)
    BY <2>1, <1>2 DEF Range
  <2>2. CASE i - Len(s) \in 1..Len(t)
    <3>1. (s \o t)[i] = t[i - Len(s)]
      BY <2>2, <1>3
    <3> QED
      BY <2>2, <3>1 DEF Range
  <2> QED
    BY <1>4, <2>1, <2>2
<1>6. Range(s) \subseteq Range(s \o t)
  BY <1>1, <1>2 DEF Range
<1>7. Range(t) \subseteq Range(s \o t)
  <2> SUFFICES ASSUME NEW i \in 1..Len(t) PROVE t[i] \in Range(s \o t)
    BY DEF Range
  <2>1. Len(s) + i \in 1..Len(s \o t)
    BY <1>1
  <2> QED
    BY <1>1, <1>3, <2>1 DEF Range
<1> QED
  BY <1>1, <1>5, <1>6, <1>7

LEMMA RangeOfTail ==
  ASSUME NEW S, NEW s \in Seq(S), s # <<>>
  PROVE  /\ Tail(s) \in Seq(S) /\ Head(s) \in S /\ Head(s) \in Range(s)
         /\ Range(s) = {Head(s)} \cup Range(Tail(s))
         /\ Len(Tail(s)) = Len(s) - 1
         /\ \A i \in 1..Len(Tail(s)) : Tail(s)[i] = s[i + 1]
<1>1. Tail(s) \in Seq(S) /\ Head(s) \in S /\ Len(s) >= 1 /\ Head(s) = s[1]
      /\ Len(Tail(s)) = Len(s) - 1
  OBVIOUS
<1>2. \A i \in 1..Len(Tail(s)) : Tail(s)[i] = s[i + 1]
  BY <1>1
<1>3. Range(Tail(s)) \subseteq Range(s)
  <2> SUFFICES ASSUME NEW i \in 1..Len(Tail(s)) PROVE Tail(s)[i] \in Range(s)
    BY <1>1 DEF Range
  <2>1. i + 1 \in 1..Len(s)
    BY <1>1
  <2> QED
    BY <1>2, <2>1 DEF Range
<1>4. \A i \in 1..Len(s) : i = 1 \/ s[i] \in Range(Tail(s))
  <2> SUFFICES ASSUME NEW i \in 1..Len(s), i # 1 PROVE s[i] \in Range(Tail(s))
    OBVIOUS
  <2>1. PICK j \in 1..Len(Tail(s)) : j + 1 = i
    <3>1. i - 1 \in 1..Len(Tail(s)) /\ (i - 1) + 1 = i
      BY <1>1
    <3> QED
      BY <3>1
  <2>2. Tail(s)[j] = s[i]
    BY <1>2, <2>1
  <2>3. DOMAIN Tail(s) = 1..Len(Tail(s))
    BY <1>1, LenProperties
  <2> QED
    BY <2>2, <2>3, Zenon DEF Range
<1>5. Head(s) \in Range(s)
  BY <1>1 DEF Range
<1>6. Range(s) \subseteq {Head(s)} \cup Range(Tail(s))
  BY <1>1, <1>4 DEF Range
<1> QED
  BY <1>1, <1>2, <1>3, <1>5, <1>6

\* A queue cut after n elements.
LEMMA Cut ==
  ASSUME NEW S, NEW s \in Seq(S), NEW n \in 1..Len(s)
  PROVE  LET first == SubSeq(s, 1, n)
             rest == SubSeq(s, n + 1, Len(s))
         IN  /\ first \in Seq(S) /\ rest \in Seq(S)
             /\ Len(first) = n /\ Len(rest) = Len(s) - n
             /\ \A i \in 1..n : first[i] = s[i]
             /\ \A i \in 1..(Len(s) - n) : rest[i] = s[n + i]
             /\ Range(s) = Range(first) \cup Range(rest)
<1> DEFINE first == SubSeq(s, 1, n)
           rest == SubSeq(s, n + 1, Len(s))
<1>1. first \in Seq(S) /\ Len(first) = n /\ \A i \in 1..n : first[i] = s[i]
  BY SubSeqProperties
<1>2. rest \in Seq(S) /\ Len(rest) = Len(s) - n
      /\ \A i \in 1..(Len(s) - n) : rest[i] = s[n + i]
  <2>1. CASE n = Len(s)
    BY <2>1, SubSeqProperties
  <2>2. CASE n < Len(s)
    BY <2>2, SubSeqProperties
  <2> QED
    BY <2>1, <2>2
<1> HIDE DEF first, rest
<1>3. Range(first) \subseteq Range(s)
  BY <1>1 DEF Range
<1>4. Range(rest) \subseteq Range(s)
  <2> SUFFICES ASSUME NEW i \in 1..Len(rest) PROVE rest[i] \in Range(s)
    BY <1>2 DEF Range
  <2>1. n + i \in 1..Len(s) /\ rest[i] = s[n + i]
    BY <1>2
  <2> QED
    BY <2>1 DEF Range
<1>5. Range(s) \subseteq Range(first) \cup Range(rest)
  <2> SUFFICES ASSUME NEW i \in 1..Len(s) PROVE s[i] \in Range(first) \cup Range(rest)
    BY DEF Range
  <2>1. CASE i <= n
    BY <2>1, <1>1 DEF Range
  <2>2. CASE i > n
    <3>1. i - n \in 1..Len(rest) /\ n + (i - n) = i
      BY <2>2, <1>2
    <3>2. rest[i - n] = s[i]
      BY <1>2, <3>1
    <3> QED
      BY <1>2, <3>1, <3>2 DEF Range
  <2> QED
    BY <2>1, <2>2
<1> QED
  BY <1>1, <1>2, <1>3, <1>4, <1>5 DEF first, rest

LEMMA InRange ==
  ASSUME NEW S, NEW s \in Seq(S), NEW x \in Range(s)
  PROVE  x \in S /\ \E i \in 1..Len(s) : s[i] = x
  BY DEF Range

-----------------------------------------------------------------------------
(***************************************************************************)
(* Type correctness.                                                       *)
(***************************************************************************)
LEMMA NextNumType ==
  ASSUME fCommandNum \in 0..(NumMod - 1)
  PROVE  /\ NextCommandNum \in 0..(NumMod - 1)
         /\ NextCommandNum = IF fCommandNum = NumMod - 1 THEN 0 ELSE fCommandNum + 1
<1> USE XL3CommandsAssumption
<1>1. CASE fCommandNum = NumMod - 1
  <2>1. NumMod % NumMod = 0
    OBVIOUS
  <2> QED
    BY <1>1, <2>1 DEF NextCommandNum
<1>2. CASE fCommandNum # NumMod - 1
  <2>1. fCommandNum + 1 \in 0..(NumMod - 1)
    BY <1>2
  <2>2. (fCommandNum + 1) % NumMod = fCommandNum + 1
    BY <2>1
  <2> QED
    BY <1>2, <2>1, <2>2 DEF NextCommandNum
<1> QED
  BY <1>1, <1>2

LEMMA TypeInit == Init => TypeOK
<1> SUFFICES ASSUME Init PROVE TypeOK
  OBVIOUS
<1>1. NoRequest \in Request
  BY XL3CommandsAssumption DEF NoRequest, Request, Kinds, Identities
<1>2. \A S : <<>> \in Seq(S)
  OBVIOUS
<1>3. blocked \in BOOLEAN /\ outcome \in Outcomes /\ pc \in {"idle", "answer", "acks"}
  BY DEF Init, Outcomes
<1> QED
  BY <1>1, <1>2, <1>3, XL3CommandsAssumption DEF Init, TypeOK

\* What BoardAnswers queues for a request and sends back.
AcksOf(r) ==
  [i \in 1..NumReads |-> [num |-> r.num, cmdNum |-> i - 1, id |-> r.id]]
AnswerTo(r) == [type |-> r.type, num |-> r.num, id |-> r.id, acks |-> <<>>]
AcksPacket(n) == [type |-> "acks", num |-> 0, id |-> boardWork[n].id,
                  acks |-> SubSeq(boardWork, 1, n)]

LEMMA ConcatType == \A S : \A s, t \in Seq(S) : s \o t \in Seq(S)
  OBVIOUS

LEMMA AcksOfType ==
  ASSUME NEW r \in Request
  PROVE  /\ AcksOf(r) \in Seq(Ack) /\ Len(AcksOf(r)) = NumReads
         /\ \A i \in 1..NumReads :
              AcksOf(r)[i] = [num |-> r.num, cmdNum |-> i - 1, id |-> r.id]
         /\ AnswerTo(r) \in Packet
<1> USE XL3CommandsAssumption
<1>1. \A i \in 1..NumReads : [num |-> r.num, cmdNum |-> i - 1, id |-> r.id] \in Ack
  BY DEF Request, Ack
<1>2. AcksOf(r) \in [1..NumReads -> Ack]
  BY <1>1 DEF AcksOf
<1>3. AcksOf(r) \in Seq(Ack) /\ Len(AcksOf(r)) = NumReads
  BY <1>2
<1>4. <<>> \in Seq(Ack)
  OBVIOUS
<1>5. AnswerTo(r) \in Packet
  BY <1>4 DEF AnswerTo, Packet, Request
<1> QED
  BY <1>3, <1>5 DEF AcksOf

LEMMA AcksPacketType ==
  ASSUME TypeOK, NEW n \in 1..Len(boardWork)
  PROVE  AcksPacket(n) \in Packet
<1> USE XL3CommandsAssumption
<1>1. boardWork \in Seq(Ack) /\ boardWork[n] \in Ack
  BY ElementOfSeq DEF TypeOK
<1>2. SubSeq(boardWork, 1, n) \in Seq(Ack)
  BY <1>1, Cut
<1>3. 0 \in 0..(NumMod - 1) /\ boardWork[n].id \in Identities
  BY <1>1 DEF Ack
<1> QED
  BY <1>2, <1>3 DEF AcksPacket, Packet

LEMMA BoardAnswersType ==
  ASSUME TypeOK, BoardAnswers
  PROVE  /\ toBoard' \in Seq(Request) /\ boardWork' \in Seq(Ack) /\ fromBoard' \in Seq(Packet)
<1> DEFINE r == Head(toBoard)
<1>1. r \in Request /\ toBoard' \in Seq(Request)
  BY RangeOfTail DEF TypeOK, BoardAnswers
<1>2. \/ fromBoard' = Append(fromBoard, AnswerTo(r))
      \/ fromBoard' = fromBoard
  BY DEF BoardAnswers, AnswerTo
<1>3. boardWork' = boardWork \/ boardWork' = boardWork \o AcksOf(r)
  BY DEF BoardAnswers, AcksOf
<1> HIDE DEF r
<1>4. fromBoard \in Seq(Packet) /\ boardWork \in Seq(Ack)
  BY DEF TypeOK
<1>5. AnswerTo(r) \in Packet /\ AcksOf(r) \in Seq(Ack)
  BY <1>1, AcksOfType
<1>6. fromBoard' \in Seq(Packet)
  BY <1>2, <1>4, <1>5, RangeOfAppend
<1>7. boardWork' \in Seq(Ack)
  BY <1>3, <1>4, <1>5, ConcatType
<1> QED
  BY <1>1, <1>6, <1>7

LEMMA ClientType ==
  ASSUME TypeOK, TakePacket \/ TakeAck \/ Block \/ TimeOut
  PROVE  /\ pc' \in {"idle", "answer", "acks"} /\ tries' \in 0..(MaxTries + NumReads)
         /\ blocked' \in BOOLEAN /\ outcome' \in Outcomes /\ received' \in Seq(Identities)
         /\ fRecvQueue' \in Seq(Packet) /\ fRecvCmdQueue' \in Seq(Ack)
<1> USE XL3CommandsAssumption
<1>1. CASE TakePacket
  <2> DEFINE p == Head(fRecvQueue)
  <2>1. p \in Packet /\ p.id \in Identities /\ fRecvQueue' \in Seq(Packet)
    <3>1. fRecvQueue \in Seq(Packet) /\ fRecvQueue # <<>> /\ fRecvQueue' = Tail(fRecvQueue)
      BY <1>1 DEF TakePacket, TypeOK
    <3>2. p \in Packet /\ fRecvQueue' \in Seq(Packet)
      BY <3>1, RangeOfTail
    <3> QED
      BY <3>2 DEF Packet
  <2>2. <<p.id>> \in Seq(Identities)
    BY <2>1
  <2>3. received' = received \/ received' = <<p.id>>
    BY <1>1 DEF TakePacket
  <2>4. received' \in Seq(Identities)
    BY <2>2, <2>3 DEF TypeOK
  <2>5. tries' = tries \/ tries' = 0 \/ (tries' = tries + 1 /\ tries + 1 <= MaxTries)
    <3>1. tries \in Int /\ MaxTries \in Int
      BY DEF TypeOK
    <3>2. ~(tries + 1 > MaxTries) \/ tries' = tries
      BY <1>1 DEF TakePacket
    <3>3. tries' = tries \/ tries' = 0 \/ tries' = tries + 1
      BY <1>1 DEF TakePacket
    <3> QED
      BY <3>1, <3>2, <3>3
  <2>6. tries' \in 0..(MaxTries + NumReads)
    BY <2>5 DEF TypeOK
  <2>7. pc' \in {"idle", "answer", "acks"} /\ outcome' \in Outcomes /\ blocked' \in BOOLEAN
    BY <1>1 DEF TakePacket, End, TypeOK, Outcomes
  <2> QED
    BY <1>1, <2>1, <2>4, <2>6, <2>7 DEF TakePacket, TypeOK
<1>2. CASE TakeAck
  <2> DEFINE a == Head(fRecvCmdQueue)
  <2>1. a \in Ack /\ a.id \in Identities /\ a.cmdNum \in 0..(NumReads - 1)
        /\ fRecvCmdQueue' \in Seq(Ack)
    <3>1. fRecvCmdQueue \in Seq(Ack) /\ fRecvCmdQueue # <<>>
          /\ fRecvCmdQueue' = Tail(fRecvCmdQueue)
      BY <1>2 DEF TakeAck, TypeOK
    <3>2. a \in Ack /\ fRecvCmdQueue' \in Seq(Ack)
      BY <3>1, RangeOfTail
    <3> QED
      BY <3>2 DEF Ack
  <2>2. received' = received \/ received' = Append(received, a.id)
    BY <1>2 DEF TakeAck
  <2>3. received' \in Seq(Identities)
    <3>1. received \in Seq(Identities)
      BY DEF TypeOK
    <3> QED
      BY <2>1, <2>2, <3>1, RangeOfAppend
  <2>4. tries' = tries \/ (tries' = tries + 1 /\ a.cmdNum = tries)
    <3>1. tries' = tries \/ tries' = tries + 1
      BY <1>2 DEF TakeAck
    <3>2. tries' = tries \/ a.cmdNum = tries
      BY <1>2 DEF TakeAck
    <3> QED
      BY <3>1, <3>2
  <2>5. tries' \in 0..(MaxTries + NumReads)
    BY <2>1, <2>4 DEF TypeOK
  <2>6. pc' \in {"idle", "answer", "acks"} /\ outcome' \in Outcomes /\ blocked' \in BOOLEAN
    BY <1>2 DEF TakeAck, End, TypeOK, Outcomes
  <2> QED
    BY <1>2, <2>1, <2>3, <2>5, <2>6 DEF TakeAck, TypeOK
<1>3. CASE Block
  BY <1>3 DEF Block, TypeOK, queues
<1>4. CASE TimeOut
  BY <1>4 DEF TimeOut, End, TypeOK, queues, Outcomes
<1> QED
  BY <1>1, <1>2, <1>3, <1>4

LEMMA TypeStep ==
  ASSUME TypeOK, [Next]_vars
  PROVE  TypeOK'
<1> USE XL3CommandsAssumption
<1>1. ASSUME NEW kind \in Kinds, Send(kind) PROVE TypeOK'
  <2>1. request' \in Request /\ sent' \in 0..MaxCommands
    BY <1>1 DEF Send, TypeOK, Request, Identities
  <2>2. toBoard' \in Seq(Request)
    BY <1>1, <2>1, RangeOfAppend DEF Send, TypeOK
  <2>3. fCommandNum' \in 0..(NumMod - 1)
    BY <1>1, NextNumType DEF Send, TypeOK
  <2>4. <<>> \in Seq(Identities)
    OBVIOUS
  <2>5. pc' \in {"idle", "answer", "acks"} /\ outcome' \in Outcomes /\ blocked' \in BOOLEAN
    BY <1>1 DEF Send, Outcomes
  <2>6. tries' \in 0..(MaxTries + NumReads) /\ received' \in Seq(Identities)
    BY <1>1, <2>4 DEF Send
  <2> QED
    BY <1>1, <2>1, <2>2, <2>3, <2>5, <2>6 DEF Send, TypeOK, queues
<1>2. CASE ClientStep
  <2>1. UNCHANGED <<fCommandNum, toBoard, boardWork, fromBoard, request, sent>>
    BY <1>2 DEF ClientStep, TakePacket, TakeAck, Block, TimeOut, wire
  <2> QED
    BY <1>2, <2>1, ClientType DEF ClientStep, TypeOK
<1>3. CASE BoardAnswers
  <2>1. UNCHANGED <<fCommandNum, queues, client, sent>>
    BY <1>3 DEF BoardAnswers
  <2> QED
    BY <1>3, <2>1, BoardAnswersType DEF TypeOK, queues, client
<1>4. CASE BoardAcknowledges
  <2>1. PICK n \in 1..Len(boardWork) :
          /\ fromBoard' = Append(fromBoard, AcksPacket(n))
          /\ boardWork' = SubSeq(boardWork, n + 1, Len(boardWork))
    BY <1>4 DEF BoardAcknowledges, AcksPacket
  <2>2. boardWork' \in Seq(Ack)
    BY <2>1, Cut DEF TypeOK
  <2>3. fromBoard' \in Seq(Packet)
    BY <2>1, AcksPacketType, RangeOfAppend DEF TypeOK
  <2> QED
    BY <1>4, <2>2, <2>3 DEF BoardAcknowledges, TypeOK, queues, client
<1>5. CASE ProcessPacket
  <2> DEFINE p == Head(fromBoard)
  <2>1. fromBoard \in Seq(Packet) /\ fromBoard # <<>> /\ fromBoard' = Tail(fromBoard)
        /\ fRecvQueue \in Seq(Packet) /\ fRecvCmdQueue \in Seq(Ack)
    BY <1>5 DEF ProcessPacket, TypeOK
  <2>2. p \in Packet /\ fromBoard' \in Seq(Packet)
    BY <2>1, RangeOfTail
  <2>3. p.acks \in Seq(Ack)
    BY <2>2 DEF Packet
  <2>4. fRecvQueue' \in Seq(Packet)
    <3>1. fRecvQueue' = fRecvQueue \/ fRecvQueue' = Append(fRecvQueue, p)
      BY <1>5 DEF ProcessPacket
    <3> QED
      BY <2>1, <2>2, <3>1, RangeOfAppend
  <2>5. fRecvCmdQueue' \in Seq(Ack)
    <3>1. fRecvCmdQueue' = fRecvCmdQueue \/ fRecvCmdQueue' = fRecvCmdQueue \o p.acks
      BY <1>5 DEF ProcessPacket
    <3> QED
      BY <2>1, <2>3, <3>1, ConcatType
  <2> QED
    BY <1>5, <2>2, <2>4, <2>5 DEF ProcessPacket, TypeOK, client
<1>6. CASE Reconnect
  <2>1. \A S : <<>> \in Seq(S)
    OBVIOUS
  <2> QED
    BY <1>6, <2>1 DEF Reconnect, TypeOK, queues, client
<1>7. CASE UNCHANGED vars
  BY <1>7 DEF vars, wire, queues, client, TypeOK
<1> QED
  BY <1>1, <1>2, <1>3, <1>4, <1>5, <1>6, <1>7 DEF Next

\* The link, its queues and the command keep their types: the number stays below the
\* modulus, the count of packets within its bound, whatever arrives and when
\* (XL3Model::SendCommand, GetMultiFCResults, XL3Link::ProcessPacket).
THEOREM SpecTypeOK == Spec => []TypeOK
  BY TypeInit, TypeStep, PTL DEF Spec

-----------------------------------------------------------------------------
(***************************************************************************)
(* Numbers and identities.  A packet number is known from how long ago the *)
(* request was sent, as long as the numbers have not gone once round.      *)
(***************************************************************************)
AcksDue ==
  Range(fRecvCmdQueue) \cup Range(boardWork)
    \cup UNION {Range(p.acks) : p \in Range(fromBoard)}

\* Only answers are in fRecvQueue, and only packets of acknowledgements carry any.
PacketsSorted ==
  /\ \A p \in Range(fRecvQueue) : p.type # "acks"
  /\ \A p \in Range(fromBoard) : p.type # "acks" => p.acks = <<>>

\* What is under way because of a request: the request, its answer, its acknowledgements.
UnderWay == Range(toBoard) \cup PacketsDue \cup AcksDue

\* The number of the request with identity i, which was sent - i requests ago.
NumberOf(i) ==
  LET n == fCommandNum - (sent + 1 - i) IN IF n >= 0 THEN n ELSE n + NumMod

NumbersKnown ==
  \A x \in UnderWay :
    /\ x.id <= sent
    /\ sent - x.id < NumMod => x.num = NumberOf(x.id)

\* The command thread works on the latest request.
RequestIsLatest ==
  /\ sent > 0 => request.id = sent /\ request.num = NumberOf(sent)
  /\ pc # "idle" \/ outcome \in {"ok", "too high"} => sent > 0
  /\ pc # "idle" => outcome = "none"
  /\ pc = "acks" => request.type \in {"queue", "read"}

NumInv == TypeOK /\ PacketsSorted /\ NumbersKnown /\ RequestIsLatest /\ LateAnswersAreSkipped

\* Nothing under way is from a request that NumMod or more requests have followed.
NoneARoundBehind == \A x \in PacketsDue \cup AcksDue : sent - x.id < NumMod

-----------------------------------------------------------------------------
(***************************************************************************)
(* What each action does to what is due.                                   *)
(***************************************************************************)
LEMMA InAcksDue ==
  \A x : x \in AcksDue <=>
    \/ x \in Range(fRecvCmdQueue) \/ x \in Range(boardWork)
    \/ \E p \in Range(fromBoard) : x \in Range(p.acks)
  BY DEF AcksDue

LEMMA InAcksDueNext ==
  \A x : x \in AcksDue' <=>
    \/ x \in Range(fRecvCmdQueue') \/ x \in Range(boardWork')
    \/ \E p \in Range(fromBoard') : x \in Range(p.acks)
  BY DEF AcksDue

LEMMA DueType ==
  ASSUME TypeOK
  PROVE  /\ \A x \in AcksDue : x \in Ack
         /\ \A p \in PacketsDue : p \in Packet
         /\ \A r \in Range(toBoard) : r \in Request
         /\ \A x \in UnderWay : x.id \in Identities
<1>1. \A x \in AcksDue : x \in Ack
  <2>1. ASSUME NEW p \in Range(fromBoard) PROVE p.acks \in Seq(Ack)
    <3>1. p \in Packet
      BY InRange DEF TypeOK
    <3> QED
      BY <3>1 DEF Packet
  <2>2. \A p \in Range(fromBoard) : \A x \in Range(p.acks) : x \in Ack
    BY <2>1, InRange
  <2>3. \A x \in Range(fRecvCmdQueue) \cup Range(boardWork) : x \in Ack
    BY InRange DEF TypeOK
  <2> QED
    BY <2>2, <2>3 DEF AcksDue
<1>2. \A p \in PacketsDue : p \in Packet
  BY InRange DEF TypeOK, PacketsDue
<1>3. \A r \in Range(toBoard) : r \in Request
  BY InRange DEF TypeOK
<1>4. \A x \in UnderWay : x.id \in Identities
  BY <1>1, <1>2, <1>3 DEF UnderWay, Ack, Packet, Request
<1> QED
  BY <1>1, <1>2, <1>3, <1>4

LEMMA TakePacketDue ==
  ASSUME TypeOK, PacketsSorted, TakePacket
  PROVE  /\ Head(fRecvQueue) \in PacketsDue
         /\ PacketsDue' \subseteq PacketsDue /\ AcksDue' = AcksDue /\ PacketsSorted'
<1>1. fRecvQueue \in Seq(Packet) /\ fRecvQueue # <<>> /\ fRecvQueue' = Tail(fRecvQueue)
      /\ UNCHANGED <<fromBoard, boardWork, fRecvCmdQueue>>
  BY DEF TypeOK, TakePacket, wire
<1>2. Range(fRecvQueue') \subseteq Range(fRecvQueue) /\ Head(fRecvQueue) \in Range(fRecvQueue)
  BY <1>1, RangeOfTail
<1> QED
  BY <1>1, <1>2 DEF PacketsDue, AcksDue, PacketsSorted

LEMMA TakeAckDue ==
  ASSUME TypeOK, PacketsSorted, TakeAck
  PROVE  /\ Head(fRecvCmdQueue) \in AcksDue
         /\ AcksDue' \subseteq AcksDue /\ AcksDue \subseteq AcksDue' \cup {Head(fRecvCmdQueue)}
         /\ PacketsDue' = PacketsDue /\ PacketsSorted'
<1>1. fRecvCmdQueue \in Seq(Ack) /\ fRecvCmdQueue # <<>>
      /\ fRecvCmdQueue' = Tail(fRecvCmdQueue)
      /\ UNCHANGED <<fromBoard, boardWork, fRecvQueue>>
  BY DEF TypeOK, TakeAck, wire
<1>2. Range(fRecvCmdQueue) = Range(fRecvCmdQueue') \cup {Head(fRecvCmdQueue)}
  BY <1>1, RangeOfTail
<1> QED
  BY <1>1, <1>2 DEF PacketsDue, AcksDue, PacketsSorted

LEMMA BoardAnswersDue ==
  ASSUME TypeOK, PacketsSorted, BoardAnswers
  PROVE  LET r == Head(toBoard)
         IN  /\ r \in Range(toBoard) /\ r \in Request
             /\ Range(toBoard) = {r} \cup Range(toBoard')
             /\ PacketsDue' \subseteq PacketsDue \cup {AnswerTo(r)}
             /\ \/ AcksDue' = AcksDue \cup Range(AcksOf(r))
                \/ AcksDue' = AcksDue
             /\ PacketsSorted'
<1> DEFINE r == Head(toBoard)
<1>1. toBoard \in Seq(Request) /\ toBoard # <<>> /\ toBoard' = Tail(toBoard)
      /\ fromBoard \in Seq(Packet) /\ boardWork \in Seq(Ack)
      /\ UNCHANGED <<fRecvQueue, fRecvCmdQueue>>
  BY DEF TypeOK, BoardAnswers, queues
<1>2. \/ fromBoard' = Append(fromBoard, AnswerTo(r))
      \/ fromBoard' = fromBoard
  BY DEF BoardAnswers, AnswerTo
<1>3. boardWork' = boardWork \/ boardWork' = boardWork \o AcksOf(r)
  BY DEF BoardAnswers, AcksOf
<1>4. r \in Range(toBoard) /\ r \in Request /\ Range(toBoard) = {r} \cup Range(toBoard')
  BY <1>1, RangeOfTail
<1> HIDE DEF r
<1>5. /\ AnswerTo(r) \in Packet /\ AcksOf(r) \in Seq(Ack)
      /\ AnswerTo(r).acks = <<>> /\ AnswerTo(r).type \in Kinds
  BY <1>4, AcksOfType DEF AnswerTo, Request
<1>6. \/ Range(fromBoard') = Range(fromBoard)
      \/ Range(fromBoard') = Range(fromBoard) \cup {AnswerTo(r)}
  <2>1. Range(Append(fromBoard, AnswerTo(r))) = Range(fromBoard) \cup {AnswerTo(r)}
    BY <1>1, <1>5, RangeOfAppend
  <2> QED
    BY <1>2, <2>1
<1>7. \/ Range(boardWork') = Range(boardWork)
      \/ Range(boardWork') = Range(boardWork) \cup Range(AcksOf(r))
  <2>1. Range(boardWork \o AcksOf(r)) = Range(boardWork) \cup Range(AcksOf(r))
    BY <1>1, <1>5, RangeOfConcat
  <2> QED
    BY <1>3, <2>1
<1>8. Range(AnswerTo(r).acks) = {}
  BY <1>5 DEF Range
<1>9. \A x : (\E p \in Range(fromBoard') : x \in Range(p.acks))
              <=> \E p \in Range(fromBoard) : x \in Range(p.acks)
  BY <1>6, <1>8
<1>10. AcksDue' = AcksDue \cup Range(AcksOf(r)) \/ AcksDue' = AcksDue
  BY <1>1, <1>7, <1>9, InAcksDue, InAcksDueNext
<1>11. PacketsDue' \subseteq PacketsDue \cup {AnswerTo(r)}
  BY <1>1, <1>6 DEF PacketsDue
<1>12. PacketsSorted'
  BY <1>1, <1>5, <1>6 DEF PacketsSorted
<1> QED
  BY <1>4, <1>10, <1>11, <1>12 DEF r

LEMMA BoardAcknowledgesDue ==
  ASSUME TypeOK, PacketsSorted, BoardAcknowledges
  PROVE  PacketsDue' = PacketsDue /\ AcksDue' = AcksDue /\ PacketsSorted'
<1>1. PICK n \in 1..Len(boardWork) :
        /\ fromBoard' = Append(fromBoard, AcksPacket(n))
        /\ boardWork' = SubSeq(boardWork, n + 1, Len(boardWork))
  BY DEF BoardAcknowledges, AcksPacket
<1>2. fromBoard \in Seq(Packet) /\ boardWork \in Seq(Ack) /\ UNCHANGED <<fRecvQueue, fRecvCmdQueue>>
  BY DEF TypeOK, BoardAcknowledges, queues
<1>3. /\ AcksPacket(n) \in Packet /\ AcksPacket(n).type = "acks"
      /\ AcksPacket(n).acks = SubSeq(boardWork, 1, n)
  BY AcksPacketType DEF AcksPacket
<1>4. Range(fromBoard') = Range(fromBoard) \cup {AcksPacket(n)}
  BY <1>1, <1>2, <1>3, RangeOfAppend
<1>5. Range(boardWork) = Range(AcksPacket(n).acks) \cup Range(boardWork')
  BY <1>1, <1>2, <1>3, Cut
<1>6. \A x : (\E p \in Range(fromBoard') : x \in Range(p.acks))
              <=> \/ \E p \in Range(fromBoard) : x \in Range(p.acks)
                  \/ x \in Range(AcksPacket(n).acks)
  BY <1>4
<1>7. AcksDue' = AcksDue
  BY <1>2, <1>5, <1>6, InAcksDue, InAcksDueNext
<1>8. PacketsDue' = PacketsDue
  BY <1>2, <1>3, <1>4 DEF PacketsDue
<1>9. PacketsSorted'
  BY <1>2, <1>3, <1>4 DEF PacketsSorted
<1> QED
  BY <1>7, <1>8, <1>9

LEMMA ProcessPacketDue ==
  ASSUME TypeOK, PacketsSorted, ProcessPacket
  PROVE  PacketsDue' = PacketsDue /\ AcksDue' = AcksDue /\ PacketsSorted'
<1> DEFINE p == Head(fromBoard)
<1>1. fromBoard \in Seq(Packet) /\ fromBoard # <<>> /\ fromBoard' = Tail(fromBoard)
      /\ fRecvQueue \in Seq(Packet) /\ fRecvCmdQueue \in Seq(Ack) /\ UNCHANGED boardWork
  BY DEF TypeOK, ProcessPacket
<1>2. p \in Packet /\ p \in Range(fromBoard) /\ Range(fromBoard) = {p} \cup Range(fromBoard')
  BY <1>1, RangeOfTail
<1>3. p.acks \in Seq(Ack) /\ (p.type # "acks" => Range(p.acks) = {})
  BY <1>2 DEF Packet, PacketsSorted, Range
<1>4. p.type = "acks" => fRecvCmdQueue' = fRecvCmdQueue \o p.acks /\ fRecvQueue' = fRecvQueue
  BY DEF ProcessPacket
<1>5. p.type # "acks" => fRecvQueue' = Append(fRecvQueue, p) /\ fRecvCmdQueue' = fRecvCmdQueue
  BY DEF ProcessPacket
<1> HIDE DEF p
<1>6. Range(fRecvCmdQueue') = Range(fRecvCmdQueue) \cup Range(p.acks)
  <2>1. Range(fRecvCmdQueue \o p.acks) = Range(fRecvCmdQueue) \cup Range(p.acks)
    BY <1>1, <1>3, RangeOfConcat
  <2> QED
    BY <1>3, <1>4, <1>5, <2>1
<1>7. IF p.type = "acks" THEN Range(fRecvQueue') = Range(fRecvQueue)
                         ELSE Range(fRecvQueue') = Range(fRecvQueue) \cup {p}
  <2>1. Range(Append(fRecvQueue, p)) = Range(fRecvQueue) \cup {p}
    BY <1>1, <1>2, RangeOfAppend
  <2> QED
    BY <1>4, <1>5, <2>1
<1>8. \A x : (\E q \in Range(fromBoard) : x \in Range(q.acks))
              <=> \/ \E q \in Range(fromBoard') : x \in Range(q.acks)
                  \/ x \in Range(p.acks)
  BY <1>2
<1>9. AcksDue' = AcksDue
  BY <1>1, <1>6, <1>8, InAcksDue, InAcksDueNext
<1>10. PacketsDue' = PacketsDue
  BY <1>2, <1>7 DEF PacketsDue
<1>11. PacketsSorted'
  BY <1>2, <1>7 DEF PacketsSorted
<1> QED
  BY <1>9, <1>10, <1>11

LEMMA ReconnectDue ==
  ASSUME TypeOK, PacketsSorted, Reconnect
  PROVE  /\ PacketsDue' \subseteq PacketsDue /\ AcksDue' = Range(fRecvCmdQueue)
         /\ AcksDue' \subseteq AcksDue /\ PacketsSorted'
<1>1. Range(<<>>) = {}
  BY DEF Range
<1>2. UNCHANGED <<fRecvQueue, fRecvCmdQueue>> /\ fromBoard' = <<>> /\ boardWork' = <<>>
  BY DEF Reconnect, queues
<1> QED
  BY <1>1, <1>2 DEF PacketsDue, AcksDue, PacketsSorted

-----------------------------------------------------------------------------
(***************************************************************************)
(* The numbers stay known.                                                 *)
(***************************************************************************)
\* What is under way came from what was under way, with its identity and its number.
Inherited ==
  \A x \in UnderWay' : \E y \in UnderWay : x.id = y.id /\ x.num = y.num

LEMMA SendNumbers ==
  ASSUME NumInv, NEW kind \in Kinds, Send(kind)
  PROVE  /\ sent' = sent + 1 /\ request'.id = sent' /\ request'.num = fCommandNum
         /\ UnderWay' = UnderWay \cup {request'}
         /\ Range(toBoard') = Range(toBoard) \cup {request'}
         /\ PacketsDue' = PacketsDue /\ AcksDue' = AcksDue
         /\ request'.num = NumberOf(sent)'
         /\ \A i \in Identities : i <= sent /\ sent' - i < NumMod => NumberOf(i)' = NumberOf(i)
<1> USE XL3CommandsAssumption
<1>1. TypeOK /\ TypeOK'
  BY TypeStep DEF NumInv, Next
<1>2. /\ sent' = sent + 1 /\ request' = [type |-> kind, num |-> fCommandNum, id |-> sent + 1]
      /\ toBoard' = Append(toBoard, request') /\ fCommandNum' = NextCommandNum
      /\ UNCHANGED <<fromBoard, boardWork, fRecvQueue, fRecvCmdQueue>>
  BY DEF Send, queues
<1>3. Range(toBoard') = Range(toBoard) \cup {request'}
  <2>1. toBoard \in Seq(Request) /\ request' \in Request
    BY <1>1 DEF TypeOK
  <2>2. Range(Append(toBoard, request')) = Range(toBoard) \cup {request'}
    BY <2>1, RangeOfAppend
  <2> QED
    BY <1>2, <2>2
<1>4. PacketsDue' = PacketsDue /\ AcksDue' = AcksDue
  BY <1>2 DEF PacketsDue, AcksDue
<1>5. UnderWay' = UnderWay \cup {request'}
  BY <1>3, <1>4 DEF UnderWay
<1>6. /\ fCommandNum \in 0..(NumMod - 1) /\ sent \in Nat /\ NumMod \in Nat
      /\ fCommandNum' = IF fCommandNum = NumMod - 1 THEN 0 ELSE fCommandNum + 1
  BY <1>1, <1>2, NextNumType DEF TypeOK
<1>7. request'.num = NumberOf(sent)'
  BY <1>2, <1>6 DEF NumberOf
<1>8. ASSUME NEW i \in Identities, i <= sent, sent' - i < NumMod
      PROVE  NumberOf(i)' = NumberOf(i)
  <2>1. i \in Nat /\ sent - i \in Nat /\ sent - i + 1 < NumMod
    BY <1>2, <1>6, <1>8 DEF Identities
  <2> QED
    BY <1>2, <1>6, <2>1 DEF NumberOf
<1> QED
  BY <1>2, <1>3, <1>4, <1>5, <1>7, <1>8

LEMMA InheritedNumbers ==
  ASSUME NumInv, TypeOK', Inherited, UNCHANGED <<fCommandNum, sent>>
  PROVE  NumbersKnown'
  BY DEF NumInv, NumbersKnown, Inherited, NumberOf

\* A number that is too high for the request belongs to an earlier one only when the
\* numbers have wrapped since.
LEMMA TooHighMeansWrapped ==
  ASSUME NumInv, sent > 0, NEW p \in PacketsDue, TooHigh(p.num), p.id < request.id
  PROVE  request.num < request.id - p.id
<1> USE XL3CommandsAssumption
<1>1. /\ request.id = sent /\ request.num = NumberOf(sent)
      /\ p.id <= sent /\ (sent - p.id < NumMod => p.num = NumberOf(p.id))
  BY DEF NumInv, RequestIsLatest, NumbersKnown, UnderWay
<1>2. /\ fCommandNum \in 0..(NumMod - 1) /\ sent \in Nat /\ NumMod \in Nat
      /\ p.id \in Nat /\ request.num \in 0..(NumMod - 1) /\ p.num \in 0..(NumMod - 1)
  BY DueType DEF NumInv, TypeOK, Packet, Request, Identities
<1>3. p.num > request.num
  BY DEF TooHigh
<1>4. CASE sent - p.id >= NumMod
  BY <1>1, <1>2, <1>4
<1>5. CASE sent - p.id < NumMod
  BY <1>1, <1>2, <1>3, <1>5 DEF NumberOf
<1> QED
  BY <1>2, <1>4, <1>5

LEMMA OneElement == \A e : \A i \in 1..Len(<<e>>) : <<e>>[i] = e
  OBVIOUS

LEMMA TakePacketNum ==
  ASSUME NumInv, TakePacket
  PROVE  NumInv'
<1> DEFINE p == Head(fRecvQueue)
<1>1. TypeOK /\ TypeOK' /\ PacketsSorted
  BY TypeStep DEF NumInv, Next, ClientStep
<1>2. p \in PacketsDue /\ PacketsDue' \subseteq PacketsDue /\ AcksDue' = AcksDue /\ PacketsSorted'
  BY <1>1, TakePacketDue
<1>3. UNCHANGED <<fCommandNum, sent, toBoard, request>> /\ pc = "answer"
  BY DEF TakePacket, wire
<1>4. NumbersKnown'
  BY <1>1, <1>2, <1>3, InheritedNumbers DEF Inherited, UnderWay
<1>5. sent > 0
  BY <1>3 DEF NumInv, RequestIsLatest
<1>6. RequestIsLatest'
  <2>1. pc' = "acks" => request.type \in {"queue", "read"}
    BY <1>3 DEF TakePacket, End
  <2>2. pc' # "idle" => outcome' = outcome
    BY DEF TakePacket, End
  <2> QED
    BY <1>3, <1>5, <2>1, <2>2 DEF NumInv, RequestIsLatest, NumberOf
<1>7. LateAnswersAreSkipped'
  <2> SUFFICES ASSUME outcome' = "too high", NEW i \in 1..Len(received'),
                      received'[i] < request'.id
               PROVE  request'.num < request'.id - received'[i]
    BY DEF LateAnswersAreSkipped
  <2>1. CASE TooHigh(p.num) /\ received' = <<p.id>>
    <3>1. received'[i] = p.id
      BY <2>1, OneElement
    <3> QED
      BY <1>2, <1>3, <1>5, <2>1, <3>1, TooHighMeansWrapped
  <2>2. CASE outcome = "too high" /\ received' = received
    BY <1>3, <2>2 DEF NumInv, LateAnswersAreSkipped
  <2> QED
    BY <2>1, <2>2 DEF TakePacket, End
<1> QED
  BY <1>1, <1>2, <1>4, <1>6, <1>7 DEF NumInv

LEMMA TakeAckNum ==
  ASSUME NumInv, TakeAck
  PROVE  NumInv'
<1>1. TypeOK /\ TypeOK' /\ PacketsSorted
  BY TypeStep DEF NumInv, Next, ClientStep
<1>2. AcksDue' \subseteq AcksDue /\ PacketsDue' = PacketsDue /\ PacketsSorted'
  BY <1>1, TakeAckDue
<1>3. UNCHANGED <<fCommandNum, sent, toBoard, request>> /\ pc = "acks"
  BY DEF TakeAck, wire
<1>4. NumbersKnown'
  BY <1>1, <1>2, <1>3, InheritedNumbers DEF Inherited, UnderWay
<1>5. RequestIsLatest'
  <2>1. (pc' # "idle" => pc' = pc /\ outcome' = outcome)
    BY DEF TakeAck, End
  <2> QED
    BY <1>3, <2>1 DEF NumInv, RequestIsLatest, NumberOf
<1>6. outcome' # "too high"
  BY <1>3 DEF TakeAck, End, NumInv, RequestIsLatest
<1> QED
  BY <1>1, <1>2, <1>3, <1>4, <1>5, <1>6 DEF NumInv, LateAnswersAreSkipped

\* The board and the network leave the command alone.
LEMMA OutsideNum ==
  ASSUME NumInv, [Next]_vars, PacketsSorted', Inherited,
         UNCHANGED <<fCommandNum, sent, request, pc, outcome, received>>
  PROVE  NumInv'
<1>1. TypeOK'
  BY TypeStep DEF NumInv
<1>2. NumbersKnown'
  BY <1>1, InheritedNumbers
<1> QED
  BY <1>1, <1>2 DEF NumInv, RequestIsLatest, LateAnswersAreSkipped, NumberOf

LEMMA NumStep ==
  ASSUME NumInv, [Next]_vars
  PROVE  NumInv'
<1> USE XL3CommandsAssumption
<1>1. TypeOK /\ TypeOK' /\ PacketsSorted
  BY TypeStep DEF NumInv
<1>2. ASSUME NEW kind \in Kinds, Send(kind) PROVE NumInv'
  <2>1. sent \in Nat /\ sent' = sent + 1 /\ received' = <<>>
    BY <1>1, <1>2 DEF Send, TypeOK
  <2>2. NumbersKnown'
    <3> SUFFICES ASSUME NEW x \in UnderWay'
                 PROVE  /\ x.id <= sent'
                        /\ sent' - x.id < NumMod => x.num = NumberOf(x.id)'
      BY DEF NumbersKnown
    <3>1. CASE x = request'
      BY <1>2, <2>1, <3>1, SendNumbers
    <3>2. CASE x \in UnderWay
      <4>1. x.id \in Identities /\ x.id <= sent /\ (sent - x.id < NumMod => x.num = NumberOf(x.id))
        BY <1>1, <3>2, DueType DEF NumInv, NumbersKnown
      <4>2. sent' - x.id < NumMod => sent - x.id < NumMod /\ NumberOf(x.id)' = NumberOf(x.id)
        BY <1>2, <2>1, <4>1, SendNumbers DEF Identities
      <4> QED
        BY <2>1, <4>1, <4>2 DEF Identities
    <3> QED
      BY <1>2, <3>1, <3>2, SendNumbers
  <2>3. RequestIsLatest'
    <3>1. pc' # "acks" /\ (pc' # "idle" => outcome' = "none") /\ sent' > 0
      BY <1>2, <2>1 DEF Send
    <3>2. request'.id = sent' /\ request'.num = NumberOf(sent)'
      BY <1>2, <2>1, SendNumbers DEF NumberOf
    <3> QED
      BY <3>1, <3>2 DEF RequestIsLatest
  <2>4. PacketsSorted'
    BY <1>1, <1>2 DEF PacketsSorted, Send, queues
  <2>5. LateAnswersAreSkipped'
    BY <1>2, <2>1 DEF LateAnswersAreSkipped, Send
  <2> QED
    BY <1>1, <2>2, <2>3, <2>4, <2>5 DEF NumInv
<1>3. CASE Block \/ TimeOut
  <2>1. /\ UNCHANGED <<fCommandNum, wire, queues, request, sent, received>>
        /\ outcome' \in {"ok", "too high"} => outcome' = outcome
        /\ pc' # "idle" => pc' = pc /\ outcome' = outcome
        /\ outcome' \in {"ok", "too high"} => sent > 0
    BY <1>3 DEF Block, TimeOut, End, NumInv, RequestIsLatest
  <2>2. NumbersKnown' /\ PacketsSorted'
    BY <1>1, <2>1
       DEF NumInv, NumbersKnown, UnderWay, PacketsDue, AcksDue, NumberOf, PacketsSorted,
           wire, queues
  <2>3. RequestIsLatest' /\ LateAnswersAreSkipped'
    BY <2>1 DEF NumInv, RequestIsLatest, LateAnswersAreSkipped, NumberOf
  <2> QED
    BY <1>1, <2>2, <2>3 DEF NumInv
<1>4. CASE BoardAnswers
  <2> DEFINE r == Head(toBoard)
  <2>1. r \in Range(toBoard) /\ r \in Request /\ Range(toBoard') \subseteq Range(toBoard)
        /\ PacketsDue' \subseteq PacketsDue \cup {AnswerTo(r)}
        /\ AcksDue' \subseteq AcksDue \cup Range(AcksOf(r)) /\ PacketsSorted'
    BY <1>1, <1>4, BoardAnswersDue
  <2> HIDE DEF r
  <2>2. AnswerTo(r).id = r.id /\ AnswerTo(r).num = r.num
    BY DEF AnswerTo
  <2>3. \A x \in Range(AcksOf(r)) : x.id = r.id /\ x.num = r.num
    <3>1. AcksOf(r) \in Seq(Ack) /\ Len(AcksOf(r)) = NumReads
          /\ \A i \in 1..NumReads :
               AcksOf(r)[i] = [num |-> r.num, cmdNum |-> i - 1, id |-> r.id]
      BY <2>1, AcksOfType
    <3>2. ASSUME NEW x \in Range(AcksOf(r)) PROVE x.id = r.id /\ x.num = r.num
      <4>1. PICK i \in 1..NumReads : AcksOf(r)[i] = x
        BY <3>1, InRange
      <4> QED
        BY <3>1, <4>1
    <3> QED
      BY <3>2
  <2>4. Inherited
    BY <2>1, <2>2, <2>3 DEF Inherited, UnderWay
  <2>5. UNCHANGED <<fCommandNum, sent, request, pc, outcome, received>>
    BY <1>4 DEF BoardAnswers, client
  <2> QED
    BY <2>1, <2>4, <2>5, OutsideNum
<1>5. CASE BoardAcknowledges \/ ProcessPacket \/ Reconnect
  <2>1. PacketsDue' \subseteq PacketsDue /\ AcksDue' \subseteq AcksDue /\ PacketsSorted'
    BY <1>1, <1>5, BoardAcknowledgesDue, ProcessPacketDue, ReconnectDue
  <2>2. Range(toBoard') \subseteq Range(toBoard)
    <3>1. Range(<<>>) = {}
      BY DEF Range
    <3> QED
      BY <1>5, <3>1 DEF BoardAcknowledges, ProcessPacket, Reconnect
  <2>3. Inherited
    BY <2>1, <2>2 DEF Inherited, UnderWay
  <2>4. UNCHANGED <<fCommandNum, sent, request, pc, outcome, received>>
    BY <1>5 DEF BoardAcknowledges, ProcessPacket, Reconnect, client
  <2> QED
    BY <2>1, <2>3, <2>4, OutsideNum
<1>6. CASE UNCHANGED vars
  <2>1. UNCHANGED <<fCommandNum, wire, queues, request, sent, pc, outcome, received>>
    BY <1>6 DEF vars, client
  <2>2. PacketsSorted' /\ Inherited
    BY <1>1, <2>1
       DEF Inherited, UnderWay, PacketsDue, AcksDue, PacketsSorted, wire, queues
  <2> QED
    BY <2>1, <2>2, OutsideNum
<1> QED
  BY <1>2, <1>3, <1>4, <1>5, <1>6, TakePacketNum, TakeAckNum DEF Next, ClientStep

LEMMA NumInit == Init => NumInv
<1> SUFFICES ASSUME Init PROVE NumInv
  OBVIOUS
<1>1. Range(<<>>) = {}
  BY DEF Range
<1>2. PacketsSorted
  BY <1>1 DEF Init, PacketsSorted
<1>3. UnderWay = {}
  BY <1>1 DEF Init, UnderWay, PacketsDue, AcksDue
<1>4. RequestIsLatest /\ LateAnswersAreSkipped
  BY DEF Init, RequestIsLatest, LateAnswersAreSkipped
<1> QED
  BY <1>2, <1>3, <1>4, TypeInit DEF NumInv, NumbersKnown

LEMMA NumInductive == Spec => []NumInv
  BY NumInit, NumStep, PTL DEF Spec

\* Only a number that has wrapped since makes SendCommand give up over a late answer,
\* for any modulus and any window (SendCommand, XL3Model.cpp).
THEOREM SpecLateAnswersAreSkipped == Spec => []LateAnswersAreSkipped
<1>1. NumInv => LateAnswersAreSkipped
  BY DEF NumInv
<1> QED
  BY <1>1, NumInductive, PTL

-----------------------------------------------------------------------------
(***************************************************************************)
(* A command's answers are its own, as long as nothing under way is a      *)
(* round of the numbers behind.                                            *)
(***************************************************************************)
TakenAreOwn ==
  /\ pc = "answer" => received = <<>>
  /\ pc = "acks" => received = [i \in 1..tries |-> request.id] /\ tries < NumReads

OwnInv == TakenAreOwn /\ AnswersAreOwn

LEMMA ConstantSequences ==
  /\ \A e : <<>> = [i \in 1..0 |-> e]
  /\ \A e : <<e>> = [i \in 1..1 |-> e]
  /\ \A n \in Nat : \A e : Append([i \in 1..n |-> e], e) = [i \in 1..(n + 1) |-> e]
<1>1. \A e : <<>> = [i \in 1..0 |-> e]
  OBVIOUS
<1>2. \A e : <<e>> = [i \in 1..1 |-> e]
  OBVIOUS
<1>3. ASSUME NEW n \in Nat, NEW e
      PROVE  Append([i \in 1..n |-> e], e) = [i \in 1..(n + 1) |-> e]
  <2> DEFINE s == [i \in 1..n |-> e]
             t == [i \in 1..(n + 1) |-> e]
  <2>1. s \in Seq({e}) /\ t \in Seq({e}) /\ Len(s) = n /\ Len(t) = n + 1
    OBVIOUS
  <2>2. Append(s, e) \in Seq({e}) /\ Len(Append(s, e)) = n + 1
    BY <2>1
  <2>3. \A i \in 1..(n + 1) : Append(s, e)[i] = e
    BY <2>1, <2>2, ElementOfSeq
  <2>4. \A i \in 1..(n + 1) : t[i] = e
    OBVIOUS
  <2> HIDE DEF s, t
  <2>5. Append(s, e) = t
    BY <2>1, <2>2, <2>3, <2>4, SeqEqual
  <2> QED
    BY <2>5 DEF s, t
<1> QED
  BY <1>1, <1>2, <1>3

\* The number identifies the request.
LEMMA NumberIdentifies ==
  ASSUME NumInv, NoneARoundBehind, sent > 0,
         NEW x \in PacketsDue \cup AcksDue, x.num = request.num
  PROVE  x.id = request.id
<1> USE XL3CommandsAssumption
<1>1. request.id = sent /\ request.num = NumberOf(sent)
  BY DEF NumInv, RequestIsLatest
<1>2. x \in UnderWay
  BY DEF UnderWay
<1>3. x.id <= sent /\ sent - x.id < NumMod /\ x.num = NumberOf(x.id)
  BY <1>2 DEF NumInv, NumbersKnown, NoneARoundBehind
<1>4. x.id \in Nat /\ sent \in Nat /\ fCommandNum \in 0..(NumMod - 1) /\ NumMod \in Nat
  BY <1>2, DueType DEF NumInv, TypeOK, Identities
<1> QED
  BY <1>1, <1>3, <1>4 DEF NumberOf

\* The number GetMultiFCResults is passed is that of its own request, or none at all.
LEMMA ExpectedIsOwn ==
  ASSUME NumInv, sent > 0, pc = "acks", NEW a \in AcksDue, a.num = ExpectedNum
  PROVE  a.num = request.num
<1> USE XL3CommandsAssumption
<1>1. /\ fCommandNum \in 0..(NumMod - 1) /\ sent \in Nat /\ NumMod \in Nat
      /\ a.num \in 0..(NumMod - 1)
  BY DueType DEF NumInv, TypeOK, Ack
<1>2. request.num = NumberOf(sent)
  BY DEF NumInv, RequestIsLatest
<1>3. CASE request.type = "queue"
  <2>1. a.num = fCommandNum - 1
    BY <1>3 DEF ExpectedNum
  <2> QED
    BY <1>1, <1>2, <2>1 DEF NumberOf
<1>4. CASE request.type # "queue"
  BY <1>4 DEF ExpectedNum
<1> QED
  BY <1>3, <1>4

LEMMA OwnStep ==
  ASSUME NumInv, NoneARoundBehind, OwnInv, [Next]_vars
  PROVE  OwnInv'
<1> USE XL3CommandsAssumption
<1>1. TypeOK /\ TypeOK' /\ PacketsSorted
  BY TypeStep DEF NumInv
<1>2. ASSUME NEW kind \in Kinds, Send(kind) PROVE OwnInv'
  <2>1. /\ request'.type = kind /\ received' = <<>> /\ pc' # "acks"
        /\ outcome' = "ok" => kind = "quiet"
    BY <1>2 DEF Send
  <2> QED
    BY <2>1 DEF OwnInv, TakenAreOwn, AnswersAreOwn
<1>3. CASE TakePacket
  <2> DEFINE p == Head(fRecvQueue)
  <2>1. pc = "answer" /\ outcome = "none" /\ sent > 0 /\ received = <<>> /\ request' = request
    BY <1>3 DEF TakePacket, NumInv, RequestIsLatest, OwnInv, TakenAreOwn
  <2>2. p \in PacketsDue
    BY <1>1, <1>3, TakePacketDue
  <2>3. pc' = "answer" => received' = received
    BY <1>3 DEF TakePacket, End
  <2>4. pc' = "acks" => tries' = 0 /\ received' = received
    BY <1>3, <2>1 DEF TakePacket, End
  <2>5. TakenAreOwn'
    <3>1. pc' = "acks" => received' = [i \in 1..tries' |-> request'.id]
      BY <2>1, <2>4, ConstantSequences
    <3>2. pc' = "acks" => tries' < NumReads
      BY <2>4
    <3> QED
      BY <2>1, <2>3, <3>1, <3>2 DEF TakenAreOwn
  <2>6. outcome' = "ok" =>
          received' = <<p.id>> /\ p.num = request.num /\ request.type \notin {"queue", "read"}
    BY <1>3, <2>1 DEF TakePacket, End, IsAnswer
  <2>7. outcome' = "ok" => received' = <<request.id>>
    BY <2>1, <2>2, <2>6, NumberIdentifies
  <2>8. request.type \in Kinds
    BY <1>1 DEF TypeOK, Request
  <2>9. outcome' = "ok" /\ request.type # "quiet" => request.type = "fast"
    BY <2>6, <2>8 DEF Kinds
  <2>10. AnswersAreOwn'
    BY <2>1, <2>7, <2>9, ConstantSequences DEF AnswersAreOwn
  <2> QED
    BY <2>5, <2>10 DEF OwnInv
<1>4. CASE TakeAck
  <2> DEFINE a == Head(fRecvCmdQueue)
  <2>1. /\ pc = "acks" /\ outcome = "none" /\ sent > 0 /\ request.type \in {"queue", "read"}
        /\ received = [i \in 1..tries |-> request.id] /\ request' = request
        /\ tries \in Nat /\ tries < NumReads
    <3>1. tries \in Nat
      BY <1>1 DEF TypeOK
    <3>2. pc = "acks" /\ request' = request
      BY <1>4 DEF TakeAck
    <3> QED
      BY <3>1, <3>2 DEF NumInv, RequestIsLatest, OwnInv, TakenAreOwn
  <2>2. a \in AcksDue
    BY <1>1, <1>4, TakeAckDue
  <2>3. CASE a.num = ExpectedNum /\ a.cmdNum = tries
    <3>1. a.id = request.id
      BY <2>1, <2>2, <2>3, ExpectedIsOwn, NumberIdentifies
    <3>2. /\ tries' = tries + 1 /\ received' = Append(received, a.id)
          /\ IF tries' = NumReads THEN End("ok") ELSE UNCHANGED <<pc, outcome>>
      BY <1>4, <2>3 DEF TakeAck
    <3>3. received' = [i \in 1..tries' |-> request'.id]
      BY <2>1, <3>1, <3>2, ConstantSequences
    <3>4. CASE tries' = NumReads
      BY <2>1, <3>2, <3>3, <3>4 DEF End, OwnInv, TakenAreOwn, AnswersAreOwn
    <3>5. CASE tries' # NumReads
      <4>1. tries' < NumReads
        BY <2>1, <3>2, <3>5
      <4> QED
        BY <2>1, <3>2, <3>3, <3>5, <4>1 DEF OwnInv, TakenAreOwn, AnswersAreOwn
    <3> QED
      BY <3>4, <3>5
  <2>4. CASE ~(a.num = ExpectedNum /\ a.cmdNum = tries)
    <3>1. /\ outcome' # "ok" /\ pc' # "answer"
          /\ pc' = "acks" => received' = received /\ tries' = tries
      BY <1>4, <2>1, <2>4 DEF TakeAck, End
    <3> QED
      BY <2>1, <3>1 DEF OwnInv, TakenAreOwn, AnswersAreOwn
  <2> QED
    BY <2>3, <2>4
<1>5. CASE Block \/ TimeOut
  <2>1. /\ UNCHANGED <<request, tries, received>>
        /\ outcome' = "ok" => outcome = "ok"
        /\ pc' # "idle" => pc' = pc
    BY <1>5 DEF Block, TimeOut, End
  <2> QED
    BY <2>1 DEF OwnInv, TakenAreOwn, AnswersAreOwn
<1>6. CASE UNCHANGED client
  BY <1>6 DEF client, OwnInv, TakenAreOwn, AnswersAreOwn
<1> QED
  BY <1>2, <1>3, <1>4, <1>5, <1>6
     DEF Next, ClientStep, BoardAnswers, BoardAcknowledges, ProcessPacket, Reconnect, vars

LEMMA OwnInductive == Spec /\ []NoneARoundBehind => []OwnInv
<1>1. Init => OwnInv
  BY DEF Init, OwnInv, TakenAreOwn, AnswersAreOwn
<1> QED
  BY <1>1, OwnStep, NumInductive, PTL DEF Spec

\* A command that returns has taken its own answers and no others, as long as no
\* answer turns up NumMod requests late (SendCommand and GetMultiFCResults).
THEOREM SpecAnswersAreOwn == Spec /\ []NoneARoundBehind => []AnswersAreOwn
<1>1. OwnInv => AnswersAreOwn
  BY DEF OwnInv
<1> QED
  BY <1>1, OwnInductive, PTL

\* A session of at most NumMod commands never gets as far as that.
LEMMA ShortSessions ==
  ASSUME MaxCommands <= NumMod
  PROVE  Spec => []NoneARoundBehind
<1>1. TypeOK => NoneARoundBehind
  <2> SUFFICES ASSUME TypeOK, NEW x \in PacketsDue \cup AcksDue
               PROVE  sent - x.id < NumMod
    BY DEF NoneARoundBehind
  <2>1. x.id \in 1..MaxCommands /\ sent \in 0..MaxCommands
    BY DueType DEF UnderWay, TypeOK, Identities
  <2> QED
    BY <2>1, XL3CommandsAssumption
<1> QED
  BY <1>1, SpecTypeOK, PTL

-----------------------------------------------------------------------------
(***************************************************************************)
(* The link is in step again after a command that returns.                 *)
(***************************************************************************)

\* The latest request is the last thing on its way, in each direction.
LastToBoard ==
  \A i \in 1..Len(toBoard) : toBoard[i].id = sent => i = Len(toBoard)

LastFromBoard ==
  \A i \in 1..Len(fromBoard) : fromBoard[i].id = sent /\ fromBoard[i].type # "acks" =>
    /\ toBoard = <<>>
    /\ \A j \in 1..Len(fromBoard) : j > i => fromBoard[j].type = "acks"

LastReceived ==
  \A i \in 1..Len(fRecvQueue) : fRecvQueue[i].id = sent =>
    /\ toBoard = <<>> /\ i = Len(fRecvQueue)
    /\ \A j \in 1..Len(fromBoard) : fromBoard[j].type = "acks"

\* A command that has its answer finds no other packet due and no request under way.
Answered == pc = "acks" \/ (outcome = "ok" /\ request.type # "quiet")

Drained ==
  Answered => /\ toBoard = <<>> /\ fRecvQueue = <<>>
              /\ \A j \in 1..Len(fromBoard) : fromBoard[j].type = "acks"

StepInv == LastToBoard /\ LastFromBoard /\ LastReceived /\ Drained

LEMMA AppendAt ==
  ASSUME NEW S, NEW s \in Seq(S), NEW e \in S
  PROVE  /\ Len(Append(s, e)) = Len(s) + 1 /\ Append(s, e)[Len(s) + 1] = e
         /\ \A i \in 1..Len(s) : Append(s, e)[i] = s[i]
         /\ \A i \in 1..(Len(s) + 1) : i = Len(s) + 1 \/ i \in 1..Len(s)
  OBVIOUS

LEMMA TailAt ==
  ASSUME NEW S, NEW s \in Seq(S), s # <<>>
  PROVE  /\ Len(Tail(s)) = Len(s) - 1 /\ Len(s) \in Nat \ {0} /\ Head(s) = s[1]
         /\ \A i \in 1..Len(Tail(s)) : Tail(s)[i] = s[i + 1] /\ i + 1 \in 1..Len(s)
  BY RangeOfTail

LEMMA SendStaysInStep ==
  ASSUME NumInv, StepInv, NEW kind \in Kinds, Send(kind)
  PROVE  StepInv'
<1>1. TypeOK /\ TypeOK'
  BY TypeStep DEF NumInv, Next
<1>2. /\ sent \in Nat /\ sent' = sent + 1 /\ toBoard' = Append(toBoard, request')
      /\ UNCHANGED <<fromBoard, fRecvQueue>>
      /\ toBoard \in Seq(Request) /\ fromBoard \in Seq(Packet) /\ fRecvQueue \in Seq(Packet)
      /\ request' \in Request
  BY <1>1 DEF Send, TypeOK, queues
<1>3. \A x \in UnderWay : x.id # sent'
  <2>1. \A x \in UnderWay : x.id <= sent /\ x.id \in Nat
    BY <1>1, DueType DEF NumInv, NumbersKnown, Identities
  <2> QED
    BY <1>2, <2>1
<1>4. LastToBoard'
  <2>1. \A i \in 1..Len(toBoard) : toBoard[i].id # sent'
    BY <1>3 DEF UnderWay, Range
  <2> QED
    BY <1>2, <2>1, AppendAt DEF LastToBoard
<1>5. LastFromBoard'
  <2>1. \A i \in 1..Len(fromBoard) : fromBoard[i].type # "acks" => fromBoard[i].id # sent'
    BY <1>2, <1>3 DEF UnderWay, PacketsDue, Range
  <2> QED
    BY <1>2, <2>1 DEF LastFromBoard
<1>6. LastReceived'
  <2>1. \A i \in 1..Len(fRecvQueue) : fRecvQueue[i].id # sent'
    <3> SUFFICES ASSUME NEW i \in 1..Len(fRecvQueue) PROVE fRecvQueue[i].id # sent'
      OBVIOUS
    <3>1. fRecvQueue[i] \in Range(fRecvQueue)
      BY <1>2 DEF Range
    <3>2. fRecvQueue[i] \in PacketsDue
      BY <3>1 DEF PacketsDue, NumInv, PacketsSorted
    <3> QED
      BY <1>3, <3>2 DEF UnderWay
  <2> QED
    BY <1>2, <2>1 DEF LastReceived
<1>7. Drained'
  <2>1. pc' # "acks" /\ (outcome' = "ok" => request'.type = "quiet")
    BY DEF Send
  <2> QED
    BY <2>1 DEF Drained, Answered
<1> QED
  BY <1>4, <1>5, <1>6, <1>7 DEF StepInv

LEMMA TakePacketStaysInStep ==
  ASSUME NumInv, NoneARoundBehind, StepInv, TakePacket
  PROVE  StepInv'
<1> DEFINE p == Head(fRecvQueue)
<1>1. TypeOK /\ PacketsSorted
  BY DEF NumInv
<1>2. /\ fRecvQueue \in Seq(Packet) /\ fRecvQueue # <<>> /\ fRecvQueue' = Tail(fRecvQueue)
      /\ UNCHANGED <<toBoard, fromBoard, sent, request>> /\ pc = "answer"
  BY <1>1 DEF TypeOK, TakePacket, wire
<1>3. Len(Tail(fRecvQueue)) = Len(fRecvQueue) - 1 /\ Len(fRecvQueue) \in Nat \ {0}
      /\ p = fRecvQueue[1]
      /\ \A i \in 1..Len(Tail(fRecvQueue)) :
           Tail(fRecvQueue)[i] = fRecvQueue[i + 1] /\ i + 1 \in 1..Len(fRecvQueue)
  BY <1>2, TailAt
<1>4. LastToBoard' /\ LastFromBoard'
  BY <1>2 DEF StepInv, LastToBoard, LastFromBoard
<1>5. LastReceived'
  <2> SUFFICES ASSUME NEW i \in 1..Len(Tail(fRecvQueue)), Tail(fRecvQueue)[i].id = sent
               PROVE  /\ toBoard = <<>> /\ i = Len(Tail(fRecvQueue))
                      /\ \A j \in 1..Len(fromBoard) : fromBoard[j].type = "acks"
    BY <1>2 DEF LastReceived
  <2>1. i + 1 \in 1..Len(fRecvQueue) /\ fRecvQueue[i + 1].id = sent
    BY <1>3
  <2>2. /\ toBoard = <<>> /\ i + 1 = Len(fRecvQueue)
        /\ \A j \in 1..Len(fromBoard) : fromBoard[j].type = "acks"
    BY <2>1 DEF StepInv, LastReceived
  <2>3. Len(Tail(fRecvQueue)) = Len(fRecvQueue) - 1 /\ Len(fRecvQueue) \in Nat
    BY <1>3
  <2>4. i = Len(Tail(fRecvQueue))
    BY <2>2, <2>3
  <2> QED
    BY <2>2, <2>4
<1>6. Drained'
  <2> SUFFICES ASSUME Answered'
               PROVE  /\ toBoard = <<>> /\ fRecvQueue' = <<>>
                      /\ \A j \in 1..Len(fromBoard) : fromBoard[j].type = "acks"
    BY <1>2 DEF Drained
  <2>1. outcome = "none" /\ sent > 0
    BY <1>2 DEF NumInv, RequestIsLatest
  <2>2. p.num = request.num
    BY <1>2, <2>1 DEF TakePacket, Answered, IsAnswer, End
  <2>3. p.id = sent
    BY <1>1, <2>1, <2>2, TakePacketDue, NumberIdentifies DEF NumInv, RequestIsLatest
  <2>4. /\ toBoard = <<>> /\ 1 = Len(fRecvQueue)
        /\ \A j \in 1..Len(fromBoard) : fromBoard[j].type = "acks"
    <3>1. 1 \in 1..Len(fRecvQueue) /\ fRecvQueue[1].id = sent
      BY <1>3, <2>3
    <3> QED
      BY <3>1 DEF StepInv, LastReceived
  <2>5. Tail(fRecvQueue) = <<>>
    <3>1. Tail(fRecvQueue) \in Seq(Packet) /\ Len(Tail(fRecvQueue)) = 0
      BY <1>2, <1>3, <2>4
    <3> QED
      BY <3>1, EmptySeq
  <2> QED
    BY <1>2, <2>4, <2>5
<1> QED
  BY <1>4, <1>5, <1>6 DEF StepInv

LEMMA BoardAnswersStaysInStep ==
  ASSUME NumInv, StepInv, BoardAnswers
  PROVE  StepInv'
<1> DEFINE r == Head(toBoard)
<1>1. /\ toBoard \in Seq(Request) /\ toBoard # <<>> /\ toBoard' = Tail(toBoard)
      /\ fromBoard \in Seq(Packet) /\ UNCHANGED <<fRecvQueue, sent, pc, outcome, request>>
  BY DEF BoardAnswers, NumInv, TypeOK, queues, client
<1>2. Len(Tail(toBoard)) = Len(toBoard) - 1 /\ Len(toBoard) \in Nat \ {0} /\ r = toBoard[1]
      /\ Tail(toBoard) \in Seq(Request)
      /\ \A i \in 1..Len(Tail(toBoard)) :
           Tail(toBoard)[i] = toBoard[i + 1] /\ i + 1 \in 1..Len(toBoard)
  BY <1>1, TailAt, RangeOfTail
<1>3. LastToBoard'
  <2> SUFFICES ASSUME NEW i \in 1..Len(Tail(toBoard)), Tail(toBoard)[i].id = sent
               PROVE  i = Len(Tail(toBoard))
    BY <1>1 DEF LastToBoard
  <2>1. i + 1 \in 1..Len(toBoard) /\ toBoard[i + 1].id = sent
    BY <1>2
  <2>2. i + 1 = Len(toBoard)
    BY <2>1 DEF StepInv, LastToBoard
  <2>3. Len(Tail(toBoard)) = Len(toBoard) - 1 /\ Len(toBoard) \in Nat
    BY <1>2
  <2> QED
    BY <2>2, <2>3
<1>4. r.id = sent => toBoard' = <<>>
  <2>1. r.id = sent => Len(Tail(toBoard)) = 0
    <3>1. 1 \in 1..Len(toBoard)
      BY <1>2
    <3>2. toBoard[1].id = sent => 1 = Len(toBoard)
      BY <3>1 DEF StepInv, LastToBoard
    <3> QED
      BY <1>2, <3>2
  <2> QED
    BY <1>1, <1>2, <2>1, EmptySeq
<1>5. LastFromBoard'
  <2>1. \A i \in 1..Len(fromBoard) : fromBoard[i].id = sent => fromBoard[i].type = "acks"
    BY <1>1 DEF StepInv, LastFromBoard
  <2>2. CASE fromBoard' = fromBoard
    BY <1>1, <2>1, <2>2 DEF LastFromBoard
  <2>3. CASE fromBoard' = Append(fromBoard, AnswerTo(r))
    <3>1. r \in Request /\ AnswerTo(r) \in Packet /\ AnswerTo(r).id = r.id
      BY <1>1, RangeOfTail, AcksOfType DEF AnswerTo
    <3> HIDE DEF r
    <3>2. /\ Len(fromBoard') = Len(fromBoard) + 1 /\ fromBoard'[Len(fromBoard) + 1] = AnswerTo(r)
          /\ \A i \in 1..Len(fromBoard) : fromBoard'[i] = fromBoard[i]
          /\ \A i \in 1..(Len(fromBoard) + 1) : i = Len(fromBoard) + 1 \/ i \in 1..Len(fromBoard)
      BY <1>1, <2>3, <3>1, AppendAt
    <3>3. Len(fromBoard) \in Nat
      BY <1>1
    <3>4. ASSUME NEW i \in 1..Len(fromBoard'), fromBoard'[i].id = sent, fromBoard'[i].type # "acks"
          PROVE  i = Len(fromBoard) + 1 /\ toBoard' = <<>>
      BY <1>4, <2>1, <3>1, <3>2, <3>4
    <3>5. ASSUME NEW i \in 1..Len(fromBoard'), fromBoard'[i].id = sent, fromBoard'[i].type # "acks",
                 NEW j \in 1..Len(fromBoard'), j > i
          PROVE  FALSE
      BY <3>2, <3>3, <3>4, <3>5
    <3> QED
      BY <1>1, <3>4, <3>5 DEF LastFromBoard
  <2> QED
    BY <2>2, <2>3 DEF BoardAnswers, AnswerTo
<1>6. LastReceived' /\ Drained'
  BY <1>1 DEF StepInv, LastReceived, Drained, Answered
<1> QED
  BY <1>3, <1>5, <1>6 DEF StepInv

LEMMA BoardAcknowledgesStaysInStep ==
  ASSUME NumInv, StepInv, BoardAcknowledges
  PROVE  StepInv'
<1>1. PICK n \in 1..Len(boardWork) : fromBoard' = Append(fromBoard, AcksPacket(n))
  BY DEF BoardAcknowledges, AcksPacket
<1>2. fromBoard \in Seq(Packet) /\ UNCHANGED <<toBoard, fRecvQueue, sent, pc, outcome, request>>
  BY DEF BoardAcknowledges, NumInv, TypeOK, queues, client
<1>3. AcksPacket(n) \in Packet /\ AcksPacket(n).type = "acks"
  BY AcksPacketType DEF AcksPacket, NumInv
<1>4. \A i \in 1..Len(fromBoard) : fromBoard'[i] = fromBoard[i]
  BY <1>1, <1>2, <1>3, AppendAt
<1>5. ASSUME NEW i \in 1..Len(fromBoard'), fromBoard'[i].type # "acks"
      PROVE  i \in 1..Len(fromBoard)
  <2>1. Len(fromBoard') = Len(fromBoard) + 1 /\ fromBoard'[Len(fromBoard) + 1] = AcksPacket(n)
    BY <1>1, <1>2, <1>3, AppendAt
  <2>2. i = Len(fromBoard) + 1 \/ i \in 1..Len(fromBoard)
    BY <1>2, <2>1
  <2> QED
    BY <1>5, <1>3, <2>1, <2>2
<1>6. LastFromBoard'
  <2> SUFFICES ASSUME NEW i \in 1..Len(fromBoard'),
                      fromBoard'[i].id = sent, fromBoard'[i].type # "acks"
               PROVE  /\ toBoard = <<>>
                      /\ \A j \in 1..Len(fromBoard') : j > i => fromBoard'[j].type = "acks"
    BY <1>2 DEF LastFromBoard
  <2>1. i \in 1..Len(fromBoard) /\ fromBoard[i].id = sent /\ fromBoard[i].type # "acks"
    BY <1>4, <1>5
  <2>2. /\ toBoard = <<>>
        /\ \A j \in 1..Len(fromBoard) : j > i => fromBoard[j].type = "acks"
    BY <2>1 DEF StepInv, LastFromBoard
  <2> QED
    BY <1>4, <1>5, <2>2
<1>7. (\A j \in 1..Len(fromBoard) : fromBoard[j].type = "acks")
        => \A j \in 1..Len(fromBoard') : fromBoard'[j].type = "acks"
  BY <1>4, <1>5
<1>8. LastToBoard' /\ LastReceived' /\ Drained'
  BY <1>2, <1>7 DEF StepInv, LastToBoard, LastReceived, Drained, Answered
<1> QED
  BY <1>6, <1>8 DEF StepInv

LEMMA ProcessPacketStaysInStep ==
  ASSUME NumInv, StepInv, ProcessPacket
  PROVE  StepInv'
<1> DEFINE p == Head(fromBoard)
<1>1. /\ fromBoard \in Seq(Packet) /\ fromBoard # <<>> /\ fromBoard' = Tail(fromBoard)
      /\ fRecvQueue \in Seq(Packet)
      /\ UNCHANGED <<toBoard, sent, pc, outcome, request>>
  BY DEF ProcessPacket, NumInv, TypeOK, client
<1>2. Len(Tail(fromBoard)) = Len(fromBoard) - 1 /\ Len(fromBoard) \in Nat \ {0}
      /\ p = fromBoard[1] /\ p \in Packet
      /\ \A i \in 1..Len(Tail(fromBoard)) :
           Tail(fromBoard)[i] = fromBoard[i + 1] /\ i + 1 \in 1..Len(fromBoard)
  BY <1>1, TailAt, RangeOfTail
<1>3. LastToBoard'
  BY <1>1 DEF StepInv, LastToBoard
<1>4. LastFromBoard'
  BY <1>1, <1>2 DEF StepInv, LastFromBoard
<1>5. CASE p.type = "acks"
  <2>1. fRecvQueue' = fRecvQueue
    BY <1>5 DEF ProcessPacket
  <2>2. LastReceived' /\ Drained'
    BY <1>1, <1>2, <2>1 DEF StepInv, LastReceived, Drained, Answered
  <2> QED
    BY <1>3, <1>4, <2>2 DEF StepInv
<1>6. CASE p.type # "acks"
  <2>1. fRecvQueue' = Append(fRecvQueue, p)
    BY <1>6 DEF ProcessPacket
  <2>2. 1 \in 1..Len(fromBoard) /\ fromBoard[1].type # "acks"
    BY <1>2, <1>6
  <2>3. Drained'
    BY <1>1, <2>2 DEF StepInv, Drained, Answered
  <2>4. \A i \in 1..Len(fRecvQueue) : fRecvQueue[i].id # sent
    BY <2>2 DEF StepInv, LastReceived
  <2>5. Len(fRecvQueue') = Len(fRecvQueue) + 1
        /\ fRecvQueue'[Len(fRecvQueue) + 1] = p
        /\ \A i \in 1..Len(fRecvQueue') : fRecvQueue'[i].id = sent => i = Len(fRecvQueue')
    BY <1>1, <1>2, <2>1, <2>4, AppendAt
  <2>6. p.id = sent => /\ toBoard = <<>>
                       /\ \A j \in 1..Len(fromBoard) : j > 1 => fromBoard[j].type = "acks"
    BY <1>2, <2>2 DEF StepInv, LastFromBoard
  <2>7. \A i \in 1..Len(Tail(fromBoard)) : i + 1 > 1
    OBVIOUS
  <2>8. p.id = sent => \A j \in 1..Len(fromBoard') : fromBoard'[j].type = "acks"
    BY <1>1, <1>2, <2>6, <2>7
  <2>9. LastReceived'
    <3> SUFFICES ASSUME NEW i \in 1..Len(fRecvQueue'), fRecvQueue'[i].id = sent
                 PROVE  /\ toBoard = <<>> /\ i = Len(fRecvQueue')
                        /\ \A j \in 1..Len(fromBoard') : fromBoard'[j].type = "acks"
      BY <1>1 DEF LastReceived
    <3>1. i = Len(fRecvQueue') /\ fRecvQueue'[i] = p
      BY <2>5
    <3> QED
      BY <2>6, <2>8, <3>1
  <2> QED
    BY <1>3, <1>4, <2>3, <2>9 DEF StepInv
<1> QED
  BY <1>5, <1>6

LEMMA InStepStep ==
  ASSUME NumInv, NoneARoundBehind, StepInv, [Next]_vars
  PROVE  StepInv'
<1>1. CASE TakeAck
  BY <1>1
     DEF TakeAck, wire, StepInv, LastToBoard, LastFromBoard, LastReceived, Drained, Answered
<1>2. CASE Block \/ TimeOut
  <2>1. UNCHANGED <<toBoard, fromBoard, fRecvQueue, sent>> /\ (Answered' => Answered)
    BY <1>2 DEF Block, TimeOut, End, Answered, wire, queues
  <2> QED
    BY <2>1 DEF StepInv, LastToBoard, LastFromBoard, LastReceived, Drained
<1>3. CASE Reconnect
  <2>1. toBoard' = <<>> /\ fromBoard' = <<>> /\ Len(<<>>) = 0
        /\ UNCHANGED <<fRecvQueue, sent, pc, outcome, request>>
    BY <1>3 DEF Reconnect, queues, client
  <2> QED
    BY <2>1 DEF StepInv, LastToBoard, LastFromBoard, LastReceived, Drained, Answered
<1>4. CASE UNCHANGED vars
  BY <1>4
     DEF vars, wire, queues, client, StepInv, LastToBoard, LastFromBoard, LastReceived,
         Drained, Answered
<1> QED
  BY <1>1, <1>2, <1>3, <1>4, SendStaysInStep, TakePacketStaysInStep, BoardAnswersStaysInStep,
     BoardAcknowledgesStaysInStep, ProcessPacketStaysInStep DEF Next, ClientStep

LEMMA InStepInductive == Spec /\ []NoneARoundBehind => []StepInv
<1>1. Init => StepInv
  <2>1. Len(<<>>) = 0
    OBVIOUS
  <2> QED
    BY <2>1 DEF Init, StepInv, LastToBoard, LastFromBoard, LastReceived, Drained
<1> QED
  BY <1>1, InStepStep, NumInductive, PTL DEF Spec

\* A command that returns leaves no late answer and no request behind it, whatever
\* timed out before, as long as no answer turns up NumMod requests late (SendCommand).
THEOREM SpecBackInStep == Spec /\ []NoneARoundBehind => []BackInStep
<1>1. NumInv /\ StepInv => BackInStep
  <2> SUFFICES ASSUME NumInv, StepInv, outcome = "ok", request.type # "quiet"
               PROVE  PacketsDue = {} /\ Range(toBoard) = {}
    BY DEF BackInStep
  <2>1. /\ toBoard = <<>> /\ fRecvQueue = <<>>
        /\ \A j \in 1..Len(fromBoard) : fromBoard[j].type = "acks"
    BY DEF StepInv, Drained, Answered
  <2>2. fromBoard \in Seq(Packet)
    BY DEF NumInv, TypeOK
  <2> QED
    BY <2>1, <2>2 DEF PacketsDue, Range
<1> QED
  BY <1>1, NumInductive, InStepInductive, PTL

-----------------------------------------------------------------------------
(***************************************************************************)
(* A command's acknowledgements reach GetMultiFCResults in the order of    *)
(* its reads, with none missing in between.                                *)
(***************************************************************************)

\* In queue q, and from q to r, the acknowledgements of request n are in order.
Increasing(q, n) ==
  \A i, j \in 1..Len(q) :
    i < j /\ q[i].id = n /\ q[j].id = n => q[i].cmdNum < q[j].cmdNum
Precede(q, r, n) ==
  \A x \in Range(q), y \in Range(r) : x.id = n /\ y.id = n => x.cmdNum < y.cmdNum

AcksOrdered ==
  /\ Increasing(fRecvCmdQueue, sent) /\ Increasing(boardWork, sent)
  /\ Precede(fRecvCmdQueue, boardWork, sent)
  /\ \A i \in 1..Len(fromBoard) :
       /\ Increasing(fromBoard[i].acks, sent)
       /\ Precede(fRecvCmdQueue, fromBoard[i].acks, sent)
       /\ Precede(fromBoard[i].acks, boardWork, sent)
       /\ \A j \in 1..Len(fromBoard) :
            i < j => Precede(fromBoard[i].acks, fromBoard[j].acks, sent)

\* A request on its way to the board has had nothing queued for it.
NotYetQueued ==
  \A r \in Range(toBoard) : r.id = sent => \A x \in AcksDue : x.id # sent

\* GetMultiFCResults was passed the number of its own request.
NumberIsPassed == ~(request.type = "queue" /\ request.num = NumMod - 1)

\* The next read whose acknowledgement GetMultiFCResults expects.
NextRead == IF pc = "acks" THEN tries ELSE 0

NoneMissing ==
  pc # "idle" /\ NumberIsPassed =>
    \A x \in AcksDue : x.id = sent =>
      /\ x.cmdNum >= NextRead
      /\ x.cmdNum > NextRead => \E y \in AcksDue : y.id = sent /\ y.cmdNum = x.cmdNum - 1

AckInv == AcksOrdered /\ NotYetQueued /\ NoneMissing

-----------------------------------------------------------------------------
LEMMA NoneOwnOrdered ==
  ASSUME NEW q \in Seq(Ack), NEW n, \A x \in Range(q) : x.id # n
  PROVE  /\ Increasing(q, n)
         /\ \A r : Precede(q, r, n) /\ Precede(r, q, n)
<1>1. \A i \in 1..Len(q) : q[i].id # n
  BY DEF Range
<1> QED
  BY <1>1 DEF Increasing, Precede

LEMMA EmptyOrdered ==
  ASSUME NEW n
  PROVE  Increasing(<<>>, n) /\ \A r : Precede(<<>>, r, n) /\ Precede(r, <<>>, n)
<1>1. <<>> \in Seq(Ack) /\ Range(<<>>) = {}
  BY DEF Range
<1> QED
  BY <1>1, NoneOwnOrdered

LEMMA ConcatOrdered ==
  ASSUME NEW q \in Seq(Ack), NEW r \in Seq(Ack), NEW n,
         Increasing(q, n), Increasing(r, n), Precede(q, r, n)
  PROVE  Increasing(q \o r, n)
<1> SUFFICES ASSUME NEW i \in 1..Len(q \o r), NEW j \in 1..Len(q \o r), i < j,
                    (q \o r)[i].id = n, (q \o r)[j].id = n
             PROVE  (q \o r)[i].cmdNum < (q \o r)[j].cmdNum
  BY DEF Increasing
<1>1. /\ Len(q) \in Nat /\ Len(r) \in Nat /\ Len(q \o r) = Len(q) + Len(r)
      /\ \A k \in 1..(Len(q) + Len(r)) :
           (q \o r)[k] = IF k <= Len(q) THEN q[k] ELSE r[k - Len(q)]
  BY ConcatProperties
<1>2. CASE j <= Len(q)
  <2>1. i \in 1..Len(q) /\ j \in 1..Len(q) /\ (q \o r)[i] = q[i] /\ (q \o r)[j] = q[j]
    BY <1>1, <1>2
  <2> QED
    BY <2>1 DEF Increasing
<1>3. CASE i > Len(q)
  <2>1. /\ i - Len(q) \in 1..Len(r) /\ j - Len(q) \in 1..Len(r)
        /\ i - Len(q) < j - Len(q)
        /\ (q \o r)[i] = r[i - Len(q)] /\ (q \o r)[j] = r[j - Len(q)]
    BY <1>1, <1>3
  <2> QED
    BY <2>1 DEF Increasing
<1>4. CASE i <= Len(q) /\ j > Len(q)
  <2>1. /\ i \in 1..Len(q) /\ j - Len(q) \in 1..Len(r)
        /\ (q \o r)[i] = q[i] /\ (q \o r)[j] = r[j - Len(q)]
    BY <1>1, <1>4
  <2>2. (q \o r)[i] \in Range(q) /\ (q \o r)[j] \in Range(r)
    BY <2>1 DEF Range
  <2> QED
    BY <2>2 DEF Precede
<1> QED
  BY <1>1, <1>2, <1>3, <1>4

\* Order is inherited by the parts of a queue.
LEMMA PartsOrdered ==
  ASSUME NEW p, NEW q, NEW r, NEW s, NEW n, Precede(p, q, n),
         Range(r) \subseteq Range(p), Range(s) \subseteq Range(q)
  PROVE  Precede(r, s, n)
  BY DEF Precede

LEMMA JoinedOrdered ==
  ASSUME NEW q \in Seq(Ack), NEW r \in Seq(Ack), NEW n
  PROVE  /\ \A s : Precede(q, s, n) /\ Precede(r, s, n) => Precede(q \o r, s, n)
         /\ \A s : Precede(s, q, n) /\ Precede(s, r, n) => Precede(s, q \o r, n)
<1>1. Range(q \o r) = Range(q) \cup Range(r)
  BY RangeOfConcat
<1> QED
  BY <1>1 DEF Precede

LEMMA TailOrdered ==
  ASSUME NEW q \in Seq(Ack), q # <<>>, NEW n, Increasing(q, n)
  PROVE  /\ Increasing(Tail(q), n)
         /\ \A x \in Range(Tail(q)) :
              x.id = n /\ Head(q).id = n => Head(q).cmdNum < x.cmdNum
<1>1. /\ Len(q) \in Nat \ {0} /\ Head(q) = q[1] /\ Tail(q) \in Seq(Ack)
      /\ \A i \in 1..Len(Tail(q)) : Tail(q)[i] = q[i + 1] /\ i + 1 \in 1..Len(q)
  BY TailAt, RangeOfTail
<1>2. ASSUME NEW i \in 1..Len(Tail(q)), NEW j \in 1..Len(Tail(q)), i < j,
             Tail(q)[i].id = n, Tail(q)[j].id = n
      PROVE  Tail(q)[i].cmdNum < Tail(q)[j].cmdNum
  <2>1. /\ i + 1 \in 1..Len(q) /\ j + 1 \in 1..Len(q) /\ i + 1 < j + 1
        /\ Tail(q)[i] = q[i + 1] /\ Tail(q)[j] = q[j + 1]
    BY <1>1, <1>2
  <2> QED
    BY <1>2, <2>1 DEF Increasing
<1>3. ASSUME NEW x \in Range(Tail(q)), x.id = n, Head(q).id = n
      PROVE  Head(q).cmdNum < x.cmdNum
  <2>1. PICK i \in 1..Len(Tail(q)) : Tail(q)[i] = x
    <3>1. Tail(q) \in Seq(Ack)
      BY <1>1
    <3> QED
      BY <3>1, InRange
  <2>2. i + 1 \in 1..Len(q) /\ 1 \in 1..Len(q) /\ 1 < i + 1 /\ x = q[i + 1]
    BY <1>1, <2>1
  <2> QED
    BY <1>1, <1>3, <2>2 DEF Increasing
<1> QED
  BY <1>2, <1>3 DEF Increasing

LEMMA CutOrdered ==
  ASSUME NEW q \in Seq(Ack), NEW k \in 1..Len(q), NEW n, Increasing(q, n)
  PROVE  LET first == SubSeq(q, 1, k)
             rest == SubSeq(q, k + 1, Len(q))
         IN  Increasing(first, n) /\ Increasing(rest, n) /\ Precede(first, rest, n)
<1> DEFINE first == SubSeq(q, 1, k)
           rest == SubSeq(q, k + 1, Len(q))
<1>1. /\ Len(first) = k /\ Len(rest) = Len(q) - k /\ Len(q) \in Nat
      /\ first \in Seq(Ack) /\ rest \in Seq(Ack)
  BY Cut
<1>2. /\ \A i \in 1..k : first[i] = q[i]
      /\ \A i \in 1..(Len(q) - k) : rest[i] = q[k + i]
  BY Cut
<1> HIDE DEF first, rest
<1>3. Increasing(first, n)
  BY <1>1, <1>2 DEF Increasing
<1>4. Increasing(rest, n)
  <2> SUFFICES ASSUME NEW i \in 1..Len(rest), NEW j \in 1..Len(rest), i < j,
                      rest[i].id = n, rest[j].id = n
               PROVE  rest[i].cmdNum < rest[j].cmdNum
    BY DEF Increasing
  <2>1. /\ k + i \in 1..Len(q) /\ k + j \in 1..Len(q) /\ k + i < k + j
        /\ rest[i] = q[k + i] /\ rest[j] = q[k + j]
    BY <1>1, <1>2
  <2> QED
    BY <2>1 DEF Increasing
<1>5. Precede(first, rest, n)
  <2> SUFFICES ASSUME NEW x \in Range(first), NEW y \in Range(rest), x.id = n, y.id = n
               PROVE  x.cmdNum < y.cmdNum
    BY DEF Precede
  <2>1. PICK i \in 1..Len(first) : first[i] = x
    BY <1>1, InRange
  <2>2. PICK j \in 1..Len(rest) : rest[j] = y
    BY <1>1, InRange
  <2>3. i \in 1..Len(q) /\ k + j \in 1..Len(q) /\ i < k + j /\ x = q[i] /\ y = q[k + j]
    BY <1>1, <1>2, <2>1, <2>2
  <2> QED
    BY <2>3 DEF Increasing
<1> QED
  BY <1>3, <1>4, <1>5 DEF first, rest

LEMMA AcksOfOrdered ==
  ASSUME NEW r \in Request, NEW n
  PROVE  /\ Increasing(AcksOf(r), n)
         /\ \A x \in Range(AcksOf(r)) :
              /\ x.id = r.id /\ x.cmdNum >= 0
              /\ x.cmdNum > 0 => \E y \in Range(AcksOf(r)) : y.cmdNum = x.cmdNum - 1
<1> USE XL3CommandsAssumption
<1>1. /\ AcksOf(r) \in Seq(Ack) /\ Len(AcksOf(r)) = NumReads
      /\ \A i \in 1..NumReads :
           AcksOf(r)[i] = [num |-> r.num, cmdNum |-> i - 1, id |-> r.id]
  BY AcksOfType
<1>2. \A i \in 1..NumReads : AcksOf(r)[i].cmdNum = i - 1 /\ AcksOf(r)[i].id = r.id
  BY <1>1
<1> HIDE DEF AcksOf
<1>3. Increasing(AcksOf(r), n)
  BY <1>1, <1>2 DEF Increasing
<1>4. ASSUME NEW x \in Range(AcksOf(r))
      PROVE  /\ x.id = r.id /\ x.cmdNum >= 0
             /\ x.cmdNum > 0 => \E y \in Range(AcksOf(r)) : y.cmdNum = x.cmdNum - 1
  <2>1. PICK i \in 1..NumReads : AcksOf(r)[i] = x
    BY <1>1, InRange
  <2>2. x.id = r.id /\ x.cmdNum = i - 1
    BY <1>2, <2>1
  <2>3. ASSUME i > 1 PROVE \E y \in Range(AcksOf(r)) : y.cmdNum = x.cmdNum - 1
    <3>1. i - 1 \in 1..NumReads
      BY <2>3
    <3>2. AcksOf(r) \in Seq(Ack) /\ i - 1 \in 1..Len(AcksOf(r))
      BY <1>1, <3>1
    <3>3. AcksOf(r)[i - 1] \in Range(AcksOf(r))
      BY <3>2 DEF Range
    <3>4. AcksOf(r)[i - 1].cmdNum = x.cmdNum - 1
      BY <1>2, <2>2, <3>1
    <3> QED
      BY <3>3, <3>4
  <2> QED
    BY <2>2, <2>3
<1> QED
  BY <1>3, <1>4

-----------------------------------------------------------------------------
LEMMA QueueTypes ==
  ASSUME TypeOK
  PROVE  /\ fRecvCmdQueue \in Seq(Ack) /\ boardWork \in Seq(Ack) /\ fromBoard \in Seq(Packet)
         /\ \A i \in 1..Len(fromBoard) :
              /\ fromBoard[i] \in Range(fromBoard) /\ fromBoard[i].acks \in Seq(Ack)
              /\ Range(fromBoard[i].acks) \subseteq AcksDue
<1>1. fRecvCmdQueue \in Seq(Ack) /\ boardWork \in Seq(Ack) /\ fromBoard \in Seq(Packet)
  BY DEF TypeOK
<1>2. ASSUME NEW i \in 1..Len(fromBoard)
      PROVE  /\ fromBoard[i] \in Range(fromBoard) /\ fromBoard[i].acks \in Seq(Ack)
             /\ Range(fromBoard[i].acks) \subseteq AcksDue
  <2>1. fromBoard[i] \in Range(fromBoard) /\ fromBoard[i] \in Packet
    BY <1>1, ElementOfSeq DEF Range
  <2>2. fromBoard[i].acks \in Seq(Ack)
    BY <2>1 DEF Packet
  <2> QED
    BY <2>1, <2>2, InAcksDue
<1> QED
  BY <1>1, <1>2

\* The number of an own acknowledgement is the one GetMultiFCResults waits for.
LEMMA OwnIsExpected ==
  ASSUME NumInv, sent > 0, NumberIsPassed, NEW a \in AcksDue, a.id = sent
  PROVE  a.num = ExpectedNum
<1> USE XL3CommandsAssumption
<1>1. /\ fCommandNum \in 0..(NumMod - 1) /\ sent \in Nat /\ NumMod \in Nat \ {0}
      /\ a \in UnderWay
  BY DEF NumInv, TypeOK, UnderWay
<1>2. request.num = NumberOf(sent) /\ a.num = NumberOf(sent)
  <2>1. sent - a.id < NumMod
    BY <1>1
  <2> QED
    BY <1>1, <2>1 DEF NumInv, RequestIsLatest, NumbersKnown
<1>3. CASE request.type = "queue"
  <2>1. NumberOf(sent) # NumMod - 1
    BY <1>2, <1>3 DEF NumberIsPassed
  <2>2. NumberOf(sent) = fCommandNum - 1
    BY <1>1, <2>1 DEF NumberOf
  <2> QED
    BY <1>2, <1>3, <2>2 DEF ExpectedNum
<1>4. CASE request.type # "queue"
  BY <1>2, <1>4 DEF ExpectedNum
<1> QED
  BY <1>3, <1>4

\* An own acknowledgement that is found first comes before all the others.
LEMMA HeadIsFirst ==
  ASSUME NumInv, AcksOrdered, TakeAck, Head(fRecvCmdQueue).id = sent,
         NEW x \in AcksDue', x.id = sent
  PROVE  Head(fRecvCmdQueue).cmdNum < x.cmdNum
<1> DEFINE a == Head(fRecvCmdQueue)
<1>1. /\ fRecvCmdQueue \in Seq(Ack) /\ fRecvCmdQueue # <<>>
      /\ fRecvCmdQueue' = Tail(fRecvCmdQueue) /\ UNCHANGED <<fromBoard, boardWork>>
      /\ fromBoard \in Seq(Packet)
  BY DEF NumInv, TypeOK, TakeAck, wire
<1>2. a \in Range(fRecvCmdQueue)
  BY <1>1, RangeOfTail
<1>3. CASE x \in Range(Tail(fRecvCmdQueue))
  BY <1>1, <1>3, TailOrdered DEF AcksOrdered
<1>4. CASE x \in Range(boardWork)
  BY <1>2, <1>4 DEF AcksOrdered, Precede
<1>5. ASSUME NEW p \in Range(fromBoard), x \in Range(p.acks)
      PROVE  a.cmdNum < x.cmdNum
  <2>1. PICK i \in 1..Len(fromBoard) : fromBoard[i] = p
    BY <1>1, InRange
  <2>2. Precede(fRecvCmdQueue, p.acks, sent)
    BY <2>1 DEF AcksOrdered
  <2> QED
    BY <1>2, <1>5, <2>2 DEF Precede
<1> QED
  BY <1>1, <1>3, <1>4, <1>5, InAcksDueNext

\* The acknowledgement found is the one expected, when it is the command's own.
LEMMA OwnIsNext ==
  ASSUME NumInv, AckInv, TakeAck, NumberIsPassed, Head(fRecvCmdQueue).id = sent
  PROVE  Head(fRecvCmdQueue).cmdNum = tries
<1> DEFINE a == Head(fRecvCmdQueue)
<1>1. /\ pc = "acks" /\ a \in AcksDue /\ AcksDue \subseteq AcksDue' \cup {a}
  BY TakeAckDue DEF NumInv, TakeAck
<1>2. a.cmdNum \in Int /\ tries \in Int
  BY <1>1, DueType DEF NumInv, TypeOK, Ack
<1>3. a.cmdNum >= tries
  BY <1>1 DEF AckInv, NoneMissing, NextRead
<1>4. CASE a.cmdNum > tries
  <2>1. PICK y \in AcksDue : y.id = sent /\ y.cmdNum = a.cmdNum - 1
    BY <1>1, <1>4 DEF AckInv, NoneMissing, NextRead
  <2>2. y # a
    BY <1>2, <2>1
  <2>3. a.cmdNum < y.cmdNum
    BY <1>1, <2>1, <2>2, HeadIsFirst DEF AckInv
  <2> QED
    BY <1>2, <2>1, <2>3
<1> QED
  BY <1>2, <1>3, <1>4

LEMMA SendAcks ==
  ASSUME NumInv, NEW kind \in Kinds, Send(kind)
  PROVE  AckInv'
<1>1. TypeOK /\ TypeOK'
  BY TypeStep DEF NumInv, Next
<1>2. sent \in Nat /\ sent' = sent + 1 /\ UNCHANGED <<fRecvCmdQueue, boardWork, fromBoard>>
      /\ AcksDue' = AcksDue
  <2>1. sent \in Nat
    BY <1>1 DEF TypeOK
  <2>2. sent' = sent + 1 /\ AcksDue' = AcksDue
    BY SendNumbers
  <2>3. UNCHANGED <<fRecvCmdQueue, boardWork, fromBoard>>
    BY DEF Send, queues
  <2> QED
    BY <2>1, <2>2, <2>3
<1>3. \A x \in AcksDue : x.id # sent'
  <2>1. \A x \in AcksDue : x.id <= sent /\ x.id \in Nat
    BY <1>1, DueType DEF NumInv, NumbersKnown, UnderWay, Identities
  <2> QED
    BY <1>2, <2>1
<1>4. AcksOrdered'
  <2>1. \A q \in Seq(Ack) : Range(q) \subseteq AcksDue =>
          Increasing(q, sent') /\ \A r : Precede(q, r, sent') /\ Precede(r, q, sent')
    BY <1>3, NoneOwnOrdered
  <2>2. Range(fRecvCmdQueue) \subseteq AcksDue /\ Range(boardWork) \subseteq AcksDue
    BY InAcksDue
  <2> QED
    BY <1>1, <1>2, <2>1, <2>2, QueueTypes DEF AcksOrdered
<1> QED
  BY <1>2, <1>3, <1>4 DEF AckInv, NotYetQueued, NoneMissing

LEMMA TakeAckAcks ==
  ASSUME NumInv, NoneARoundBehind, AckInv, TakeAck
  PROVE  AckInv'
<1> DEFINE a == Head(fRecvCmdQueue)
<1>1. TypeOK /\ PacketsSorted /\ pc = "acks" /\ sent > 0
  BY DEF NumInv, TakeAck, RequestIsLatest
<1>2. /\ fRecvCmdQueue \in Seq(Ack) /\ fRecvCmdQueue # <<>>
      /\ fRecvCmdQueue' = Tail(fRecvCmdQueue)
      /\ UNCHANGED <<fromBoard, boardWork, toBoard, sent, request, fCommandNum>>
      /\ tries \in Nat
  <2>1. fRecvCmdQueue \in Seq(Ack) /\ tries \in Nat
    BY <1>1 DEF TypeOK
  <2> QED
    BY <2>1 DEF TakeAck, wire
<1>3. a \in AcksDue /\ AcksDue' \subseteq AcksDue /\ AcksDue \subseteq AcksDue' \cup {a}
  BY <1>1, TakeAckDue
<1>4. AcksOrdered'
  <2>1. Range(Tail(fRecvCmdQueue)) \subseteq Range(fRecvCmdQueue)
    BY <1>2, RangeOfTail
  <2>2. Increasing(Tail(fRecvCmdQueue), sent)
    BY <1>2, TailOrdered DEF AckInv, AcksOrdered
  <2>3. \A r : Precede(fRecvCmdQueue, r, sent) => Precede(Tail(fRecvCmdQueue), r, sent)
    BY <2>1 DEF Precede
  <2> QED
    BY <1>2, <2>2, <2>3 DEF AckInv, AcksOrdered
<1>5. NotYetQueued'
  BY <1>2, <1>3 DEF AckInv, NotYetQueued
<1>6. NoneMissing'
  <2> SUFFICES ASSUME pc' # "idle", NumberIsPassed, NEW x \in AcksDue', x.id = sent
               PROVE  /\ x.cmdNum >= NextRead'
                      /\ x.cmdNum > NextRead' =>
                           \E y \in AcksDue' : y.id = sent /\ y.cmdNum = x.cmdNum - 1
    BY <1>2 DEF NoneMissing, NumberIsPassed
  <2>1. pc' = "acks" /\ NextRead' = tries' /\ NextRead = tries
    BY <1>1 DEF TakeAck, End, NextRead
  <2>2. /\ x \in AcksDue /\ x.cmdNum \in Int /\ x.cmdNum >= tries
        /\ x.cmdNum > tries => \E y \in AcksDue : y.id = sent /\ y.cmdNum = x.cmdNum - 1
    <3>1. x \in AcksDue /\ x.cmdNum \in Int
      BY <1>1, <1>3, DueType DEF Ack
    <3> QED
      BY <1>1, <2>1, <3>1 DEF AckInv, NoneMissing
  <2>3. CASE a.num # ExpectedNum
    <3>1. a.id # sent
      BY <1>1, <1>3, <2>3, OwnIsExpected
    <3>2. tries' = tries
      BY <2>3 DEF TakeAck
    <3> QED
      BY <1>3, <2>1, <2>2, <3>1, <3>2
  <2>4. CASE a.num = ExpectedNum
    <3>1. a.cmdNum = tries /\ tries' = tries + 1
      BY <2>1, <2>4 DEF TakeAck, End
    <3>2. a.id = sent
      BY <1>1, <1>3, <2>4, ExpectedIsOwn, NumberIdentifies DEF NumInv, RequestIsLatest
    <3>3. x.cmdNum >= tries'
      BY <1>2, <2>2, <3>1, <3>2, HeadIsFirst DEF AckInv
    <3>4. ASSUME x.cmdNum > tries'
          PROVE  \E y \in AcksDue' : y.id = sent /\ y.cmdNum = x.cmdNum - 1
      <4>1. PICK y \in AcksDue : y.id = sent /\ y.cmdNum = x.cmdNum - 1
        BY <1>2, <2>2, <3>1, <3>4
      <4>2. y # a
        BY <1>2, <2>2, <3>1, <3>4, <4>1
      <4> QED
        BY <1>3, <4>1, <4>2
    <3> QED
      BY <2>1, <3>3, <3>4
  <2> QED
    BY <2>3, <2>4
<1> QED
  BY <1>4, <1>5, <1>6 DEF AckInv

LEMMA BoardAnswersAcks ==
  ASSUME NumInv, StepInv, AckInv, BoardAnswers
  PROVE  AckInv'
<1> DEFINE r == Head(toBoard)
<1>1. TypeOK /\ PacketsSorted
  BY DEF NumInv
<1>2. /\ toBoard # <<>> /\ UNCHANGED <<fRecvCmdQueue, sent, request, pc, tries>>
  BY DEF BoardAnswers, queues, client
<1>3. /\ r \in Request /\ r \in Range(toBoard) /\ Range(toBoard') \subseteq Range(toBoard)
      /\ \/ AcksDue' = AcksDue \cup Range(AcksOf(r))
         \/ AcksDue' = AcksDue
  BY <1>1, BoardAnswersDue
<1>4. /\ fromBoard' = fromBoard \/ fromBoard' = Append(fromBoard, AnswerTo(r))
      /\ boardWork' = boardWork \/ boardWork' = boardWork \o AcksOf(r)
  BY DEF BoardAnswers, AnswerTo, AcksOf
<1>5. r.id = sent => toBoard' = <<>>
  <2>1. /\ Len(Tail(toBoard)) = Len(toBoard) - 1 /\ Len(toBoard) \in Nat \ {0}
        /\ r = toBoard[1] /\ Tail(toBoard) \in Seq(Request) /\ toBoard' = Tail(toBoard)
    BY <1>1, <1>2, TailAt, RangeOfTail DEF TypeOK, BoardAnswers
  <2>2. 1 \in 1..Len(toBoard)
    BY <2>1
  <2>3. toBoard[1].id = sent => 1 = Len(toBoard)
    BY <2>2 DEF StepInv, LastToBoard
  <2>4. r.id = sent => Len(Tail(toBoard)) = 0
    BY <2>1, <2>3
  <2> QED
    BY <2>1, <2>4, EmptySeq
<1> HIDE DEF r
<1>6. /\ AcksOf(r) \in Seq(Ack) /\ Increasing(AcksOf(r), sent)
      /\ \A x \in Range(AcksOf(r)) :
           /\ x.id = r.id /\ x.cmdNum >= 0
           /\ x.cmdNum > 0 => \E y \in Range(AcksOf(r)) : y.cmdNum = x.cmdNum - 1
      /\ AnswerTo(r) \in Packet /\ AnswerTo(r).acks = <<>>
  BY <1>3, AcksOfType, AcksOfOrdered DEF AnswerTo
<1>7. r.id = sent => \A x \in AcksDue : x.id # sent
  BY <1>3 DEF AckInv, NotYetQueued
<1>8. \A q \in Seq(Ack) : Range(q) \subseteq AcksDue => Precede(q, AcksOf(r), sent)
  BY <1>6, <1>7 DEF Precede
<1>9. AcksOrdered'
  <2>1. Range(fRecvCmdQueue) \subseteq AcksDue /\ Range(boardWork) \subseteq AcksDue
    BY InAcksDue
  <2>2. Increasing(boardWork', sent)
    <3>1. Increasing(boardWork \o AcksOf(r), sent)
      BY <1>1, <1>6, <1>8, <2>1, ConcatOrdered, QueueTypes DEF AckInv, AcksOrdered
    <3> QED
      BY <1>4, <3>1 DEF AckInv, AcksOrdered
  <2>3. \A q \in Seq(Ack) : Range(q) \subseteq AcksDue /\ Precede(q, boardWork, sent)
                            => Precede(q, boardWork', sent)
    <3>1. \A q \in Seq(Ack) : Range(q) \subseteq AcksDue /\ Precede(q, boardWork, sent)
                              => Precede(q, boardWork \o AcksOf(r), sent)
      BY <1>1, <1>6, <1>8, JoinedOrdered, QueueTypes
    <3> QED
      BY <1>4, <3>1
  <2>4. Precede(fRecvCmdQueue, boardWork', sent)
    BY <1>1, <2>1, <2>3, QueueTypes DEF AckInv, AcksOrdered
  <2>5. ASSUME NEW i \in 1..Len(fromBoard')
        PROVE  \/ i \in 1..Len(fromBoard) /\ fromBoard'[i] = fromBoard[i]
               \/ fromBoard'[i].acks = <<>>
    <3>1. fromBoard \in Seq(Packet) /\ AnswerTo(r) \in Packet
      BY <1>1, <1>6 DEF TypeOK
    <3> QED
      BY <1>4, <1>6, <2>5, <3>1, AppendAt
  <2>6. ASSUME NEW i \in 1..Len(fromBoard')
        PROVE  /\ Increasing(fromBoard'[i].acks, sent)
               /\ Precede(fRecvCmdQueue, fromBoard'[i].acks, sent)
               /\ Precede(fromBoard'[i].acks, boardWork', sent)
    <3>1. CASE fromBoard'[i].acks = <<>>
      BY <3>1, EmptyOrdered
    <3>2. CASE i \in 1..Len(fromBoard) /\ fromBoard'[i] = fromBoard[i]
      BY <1>1, <2>3, <3>2, QueueTypes DEF AckInv, AcksOrdered
    <3> QED
      BY <2>5, <3>1, <3>2
  <2>7. ASSUME NEW i \in 1..Len(fromBoard'), NEW j \in 1..Len(fromBoard'), i < j
        PROVE  Precede(fromBoard'[i].acks, fromBoard'[j].acks, sent)
    <3>1. CASE fromBoard'[i].acks = <<>> \/ fromBoard'[j].acks = <<>>
      BY <3>1, EmptyOrdered
    <3>2. CASE /\ i \in 1..Len(fromBoard) /\ fromBoard'[i] = fromBoard[i]
               /\ j \in 1..Len(fromBoard) /\ fromBoard'[j] = fromBoard[j]
      BY <2>7, <3>2 DEF AckInv, AcksOrdered
    <3> QED
      BY <2>5, <3>1, <3>2
  <2> QED
    BY <1>2, <2>2, <2>4, <2>6, <2>7 DEF AckInv, AcksOrdered
<1>10. NotYetQueued'
  <2> SUFFICES ASSUME NEW s \in Range(toBoard'), s.id = sent, NEW x \in AcksDue'
               PROVE  x.id # sent
    BY <1>2 DEF NotYetQueued
  <2>1. r.id # sent
    <3>1. Range(<<>>) = {}
      BY DEF Range
    <3> QED
      BY <1>5, <3>1
  <2>2. \A y \in AcksDue : y.id # sent
    BY <1>3 DEF AckInv, NotYetQueued
  <2> QED
    BY <1>3, <1>6, <2>1, <2>2
<1>11. NoneMissing'
  <2> SUFFICES ASSUME pc # "idle", NumberIsPassed, NEW x \in AcksDue', x.id = sent
               PROVE  /\ x.cmdNum >= NextRead
                      /\ x.cmdNum > NextRead =>
                           \E y \in AcksDue' : y.id = sent /\ y.cmdNum = x.cmdNum - 1
    BY <1>2 DEF NoneMissing, NumberIsPassed, NextRead
  <2>1. NextRead = 0
    BY <1>2 DEF StepInv, Drained, Answered, NextRead
  <2>2. CASE x \in AcksDue
    BY <1>3, <2>2 DEF AckInv, NoneMissing
  <2>3. CASE x \in Range(AcksOf(r)) /\ AcksDue' = AcksDue \cup Range(AcksOf(r))
    BY <1>6, <2>1, <2>3
  <2> QED
    BY <1>3, <2>2, <2>3
<1> QED
  BY <1>9, <1>10, <1>11 DEF AckInv

LEMMA BoardAcknowledgesAcks ==
  ASSUME NumInv, AckInv, BoardAcknowledges
  PROVE  AckInv'
<1>1. TypeOK /\ PacketsSorted
  BY DEF NumInv
<1>2. PICK n \in 1..Len(boardWork) :
        /\ fromBoard' = Append(fromBoard, AcksPacket(n))
        /\ boardWork' = SubSeq(boardWork, n + 1, Len(boardWork))
  BY DEF BoardAcknowledges, AcksPacket
<1>3. UNCHANGED <<fRecvCmdQueue, toBoard, sent, request, pc, tries>>
  BY DEF BoardAcknowledges, queues, client
<1>4. AcksDue' = AcksDue
  BY <1>1, BoardAcknowledgesDue
<1> DEFINE first == SubSeq(boardWork, 1, n)
<1>5. boardWork \in Seq(Ack) /\ Increasing(boardWork, sent)
  BY <1>1, QueueTypes DEF AckInv, AcksOrdered
<1>6. Increasing(first, sent) /\ Increasing(boardWork', sent) /\ Precede(first, boardWork', sent)
  BY <1>2, <1>5, CutOrdered
<1>7. Range(first) \subseteq Range(boardWork) /\ Range(boardWork') \subseteq Range(boardWork)
  BY <1>2, <1>5, Cut
<1>8. \A q : Precede(q, boardWork, sent)
             => Precede(q, boardWork', sent) /\ Precede(q, first, sent)
  BY <1>7 DEF Precede
<1>9. AcksPacket(n) \in Packet /\ AcksPacket(n).acks = first
  BY <1>1, AcksPacketType DEF AcksPacket
<1> HIDE DEF first
<1>10. /\ Len(fromBoard') = Len(fromBoard) + 1 /\ Len(fromBoard) \in Nat
       /\ fromBoard'[Len(fromBoard) + 1].acks = first
       /\ \A i \in 1..Len(fromBoard) : fromBoard'[i] = fromBoard[i]
  <2>1. fromBoard \in Seq(Packet)
    BY <1>1 DEF TypeOK
  <2> QED
    BY <1>2, <1>9, <2>1, AppendAt
<1>11. \A i \in 1..Len(fromBoard') : i \in 1..Len(fromBoard) \/ i = Len(fromBoard) + 1
  BY <1>10
<1>12. AcksOrdered'
  <2>1. Increasing(boardWork', sent) /\ Precede(fRecvCmdQueue, boardWork', sent)
    BY <1>6, <1>8 DEF AckInv, AcksOrdered
  <2>2. ASSUME NEW i \in 1..Len(fromBoard')
        PROVE  /\ Increasing(fromBoard'[i].acks, sent)
               /\ Precede(fRecvCmdQueue, fromBoard'[i].acks, sent)
               /\ Precede(fromBoard'[i].acks, boardWork', sent)
    <3>1. CASE i \in 1..Len(fromBoard)
      BY <1>8, <1>10, <3>1 DEF AckInv, AcksOrdered
    <3>2. CASE i = Len(fromBoard) + 1
      BY <1>6, <1>8, <1>10, <3>2 DEF AckInv, AcksOrdered
    <3> QED
      BY <1>11, <3>1, <3>2
  <2>3. ASSUME NEW i \in 1..Len(fromBoard'), NEW j \in 1..Len(fromBoard'), i < j
        PROVE  Precede(fromBoard'[i].acks, fromBoard'[j].acks, sent)
    <3>1. i \in 1..Len(fromBoard)
      BY <1>10, <2>3
    <3>2. CASE j \in 1..Len(fromBoard)
      BY <1>10, <2>3, <3>1, <3>2 DEF AckInv, AcksOrdered
    <3>3. CASE j = Len(fromBoard) + 1
      BY <1>8, <1>10, <3>1, <3>3 DEF AckInv, AcksOrdered
    <3> QED
      BY <1>11, <3>2, <3>3
  <2> QED
    BY <1>3, <1>5, <2>1, <2>2, <2>3 DEF AckInv, AcksOrdered
<1>13. NotYetQueued' /\ NoneMissing'
  BY <1>3, <1>4 DEF AckInv, NotYetQueued, NoneMissing, NumberIsPassed, NextRead
<1> QED
  BY <1>12, <1>13 DEF AckInv

LEMMA ProcessPacketAcks ==
  ASSUME NumInv, AckInv, ProcessPacket
  PROVE  AckInv'
<1> DEFINE p == Head(fromBoard)
<1>1. TypeOK /\ PacketsSorted
  BY DEF NumInv
<1>2. UNCHANGED <<boardWork, toBoard, sent, request, pc, tries>>
      /\ fromBoard' = Tail(fromBoard) /\ fromBoard # <<>>
  BY DEF ProcessPacket, client
<1>3. AcksDue' = AcksDue
  BY <1>1, ProcessPacketDue
<1>4. /\ Len(fromBoard) \in Nat \ {0} /\ Len(Tail(fromBoard)) = Len(fromBoard) - 1
      /\ p = fromBoard[1]
      /\ \A i \in 1..Len(Tail(fromBoard)) :
           Tail(fromBoard)[i] = fromBoard[i + 1] /\ i + 1 \in 1..Len(fromBoard)
  BY <1>1, <1>2, QueueTypes, TailAt
<1>5. 1 \in 1..Len(fromBoard)
  BY <1>4
<1>6. fRecvCmdQueue' = fRecvCmdQueue \/ fRecvCmdQueue' = fRecvCmdQueue \o p.acks
  BY DEF ProcessPacket
<1>7. /\ p.acks \in Seq(Ack) /\ Increasing(p.acks, sent)
      /\ Precede(fRecvCmdQueue, p.acks, sent) /\ Precede(p.acks, boardWork, sent)
      /\ fRecvCmdQueue \in Seq(Ack)
  BY <1>1, <1>4, <1>5, QueueTypes DEF AckInv, AcksOrdered
<1> HIDE DEF p
<1>8. Increasing(fRecvCmdQueue', sent)
  <2>1. Increasing(fRecvCmdQueue \o p.acks, sent)
    BY <1>7, ConcatOrdered DEF AckInv, AcksOrdered
  <2> QED
    BY <1>6, <2>1 DEF AckInv, AcksOrdered
<1>9. \A q : Precede(fRecvCmdQueue, q, sent) /\ Precede(p.acks, q, sent)
             => Precede(fRecvCmdQueue', q, sent)
  <2>1. \A q : Precede(fRecvCmdQueue, q, sent) /\ Precede(p.acks, q, sent)
               => Precede(fRecvCmdQueue \o p.acks, q, sent)
    BY <1>7, JoinedOrdered
  <2> QED
    BY <1>6, <2>1
<1>10. AcksOrdered'
  <2>1. Precede(fRecvCmdQueue', boardWork, sent)
    BY <1>7, <1>9 DEF AckInv, AcksOrdered
  <2>2. ASSUME NEW i \in 1..Len(Tail(fromBoard))
        PROVE  /\ Increasing(Tail(fromBoard)[i].acks, sent)
               /\ Precede(fRecvCmdQueue', Tail(fromBoard)[i].acks, sent)
               /\ Precede(Tail(fromBoard)[i].acks, boardWork, sent)
    <3>1. Tail(fromBoard)[i] = fromBoard[i + 1] /\ i + 1 \in 1..Len(fromBoard) /\ 1 < i + 1
      BY <1>4
    <3>2. Precede(p.acks, fromBoard[i + 1].acks, sent)
      BY <1>4, <1>5, <3>1 DEF AckInv, AcksOrdered
    <3> QED
      BY <1>9, <3>1, <3>2 DEF AckInv, AcksOrdered
  <2>3. ASSUME NEW i \in 1..Len(Tail(fromBoard)), NEW j \in 1..Len(Tail(fromBoard)), i < j
        PROVE  Precede(Tail(fromBoard)[i].acks, Tail(fromBoard)[j].acks, sent)
    <3>1. /\ Tail(fromBoard)[i] = fromBoard[i + 1] /\ i + 1 \in 1..Len(fromBoard)
          /\ Tail(fromBoard)[j] = fromBoard[j + 1] /\ j + 1 \in 1..Len(fromBoard)
          /\ i + 1 < j + 1
      BY <1>4, <2>3
    <3> QED
      BY <3>1 DEF AckInv, AcksOrdered
  <2> QED
    BY <1>2, <1>8, <2>1, <2>2, <2>3 DEF AckInv, AcksOrdered
<1>11. NotYetQueued' /\ NoneMissing'
  BY <1>2, <1>3 DEF AckInv, NotYetQueued, NoneMissing, NumberIsPassed, NextRead
<1> QED
  BY <1>10, <1>11 DEF AckInv

\* What Reconnect loses comes after everything it leaves.
LEMMA ReconnectAcks ==
  ASSUME NumInv, AckInv, Reconnect
  PROVE  AckInv'
<1>1. TypeOK /\ PacketsSorted
  BY DEF NumInv
<1>2. /\ toBoard' = <<>> /\ fromBoard' = <<>> /\ boardWork' = <<>> /\ Len(<<>>) = 0
      /\ UNCHANGED <<fRecvCmdQueue, sent, request, pc, tries>>
  BY DEF Reconnect, queues, client
<1>3. AcksDue' = Range(fRecvCmdQueue) /\ AcksDue' \subseteq AcksDue
  BY <1>1, ReconnectDue
<1>4. AcksOrdered'
  BY <1>2, EmptyOrdered DEF AckInv, AcksOrdered
<1>5. NotYetQueued'
  <2>1. Range(<<>>) = {}
    BY DEF Range
  <2> QED
    BY <1>2, <2>1 DEF NotYetQueued
<1>6. NoneMissing'
  <2> SUFFICES ASSUME pc # "idle", NumberIsPassed, NEW x \in Range(fRecvCmdQueue), x.id = sent
               PROVE  /\ x.cmdNum >= NextRead
                      /\ x.cmdNum > NextRead =>
                           \E y \in Range(fRecvCmdQueue) : y.id = sent /\ y.cmdNum = x.cmdNum - 1
    BY <1>2, <1>3 DEF NoneMissing, NumberIsPassed, NextRead
  <2>1. /\ x \in AcksDue /\ x.cmdNum >= NextRead
        /\ x.cmdNum > NextRead => \E y \in AcksDue : y.id = sent /\ y.cmdNum = x.cmdNum - 1
    BY <1>3 DEF AckInv, NoneMissing
  <2>2. ASSUME NEW y \in AcksDue, y.id = sent, y.cmdNum = x.cmdNum - 1
        PROVE  y \in Range(fRecvCmdQueue)
    <3>1. x.cmdNum \in Int /\ ~(x.cmdNum < y.cmdNum)
      <4>1. x.cmdNum \in Int
        BY <1>1, <2>1, DueType DEF Ack
      <4> QED
        BY <2>2, <4>1
    <3>2. y \notin Range(boardWork)
      BY <2>2, <3>1 DEF AckInv, AcksOrdered, Precede
    <3>3. ASSUME NEW p \in Range(fromBoard), y \in Range(p.acks) PROVE FALSE
      <4>1. PICK i \in 1..Len(fromBoard) : fromBoard[i] = p
        BY <1>1, QueueTypes, InRange
      <4>2. Precede(fRecvCmdQueue, p.acks, sent)
        BY <4>1 DEF AckInv, AcksOrdered
      <4> QED
        BY <2>2, <3>1, <3>3, <4>2 DEF Precede
    <3> QED
      BY <3>2, <3>3, InAcksDue
  <2> QED
    BY <2>1, <2>2
<1> QED
  BY <1>4, <1>5, <1>6 DEF AckInv

LEMMA AckStep ==
  ASSUME NumInv, NoneARoundBehind, StepInv, AckInv, [Next]_vars
  PROVE  AckInv'
<1>1. CASE TakePacket \/ Block \/ TimeOut
  <2>1. /\ UNCHANGED <<toBoard, fromBoard, boardWork, fRecvCmdQueue, sent, request>>
        /\ pc' # "idle" => pc # "idle" /\ NextRead' = NextRead
    BY <1>1 DEF TakePacket, Block, TimeOut, End, NextRead, wire, queues
  <2>2. AcksDue' = AcksDue
    BY <2>1 DEF AcksDue
  <2>3. AcksOrdered' /\ NotYetQueued'
    BY <2>1, <2>2 DEF AckInv, AcksOrdered, NotYetQueued
  <2>4. NoneMissing'
    BY <2>1, <2>2 DEF AckInv, NoneMissing, NumberIsPassed
  <2> QED
    BY <2>3, <2>4 DEF AckInv
<1>2. CASE UNCHANGED vars
  <2>1. UNCHANGED <<toBoard, fromBoard, boardWork, fRecvCmdQueue, sent, request, pc, tries>>
    BY <1>2 DEF vars, wire, queues, client
  <2>2. AcksDue' = AcksDue
    BY <2>1 DEF AcksDue
  <2> QED
    BY <2>1, <2>2
       DEF AckInv, AcksOrdered, NotYetQueued, NoneMissing, NumberIsPassed, NextRead
<1> QED
  BY <1>1, <1>2, SendAcks, TakeAckAcks, BoardAnswersAcks, BoardAcknowledgesAcks,
     ProcessPacketAcks, ReconnectAcks DEF Next, ClientStep

LEMMA AckInit == Init => AckInv
<1> SUFFICES ASSUME Init PROVE AckInv
  OBVIOUS
<1>1. Range(<<>>) = {} /\ Len(<<>>) = 0
  BY DEF Range
<1>2. AcksOrdered
  BY <1>1, EmptyOrdered DEF Init, AcksOrdered
<1> QED
  BY <1>1, <1>2 DEF Init, AckInv, NotYetQueued, NoneMissing

LEMMA AckInductive == Spec /\ []NoneARoundBehind => []AckInv
  BY AckInit, AckStep, NumInductive, InStepInductive, PTL DEF Spec

\* GetMultiFCResults keeps every acknowledgement of its own command, in whatever way
\* the board groups them and the connection is lost, unless it was passed
\* GetLastCommandNum at the wrap (GetMultiFCResults, XL3Model.cpp).
THEOREM SpecOwnAcksAreKept == Spec /\ []NoneARoundBehind => OwnAcksAreKept
<1> DEFINE Keeps ==
      TakeAck /\ Head(fRecvCmdQueue).id = request.id
        => \/ received' = Append(received, request.id)
           \/ request.type = "queue" /\ request.num = NumMod - 1
<1>1. NumInv /\ AckInv /\ [Next]_vars => [Keeps]_vars
  <2> SUFFICES ASSUME NumInv, AckInv, TakeAck, Head(fRecvCmdQueue).id = request.id,
                      NumberIsPassed
               PROVE  received' = Append(received, request.id)
    BY DEF NumberIsPassed
  <2>1. sent > 0 /\ request.id = sent
    BY DEF NumInv, RequestIsLatest, TakeAck
  <2>2. Head(fRecvCmdQueue) \in AcksDue
    BY TakeAckDue DEF NumInv
  <2>3. Head(fRecvCmdQueue).num = ExpectedNum
    BY <2>1, <2>2, OwnIsExpected
  <2>4. Head(fRecvCmdQueue).cmdNum = tries
    BY <2>1, OwnIsNext
  <2> QED
    BY <2>3, <2>4 DEF TakeAck
<1> QED
  BY <1>1, NumInductive, AckInductive, PTL DEF Spec, OwnAcksAreKept
=============================================================================
