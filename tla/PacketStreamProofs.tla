------------------------ MODULE PacketStreamProofs ------------------------
(***************************************************************************)
(* For packets of any length, and any number of them and of losses of the  *)
(* link: the bytes of a link keep to their types, and RecvCallback         *)
(* delivers the packets that were sent.  The argument of the second is     *)
(* about the stream of all bytes sent and not yet delivered, wherever they *)
(* are: it is whole packets in order, reading and keeping do not change    *)
(* it, and what is delivered is the packet at its front.                   *)
(***************************************************************************)
EXTENDS PacketStream, SequenceTheorems, TLAPS

(* What is cut off a sequence of bytes, and what remains. *)
LEMMA CutOff ==
  ASSUME NEW S, NEW s \in Seq(S), NEW n \in 0 .. Len(s)
  PROVE  /\ First(n, s) \in Seq(S)
         /\ Rest(n, s) \in Seq(S)
         /\ n > 0 => First(n, s) # <<>>
<1>1. \A i \in 1 .. n : s[i] \in S
  OBVIOUS
<1>2. \A i \in (n + 1) .. Len(s) : s[i] \in S
  OBVIOUS
<1>3. First(n, s) \in Seq(S) /\ Len(First(n, s)) = n
  BY <1>1, SubSeqProperties DEF First
<1>4. Rest(n, s) \in Seq(S)
  BY <1>2, SubSeqProperties DEF Rest
<1> QED
  BY <1>3, <1>4

LEMMA InitTypeOK == Init => TypeOK
<1> SUFFICES ASSUME Init PROVE TypeOK
  OBVIOUS
<1>1. \A S : <<>> \in Seq(S)
  OBVIOUS
<1>2. length = <<>> /\ Len(length) = 0
  BY DEF Init
<1>3. length \in Seq(IF peer = "xl3" THEN {Size} ELSE Lengths)
  BY <1>1, <1>2
<1>4. wire \in Seq(Bytes) /\ input \in Seq(Bytes) /\ temp \in Seq(Bytes)
  BY <1>1 DEF Init
<1>5. delivered \in Seq(Seq(Bytes))
  BY <1>1 DEF Init
<1>6. Sent <= MaxPackets /\ losses \in 0 .. MaxLosses
  BY <1>2, PacketStreamAssumption DEF Init, Sent
<1>7. /\ peer \in {"xl3", "sbc"} /\ fBytesLeft = 0 /\ temp = <<>>
      /\ hung \in BOOLEAN /\ cut \in BOOLEAN
  BY DEF Init
<1> QED
  BY <1>3, <1>4, <1>5, <1>6, <1>7 DEF TypeOK

(* A packet more: its number is new, and so are its bytes. *)
LEMMA SendTypeOK ==
  ASSUME TypeOK, Send
  PROVE  TypeOK'
<1>1. PICK n \in (IF peer = "xl3" THEN {Size} ELSE Lengths) :
         /\ length' = Append(length, n)
         /\ wire' = wire \o [i \in 1 .. n |-> [packet |-> Sent + 1, at |-> i]]
  BY DEF Send
<1>2. n \in Nat
  BY PacketStreamAssumption
<1>3. /\ length' \in Seq(IF peer = "xl3" THEN {Size} ELSE Lengths)
      /\ Sent' = Sent + 1 /\ Sent \in Nat /\ Sent' <= MaxPackets
  BY <1>1, PacketStreamAssumption DEF TypeOK, Send, Sent
<1>4. Bytes \subseteq Bytes'
  BY <1>3 DEF Bytes
<1>5. Seq(Bytes) \subseteq Seq(Bytes') /\ Seq(Seq(Bytes)) \subseteq Seq(Seq(Bytes'))
  BY <1>4
<1>6. [i \in 1 .. n |-> [packet |-> Sent + 1, at |-> i]] \in Seq(Bytes')
  BY <1>2, <1>3 DEF Bytes
<1>7. wire' \in Seq(Bytes')
  BY <1>1, <1>5, <1>6, ConcatProperties DEF TypeOK
<1> QED
  BY <1>3, <1>5, <1>7 DEF TypeOK, Send

(* The other steps send nothing: the bytes they move are those there were. *)
LEMMA EventLoopTypeOK ==
  ASSUME TypeOK, EventLoop
  PROVE  TypeOK'
<1>1. UNCHANGED <<peer, length, losses>>
  BY DEF EventLoop, Read, TakePacket, CompletePacket, KeepMore
<1>2. Bytes' = Bytes /\ Sent' = Sent
  BY <1>1 DEF Bytes, Sent
<1>3. CASE Read
  BY <1>1, <1>2, <1>3, CutOff DEF Read, TypeOK
<1>4. CASE TakePacket
  <2>1. PICK n \in Expected :
          IF ~IsWhole(n)
            THEN /\ temp' = input /\ fBytesLeft' = n - Len(input) /\ input' = <<>>
                 /\ UNCHANGED <<delivered, hung>>
            ELSE /\ delivered' = Append(delivered, First(n, input)) /\ input' = Rest(n, input)
                 /\ hung' = (n = 0)
                 /\ UNCHANGED <<temp, fBytesLeft>>
    BY <1>4 DEF TakePacket
  <2>2. input # <<>> /\ temp = <<>> /\ input[1] \in Bytes /\ Len(input) \in Nat
    BY <1>4 DEF TakePacket, TypeOK
  <2>3. n \in Nat /\ (peer = "xl3" => n = Size)
    BY <2>2, PacketStreamAssumption DEF Expected, TypeOK, Bytes, Sent
  <2>4. UNCHANGED wire /\ cut' \in BOOLEAN
    BY <1>4 DEF TakePacket, TypeOK
  <2>5. CASE IsWhole(n)
    <3>1. n \in 0 .. Len(input)
      BY <2>2, <2>3, <2>5 DEF IsWhole
    <3>2. First(n, input) \in Seq(Bytes) /\ Rest(n, input) \in Seq(Bytes)
      BY <3>1, CutOff DEF TypeOK
    <3>3. delivered' \in Seq(Seq(Bytes)) /\ input' \in Seq(Bytes)
      <4>1. \A S, s, e : s \in Seq(S) /\ e \in S => Append(s, e) \in Seq(S)
        OBVIOUS
      <4>2. delivered \in Seq(Seq(Bytes))
        BY DEF TypeOK
      <4> QED
        BY <2>1, <2>5, <3>2, <4>1, <4>2
    <3>4. UNCHANGED <<temp, fBytesLeft>> /\ hung' \in BOOLEAN
      BY <2>1, <2>5
    <3> QED
      BY <1>1, <1>2, <2>4, <3>3, <3>4 DEF TypeOK
  <2>6. CASE ~IsWhole(n)
    BY <1>1, <1>2, <2>1, <2>2, <2>3, <2>4, <2>6 DEF TypeOK, IsWhole
  <2> QED
    BY <2>5, <2>6
<1>5. CASE CompletePacket
  <2>1. fBytesLeft \in 0 .. Len(input)
    BY <1>5 DEF CompletePacket, TypeOK
  <2>2. First(fBytesLeft, input) \in Seq(Bytes) /\ Rest(fBytesLeft, input) \in Seq(Bytes)
    BY <2>1, CutOff DEF TypeOK
  <2>3. temp \o First(fBytesLeft, input) \in Seq(Bytes)
    BY <2>2, ConcatProperties DEF TypeOK
  <2> QED
    BY <1>1, <1>2, <1>5, <2>2, <2>3 DEF CompletePacket, TypeOK
<1>6. CASE KeepMore
  <2>1. /\ temp \o input \in Seq(Bytes) /\ temp \o input # <<>>
        /\ Len(temp \o input) = Len(temp) + Len(input)
    BY <1>6, ConcatProperties DEF KeepMore, TypeOK
  <2>2. Len(input) \in Nat /\ Len(temp) \in Nat /\ fBytesLeft - Len(input) \in Nat
    BY <1>6 DEF KeepMore, TypeOK
  <2> QED
    BY <1>1, <1>2, <1>6, <2>1, <2>2, PacketStreamAssumption DEF KeepMore, TypeOK
<1> QED
  BY <1>3, <1>4, <1>5, <1>6 DEF EventLoop

LEMMA NextTypeOK ==
  ASSUME TypeOK, [Next]_vars
  PROVE  TypeOK'
<1>1. CASE Reconnect
  <2>1. wire' \in Seq(Bytes) /\ cut' \in BOOLEAN /\ losses' \in 0 .. MaxLosses
    BY <1>1, PacketStreamAssumption DEF Reconnect, TypeOK
  <2>2. UNCHANGED <<peer, length, input, temp, fBytesLeft, delivered, hung>>
    BY <1>1 DEF Reconnect
  <2> QED
    BY <2>1, <2>2 DEF TypeOK, Bytes, Sent
<1>2. CASE UNCHANGED vars
  BY <1>2 DEF vars, TypeOK, Bytes, Sent
<1> QED
  BY <1>1, <1>2, SendTypeOK, EventLoopTypeOK DEF Next

(* RecvCallback never takes a number for a length that is not one, nor     *)
(* waits for a negative number of bytes, and what it keeps and what it     *)
(* delivers is made of bytes that were sent.                               *)
THEOREM SpecTypeOK == Spec => []TypeOK
<1> QED
  BY InitTypeOK, NextTypeOK, PTL DEF Spec
----------------------------------------------------------------------------
(* The bytes that have been sent and not delivered are whole packets, in   *)
(* the order in which they were sent, until the stream is cut.             *)

(* Every byte of s lies in a whole packet of the lengths len.              *)
InWholePackets(s, len) ==
  \A i \in 1 .. Len(s) :
    /\ s[i].packet \in 1 .. Len(len)
    /\ s[i].at \in 1 .. len[s[i].packet]
    /\ s[i].at <= i
    /\ i - s[i].at + len[s[i].packet] <= Len(s)
    /\ \A k \in 1 .. len[s[i].packet] :
         s[i - s[i].at + k] = [packet |-> s[i].packet, at |-> k]

(* Later bytes are of later packets, or further on in the same packet.     *)
InOrder(s) ==
  \A i, j \in 1 .. Len(s) : i < j =>
    \/ s[i].packet < s[j].packet
    \/ s[i].packet = s[j].packet /\ s[j].at - s[i].at = j - i

Stream == (temp \o input) \o wire

StreamIsWhole == InWholePackets(Stream, length) /\ InOrder(Stream)

(* fBytesLeft is what is missing of the packet that is kept. *)
KeptIsCounted == temp # <<>> => fBytesLeft + Len(temp) = length[temp[1].packet]

(* What has been delivered are whole packets, in order, and before all     *)
(* that is still to come.                                                  *)
DeliveredWhole ==
  /\ \A i \in 1 .. Len(delivered) :
       \E p \in 1 .. Sent : delivered[i] = Packet(p)
  /\ \A i, j \in 1 .. Len(delivered) :
       i < j => delivered[i][1].packet < delivered[j][1].packet
  /\ \A i \in 1 .. Len(delivered), j \in 1 .. Len(Stream) :
       delivered[i][1].packet < Stream[j].packet

StreamInv ==
  /\ \A p \in 1 .. Sent : length[p] > 0 /\ (peer = "xl3" => length[p] = Size)
  /\ ~cut => ~hung /\ StreamIsWhole /\ KeptIsCounted /\ DeliveredWhole

(* Cutting and joining sequences. *)
LEMMA CutElements ==
  ASSUME NEW S, NEW s \in Seq(S), NEW n \in 0 .. Len(s)
  PROVE  /\ First(n, s) \in Seq(S) /\ Len(First(n, s)) = n
         /\ \A i \in 1 .. n : First(n, s)[i] = s[i]
         /\ Rest(n, s) \in Seq(S) /\ Len(Rest(n, s)) = Len(s) - n
         /\ \A i \in 1 .. Len(s) - n : Rest(n, s)[i] = s[n + i]
<1>1. \A i \in 1 .. n : s[i] \in S
  OBVIOUS
<1>2. \A i \in (n + 1) .. Len(s) : s[i] \in S
  OBVIOUS
<1>3. First(n, s) \in Seq(S) /\ Len(First(n, s)) = n
      /\ \A i \in 1 .. n : First(n, s)[i] = s[i]
  BY <1>1, SubSeqProperties DEF First
<1>4. Rest(n, s) \in Seq(S) /\ Len(Rest(n, s)) = Len(s) - n
      /\ \A i \in 1 .. Len(s) - n : Rest(n, s)[i] = s[n + i]
  <2>1. CASE n = Len(s)
    BY <1>2, <2>1, SubSeqProperties DEF Rest
  <2>2. CASE n < Len(s)
    BY <1>2, <2>2, SubSeqProperties DEF Rest
  <2> QED
    BY <2>1, <2>2
<1> QED
  BY <1>3, <1>4

LEMMA JoinElements ==
  ASSUME NEW S, NEW s \in Seq(S), NEW t \in Seq(S)
  PROVE  /\ s \o t \in Seq(S) /\ Len(s \o t) = Len(s) + Len(t)
         /\ Len(s) \in Nat /\ Len(t) \in Nat
         /\ \A i \in 1 .. Len(s) : (s \o t)[i] = s[i]
         /\ \A i \in 1 .. Len(t) : (s \o t)[Len(s) + i] = t[i]
         /\ \A i \in 1 .. Len(s) + Len(t) : i > Len(s) =>
              i - Len(s) \in 1 .. Len(t) /\ (s \o t)[i] = t[i - Len(s)]
  OBVIOUS

LEMMA SameElements ==
  ASSUME NEW S, NEW s \in Seq(S), NEW t \in Seq(S), Len(s) = Len(t),
         \A i \in 1 .. Len(s) : s[i] = t[i]
  PROVE  s = t
  BY SeqEqual

(* A sequence cut in two is the two parts joined. *)
LEMMA CutAndJoined ==
  ASSUME NEW S, NEW s \in Seq(S), NEW n \in 0 .. Len(s)
  PROVE  First(n, s) \o Rest(n, s) = s
<1> DEFINE f == First(n, s)
           r == Rest(n, s)
<1>1. /\ f \in Seq(S) /\ Len(f) = n /\ \A i \in 1 .. n : f[i] = s[i]
      /\ r \in Seq(S) /\ Len(r) = Len(s) - n
      /\ \A i \in 1 .. Len(s) - n : r[i] = s[n + i]
  BY CutElements
<1> HIDE DEF f, r
<1>2. /\ f \o r \in Seq(S) /\ Len(f \o r) = Len(s)
      /\ \A i \in 1 .. n : (f \o r)[i] = f[i]
      /\ \A i \in 1 .. Len(s) : i > n =>
           i - n \in 1 .. Len(r) /\ (f \o r)[i] = r[i - n]
  BY <1>1, JoinElements
<1>3. ASSUME NEW i \in 1 .. Len(s) PROVE (f \o r)[i] = s[i]
  <2>1. CASE i <= n
    BY <1>1, <1>2, <2>1
  <2>2. CASE i > n
    <3>1. i - n \in 1 .. Len(s) - n /\ n + (i - n) = i /\ (f \o r)[i] = r[i - n]
      BY <1>1, <1>2, <2>2
    <3>2. r[i - n] = s[n + (i - n)]
      BY <1>1, <3>1
    <3> QED
      BY <3>1, <3>2
  <2>3. i <= n \/ i > n
    OBVIOUS
  <2> QED
    BY <2>1, <2>2, <2>3
<1>4. f \o r = s
  BY <1>2, <1>3, SameElements
<1> QED
  BY <1>4 DEF f, r

(* Cutting the first of two parts. *)
LEMMA CutOfJoined ==
  ASSUME NEW S, NEW s \in Seq(S), NEW t \in Seq(S), NEW n \in 0 .. Len(s)
  PROVE  First(n, s \o t) = First(n, s) /\ Rest(n, s \o t) = Rest(n, s) \o t
<1> DEFINE u == s \o t
<1>1. /\ u \in Seq(S) /\ Len(u) = Len(s) + Len(t) /\ Len(s) \in Nat /\ Len(t) \in Nat
      /\ \A i \in 1 .. Len(s) : u[i] = s[i]
      /\ \A i \in 1 .. Len(s) + Len(t) : i > Len(s) =>
           i - Len(s) \in 1 .. Len(t) /\ u[i] = t[i - Len(s)]
  BY JoinElements
<1> HIDE DEF u
<1>2. n \in 0 .. Len(u)
  BY <1>1
<1>3. /\ First(n, u) \in Seq(S) /\ Len(First(n, u)) = n
      /\ \A i \in 1 .. n : First(n, u)[i] = u[i]
      /\ Rest(n, u) \in Seq(S) /\ Len(Rest(n, u)) = Len(u) - n
      /\ \A i \in 1 .. Len(u) - n : Rest(n, u)[i] = u[n + i]
  BY <1>1, <1>2, CutElements
<1>4. /\ First(n, s) \in Seq(S) /\ Len(First(n, s)) = n
      /\ \A i \in 1 .. n : First(n, s)[i] = s[i]
      /\ Rest(n, s) \in Seq(S) /\ Len(Rest(n, s)) = Len(s) - n
      /\ \A i \in 1 .. Len(s) - n : Rest(n, s)[i] = s[n + i]
  BY CutElements
<1>5. First(n, u) = First(n, s)
  BY <1>1, <1>3, <1>4, SameElements
<1> DEFINE a == Rest(n, u)
           r == Rest(n, s)
<1> HIDE DEF a, r
<1>6. r \in Seq(S)
  BY <1>4 DEF r
<1>7. /\ r \o t \in Seq(S) /\ Len(r \o t) = Len(r) + Len(t)
      /\ \A i \in 1 .. Len(r) : (r \o t)[i] = r[i]
      /\ \A i \in 1 .. Len(r) + Len(t) : i > Len(r) =>
           i - Len(r) \in 1 .. Len(t) /\ (r \o t)[i] = t[i - Len(r)]
  BY <1>6, JoinElements
<1>8. /\ a \in Seq(S) /\ Len(a) = Len(u) - n /\ \A i \in 1 .. Len(a) : a[i] = u[n + i]
      /\ Len(r) = Len(s) - n /\ \A i \in 1 .. Len(r) : r[i] = s[n + i]
  BY <1>3, <1>4 DEF a, r
<1>9. Len(a) = Len(r \o t)
  BY <1>1, <1>7, <1>8
<1>10. ASSUME NEW i \in 1 .. Len(a) PROVE a[i] = (r \o t)[i]
  <2>1. a[i] = u[n + i] /\ n + i \in 1 .. Len(s) + Len(t)
    BY <1>1, <1>8
  <2>2. CASE i <= Len(r)
    <3>1. n + i \in 1 .. Len(s) /\ i \in 1 .. Len(r)
      BY <1>1, <1>8, <2>2
    <3> QED
      BY <1>1, <1>7, <1>8, <2>1, <3>1
  <2>3. CASE i > Len(r)
    <3>1. n + i > Len(s) /\ (n + i) - Len(s) = i - Len(r)
      BY <1>1, <1>8, <2>3
    <3>2. u[n + i] = t[i - Len(r)]
      BY <1>1, <2>1, <3>1
    <3>3. i \in 1 .. Len(r) + Len(t)
      BY <1>7, <1>9
    <3> QED
      BY <1>7, <2>1, <2>3, <3>2, <3>3
  <2>4. i <= Len(r) \/ i > Len(r)
    BY <1>1, <1>8
  <2> QED
    BY <2>2, <2>3, <2>4
<1>11. a = r \o t
  BY <1>7, <1>8, <1>9, <1>10, SameElements
<1> QED
  BY <1>5, <1>11 DEF u, a, r

(* Cutting the second of two parts. *)
LEMMA CutInJoined ==
  ASSUME NEW S, NEW s \in Seq(S), NEW t \in Seq(S), NEW m \in 0 .. Len(t)
  PROVE  /\ Len(s) + m \in 0 .. Len(s \o t)
         /\ First(Len(s) + m, s \o t) = s \o First(m, t)
         /\ Rest(Len(s) + m, s \o t) = Rest(m, t)
<1> DEFINE f == First(m, t)
           r == Rest(m, t)
           w == s \o f
<1>1. f \in Seq(S) /\ Len(f) = m /\ r \in Seq(S) /\ f \o r = t
  BY CutElements, CutAndJoined
<1> HIDE DEF f, r
<1>2. w \in Seq(S) /\ Len(w) = Len(s) + m /\ Len(s) \in Nat
  BY <1>1, JoinElements
<1>3. s \o t = w \o r
  <2>1. \A a, b, c \in Seq(S) : (a \o b) \o c = a \o (b \o c)
    <3> TAKE a, b, c \in Seq(S)
    <3> QED
      BY ConcatAssociative, SMT
  <2>2. f \in Seq(S) /\ r \in Seq(S) /\ f \o r = t
    BY <1>1
  <2>3. (s \o f) \o r = s \o t
    BY <2>1, <2>2, Zenon
  <2> QED
    BY <2>3
<1> HIDE DEF w
<1>4. First(Len(w), w \o r) = First(Len(w), w) /\ Rest(Len(w), w \o r) = Rest(Len(w), w) \o r
  <2>1. Len(w) \in 0 .. Len(w)
    BY <1>2
  <2> QED
    BY <1>1, <1>2, <2>1, CutOfJoined
<1>5. First(Len(w), w) = w
  <2>1. Len(w) \in 0 .. Len(w)
    BY <1>2
  <2>2. /\ First(Len(w), w) \in Seq(S) /\ Len(First(Len(w), w)) = Len(w)
        /\ \A i \in 1 .. Len(w) : First(Len(w), w)[i] = w[i]
    BY <1>2, <2>1, CutElements
  <2> QED
    BY <1>2, <2>2, SameElements
<1>6. Rest(Len(w), w) \o r = r
  <2>1. Len(w) \in 0 .. Len(w)
    BY <1>2
  <2>2. Rest(Len(w), w) \in Seq(S) /\ Len(Rest(Len(w), w)) = 0
    BY <1>2, <2>1, CutElements
  <2>3. Rest(Len(w), w) = <<>>
    BY <2>2, EmptySeq
  <2> QED
    BY <1>1, <2>3
<1>7. Len(s \o t) = Len(s) + Len(t) /\ Len(t) \in Nat
  BY JoinElements
<1>8. /\ Len(s) + m \in 0 .. Len(s \o t)
      /\ First(Len(s) + m, s \o t) = w /\ Rest(Len(s) + m, s \o t) = r
  <2>1. Len(s) + m \in 0 .. Len(s \o t)
    BY <1>2, <1>7
  <2>2. Len(w) = Len(s) + m
    BY <1>2
  <2>3. First(Len(s) + m, s \o t) = w /\ Rest(Len(s) + m, s \o t) = r
    BY <1>3, <1>4, <1>5, <1>6, <2>2
  <2> QED
    BY <2>1, <2>3
<1> QED
  BY <1>8 DEF w, f, r

----------------------------------------------------------------------------
(* The packet at the front of a stream of whole packets. *)

Marks == [packet : Nat, at : Nat]

LEMMA StreamTypes ==
  ASSUME TypeOK
  PROVE  /\ length \in Seq(Nat) /\ Sent \in Nat /\ Sent = Len(length)
         /\ \A p \in 1 .. Sent : length[p] \in Nat
         /\ temp \in Seq(Marks) /\ input \in Seq(Marks) /\ wire \in Seq(Marks)
         /\ fBytesLeft \in Nat /\ Stream \in Seq(Marks)
<1>1. length \in Seq(IF peer = "xl3" THEN {Size} ELSE Lengths)
  BY DEF TypeOK
<1>2. (IF peer = "xl3" THEN {Size} ELSE Lengths) \subseteq Nat
  BY PacketStreamAssumption
<1>3. length \in Seq(Nat) /\ Sent = Len(length)
  BY <1>1, <1>2 DEF Sent
<1>4. Sent \in Nat /\ \A p \in 1 .. Sent : length[p] \in Nat
  BY <1>3
<1>5. Bytes \subseteq Marks
  BY <1>4 DEF Bytes, Marks
<1>6. \A s \in Seq(Bytes) : s \in Seq(Marks)
  BY <1>5
<1>7. temp \in Seq(Bytes) /\ input \in Seq(Bytes) /\ wire \in Seq(Bytes) /\ fBytesLeft \in Nat
  BY DEF TypeOK
<1>8. temp \in Seq(Marks) /\ input \in Seq(Marks) /\ wire \in Seq(Marks)
  BY <1>6, <1>7
<1>9. Stream \in Seq(Marks)
  BY <1>8, ConcatProperties DEF Stream
<1> QED
  BY <1>3, <1>4, <1>7, <1>8, <1>9

LEMMA MarkOfByte ==
  ASSUME NEW s \in Seq(Marks), NEW i \in 1 .. Len(s)
  PROVE  /\ s[i] \in Marks /\ s[i].packet \in Nat /\ s[i].at \in Nat
         /\ Len(s) \in Nat
<1>1. s[i] \in Marks
  OBVIOUS
<1> QED
  BY <1>1 DEF Marks

LEMMA FirstPacket ==
  ASSUME TypeOK, NEW s \in Seq(Marks), InWholePackets(s, length), s # <<>>
  PROVE  /\ s[1].packet \in 1 .. Sent /\ s[1].at = 1
         /\ length[s[1].packet] \in 1 .. Len(s)
         /\ \A k \in 1 .. length[s[1].packet] : s[k] = [packet |-> s[1].packet, at |-> k]
         /\ First(length[s[1].packet], s) = Packet(s[1].packet)
<1> DEFINE p == s[1].packet
           n == length[p]
<1>1. 1 \in 1 .. Len(s) /\ Len(s) \in Nat
  BY EmptySeq
<1>2. /\ p \in 1 .. Sent /\ s[1].at \in 1 .. n /\ s[1].at <= 1
      /\ 1 - s[1].at + n <= Len(s)
      /\ \A k \in 1 .. n : s[1 - s[1].at + k] = [packet |-> p, at |-> k]
  BY <1>1 DEF InWholePackets, Sent
<1>3. n \in Nat /\ s[1].at \in Nat
  BY <1>1, <1>2, StreamTypes, MarkOfByte
<1> HIDE DEF n
<1>4. s[1].at = 1 /\ n \in 1 .. Len(s)
  BY <1>1, <1>2, <1>3
<1>5. \A k \in 1 .. n : s[k] = [packet |-> p, at |-> k]
  <2>1. TAKE k \in 1 .. n
  <2>2. 1 - s[1].at + k = k
    BY <1>3, <1>4
  <2> QED
    BY <1>2, <2>2
<1>6. First(n, s) = Packet(p)
  <2>1. First(n, s) \in Seq(Marks) /\ Len(First(n, s)) = n /\ \A k \in 1 .. n : First(n, s)[k] = s[k]
    BY <1>1, <1>4, CutElements
  <2>2. Packet(p) = [k \in 1 .. n |-> [packet |-> p, at |-> k]]
    BY DEF Packet, n
  <2>3. p \in Nat
    BY <1>1, MarkOfByte
  <2>4. Packet(p) \in Seq(Marks) /\ Len(Packet(p)) = n
    BY <1>3, <2>2, <2>3 DEF Marks
  <2>5. \A k \in 1 .. n : First(n, s)[k] = Packet(p)[k]
    BY <1>5, <2>1, <2>2
  <2> QED
    BY <2>1, <2>4, <2>5, SameElements
<1> QED
  BY <1>2, <1>4, <1>5, <1>6 DEF n

(* What follows the first packet is whole packets in order again, and all  *)
(* of later packets.                                                       *)
LEMMA RestIsWhole ==
  ASSUME TypeOK, NEW s \in Seq(Marks), InWholePackets(s, length), InOrder(s), s # <<>>,
         NEW n, n = length[s[1].packet]
  PROVE  /\ n \in 0 .. Len(s) /\ Rest(n, s) \in Seq(Marks)
         /\ InWholePackets(Rest(n, s), length) /\ InOrder(Rest(n, s))
         /\ \A j \in 1 .. Len(Rest(n, s)) : s[1].packet < Rest(n, s)[j].packet
<1> DEFINE r == Rest(n, s)
<1>1. /\ n \in 1 .. Len(s) /\ s[1].packet \in 1 .. Sent /\ s[1].at = 1
      /\ \A k \in 1 .. n : s[k] = [packet |-> s[1].packet, at |-> k]
  BY FirstPacket
<1>2. Len(s) \in Nat /\ n \in 0 .. Len(s) /\ n \in Nat /\ 1 \in 1 .. Len(s)
  BY <1>1
<1>3. r \in Seq(Marks) /\ Len(r) = Len(s) - n /\ \A j \in 1 .. Len(s) - n : r[j] = s[n + j]
  <2>1. \A m \in 0 .. Len(s) :
          /\ Rest(m, s) \in Seq(Marks) /\ Len(Rest(m, s)) = Len(s) - m
          /\ \A j \in 1 .. Len(s) - m : Rest(m, s)[j] = s[m + j]
    BY CutElements
  <2> QED
    BY <1>2, <2>1, Zenon
<1> HIDE DEF r
<1>4. ASSUME NEW j \in 1 .. Len(r)
      PROVE  /\ r[j] = s[n + j] /\ n + j \in 1 .. Len(s) /\ n + j > 1
             /\ r[j].at \in Nat /\ r[j].packet \in Nat
  <2>1. j \in 1 .. Len(s) - n
    BY <1>3
  <2>2. n + j \in 1 .. Len(s) /\ n + j > 1
    BY <1>1, <1>2, <2>1
  <2>3. r[j] = s[n + j]
    BY <1>3, <2>1
  <2> QED
    BY <2>2, <2>3, MarkOfByte
<1>5. ASSUME NEW j \in 1 .. Len(r) PROVE s[1].packet < r[j].packet
  <2>1. n + j \in 1 .. Len(s) /\ 1 < n + j /\ r[j] = s[n + j]
    BY <1>2, <1>4
  <2>2. \A h \in 1 .. Len(s) : 1 < h =>
          \/ s[1].packet < s[h].packet
          \/ s[1].packet = s[h].packet /\ s[h].at - s[1].at = h - 1
    BY <1>2 DEF InOrder
  <2>3. \/ s[1].packet < r[j].packet
        \/ s[1].packet = r[j].packet /\ r[j].at - 1 = (n + j) - 1
    BY <1>1, <2>1, <2>2
  <2>4. r[j].at <= length[r[j].packet]
    BY <1>4 DEF InWholePackets
  <2>5. ~(s[1].packet = r[j].packet /\ r[j].at - 1 = (n + j) - 1)
    BY <1>2, <1>4, <2>4
  <2> QED
    BY <2>3, <2>5
<1>6. InWholePackets(r, length)
  <2> SUFFICES ASSUME NEW j \in 1 .. Len(r)
               PROVE  /\ r[j].packet \in 1 .. Len(length)
                      /\ r[j].at \in 1 .. length[r[j].packet]
                      /\ r[j].at <= j
                      /\ j - r[j].at + length[r[j].packet] <= Len(r)
                      /\ \A k \in 1 .. length[r[j].packet] :
                           r[j - r[j].at + k] = [packet |-> r[j].packet, at |-> k]
    BY DEF InWholePackets
  <2> DEFINE q == r[j].packet
             a == r[j].at
             m == length[q]
  <2>1. /\ q \in 1 .. Len(length) /\ a \in 1 .. m /\ a <= n + j
        /\ (n + j) - a + m <= Len(s)
        /\ \A k \in 1 .. m : s[(n + j) - a + k] = [packet |-> q, at |-> k]
    <3>1. r[j] = s[n + j] /\ n + j \in 1 .. Len(s)
      BY <1>4
    <3> QED
      BY <3>1, Zenon DEF InWholePackets
  <2>2. m \in Nat /\ a \in Nat /\ j \in Nat
    <3>1. \A p \in 1 .. Len(length) : length[p] \in Nat
      BY StreamTypes
    <3>2. m \in Nat
      BY <2>1, <3>1, Zenon
    <3>3. a \in Nat
      BY <1>4
    <3> QED
      BY <3>2, <3>3
  <2>3. s[1].packet < q
    BY <1>5
  <2> HIDE DEF q, a, m
  <2>4. a <= j
    <3> SUFFICES ASSUME a > j PROVE FALSE
      BY <2>2
    <3>1. 1 \in 1 .. m /\ (n + j) - a + 1 >= 1
      BY <1>2, <2>1, <2>2
    <3>2. (n + j) - a + 1 \in 1 .. n
      BY <1>2, <2>2, <3>1
    <3>3. s[(n + j) - a + 1].packet = q /\ s[(n + j) - a + 1].packet = s[1].packet
      <4>1. s[(n + j) - a + 1] = [packet |-> q, at |-> 1]
        BY <2>1, <3>1
      <4>2. s[(n + j) - a + 1] = [packet |-> s[1].packet, at |-> (n + j) - a + 1]
        BY <1>1, <3>2
      <4> QED
        BY <4>1, <4>2
    <3>4. s[1].packet \in Nat
      BY <1>2, MarkOfByte
    <3> QED
      BY <2>3, <3>3, <3>4
  <2>5. j - a + m <= Len(r)
    <3>1. Len(r) = Len(s) - n
      BY <1>3
    <3>2. (n + j) - a + m <= Len(s)
      BY <2>1
    <3> QED
      BY <1>2, <2>2, <3>1, <3>2
  <2>6. ASSUME NEW k \in 1 .. m PROVE r[j - a + k] = [packet |-> q, at |-> k]
    <3>1. k \in Nat /\ k >= 1 /\ k <= m /\ j - a + m <= Len(s) - n
      BY <1>3, <2>2, <2>5
    <3>2. j - a + k \in 1 .. Len(s) - n /\ n + (j - a + k) = (n + j) - a + k
      BY <1>2, <2>2, <2>4, <3>1
    <3>3. r[j - a + k] = s[(n + j) - a + k]
      BY <1>3, <3>2
    <3> QED
      BY <2>1, <3>3
  <2> QED
    BY <2>1, <2>4, <2>5, <2>6 DEF q, a, m
<1>7. InOrder(r)
  <2> SUFFICES ASSUME NEW i \in 1 .. Len(r), NEW j \in 1 .. Len(r), i < j
               PROVE  \/ r[i].packet < r[j].packet
                      \/ r[i].packet = r[j].packet /\ r[j].at - r[i].at = j - i
    BY DEF InOrder
  <2>1. n + i < n + j /\ (n + j) - (n + i) = j - i
    BY <1>2
  <2>2. \/ s[n + i].packet < s[n + j].packet
        \/ s[n + i].packet = s[n + j].packet /\ s[n + j].at - s[n + i].at = (n + j) - (n + i)
    BY <1>4, <2>1 DEF InOrder
  <2> QED
    BY <1>4, <2>1, <2>2
<1> QED
  BY <1>2, <1>3, <1>5, <1>6, <1>7 DEF r

(* A packet put behind a stream of whole packets in order. *)
LEMMA PacketAppended ==
  ASSUME TypeOK, NEW s \in Seq(Marks), InWholePackets(s, length), InOrder(s),
         NEW n \in Nat \ {0}, NEW len, len = Append(length, n),
         NEW pkt, pkt = [i \in 1 .. n |-> [packet |-> Sent + 1, at |-> i]]
  PROVE  InWholePackets(s \o pkt, len) /\ InOrder(s \o pkt)
<1> DEFINE u == s \o pkt
<1>1. length \in Seq(Nat) /\ Sent \in Nat /\ Sent = Len(length)
  BY StreamTypes
<1>2. /\ Len(len) = Sent + 1 /\ len[Sent + 1] = n
      /\ \A q \in 1 .. Sent : len[q] = length[q]
  BY <1>1
<1>3. pkt \in Seq(Marks) /\ Len(pkt) = n /\ \A i \in 1 .. n : pkt[i] = [packet |-> Sent + 1, at |-> i]
  BY <1>1 DEF Marks
<1>4. /\ Len(u) = Len(s) + n /\ Len(s) \in Nat
      /\ \A i \in 1 .. Len(s) : u[i] = s[i]
      /\ \A i \in 1 .. n : u[Len(s) + i] = pkt[i]
      /\ \A i \in 1 .. Len(s) + n : i > Len(s) =>
           i - Len(s) \in 1 .. n /\ u[i] = pkt[i - Len(s)]
  <2>1. \A t \in Seq(Marks) :
           /\ Len(s \o t) = Len(s) + Len(t) /\ Len(s) \in Nat
           /\ \A i \in 1 .. Len(s) : (s \o t)[i] = s[i]
           /\ \A i \in 1 .. Len(t) : (s \o t)[Len(s) + i] = t[i]
           /\ \A i \in 1 .. Len(s) + Len(t) : i > Len(s) =>
                i - Len(s) \in 1 .. Len(t) /\ (s \o t)[i] = t[i - Len(s)]
    BY JoinElements
  <2> QED
    BY <1>3, <2>1
<1> HIDE DEF u
<1>5. ASSUME NEW j \in 1 .. Len(u), j <= Len(s)
      PROVE  /\ j \in 1 .. Len(s) /\ u[j] = s[j] /\ u[j].at \in Nat
             /\ u[j].packet \in 1 .. Sent /\ u[j].packet < Sent + 1
  <2>1. j \in 1 .. Len(s)
    BY <1>4, <1>5
  <2>2. u[j] = s[j]
    BY <1>4, <2>1
  <2>3. s[j].at \in Nat
    BY <2>1, MarkOfByte
  <2>4. s[j].packet \in 1 .. Sent
    BY <1>1, <2>1 DEF InWholePackets
  <2> QED
    BY <1>1, <2>1, <2>2, <2>3, <2>4
<1>6. ASSUME NEW j \in 1 .. Len(u), j > Len(s)
      PROVE  /\ j - Len(s) \in 1 .. n
             /\ u[j].packet = Sent + 1 /\ u[j].at = j - Len(s)
  <2>1. j - Len(s) \in 1 .. n /\ u[j] = pkt[j - Len(s)]
    BY <1>4, <1>6
  <2>2. pkt[j - Len(s)] = [packet |-> Sent + 1, at |-> j - Len(s)]
    BY <1>3, <2>1
  <2> QED
    BY <2>1, <2>2
<1>7. \A j \in 1 .. Len(u) : j <= Len(s) \/ j > Len(s)
  BY <1>4
<1>8. InWholePackets(u, len)
  <2> SUFFICES ASSUME NEW j \in 1 .. Len(u)
               PROVE  /\ u[j].packet \in 1 .. Len(len)
                      /\ u[j].at \in 1 .. len[u[j].packet]
                      /\ u[j].at <= j
                      /\ j - u[j].at + len[u[j].packet] <= Len(u)
                      /\ \A k \in 1 .. len[u[j].packet] :
                           u[j - u[j].at + k] = [packet |-> u[j].packet, at |-> k]
    BY DEF InWholePackets
  <2>1. CASE j <= Len(s)
    <3> DEFINE q == u[j].packet
               a == u[j].at
               m == len[q]
    <3>1. j \in 1 .. Len(s) /\ u[j] = s[j] /\ q \in 1 .. Sent /\ a \in Nat
      BY <1>5, <2>1
    <3>2. m = length[q] /\ q \in 1 .. Len(len)
      BY <1>1, <1>2, <3>1
    <3>3. /\ a \in 1 .. m /\ a <= j /\ j - a + m <= Len(s)
          /\ \A k \in 1 .. m : s[j - a + k] = [packet |-> q, at |-> k]
      BY <3>1, <3>2, Zenon DEF InWholePackets
    <3>4. m \in Nat
      BY <3>1, <3>2, StreamTypes
    <3> HIDE DEF q, a, m
    <3>5. j - a + m <= Len(u)
      BY <1>4, <3>1, <3>3, <3>4
    <3>6. ASSUME NEW k \in 1 .. m PROVE u[j - a + k] = [packet |-> q, at |-> k]
      <4>1. j - a + k \in 1 .. Len(s)
        BY <1>4, <3>1, <3>3, <3>4
      <4> QED
        BY <1>4, <3>3, <4>1
    <3> QED
      BY <3>2, <3>3, <3>5, <3>6 DEF q, a, m
  <2>2. CASE j > Len(s)
    <3>1. j - Len(s) \in 1 .. n /\ u[j].packet = Sent + 1 /\ u[j].at = j - Len(s)
      BY <1>6, <2>2
    <3>2. len[u[j].packet] = n /\ Sent + 1 \in 1 .. Len(len)
      BY <1>1, <1>2, <3>1
    <3>3. j - (j - Len(s)) = Len(s) /\ j - Len(s) <= j
      BY <1>4
    <3>4. \A k \in 1 .. n : u[Len(s) + k] = [packet |-> Sent + 1, at |-> k]
      BY <1>3, <1>4
    <3>5. Len(s) + n <= Len(u)
      BY <1>4
    <3> QED
      BY <3>1, <3>2, <3>3, <3>4, <3>5
  <2> QED
    BY <1>7, <2>1, <2>2
<1>9. InOrder(u)
  <2> SUFFICES ASSUME NEW i \in 1 .. Len(u), NEW j \in 1 .. Len(u), i < j
               PROVE  \/ u[i].packet < u[j].packet
                      \/ u[i].packet = u[j].packet /\ u[j].at - u[i].at = j - i
    BY DEF InOrder
  <2>1. CASE j <= Len(s)
    <3>1. i <= Len(s)
      BY <1>4, <2>1
    <3>2. i \in 1 .. Len(s) /\ j \in 1 .. Len(s) /\ u[i] = s[i] /\ u[j] = s[j]
      BY <1>5, <2>1, <3>1
    <3> QED
      BY <3>2, Zenon DEF InOrder
  <2>2. CASE j > Len(s) /\ i <= Len(s)
    BY <1>5, <1>6, <2>2
  <2>3. CASE j > Len(s) /\ i > Len(s)
    <3>1. u[i].packet = u[j].packet /\ u[j].at - u[i].at = (j - Len(s)) - (i - Len(s))
      BY <1>6, <2>3
    <3>2. (j - Len(s)) - (i - Len(s)) = j - i
      BY <1>4
    <3> QED
      BY <3>1, <3>2
  <2> QED
    BY <1>7, <2>1, <2>2, <2>3
<1> QED
  BY <1>8, <1>9 DEF u

----------------------------------------------------------------------------
(* What each step does to the stream. *)

(* A sequence joined to an empty one, and the front of a stream. *)
LEMMA Empties ==
  ASSUME NEW S, NEW s \in Seq(S)
  PROVE  s \o <<>> = s /\ <<>> \o s = s
  OBVIOUS

LEMMA FrontOfJoined ==
  ASSUME NEW S, NEW s \in Seq(S), NEW t \in Seq(S), s # <<>>
  PROVE  (s \o t)[1] = s[1] /\ s \o t # <<>>
  OBVIOUS

(* The packet at the front of the stream is the one that is delivered. *)
LEMMA OneDelivered ==
  ASSUME TypeOK, StreamInv, ~cut, Stream # <<>>, UNCHANGED <<peer, length>>,
         NEW n, n = length[Stream[1].packet],
         Stream' = Rest(n, Stream), delivered' = Append(delivered, First(n, Stream))
  PROVE  StreamIsWhole' /\ DeliveredWhole'
<1> DEFINE s == Stream
           r == Stream'
           p == s[1].packet
<1>1. s \in Seq(Marks) /\ Sent \in Nat /\ Sent = Len(length)
  BY StreamTypes
<1>2. InWholePackets(s, length) /\ InOrder(s) /\ DeliveredWhole
  BY DEF StreamInv, StreamIsWhole
<1>3. /\ p \in 1 .. Sent /\ First(n, s) = Packet(p) /\ n \in 1 .. Len(s)
      /\ Packet(p)[1] = [packet |-> p, at |-> 1]
  <2>1. p \in 1 .. Sent /\ First(n, s) = Packet(p) /\ n \in 1 .. Len(s) /\ n = length[p]
    BY <1>1, <1>2, FirstPacket
  <2>2. 1 \in 1 .. length[p]
    BY <1>1, <2>1
  <2> QED
    BY <2>1, <2>2 DEF Packet
<1>4. /\ r \in Seq(Marks) /\ InWholePackets(r, length) /\ InOrder(r)
      /\ \A j \in 1 .. Len(r) : p < r[j].packet
  <2>1. /\ Rest(n, s) \in Seq(Marks) /\ InWholePackets(Rest(n, s), length) /\ InOrder(Rest(n, s))
        /\ \A j \in 1 .. Len(Rest(n, s)) : s[1].packet < Rest(n, s)[j].packet
    BY <1>1, <1>2, RestIsWhole
  <2> QED
    BY <2>1
<1>5. Sent' = Sent /\ (\A q : Packet(q)' = Packet(q))
  BY DEF Sent, Packet
<1>6. 1 \in 1 .. Len(s)
  BY <1>1, EmptySeq
<1>7. /\ \A i \in 1 .. Len(delivered) : \E q \in 1 .. Sent : delivered[i] = Packet(q)
      /\ \A i, j \in 1 .. Len(delivered) :
           i < j => delivered[i][1].packet < delivered[j][1].packet
      /\ \A i \in 1 .. Len(delivered) : delivered[i][1].packet < p
  BY <1>2, <1>6 DEF DeliveredWhole
<1>8. ASSUME NEW i \in 1 .. Len(delivered)
      PROVE  delivered[i][1].packet \in Nat /\ delivered[i][1].packet < p
  <2>1. PICK q \in 1 .. Sent : delivered[i] = Packet(q)
    BY <1>7
  <2>2. delivered[i] \in Seq(Bytes)
    BY DEF TypeOK
  <2>3. length[q] > 0 /\ length[q] \in Nat
    BY <2>1, StreamTypes DEF StreamInv
  <2>4. delivered[i][1] = [packet |-> q, at |-> 1]
    BY <2>1, <2>3 DEF Packet
  <2> QED
    BY <1>7, <2>4, <1>1
<1>9. /\ Len(delivered) \in Nat /\ Len(delivered') = Len(delivered) + 1
      /\ \A i \in 1 .. Len(delivered) : delivered'[i] = delivered[i]
      /\ delivered'[Len(delivered) + 1] = Packet(p)
  <2>1. delivered \in Seq(Seq(Bytes)) /\ delivered' = Append(delivered, Packet(p))
    BY <1>3 DEF TypeOK
  <2> QED
    BY <2>1
<1> HIDE DEF s, r, p
<1>10. \A i \in 1 .. Len(delivered') : \E q \in 1 .. Sent : delivered'[i] = Packet(q)
  BY <1>3, <1>7, <1>9
<1>11. ASSUME NEW i \in 1 .. Len(delivered'), NEW j \in 1 .. Len(delivered'), i < j
       PROVE  delivered'[i][1].packet < delivered'[j][1].packet
  <2>1. i \in 1 .. Len(delivered)
    BY <1>9, <1>11
  <2>2. CASE j \in 1 .. Len(delivered)
    BY <1>7, <1>9, <1>11, <2>1, <2>2
  <2>3. CASE j = Len(delivered) + 1
    BY <1>3, <1>8, <1>9, <2>1, <2>3
  <2> QED
    BY <1>9, <2>2, <2>3
<1>12. ASSUME NEW i \in 1 .. Len(delivered'), NEW j \in 1 .. Len(r)
       PROVE  delivered'[i][1].packet < r[j].packet
  <2>1. p < r[j].packet /\ r[j].packet \in Nat /\ p \in Nat
    BY <1>1, <1>3, <1>4, MarkOfByte
  <2>2. CASE i \in 1 .. Len(delivered)
    BY <1>8, <1>9, <2>1, <2>2
  <2>3. CASE i = Len(delivered) + 1
    BY <1>3, <1>9, <2>1, <2>3
  <2> QED
    BY <1>9, <2>2, <2>3
<1>13. DeliveredWhole'
  <2>1. \A i \in 1 .. Len(delivered') : \E q \in 1 .. Sent' : delivered'[i] = Packet(q)'
    BY <1>5, <1>10, Zenon
  <2>2. \A i \in 1 .. Len(delivered'), j \in 1 .. Len(Stream') :
          delivered'[i][1].packet < Stream'[j].packet
    BY <1>12 DEF r
  <2> QED
    BY <1>11, <2>1, <2>2 DEF DeliveredWhole
<1>14. StreamIsWhole'
  BY <1>4 DEF StreamIsWhole, r, InWholePackets, InOrder
<1> QED
  BY <1>13, <1>14

(* Steps that neither send, deliver nor lose anything. *)
LEMMA SameStream ==
  ASSUME StreamInv, ~cut, UNCHANGED <<peer, length, delivered>>, Stream' = Stream
  PROVE  StreamIsWhole' /\ DeliveredWhole'
<1>1. StreamIsWhole /\ DeliveredWhole
  BY DEF StreamInv
<1>2. Sent' = Sent /\ (\A q : Packet(q)' = Packet(q))
  BY DEF Sent, Packet
<1>3. StreamIsWhole'
  BY <1>1 DEF StreamIsWhole, InWholePackets, InOrder
<1>4. DeliveredWhole'
  BY <1>1, <1>2 DEF DeliveredWhole
<1> QED
  BY <1>3, <1>4

LEMMA InitStreamInv == Init => StreamInv
<1> SUFFICES ASSUME Init PROVE StreamInv
  OBVIOUS
<1>1. Len(length) = 0 /\ Len(delivered) = 0 /\ temp = <<>> /\ ~hung
  BY DEF Init
<1>2. Stream = <<>> /\ Len(Stream) = 0
  BY DEF Init, Stream
<1>3. StreamIsWhole
  BY <1>2 DEF StreamIsWhole, InWholePackets, InOrder
<1>4. DeliveredWhole
  BY <1>1 DEF DeliveredWhole
<1>5. KeptIsCounted
  BY <1>1 DEF KeptIsCounted
<1> QED
  BY <1>1, <1>3, <1>4, <1>5 DEF StreamInv, Sent

(* RecvCallback reads the front of the wire. *)
LEMMA ReadStreamInv ==
  ASSUME TypeOK, StreamInv, Read
  PROVE  StreamInv'
<1>1. PICK n \in 1 .. Len(wire) : input' = First(n, wire) /\ wire' = Rest(n, wire)
  BY DEF Read
<1>2. input = <<>> /\ UNCHANGED <<peer, length, temp, fBytesLeft, delivered, hung, cut>>
  BY DEF Read
<1>3. temp \in Seq(Marks) /\ wire \in Seq(Marks) /\ Len(wire) \in Nat
  BY StreamTypes
<1>4. n \in 0 .. Len(wire)
  BY <1>3
<1>5. /\ First(n, wire) \in Seq(Marks) /\ Rest(n, wire) \in Seq(Marks)
      /\ First(n, wire) \o Rest(n, wire) = wire
  BY <1>3, <1>4, CutElements, CutAndJoined
<1>6. Stream' = Stream
  <2>1. \A a, b, c \in Seq(Marks) : (a \o b) \o c = a \o (b \o c)
    <3> TAKE a, b, c \in Seq(Marks)
    <3> QED
      BY ConcatAssociative, SMT
  <2>2. Stream' = (temp \o First(n, wire)) \o Rest(n, wire)
    BY <1>1, <1>2 DEF Stream
  <2>3. Stream' = temp \o (First(n, wire) \o Rest(n, wire))
    BY <1>3, <1>5, <2>1, <2>2, Zenon
  <2>4. Stream = temp \o wire
    BY <1>2, <1>3, Empties DEF Stream
  <2> QED
    BY <1>5, <2>3, <2>4
<1>7. ~cut' => StreamIsWhole' /\ DeliveredWhole'
  BY <1>2, <1>6, SameStream
<1>8. ~cut' => ~hung' /\ KeptIsCounted'
  BY <1>2 DEF StreamInv, KeptIsCounted
<1> QED
  BY <1>2, <1>7, <1>8 DEF StreamInv, Sent

(* A turn of the loop with nothing kept: the front of the input is the     *)
(* beginning of a packet, so the number found there is its length.         *)
LEMMA TakePacketStreamInv ==
  ASSUME TypeOK, StreamInv, TakePacket
  PROVE  StreamInv'
<1>1. UNCHANGED <<peer, length, wire>> /\ input # <<>> /\ temp = <<>>
  BY DEF TakePacket
<1>2. Sent' = Sent
  BY <1>1 DEF Sent
<1>3. \A p \in 1 .. Sent' : length'[p] > 0 /\ (peer' = "xl3" => length'[p] = Size)
  BY <1>1, <1>2 DEF StreamInv
<1>4. ASSUME ~cut' PROVE ~hung' /\ StreamIsWhole' /\ KeptIsCounted' /\ DeliveredWhole'
  <2>1. ~cut /\ (peer = "sbc" => WholeHeader)
    BY <1>4 DEF TakePacket
  <2>2. ~hung /\ StreamIsWhole /\ KeptIsCounted /\ DeliveredWhole
    BY <2>1 DEF StreamInv
  <2>3. /\ input \in Seq(Marks) /\ wire \in Seq(Marks) /\ Stream \in Seq(Marks)
        /\ Len(input) \in Nat
    BY StreamTypes
  <2>4. Stream = input \o wire
    BY <1>1, <2>3, Empties DEF Stream
  <2>5. Stream[1] = input[1] /\ Stream # <<>>
    BY <1>1, <2>3, <2>4, FrontOfJoined
  <2> DEFINE n == length[input[1].packet]
  <2>6. input[1].packet \in 1 .. Sent /\ n \in 1 .. Len(Stream)
    BY <2>2, <2>3, <2>5, FirstPacket DEF StreamIsWhole
  <2>7. Expected = {n}
    <3>1. peer = "xl3" => n = Size
      BY <2>6 DEF StreamInv
    <3>2. peer = "xl3" \/ peer = "sbc"
      BY DEF TypeOK
    <3> QED
      BY <2>1, <3>1, <3>2 DEF Expected
  <2> HIDE DEF n
  <2>8. /\ ~IsWhole(n) =>
             /\ temp' = input /\ fBytesLeft' = n - Len(input) /\ input' = <<>>
             /\ UNCHANGED <<delivered, hung>>
        /\ IsWhole(n) =>
             /\ delivered' = Append(delivered, First(n, input)) /\ input' = Rest(n, input)
             /\ hung' = (n = 0)
             /\ UNCHANGED <<temp, fBytesLeft>>
    BY <2>7 DEF TakePacket
  <2>9. CASE IsWhole(n)
    <3>1. n \in 0 .. Len(input) /\ n # 0
      BY <2>3, <2>6, <2>9 DEF IsWhole
    <3>2. First(n, Stream) = First(n, input) /\ Rest(n, Stream) = Rest(n, input) \o wire
      BY <2>3, <2>4, <3>1, CutOfJoined
    <3>3. Stream' = Rest(n, Stream)
      <4>1. Rest(n, input) \in Seq(Marks)
        BY <2>3, <3>1, CutElements
      <4>2. Stream' = (<<>> \o Rest(n, input)) \o wire
        BY <1>1, <2>8, <2>9 DEF Stream
      <4>3. <<>> \o Rest(n, input) = Rest(n, input)
        BY <4>1, Empties
      <4> QED
        BY <3>2, <4>2, <4>3
    <3>4. delivered' = Append(delivered, First(n, Stream)) /\ n = length[Stream[1].packet]
      BY <2>5, <2>8, <2>9, <3>2 DEF n
    <3>5. StreamIsWhole' /\ DeliveredWhole'
      BY <1>1, <2>1, <2>5, <3>3, <3>4, OneDelivered
    <3>6. ~hung' /\ KeptIsCounted'
      BY <1>1, <2>8, <2>9, <3>1 DEF KeptIsCounted
    <3> QED
      BY <3>5, <3>6
  <2>10. CASE ~IsWhole(n)
    <3>1. Stream' = Stream
      <4>1. Stream' = (input \o <<>>) \o wire
        BY <1>1, <2>8, <2>10 DEF Stream
      <4>2. input \o <<>> = input
        BY <2>3, Empties
      <4> QED
        BY <2>4, <4>1, <4>2
    <3>2. StreamIsWhole' /\ DeliveredWhole'
      BY <1>1, <2>1, <2>8, <2>10, <3>1, SameStream
    <3>3. n - Len(input) + Len(input) = n
      BY <2>3, <2>6
    <3>4. fBytesLeft' + Len(temp') = length'[temp'[1].packet]
      BY <1>1, <2>8, <2>10, <3>3 DEF n
    <3>5. ~hung' /\ KeptIsCounted'
      BY <2>2, <2>8, <2>10, <3>4 DEF KeptIsCounted
    <3> QED
      BY <3>2, <3>5
  <2> QED
    BY <2>9, <2>10
<1> QED
  BY <1>3, <1>4 DEF StreamInv

(* The rest of the packet that is kept has come. *)
LEMMA CompletePacketStreamInv ==
  ASSUME TypeOK, StreamInv, CompletePacket
  PROVE  StreamInv'
<1>1. /\ UNCHANGED <<peer, length, wire, hung, cut>>
      /\ input # <<>> /\ temp # <<>> /\ Len(input) >= fBytesLeft
      /\ delivered' = Append(delivered, temp \o First(fBytesLeft, input))
      /\ input' = Rest(fBytesLeft, input) /\ temp' = <<>>
  BY DEF CompletePacket
<1>2. Sent' = Sent
  BY <1>1 DEF Sent
<1>3. \A p \in 1 .. Sent' : length'[p] > 0 /\ (peer' = "xl3" => length'[p] = Size)
  BY <1>1, <1>2 DEF StreamInv
<1>4. ASSUME ~cut' PROVE ~hung' /\ StreamIsWhole' /\ KeptIsCounted' /\ DeliveredWhole'
  <2>1. ~cut
    BY <1>1, <1>4
  <2>2. ~hung /\ KeptIsCounted
    BY <2>1 DEF StreamInv
  <2>3. /\ temp \in Seq(Marks) /\ input \in Seq(Marks) /\ wire \in Seq(Marks)
        /\ fBytesLeft \in 0 .. Len(input)
    BY <1>1, StreamTypes
  <2> DEFINE u == temp \o input
             n == Len(temp) + fBytesLeft
  <2>4. /\ n \in 0 .. Len(u) /\ u \in Seq(Marks)
        /\ First(n, u) = temp \o First(fBytesLeft, input)
        /\ Rest(n, u) = Rest(fBytesLeft, input)
    BY <2>3, CutInJoined, ConcatProperties
  <2>5. u[1] = temp[1] /\ u # <<>>
    BY <1>1, <2>3, FrontOfJoined
  <2>6. n = length[temp[1].packet]
    <3>1. Len(temp) \in Nat /\ fBytesLeft \in Nat
      BY <2>3
    <3> QED
      BY <1>1, <2>2, <3>1 DEF KeptIsCounted
  <2>7. Stream = u \o wire
    BY DEF Stream
  <2> HIDE DEF u, n
  <2>8. Stream # <<>> /\ n = length[Stream[1].packet]
    BY <2>3, <2>4, <2>5, <2>6, <2>7, FrontOfJoined
  <2>9. First(n, Stream) = First(n, u) /\ Rest(n, Stream) = Rest(n, u) \o wire
    BY <2>3, <2>4, <2>7, CutOfJoined
  <2>10. Stream' = Rest(n, Stream)
    <3>1. Rest(n, u) \in Seq(Marks)
      BY <2>4, CutElements
    <3>2. Stream' = (<<>> \o Rest(n, u)) \o wire
      BY <1>1, <2>4 DEF Stream
    <3>3. <<>> \o Rest(n, u) = Rest(n, u)
      BY <3>1, Empties
    <3> QED
      BY <2>9, <3>2, <3>3
  <2>11. delivered' = Append(delivered, First(n, Stream))
    BY <1>1, <2>4, <2>9
  <2>12. StreamIsWhole' /\ DeliveredWhole'
    BY <1>1, <2>1, <2>8, <2>10, <2>11, OneDelivered
  <2> QED
    BY <1>1, <2>2, <2>12 DEF KeptIsCounted
<1> QED
  BY <1>3, <1>4 DEF StreamInv

(* It has not come yet. *)
LEMMA KeepMoreStreamInv ==
  ASSUME TypeOK, StreamInv, KeepMore
  PROVE  StreamInv'
<1>1. /\ UNCHANGED <<peer, length, wire, delivered, hung, cut>>
      /\ input # <<>> /\ temp # <<>>
      /\ temp' = temp \o input /\ fBytesLeft' = fBytesLeft - Len(input) /\ input' = <<>>
  BY DEF KeepMore
<1>2. temp \in Seq(Marks) /\ input \in Seq(Marks) /\ fBytesLeft \in Nat
  BY StreamTypes
<1>3. /\ temp \o input \in Seq(Marks) /\ Len(temp \o input) = Len(temp) + Len(input)
      /\ Len(temp) \in Nat /\ Len(input) \in Nat
  BY <1>2, JoinElements
<1>4. (temp \o input)[1] = temp[1]
  BY <1>1, <1>2, FrontOfJoined
<1>5. Stream' = Stream
  <2>1. (temp \o input) \o <<>> = temp \o input
    BY <1>3, Empties
  <2> QED
    BY <1>1, <2>1 DEF Stream
<1>6. ~cut' => StreamIsWhole' /\ DeliveredWhole'
  BY <1>1, <1>5, SameStream
<1>7. ~cut' => ~hung' /\ KeptIsCounted'
  <2> SUFFICES ASSUME ~cut' PROVE ~hung' /\ KeptIsCounted'
    OBVIOUS
  <2>1. ~hung /\ fBytesLeft + Len(temp) = length[temp[1].packet]
    BY <1>1 DEF StreamInv, KeptIsCounted
  <2>2. fBytesLeft - Len(input) + (Len(temp) + Len(input)) = fBytesLeft + Len(temp)
    BY <1>2, <1>3
  <2>3. fBytesLeft' + Len(temp') = length'[temp'[1].packet]
    BY <1>1, <1>3, <1>4, <2>1, <2>2
  <2> QED
    BY <1>1, <2>1, <2>3 DEF KeptIsCounted
<1> QED
  BY <1>1, <1>6, <1>7 DEF StreamInv, Sent

(* A packet more is sent. *)
LEMMA SendStreamInv ==
  ASSUME TypeOK, StreamInv, Send
  PROVE  StreamInv'
<1> DEFINE pkt(n) == [i \in 1 .. n |-> [packet |-> Sent + 1, at |-> i]]
<1>1. PICK n \in (IF peer = "xl3" THEN {Size} ELSE Lengths) :
         length' = Append(length, n) /\ wire' = wire \o pkt(n)
  BY DEF Send
<1>2. UNCHANGED <<peer, input, temp, fBytesLeft, delivered, hung, cut>>
  BY DEF Send
<1>3. n \in Nat \ {0} /\ (peer = "xl3" => n = Size)
  BY PacketStreamAssumption
<1>4. /\ Sent \in Nat /\ length \in Seq(Nat) /\ Sent = Len(length)
      /\ temp \in Seq(Marks) /\ input \in Seq(Marks) /\ wire \in Seq(Marks)
      /\ Stream \in Seq(Marks)
  BY StreamTypes
<1>5. /\ Sent' = Sent + 1 /\ length'[Sent + 1] = n
      /\ \A p \in 1 .. Sent : length'[p] = length[p]
  BY <1>1, <1>3, <1>4 DEF Sent
<1>6. \A p \in 1 .. Sent' : length'[p] > 0 /\ (peer' = "xl3" => length'[p] = Size)
  <2>1. TAKE p \in 1 .. Sent'
  <2>2. CASE p \in 1 .. Sent
    BY <1>2, <1>5, <2>2 DEF StreamInv
  <2>3. CASE p = Sent + 1
    BY <1>2, <1>3, <1>5, <2>3
  <2> QED
    BY <1>4, <1>5, <2>2, <2>3
<1>7. ASSUME ~cut' PROVE ~hung' /\ StreamIsWhole' /\ KeptIsCounted' /\ DeliveredWhole'
  <2>1. /\ ~hung /\ KeptIsCounted /\ DeliveredWhole
        /\ InWholePackets(Stream, length) /\ InOrder(Stream)
    BY <1>2, <1>7 DEF StreamInv, StreamIsWhole
  <2>2. pkt(n) \in Seq(Marks)
    BY <1>3, <1>4 DEF Marks
  <2> DEFINE k == pkt(n)
  <2>3. Stream' = Stream \o k
    <3>1. \A a, b, c \in Seq(Marks) : (a \o b) \o c = a \o (b \o c)
      <4> TAKE a, b, c \in Seq(Marks)
      <4> QED
        BY ConcatAssociative, SMT
    <3>2. temp \o input \in Seq(Marks)
      BY <1>4, ConcatProperties
    <3>3. Stream' = (temp \o input) \o (wire \o k)
      BY <1>1, <1>2 DEF Stream
    <3>4. Stream = (temp \o input) \o wire
      BY DEF Stream
    <3> HIDE DEF k
    <3>5. k \in Seq(Marks)
      BY <2>2 DEF k
    <3> QED
      BY <1>4, <3>1, <3>2, <3>3, <3>4, <3>5, Zenon
  <2>4. InWholePackets(Stream \o k, length') /\ InOrder(Stream \o k)
    BY <1>1, <1>3, <1>4, <2>1, PacketAppended
  <2>5. StreamIsWhole'
    BY <2>3, <2>4 DEF StreamIsWhole, InWholePackets, InOrder
  <2>6. KeptIsCounted'
    <3> SUFFICES ASSUME temp # <<>> PROVE fBytesLeft + Len(temp) = length'[temp[1].packet]
      BY <1>2 DEF KeptIsCounted
    <3>1. temp \o input \in Seq(Marks) /\ (temp \o input)[1] = temp[1] /\ temp \o input # <<>>
      BY <1>4, FrontOfJoined, ConcatProperties
    <3>2. Stream[1] = temp[1] /\ Stream # <<>>
      BY <1>4, <3>1, FrontOfJoined DEF Stream
    <3>3. temp[1].packet \in 1 .. Sent
      BY <1>4, <2>1, <3>2, FirstPacket
    <3> QED
      BY <1>5, <2>1, <3>3 DEF KeptIsCounted
  <2>7. DeliveredWhole'
    <3>1. \A p \in 1 .. Sent : Packet(p)' = Packet(p)
      BY <1>5 DEF Packet
    <3>2. \A i \in 1 .. Len(delivered) : \E p \in 1 .. Sent : delivered[i] = Packet(p)
      BY <2>1 DEF DeliveredWhole
    <3>3. \A p \in 1 .. Sent : p \in 1 .. Sent'
      BY <1>4, <1>5
    <3>4. \A i \in 1 .. Len(delivered') : \E p \in 1 .. Sent' : delivered'[i] = Packet(p)'
      BY <1>2, <3>1, <3>2, <3>3
    <3>5. ASSUME NEW i \in 1 .. Len(delivered), NEW j \in 1 .. Len(Stream \o k)
          PROVE  delivered[i][1].packet < (Stream \o k)[j].packet
      <4>1. /\ Len(Stream \o k) = Len(Stream) + Len(k) /\ Len(k) = n /\ Len(Stream) \in Nat
            /\ \A h \in 1 .. Len(Stream) : (Stream \o k)[h] = Stream[h]
            /\ \A h \in 1 .. Len(Stream) + Len(k) : h > Len(Stream) =>
                 h - Len(Stream) \in 1 .. Len(k) /\ (Stream \o k)[h] = k[h - Len(Stream)]
        BY <1>3, <1>4, <2>2, JoinElements
      <4>4. \A h \in 1 .. n : k[h].packet = Sent + 1
        OBVIOUS
      <4> HIDE DEF k
      <4>2. CASE j <= Len(Stream)
        <5>1. j \in 1 .. Len(Stream)
          BY <4>1, <4>2
        <5> QED
          BY <2>1, <4>1, <5>1 DEF DeliveredWhole
      <4>3. CASE j > Len(Stream)
        <5>1. (Stream \o k)[j].packet = Sent + 1
          <6>1. j - Len(Stream) \in 1 .. n /\ (Stream \o k)[j] = k[j - Len(Stream)]
            BY <4>1, <4>3
          <6> QED
            BY <4>4, <6>1
        <5>2. PICK p \in 1 .. Sent : delivered[i] = Packet(p)
          BY <3>2
        <5>3. length[p] > 0 /\ length[p] \in Nat
          BY <5>2, StreamTypes DEF StreamInv
        <5>4. delivered[i][1] = [packet |-> p, at |-> 1]
          BY <5>2, <5>3 DEF Packet
        <5> QED
          BY <1>4, <5>1, <5>2, <5>4
      <4>5. j <= Len(Stream) \/ j > Len(Stream)
        BY <4>1
      <4> QED
        BY <4>2, <4>3, <4>5
    <3>6. \A i \in 1 .. Len(delivered'), j \in 1 .. Len(Stream') :
            delivered'[i][1].packet < Stream'[j].packet
      BY <1>2, <2>3, <3>5
    <3>7. \A i, j \in 1 .. Len(delivered') :
            i < j => delivered'[i][1].packet < delivered'[j][1].packet
      BY <1>2, <2>1 DEF DeliveredWhole
    <3> QED
      BY <3>4, <3>6, <3>7 DEF DeliveredWhole
  <2> QED
    BY <1>2, <2>1, <2>5, <2>6, <2>7
<1> QED
  BY <1>6, <1>7 DEF StreamInv

(* A link that is lost between two packets leaves nothing behind. *)
LEMMA ReconnectStreamInv ==
  ASSUME TypeOK, StreamInv, Reconnect
  PROVE  StreamInv'
<1>1. /\ input = <<>> /\ wire' = <<>> /\ cut' = (cut \/ temp # <<>>)
      /\ UNCHANGED <<peer, length, input, temp, fBytesLeft, delivered, hung>>
  BY DEF Reconnect
<1>2. Sent' = Sent /\ (\A q : Packet(q)' = Packet(q))
  BY <1>1 DEF Sent, Packet
<1>3. ASSUME ~cut' PROVE ~hung' /\ StreamIsWhole' /\ KeptIsCounted' /\ DeliveredWhole'
  <2>1. ~cut /\ temp = <<>> /\ temp' = <<>>
    BY <1>1, <1>3
  <2>2. ~hung /\ DeliveredWhole
    BY <2>1 DEF StreamInv
  <2>3. Stream' = <<>> /\ Len(Stream') = 0
    BY <1>1, <2>1 DEF Stream
  <2>4. StreamIsWhole'
    BY <2>3 DEF StreamIsWhole, InWholePackets, InOrder
  <2>5. DeliveredWhole'
    BY <1>1, <1>2, <2>2, <2>3 DEF DeliveredWhole
  <2> QED
    BY <1>1, <2>1, <2>2, <2>4, <2>5 DEF KeptIsCounted
<1> QED
  BY <1>1, <1>2, <1>3 DEF StreamInv

LEMMA NextStreamInv ==
  ASSUME TypeOK, StreamInv, [Next]_vars
  PROVE  StreamInv'
<1>1. CASE UNCHANGED vars
  <2>1. Sent' = Sent /\ Stream' = Stream /\ (\A q : Packet(q)' = Packet(q))
    BY <1>1 DEF vars, Sent, Stream, Packet
  <2>2. ~cut' => StreamIsWhole' /\ DeliveredWhole'
    BY <1>1, <2>1, SameStream DEF vars
  <2> QED
    BY <1>1, <2>1, <2>2 DEF vars, StreamInv, KeptIsCounted
<1> QED
  BY <1>1, SendStreamInv, ReadStreamInv, TakePacketStreamInv, CompletePacketStreamInv,
     KeepMoreStreamInv, ReconnectStreamInv DEF Next, EventLoop

(* Until the stream is cut, by a loss of the link that leaves part of a    *)
(* packet in fTempPacket or by a read of the SBC that ends inside a        *)
(* header, RecvCallback delivers the packets that were sent, whole, in     *)
(* order and once, and its loop ends.                                      *)
THEOREM SpecDeliveredAsSent == Spec => []DeliveredAsSent
<1>1. StreamInv => DeliveredAsSent
  BY DEF StreamInv, DeliveredWhole, DeliveredAsSent, WholeAndInOrder
<1>2. Spec => [](TypeOK /\ StreamInv)
  BY InitTypeOK, NextTypeOK, InitStreamInv, NextStreamInv, PTL DEF Spec
<1> QED
  BY <1>1, <1>2, PTL

(* Nothing else cuts the stream: it is a loss of the link with part of a   *)
(* packet in fTempPacket, or a turn of the loop over fewer bytes of the    *)
(* SBC than a header has.                                                  *)
THEOREM OnlyTheseCut ==
  Spec => [][~cut /\ cut' => \/ Reconnect /\ temp # <<>>
                             \/ TakePacket /\ peer = "sbc" /\ Len(input) < Header]_vars
<1>1. ASSUME TypeOK, StreamInv, [Next]_vars, ~cut, cut'
      PROVE  \/ Reconnect /\ temp # <<>>
             \/ TakePacket /\ peer = "sbc" /\ Len(input) < Header
  <2>1. CASE Reconnect
    BY <1>1, <2>1 DEF Reconnect
  <2>2. CASE TakePacket
    <3>1. temp = <<>> /\ input # <<>> /\ peer = "sbc" /\ ~WholeHeader
      BY <1>1, <2>2 DEF TakePacket
    <3>2. /\ input \in Seq(Marks) /\ wire \in Seq(Marks) /\ Stream \in Seq(Marks)
          /\ Len(input) \in Nat
      BY <1>1, StreamTypes
    <3>3. Stream = input \o wire
      BY <3>1, <3>2, Empties DEF Stream
    <3>4. Stream[1] = input[1] /\ Stream # <<>>
      BY <3>1, <3>2, <3>3, FrontOfJoined
    <3>5. StreamIsWhole
      BY <1>1 DEF StreamInv
    <3>6. input[1].at = 1
      BY <1>1, <3>2, <3>4, <3>5, FirstPacket DEF StreamIsWhole
    <3>7. Len(input) < Header
      BY <3>1, <3>2, <3>6, PacketStreamAssumption DEF WholeHeader
    <3> QED
      BY <2>2, <3>1, <3>7
  <2> QED
    BY <1>1, <2>1, <2>2
       DEF Next, EventLoop, Send, Read, CompletePacket, KeepMore, vars
<1>2. Spec => [](TypeOK /\ StreamInv)
  BY InitTypeOK, NextTypeOK, InitStreamInv, NextStreamInv, PTL DEF Spec
<1>3. TypeOK /\ StreamInv /\ [Next]_vars
        => [~cut /\ cut' => \/ Reconnect /\ temp # <<>>
                            \/ TakePacket /\ peer = "sbc" /\ Len(input) < Header]_vars
  BY <1>1
<1> QED
  BY <1>2, <1>3, PTL DEF Spec

(* Nothing is asked of how the bytes of an XL3 are cut up: over a link     *)
(* that has not been lost they are delivered as they were sent.            *)
THEOREM WholeWithoutLoss == Spec => [](peer = "xl3" /\ losses = 0 => WholeAndInOrder)
<1> DEFINE Uncut == peer = "xl3" /\ losses = 0 => ~cut
<1>1. Init => Uncut
  BY DEF Init
<1>2. TypeOK /\ Uncut /\ [Next]_vars => Uncut'
  BY DEF TypeOK, Next, EventLoop, Send, Read, TakePacket, CompletePacket, KeepMore,
         Reconnect, vars
<1>3. Spec => []Uncut
  BY <1>1, <1>2, InitTypeOK, NextTypeOK, PTL DEF Spec
<1>4. Uncut /\ DeliveredAsSent => (peer = "xl3" /\ losses = 0 => WholeAndInOrder)
  BY DEF DeliveredAsSent
<1> QED
  BY <1>3, <1>4, SpecDeliveredAsSent, PTL
=============================================================================
