--------------------------- MODULE PacketStream ---------------------------
(***************************************************************************)
(* How the event loop cuts the bytes of a link into packets again:         *)
(* XL3Link::RecvCallback and MTCLink::RecvCallback.  TCP keeps the order   *)
(* of the bytes and not where packets begin, so a callback may find any    *)
(* part of what was sent.  A packet of an XL3 has a fixed length; one of   *)
(* the SBC has its length in its first bytes.  The part of a packet that   *)
(* ends a callback is kept in fTempPacket for the next one, also when the  *)
(* link has been lost and opened again in between.                         *)
(***************************************************************************)
EXTENDS Naturals, Sequences

CONSTANTS
  Size,       \* the length of an XL3 packet, in bytes
  Header,     \* the bytes that hold the length of a packet of the SBC
  Lengths,    \* the lengths of its packets
  Garbled,    \* the lengths that other bytes may be taken for
  MaxPackets, \* bound: packets sent
  MaxLosses   \* bound: losses of the link

ASSUME PacketStreamAssumption ==
  /\ Size \in Nat \ {0} /\ Header \in Nat \ {0}
  /\ Lengths \subseteq Nat /\ \A n \in Lengths : n >= Header
  /\ Garbled \subseteq Nat
  /\ MaxPackets \in Nat /\ MaxLosses \in Nat

VARIABLES
  peer,        \* "xl3" or "sbc"
  length,      \* the length of each packet sent
  wire,        \* the bytes sent and not yet read
  input,       \* what RecvCallback has read and not yet dealt with
  temp,        \* the first fTempBytes bytes of fTempPacket
  fBytesLeft,
  delivered,   \* the packets given to ProcessPacket or put in fRecvQueue
  hung,        \* the loop goes round for ever
  cut,         \* the link was lost in the middle of a packet, or a read of
               \* the SBC ended inside a header
  losses

vars == <<peer, length, wire, input, temp, fBytesLeft, delivered, hung, cut, losses>>

Packets == 1 .. MaxPackets
Sent == Len(length)
Bytes == [packet : 1 .. Sent, at : Nat]
Packet(p) == [i \in 1 .. length[p] |-> [packet |-> p, at |-> i]]

TypeOK ==
  /\ peer \in {"xl3", "sbc"}
  /\ length \in Seq(IF peer = "xl3" THEN {Size} ELSE Lengths) /\ Sent <= MaxPackets
  /\ wire \in Seq(Bytes) /\ input \in Seq(Bytes) /\ temp \in Seq(Bytes)
  /\ fBytesLeft \in Nat
  /\ peer = "xl3" => fBytesLeft = IF temp = <<>> THEN 0 ELSE Size - Len(temp)
  /\ delivered \in Seq(Seq(Bytes))
  /\ hung \in BOOLEAN /\ cut \in BOOLEAN
  /\ losses \in 0 .. MaxLosses

Init ==
  /\ peer \in {"xl3", "sbc"}
  /\ length = <<>> /\ wire = <<>> /\ input = <<>> /\ temp = <<>> /\ fBytesLeft = 0
  /\ delivered = <<>> /\ hung = FALSE /\ cut = FALSE /\ losses = 0

----------------------------------------------------------------------------
First(n, s) == SubSeq(s, 1, n)
Rest(n, s) == SubSeq(s, n + 1, Len(s))

Send ==
  /\ Sent < MaxPackets
  /\ \E n \in (IF peer = "xl3" THEN {Size} ELSE Lengths) :
       /\ length' = Append(length, n)
       /\ wire' = wire \o [i \in 1 .. n |-> [packet |-> Sent + 1, at |-> i]]
  /\ UNCHANGED <<peer, input, temp, fBytesLeft, delivered, hung, cut, losses>>

(* RecvCallback reads what has come so far. *)
Read ==
  /\ input = <<>> /\ ~hung
  /\ \E n \in 1 .. Len(wire) : input' = First(n, wire) /\ wire' = Rest(n, wire)
  /\ UNCHANGED <<peer, length, temp, fBytesLeft, delivered, hung, cut, losses>>

(* The length of the packet at the front of the input: for the SBC the     *)
(* number its first bytes make, which is its length when they are a whole  *)
(* header, and another number when they are not.                           *)
WholeHeader == input[1].at = 1 /\ Len(input) >= Header
Expected ==
  IF peer = "xl3" THEN {Size}
  ELSE IF WholeHeader THEN {length[input[1].packet]}
  ELSE Garbled

(* Slip: a packet that ends with the input is kept for the next callback.  *)
IsWholeStrictly(n) == Len(input) > n

IsWhole(n) == Len(input) >= n

(* One turn of the loop with nothing kept. *)
TakePacket ==
  /\ input # <<>> /\ temp = <<>> /\ ~hung
  /\ \E n \in Expected :
       IF ~IsWhole(n)
         THEN /\ temp' = input /\ fBytesLeft' = n - Len(input) /\ input' = <<>>
              /\ UNCHANGED <<delivered, hung>>
         ELSE /\ delivered' = Append(delivered, First(n, input)) /\ input' = Rest(n, input)
              /\ hung' = (n = 0)
              /\ UNCHANGED <<temp, fBytesLeft>>
  /\ cut' = (cut \/ (peer = "sbc" /\ ~WholeHeader))
  /\ UNCHANGED <<peer, length, wire, losses>>

(* Slip: the rest of the input is dropped with the packet. *)
CompletePacketAndDrop ==
  /\ input # <<>> /\ temp # <<>> /\ Len(input) >= fBytesLeft
  /\ delivered' = Append(delivered, temp \o First(fBytesLeft, input))
  /\ input' = <<>>
  /\ temp' = <<>> /\ fBytesLeft' = 0
  /\ UNCHANGED <<peer, length, wire, hung, cut, losses>>

(* One turn with a packet kept, of which the rest has come. *)
CompletePacket ==
  /\ input # <<>> /\ temp # <<>> /\ Len(input) >= fBytesLeft
  /\ delivered' = Append(delivered, temp \o First(fBytesLeft, input))
  /\ input' = Rest(fBytesLeft, input)
  /\ temp' = <<>> /\ fBytesLeft' = 0
  /\ UNCHANGED <<peer, length, wire, hung, cut, losses>>

(* One turn with a packet kept, of which the rest has not come yet. *)
KeepMore ==
  /\ input # <<>> /\ temp # <<>> /\ Len(input) < fBytesLeft
  /\ temp' = temp \o input /\ fBytesLeft' = fBytesLeft - Len(input) /\ input' = <<>>
  /\ UNCHANGED <<peer, length, wire, delivered, hung, cut, losses>>

(* The link is lost and opened again, by the XL3 or by sbc_control: what   *)
(* was on the wire is gone, and nothing in the link is reset.              *)
Reconnect ==
  /\ input = <<>> /\ losses < MaxLosses
  /\ wire' = <<>> /\ cut' = (cut \/ temp # <<>>) /\ losses' = losses + 1
  /\ UNCHANGED <<peer, length, input, temp, fBytesLeft, delivered, hung>>

EventLoop == Read \/ TakePacket \/ CompletePacket \/ KeepMore

Next == Send \/ EventLoop \/ Reconnect

Spec == Init /\ [][Next]_vars

(* The event loop runs a callback whenever there is something to read. *)
FairSpec == Spec /\ WF_vars(EventLoop)

----------------------------------------------------------------------------
(* Properties. *)

(* The loop ends, and what has been delivered are packets that were sent,  *)
(* each of them whole, in their order and once at most.                    *)
WholeAndInOrder ==
  /\ ~hung
  /\ \A i \in 1 .. Len(delivered) :
       \E p \in 1 .. Sent : delivered[i] = Packet(p)
  /\ \A i, j \in 1 .. Len(delivered) :
       i < j => delivered[i][1].packet < delivered[j][1].packet

(* Until the link is lost in the middle of a packet, or a read of the SBC  *)
(* ends inside a header, RecvCallback makes the packets that were sent     *)
(* again of the parts it reads.                                            *)
DeliveredAsSent == ~cut => WholeAndInOrder

Arrived(p) == p <= Sent /\ \E i \in 1 .. Len(delivered) : delivered[i] = Packet(p)

(* A packet that was sent is delivered in the end, and does not wait for   *)
(* the next one to push it out, unless the link is lost, or a read of the  *)
(* SBC ends inside a header.                                               *)
EveryPacketArrives ==
  \A p \in Packets : (p <= Sent) ~> (Arrived(p) \/ cut \/ losses > 0)
=============================================================================
