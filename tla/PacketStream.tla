---------------------------- MODULE PacketStream ----------------------------
(***************************************************************************)
(* DispatchParamData: packets are cut out of the bytes recv returns.  All  *)
(* connections put their bytes into one static buffer.  A byte stands for  *)
(* a field of a packet: the two label bytes, the length, the data.         *)
(*                                                                         *)
(* Calls for different sockets are serialised here, which the code does    *)
(* not do; that the buffer is shared shows without any race.               *)
(***************************************************************************)
EXTENDS Integers, SequencesExt

BodyValues == {"L1", "L2", "x"}

CONSTANTS
  Sockets,      \* connections whose threads call DispatchParamData
  NoSocket,     \* no call is under way
  Bodies,       \* the data a packet may hold, as sequences of field values
  Strange,      \* the numbers that bytes read as which are not a packet's length
  MaxPackets,   \* bound: packets sent on each connection
  MaxChunk      \* most bytes one recv returns (1024 in the code)

ASSUME StreamAssumption ==
  /\ NoSocket \notin Sockets
  /\ Bodies # {} /\ Bodies \subseteq Seq(BodyValues)
  /\ Strange # {} /\ Strange \subseteq Int
  /\ MaxPackets \in Nat /\ MaxChunk \in Nat \ {0}

VARIABLES
  sent,       \* history: the packets sent on each connection
  wire,       \* their bytes not yet received
  buf,        \* the first s_offset bytes of s_AnlyBuff
  cur,        \* the socket whose call of DispatchParamData is in its loop
  thrown,     \* a packet of a negative length was asked for: the program is over
  delivered   \* history: the packets pushed to the queue of each socket

vars == <<sent, wire, buf, cur, thrown, delivered>>

(* A byte knows its value, the numbers it may read as when it lies where    *)
(* a length is expected, and where it comes from: the connection, and the   *)
(* packet and position in what was sent there.  The length of a packet      *)
(* reads as what it is; any other byte with its neighbours as any number of *)
(* Strange, possibly another one each time (the code's four bytes are one   *)
(* here).                                                                   *)
Byte(s, at, value, reads) == [val |-> value, reads |-> reads, src |-> s, at |-> at]
HeadSize == 3
PacketOf(s, n, body) ==
  <<Byte(s, <<n, 1>>, "L1", Strange), Byte(s, <<n, 2>>, "L2", Strange),
    Byte(s, <<n, 3>>, "length", {Len(body)})>>
    \o [i \in 1 .. Len(body) |-> Byte(s, <<n, HeadSize + i>>, body[i], Strange)]

Bytes ==
  [val : BodyValues \cup {"length"}, reads : SUBSET Int, src : Sockets, at : Nat \X Nat]

StartsWithLabel(b) == Len(b) >= 2 /\ b[1].val = "L1" /\ b[2].val = "L2"

(* Types, and what a call of DispatchParamData leaves in the buffer: fewer  *)
(* bytes than a head, or bytes that start with a label.                     *)
TypeOK ==
  /\ sent \in [Sockets -> Seq(Seq(Bytes))]
  /\ wire \in [Sockets -> Seq(Bytes)]
  /\ buf \in Seq(Bytes)
  /\ cur \in Sockets \cup {NoSocket}
  /\ thrown \in BOOLEAN
  /\ delivered \in [Sockets -> Seq(Seq(Bytes))]
  /\ cur = NoSocket => Len(buf) < HeadSize \/ StartsWithLabel(buf)

Init ==
  /\ sent = [s \in Sockets |-> <<>>]
  /\ wire = [s \in Sockets |-> <<>>]
  /\ buf = <<>>
  /\ cur = NoSocket
  /\ thrown = FALSE
  /\ delivered = [s \in Sockets |-> <<>>]
-----------------------------------------------------------------------------
Send(s, body) ==
  LET packet == PacketOf(s, Len(sent[s]) + 1, body)
  IN /\ Len(sent[s]) < MaxPackets
     /\ sent' = [sent EXCEPT ![s] = Append(@, packet)]
     /\ wire' = [wire EXCEPT ![s] = @ \o packet]
     /\ UNCHANGED <<buf, cur, thrown, delivered>>

(* recv returns k bytes, and the call of DispatchParamData appends them.   *)
RecvBytes(s, k) ==
  /\ cur = NoSocket /\ k <= MaxChunk
  /\ buf' = buf \o SubSeq(wire[s], 1, k)
  /\ wire' = [wire EXCEPT ![s] = SubSeq(@, k + 1, Len(@))]
  /\ cur' = s
  /\ UNCHANGED <<sent, thrown, delivered>>

Recv(s) == \E k \in 1 .. Len(wire[s]) : RecvBytes(s, k)

Labels == {i \in 1 .. Len(buf) - 1 : buf[i].val = "L1" /\ buf[i + 1].val = "L2"}
FirstLabel == CHOOSE i \in Labels : \A j \in Labels : i <= j

(* What is left of the buffer when the bytes before the label are dropped. *)
Aligned == SubSeq(buf, FirstLabel, Len(buf))

(* Where the length is expected.  Behind a head that is cut off lie old     *)
(* bytes of the memory, which are no longer counted in the buffer.          *)
LengthsRead(b) == IF Len(b) >= HeadSize THEN b[HeadSize].reads ELSE Strange

(* A slip: the length of the head is not added.                             *)
BodyLength(n) == n

PacketLength(n) == HeadSize + n

Complete(b, n) == Len(b) >= PacketLength(n)

(* A slip: the last byte of the packet is not moved out.                   *)
KeepOneByte(b, length) == SubSeq(b, length, Len(b))

Rest(b, length) == SubSeq(b, length + 1, Len(b))

(* A slip: an if where the code has a while.                               *)
StopAfterOne == cur' = NoSocket

LoopAgain == UNCHANGED cur

(* One turn of the loop, or its end.                                       *)
InLoop == cur # NoSocket /\ ~thrown

NoHead ==
  /\ InLoop /\ Len(buf) < HeadSize
  /\ cur' = NoSocket
  /\ UNCHANGED <<sent, wire, buf, thrown, delivered>>

NoLabel ==
  /\ InLoop /\ Len(buf) >= HeadSize /\ Labels = {}
  /\ buf' = <<>>
  /\ cur' = NoSocket
  /\ UNCHANGED <<sent, wire, thrown, delivered>>

Incomplete ==
  /\ InLoop /\ Len(buf) >= HeadSize /\ Labels # {}
  /\ \E n \in LengthsRead(Aligned) : ~Complete(Aligned, n)
  /\ buf' = Aligned
  /\ cur' = NoSocket
  /\ UNCHANGED <<sent, wire, thrown, delivered>>

(* The signed length is compared, and a buffer of that size is then asked   *)
(* for: the packet is pushed, or the number was negative and nobody catches *)
(* what new throws.                                                         *)
PushBytes(n) ==
  /\ n >= 0
  /\ delivered' = [delivered EXCEPT ![cur] = Append(@, SubSeq(Aligned, 1, PacketLength(n)))]
  /\ buf' = Rest(Aligned, PacketLength(n))
  /\ LoopAgain
  /\ UNCHANGED thrown

NewThrows(n) ==
  /\ n < 0
  /\ thrown' = TRUE
  /\ UNCHANGED <<buf, cur, delivered>>

PushPacket ==
  /\ InLoop /\ Len(buf) >= HeadSize /\ Labels # {}
  /\ \E n \in LengthsRead(Aligned) : Complete(Aligned, n) /\ (PushBytes(n) \/ NewThrows(n))
  /\ UNCHANGED <<sent, wire>>

Dispatch == NoHead \/ NoLabel \/ Incomplete \/ PushPacket

Next ==
  \/ Dispatch
  \/ \E s \in Sockets : Recv(s) \/ \E body \in Bodies : Send(s, body)

Spec == Init /\ [][Next]_vars
-----------------------------------------------------------------------------
(* As long as only one connection sends, the buffer is its own.            *)
Alone(s) == \A t \in Sockets \ {s} : sent[t] = <<>>

(* However recv cuts the stream, and whatever the data looks like, the     *)
(* packets pushed for a socket that is alone are the ones sent on it,      *)
(* whole and in order, and no data is taken for a length.                  *)
Framed == \A s \in Sockets : Alone(s) => ~thrown /\ IsPrefix(delivered[s], sent[s])

(* No packet stays in the buffer when all its bytes have been received.    *)
NothingStuck ==
  \A s \in Sockets :
    Alone(s) /\ cur = NoSocket /\ wire[s] = <<>> => delivered[s] = sent[s]

(* Whatever connections share the buffer, no byte a client sent is pushed  *)
(* twice, or pushed and still buffered, in whatever packets and for        *)
(* whatever sockets the mixed bytes come out.                              *)
Pushes == UNION {{t} \X DOMAIN delivered[t] : t \in Sockets}
PushedPacket(p) == delivered[p[1]][p[2]]
NoByteTwice ==
  /\ IsInjective(buf)
  /\ \A p \in Pushes : /\ IsInjective(PushedPacket(p))
                       /\ Range(PushedPacket(p)) \cap Range(buf) = {}
  /\ \A p, q \in Pushes : p # q => Range(PushedPacket(p)) \cap Range(PushedPacket(q)) = {}

(* A connection has a receive buffer of its own ("a client has connected,  *)
(* open up the receive buffer", OnConnectServer): what is pushed for it    *)
(* was received on it. The code does not keep this: the buffer is static.  *)
OwnBytes ==
  \A s \in Sockets : \A i \in DOMAIN delivered[s] : \A k \in DOMAIN delivered[s][i] :
    delivered[s][i][k].src = s
=============================================================================
