--------------------------- MODULE MCPacketStream ---------------------------
(***************************************************************************)
(* PacketStream for TLC: packets without data, and with data that looks    *)
(* like the label of a packet; bytes taken for a length read as a negative *)
(* number, or as one that is more than the rest of the packet.             *)
(***************************************************************************)
EXTENDS PacketStream, TLC

SomeBodies == {<<>>, <<"L1", "L2">>}

SomeNumbers == {-1, 4}

(* No step treats one connection differently from another. *)
SocketSymmetry == Permutations(Sockets)
=============================================================================
