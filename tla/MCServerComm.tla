---------------------------- MODULE MCServerComm ----------------------------
(***************************************************************************)
(* MsvServerComm for TLC: the addresses and the requests of the clients.   *)
(* getsockname returns the server's own address, so clients have different *)
(* ones only when each reaches the server through an interface of its own. *)
(***************************************************************************)
EXTENDS MsvServerComm

OwnAddr == [s \in Sockets |-> s]
OneAddr == [s \in Sockets |-> "any"]

NoKinds == [s \in Sockets |-> {}]
ReqKinds == [s \in Sockets |-> {"req"}]
AllKinds == [s \in Sockets |-> {"req", "unknown"}]
StayersAsk == [s \in Sockets |-> IF s \in Leaving THEN {} ELSE {"req"}]
OneAsks ==
  LET asking == CHOOSE s \in Sockets : TRUE
  IN [s \in Sockets |-> IF s = asking THEN {"req"} ELSE {}]
=============================================================================
