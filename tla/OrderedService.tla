--------------------------- MODULE OrderedService ---------------------------
(***************************************************************************)
(* What a server with bounded queues promises the clients it serves: the   *)
(* calls of a client are answered to that client, each at most once, in    *)
(* the order it sent them.  A call may be lost, but only to something the  *)
(* same client sent after it; a call of a function that exists is not      *)
(* given up for any other reason.                                          *)
(***************************************************************************)
EXTENDS Naturals

CONSTANTS Clients, Calls  \* Calls: numbers a client may give its calls, from 1
VARIABLES
  issued,   \* how many calls each client has sent
  pending,  \* what is with the server
  answered  \* the calls for which a client has been sent a reply

(* A call of a function that exists, or of one that does not.              *)
CallOf(c, kind, n) == [kind |-> kind, id |-> <<c, n>>]

(* A list of functions. They are all alike: one that is sent again while   *)
(* another one is pending changes nothing.                                 *)
ListOf(c) == [kind |-> "list", id |-> <<c, 0>>]

Init ==
  /\ issued = [c \in Clients |-> 0]
  /\ pending = {}
  /\ answered = [c \in Clients |-> {}]

Send(c, kind) ==
  /\ issued[c] + 1 \in Calls
  /\ issued' = [issued EXCEPT ![c] = @ + 1]
  /\ pending' = pending \cup {CallOf(c, kind, issued[c] + 1)}
  /\ UNCHANGED answered

SendList(c) ==
  /\ pending' = pending \cup {ListOf(c)}
  /\ UNCHANGED <<issued, answered>>

(* What needs no answer is done: a list is stored, a function that does    *)
(* not exist is not called.                                                *)
Discharge(x) ==
  /\ x \in pending /\ x.kind # "req"
  /\ pending' = pending \ {x}
  /\ UNCHANGED <<issued, answered>>

(* y may push x out of a queue that is full. Of two calls it is the later  *)
(* one that stays; lists carry no number.                                  *)
Displaces(y, x) ==
  /\ y.id[1] = x.id[1]
  /\ x.kind = "list" \/ y.kind = "list" \/ x.id[2] < y.id[2]

Lose(x) ==
  /\ x \in pending
  /\ \E y \in pending \ {x} : Displaces(y, x)
  /\ pending' = pending \ {x}
  /\ UNCHANGED <<issued, answered>>

(* No other call of the client is as old as x. *)
Oldest(x) ==
  \A y \in pending \ {x} :
    y.id[1] = x.id[1] => y.kind = "list" \/ x.id[2] < y.id[2]

Answer(x) ==
  /\ x \in pending /\ x.kind = "req" /\ Oldest(x)
  /\ pending' = pending \ {x}
  /\ answered' = [answered EXCEPT ![x.id[1]] = @ \cup {x.id}]
  /\ UNCHANGED issued

Next ==
  \/ \E c \in Clients : SendList(c) \/ \E kind \in {"req", "unknown"} : Send(c, kind)
  \/ \E x \in pending : Discharge(x) \/ Lose(x) \/ Answer(x)

Spec == Init /\ [][Next]_<<issued, pending, answered>>
=============================================================================
