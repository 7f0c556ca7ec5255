----------------------------- MODULE RemoteCall -----------------------------
(***************************************************************************)
(* DoActionRemoteFun: application threads call functions of the peer over  *)
(* one connection.  A call queues its request and then polls a queue of    *)
(* returned packets that all calls share, m_vecReturnDataRecv, until it    *)
(* takes one or its time is over.  A packet carries no number that would   *)
(* tell which call it answers: the identity kept here is a history.        *)
(*                                                                         *)
(* Between the queues lie the send and receive threads of both programs    *)
(* (MsvServerComm): requests are executed in order, one that names no      *)
(* function is not answered, and packets pushed out of a full queue are    *)
(* lost.  Time is abstract: a thread that polls may find its time over at  *)
(* any poll, and has after MaxPolls of them (each sleeps 50 ms).           *)
(***************************************************************************)
EXTENDS BoundedQueues, FiniteSets

CONSTANTS
  Callers,             \* threads that call
  MaxCalls,            \* bound: calls of each thread, for each
  MaxPolls,            \* polls that fit into Timeout
  MAX_PACKETDATA_NUM,  \* length of the send queue (128 in the code)
  MAX_RETURN           \* length of the return queue (100 in the code)

ASSUME CallAssumption ==
  /\ MaxCalls \in [Callers -> Nat] /\ MaxPolls \in Nat
  /\ MAX_PACKETDATA_NUM \in Nat \ {0} /\ MAX_RETURN \in Nat \ {0}

VARIABLES
  registered,  \* the connection has its entry in m_vecSocketRemote
  pc,          \* per caller: "idle", "wait" (loop head), "get"
  called,      \* per caller: number of the current or last call
  polls,       \* per caller: polls of the current call
  result,      \* history: what each call returned
  sendQ,       \* requests on their way to the peer
  back,        \* replies on their way back
  returnQ,     \* m_vecReturnDataRecv
  consumed     \* history: the replies taken from returnQ, in order

callers == <<pc, called, polls, result>>
vars == <<registered, callers, sendQ, back, returnQ, consumed>>

Id == UNION {{c} \X (1 .. MaxCalls[c]) : c \in Callers}
CallCounts == {f \in [Callers -> Nat] : \A c \in Callers : f[c] <= MaxCalls[c]}
Pending == [how |-> "pending", of |-> {}]
NoSocketFound == [how |-> "noSocket", of |-> {}]
NoResponse == [how |-> "timeout", of |-> {}]
Success(id) == [how |-> "success", of |-> {id}]

TypeOK ==
  /\ registered \in BOOLEAN
  /\ pc \in [Callers -> {"idle", "wait", "get"}]
  /\ called \in CallCounts
  /\ polls \in [Callers -> 0 .. MaxPolls]
  /\ result \in [Id -> {Pending, NoSocketFound, NoResponse} \cup {Success(id) : id \in Id}]
  /\ sendQ \in Seq(Id) /\ Len(sendQ) <= MAX_PACKETDATA_NUM
  /\ back \in Seq(Id)
  /\ returnQ \in Seq(Id) /\ Len(returnQ) <= MAX_RETURN
  /\ consumed \in Seq(Id)

Init ==
  /\ registered = FALSE
  /\ pc = [c \in Callers |-> "idle"]
  /\ called = [c \in Callers |-> 0]
  /\ polls = [c \in Callers |-> 0]
  /\ result = [id \in Id |-> Pending]
  /\ sendQ = <<>> /\ back = <<>> /\ returnQ = <<>> /\ consumed = <<>>
-----------------------------------------------------------------------------
(* AddSocketSource: from now on GetSocketByIPAndPort finds the connection. *)
Register ==
  /\ ~registered /\ registered' = TRUE
  /\ UNCHANGED <<callers, sendQ, back, returnQ, consumed>>

Current(c) == <<c, called[c]>>
Return(c, outcome) ==
  /\ pc' = [pc EXCEPT ![c] = "idle"]
  /\ result' = [result EXCEPT ![Current(c)] = outcome]
  /\ UNCHANGED <<called, polls>>

(* The call up to its loop: the socket is looked up and the request queued. *)
Call(c) ==
  LET id == <<c, called[c] + 1>>
  IN /\ pc[c] = "idle" /\ called[c] < MaxCalls[c]
     /\ called' = [called EXCEPT ![c] = @ + 1]
     /\ polls' = [polls EXCEPT ![c] = 0]
     /\ IF registered
        THEN /\ sendQ' = PushDropOldest(sendQ, id, MAX_PACKETDATA_NUM)
             /\ pc' = [pc EXCEPT ![c] = "wait"]
             /\ UNCHANGED result
        ELSE /\ result' = [result EXCEPT ![id] = NoSocketFound]
             /\ UNCHANGED <<pc, sendQ>>
     /\ UNCHANGED <<registered, back, returnQ, consumed>>

TimeIsOver(c) == polls[c] = MaxPolls

(* The head of the loop.  Any thread may be held up past its time. *)
Expire(c) ==
  /\ pc[c] = "wait"
  /\ Return(c, NoResponse)
  /\ UNCHANGED <<registered, sendQ, back, returnQ, consumed>>

InTime(c) ==
  /\ pc[c] = "wait" /\ ~TimeIsOver(c)
  /\ pc' = [pc EXCEPT ![c] = "get"]
  /\ UNCHANGED <<registered, called, polls, result, sendQ, back, returnQ, consumed>>

(* Two slips: the packet is copied and not erased, or the newest is taken. *)
LeaveFirst == /\ consumed' = Append(consumed, Head(returnQ))
              /\ UNCHANGED returnQ
TakeLast == /\ consumed' = Append(consumed, returnQ[Len(returnQ)])
            /\ returnQ' = SubSeq(returnQ, 1, Len(returnQ) - 1)

(* GetReturnData when there is one. *)
TakeFirst == /\ consumed' = Append(consumed, Head(returnQ))
             /\ returnQ' = Tail(returnQ)

(* A slip: starttime is read again at every turn of the loop. *)
RestartClock(c) == polls' = [polls EXCEPT ![c] = 0]

SpendTime(c) == polls' = [polls EXCEPT ![c] = @ + 1]

GetReturnData(c) ==
  /\ pc[c] = "get"
  /\ IF returnQ # <<>>
     THEN TakeFirst /\ Return(c, Success(consumed'[Len(consumed')]))
     ELSE /\ pc' = [pc EXCEPT ![c] = "wait"]
          /\ SpendTime(c)
          /\ UNCHANGED <<called, result, returnQ, consumed>>
  /\ UNCHANGED <<registered, sendQ, back>>

(* The peer executes the oldest request, and answers if it can. *)
Answer ==
  /\ sendQ # <<>>
  /\ sendQ' = Tail(sendQ)
  /\ back' \in {back, Append(back, Head(sendQ))}
  /\ UNCHANGED <<registered, callers, returnQ, consumed>>

PushReturnData ==
  /\ back # <<>>
  /\ back' = Tail(back)
  /\ returnQ' = PushDropOldest(returnQ, Head(back), MAX_RETURN)
  /\ UNCHANGED <<registered, callers, sendQ, consumed>>

DoActionRemoteFun(c) == Call(c) \/ Expire(c) \/ InTime(c) \/ GetReturnData(c)

Next ==
  \/ Register \/ Answer \/ PushReturnData
  \/ \E c \in Callers : DoActionRemoteFun(c)

Spec == Init /\ [][Next]_vars

(* A thread inside a call runs; nobody has to call, and no peer to answer. *)
FairSpec == Spec /\ \A c \in Callers : WF_vars(pc[c] # "idle" /\ DoActionRemoteFun(c))
-----------------------------------------------------------------------------
(* A call returns the outputs of its own request ("wait for the message    *)
(* the function returns", in DoActionRemoteFun).                           *)
ReplyIsOwn == \A id \in Id : result[id].of \subseteq {id}

(* Two calls never return the same packet, in whatever order they poll,    *)
(* time out and call again.                                                *)
ReplyTakenOnce ==
  \A a, b \in Id : a # b /\ result[a].how = "success" => result[a].of # result[b].of

(* As long as one thread calls, replies are late by at most the calls that *)
(* gave up before: call n gets the reply of a call n' with n' <= n, and n - n'  *)
(* is no more than the number of timeouts before n.  In particular, until  *)
(* the first timeout every call gets its own reply.                        *)
SkewBounded ==
  \A c \in Callers : \A n \in 1 .. MaxCalls[c] :
    LET gaveUp == {k \in 1 .. n - 1 : result[<<c, k>>].how = "timeout"}
        alone == \A d \in Callers \ {c} : called[d] = 0
    IN alone /\ result[<<c, n>>].how = "success" =>
         \E m \in 1 .. n : /\ result[<<c, n>>].of = {<<c, m>>}
                           /\ n - m <= Cardinality(gaveUp)

(* m_vecReturnDataRecv is a FIFO that loses only its oldest packets.       *)
ReturnFifo == INSTANCE LossyFifo WITH Item <- Id, items <- returnQ, taken <- consumed
RefinesLossyFifo == ReturnFifo!Spec

(* A call ends, whether or not an answer comes. *)
CallEnds == \A c \in Callers : pc[c] # "idle" ~> pc[c] = "idle"
=============================================================================
