-------------------------- MODULE RemoteCall_proofs --------------------------
(***************************************************************************)
(* Theorems about RemoteCall, for any number of callers and calls and any  *)
(* length of the queues.                                                   *)
(***************************************************************************)
EXTENDS RemoteCall, BoundedQueues_proofs, FiniteSetTheorems

Outcome == {Pending, NoSocketFound, NoResponse} \cup {Success(id) : id \in Id}

(* The lengths are bounded, and the identities are those of real calls.    *)
CallInv ==
  /\ TypeOK
  /\ \A c \in Callers : pc[c] # "idle" => called[c] \in 1 .. MaxCalls[c]
  /\ \A c \in Callers : pc[c] = "get" => polls[c] < MaxPolls

(* The identity of a call that may be made. *)
LEMMA IdOfCall ==
  ASSUME NEW c \in Callers, NEW n \in 1 .. MaxCalls[c]
  PROVE  <<c, n>> \in Id
<1>1. <<c, n>> \in {c} \X (1 .. MaxCalls[c])
  OBVIOUS
<1>. QED  BY <1>1 DEF Id

LEMMA InitCallInv == Init => CallInv
<1>. SUFFICES ASSUME Init PROVE CallInv
  OBVIOUS
<1>1. \A c \in Callers : 0 <= MaxCalls[c] /\ 0 \in 0 .. MaxPolls
  BY CallAssumption
<1>2. called \in CallCounts /\ polls \in [Callers -> 0 .. MaxPolls]
  BY <1>1 DEF Init, CallCounts
<1>3. <<>> \in Seq(Id) /\ Len(<<>>) = 0
  BY EmptySeq
<1>4. result \in [Id -> Outcome]
  BY DEF Init, Outcome
<1>5. pc \in [Callers -> {"idle", "wait", "get"}] /\ \A c \in Callers : pc[c] = "idle"
  BY DEF Init
<1>6. sendQ = <<>> /\ back = <<>> /\ returnQ = <<>> /\ consumed = <<>> /\ registered = FALSE
  BY DEF Init
<1>7. Len(sendQ) <= MAX_PACKETDATA_NUM /\ Len(returnQ) <= MAX_RETURN
  BY <1>3, <1>6, CallAssumption
<1>. QED  BY <1>2, <1>3, <1>4, <1>5, <1>6, <1>7 DEF CallInv, TypeOK, Outcome

(* What returns an outcome to its caller keeps the types. *)
LEMMA ReturnTyped ==
  ASSUME CallInv, NEW c \in Callers, pc[c] # "idle", NEW outcome \in Outcome, Return(c, outcome)
  PROVE  /\ pc' \in [Callers -> {"idle", "wait", "get"}]
         /\ called' \in CallCounts
         /\ polls' \in [Callers -> 0 .. MaxPolls]
         /\ result' \in [Id -> Outcome]
         /\ \A d \in Callers : pc'[d] # "idle" => called'[d] \in 1 .. MaxCalls[d]
         /\ \A d \in Callers : pc'[d] = "get" => polls'[d] < MaxPolls
BY DEF CallInv, TypeOK, Return, Outcome

LEMMA NextCallInv == ASSUME CallInv, [Next]_vars PROVE CallInv'
<1>. TypeOK /\ Len(returnQ) \in Nat /\ Len(sendQ) \in Nat
  BY LenProperties DEF CallInv, TypeOK
<1>1. CASE Register
  BY <1>1 DEF Register, CallInv, TypeOK, callers
<1>2. CASE Answer
  <2>1. /\ Head(sendQ) \in Id /\ Tail(sendQ) \in Seq(Id)
        /\ Len(Tail(sendQ)) = Len(sendQ) - 1
    BY <1>2, HeadTailProperties DEF Answer, TypeOK
  <2>2. sendQ' \in Seq(Id) /\ Len(sendQ') <= MAX_PACKETDATA_NUM
    BY <1>2, <2>1, CallAssumption DEF Answer, TypeOK
  <2>3. back' \in Seq(Id)
    <3>1. Append(back, Head(sendQ)) \in Seq(Id)
      BY <2>1, AppendProperties DEF TypeOK
    <3>. QED  BY <1>2, <3>1 DEF Answer, TypeOK
  <2>. QED  BY <1>2, <2>2, <2>3 DEF Answer, CallInv, TypeOK, callers
<1>3. CASE PushReturnData
  <2>1. Head(back) \in Id /\ back' \in Seq(Id)
    BY <1>3, HeadTailProperties DEF PushReturnData, TypeOK
  <2>2. returnQ' \in Seq(Id) /\ Len(returnQ') <= MAX_RETURN
    BY <1>3, <2>1, PushDropOldestType, CallAssumption DEF PushReturnData, TypeOK
  <2>. QED  BY <1>3, <2>1, <2>2 DEF PushReturnData, CallInv, TypeOK, callers
<1>4. ASSUME NEW c \in Callers, Call(c) PROVE CallInv'
  <2>. DEFINE id == <<c, called[c] + 1>>
  <2>1. called[c] + 1 \in 1 .. MaxCalls[c] /\ id \in Id
    <3>1. called[c] \in Nat /\ called[c] < MaxCalls[c] /\ MaxCalls[c] \in Nat
      BY <1>4, CallAssumption DEF Call, TypeOK, CallCounts
    <3>. QED  BY <3>1, IdOfCall
  <2>2. called' \in CallCounts /\ called'[c] \in 1 .. MaxCalls[c]
    <3>1. called' = [called EXCEPT ![c] = called[c] + 1]
      BY <1>4 DEF Call
    <3>2. called \in [Callers -> Nat] /\ \A d \in Callers : called[d] <= MaxCalls[d]
      BY DEF TypeOK, CallCounts
    <3>3. called' \in [Callers -> Nat] /\ \A d \in Callers : called'[d] <= MaxCalls[d]
      BY <2>1, <3>1, <3>2
    <3>. QED  BY <2>1, <3>1, <3>2, <3>3 DEF CallCounts
  <2>3. 0 \in 0 .. MaxPolls
    BY CallAssumption
  <2>4. polls' \in [Callers -> 0 .. MaxPolls]
    BY <1>4, <2>3 DEF Call, TypeOK, CallCounts
  <2>5. sendQ' \in Seq(Id) /\ Len(sendQ') <= MAX_PACKETDATA_NUM
    BY <1>4, <2>1, PushDropOldestType, CallAssumption DEF Call, TypeOK, CallCounts
  <2>6. /\ pc' \in [Callers -> {"idle", "wait", "get"}]
        /\ pc'[c] # "get" /\ \A d \in Callers \ {c} : pc'[d] = pc[d]
    BY <1>4 DEF Call, TypeOK, CallCounts
  <2>7. result' \in [Id -> Outcome]
    BY <1>4, <2>1 DEF Call, TypeOK, Outcome
  <2>8. \A d \in Callers \ {c} : called'[d] = called[d] /\ polls'[d] = polls[d]
    BY <1>4 DEF Call, TypeOK, CallCounts
  <2>. HIDE DEF id
  <2>. QED
    BY <1>4, <2>2, <2>4, <2>5, <2>6, <2>7, <2>8 DEF Call, CallInv, TypeOK, Outcome
<1>5. ASSUME NEW c \in Callers, Expire(c) PROVE CallInv'
  <2>1. NoResponse \in Outcome
    BY DEF Outcome
  <2>. QED  BY <1>5, <2>1, ReturnTyped DEF Expire, CallInv, TypeOK, Outcome
<1>6. ASSUME NEW c \in Callers, InTime(c) PROVE CallInv'
  <2>1. polls[c] < MaxPolls
    BY <1>6, CallAssumption DEF InTime, TimeIsOver, TypeOK
  <2>. QED  BY <1>6, <2>1 DEF InTime, CallInv, TypeOK
<1>7. ASSUME NEW c \in Callers, GetReturnData(c) PROVE CallInv'
  <2>1. CASE returnQ # <<>>
    <3>1. /\ Head(returnQ) \in Id /\ Tail(returnQ) \in Seq(Id)
          /\ Len(Tail(returnQ)) = Len(returnQ) - 1
      BY <2>1, HeadTailProperties DEF TypeOK
    <3>2. /\ consumed' \in Seq(Id) /\ Len(consumed') = Len(consumed) + 1
          /\ consumed'[Len(consumed) + 1] = Head(returnQ)
      <4>1. consumed' = Append(consumed, Head(returnQ)) /\ consumed \in Seq(Id)
        BY <1>7, <2>1 DEF GetReturnData, TakeFirst, TypeOK
      <4>. QED  BY <3>1, <4>1, AppendProperties
    <3>3. Success(consumed'[Len(consumed')]) \in Outcome
      BY <3>1, <3>2 DEF Outcome
    <3>4. returnQ' \in Seq(Id) /\ Len(returnQ') <= MAX_RETURN
      <4>1. returnQ' = Tail(returnQ) /\ Len(returnQ) <= MAX_RETURN
        BY <1>7, <2>1 DEF GetReturnData, TakeFirst, TypeOK
      <4>. QED  BY <3>1, <4>1, CallAssumption
    <3>5. Return(c, Success(consumed'[Len(consumed')])) /\ pc[c] # "idle"
      BY <1>7, <2>1 DEF GetReturnData
    <3>. QED
      BY <1>7, <3>2, <3>3, <3>4, <3>5, ReturnTyped DEF GetReturnData, CallInv, TypeOK, Outcome
  <2>2. CASE returnQ = <<>>
    <3>1. polls[c] + 1 \in 0 .. MaxPolls
      BY <1>7, CallAssumption DEF GetReturnData, CallInv, TypeOK
    <3>. QED  BY <1>7, <2>2, <3>1 DEF GetReturnData, SpendTime, CallInv, TypeOK
  <2>. QED  BY <2>1, <2>2
<1>8. CASE UNCHANGED vars
  BY <1>8 DEF vars, callers, CallInv, TypeOK
<1>. QED
  BY <1>1, <1>2, <1>3, <1>4, <1>5, <1>6, <1>7, <1>8 DEF Next, DoActionRemoteFun

(* Every reachable state is typed; in particular the return queue never    *)
(* holds more than MAX_RETURN packets, however many threads call.          *)
THEOREM CallTypeCorrect == Spec => []TypeOK
<1>1. Init => CallInv
  BY InitCallInv
<1>2. CallInv /\ [Next]_vars => CallInv'
  BY NextCallInv
<1>3. CallInv => TypeOK
  BY DEF CallInv
<1>. QED  BY <1>1, <1>2, <1>3, PTL DEF Spec
-----------------------------------------------------------------------------
(***************************************************************************)
(* The return queue implements the FIFO that may lose its oldest elements. *)
(***************************************************************************)
(* A push is a Put that loses nothing, or the first element when full.     *)
LEMMA PushIsPut ==
  ASSUME TypeOK, NEW x \in Id, returnQ' = PushDropOldest(returnQ, x, MAX_RETURN),
         UNCHANGED consumed
  PROVE  ReturnFifo!Put(x)
<1>. /\ returnQ \in Seq(Id) /\ Len(returnQ) \in Nat /\ MAX_RETURN \in Nat \ {0}
  BY CallAssumption, LenProperties DEF TypeOK
<1>1. CASE Len(returnQ) >= MAX_RETURN
  <2>1. returnQ # <<>> /\ 1 \in 0 .. Len(returnQ)
    BY <1>1
  <2>2. Tail(returnQ) = SubSeq(returnQ, 1 + 1, Len(returnQ))
    BY <2>1, TailIsSubSeq
  <2>3. returnQ' = Append(SubSeq(returnQ, 1 + 1, Len(returnQ)), x)
    BY <1>1, <2>2 DEF PushDropOldest
  <2>. QED  BY <2>1, <2>3 DEF ReturnFifo!Put
<1>2. CASE ~(Len(returnQ) >= MAX_RETURN)
  <2>1. returnQ = SubSeq(returnQ, 0 + 1, Len(returnQ))
    BY SubSeqFull
  <2>2. returnQ' = Append(SubSeq(returnQ, 0 + 1, Len(returnQ)), x)
    BY <1>2, <2>1 DEF PushDropOldest
  <2>. QED  BY <2>2 DEF ReturnFifo!Put
<1>. QED  BY <1>1, <1>2

(* Every step on the return queue is a Put or a Take of the abstract FIFO: *)
(* PushReturnData and GetReturnData lose only the oldest packets, invent   *)
(* none, and hand out each at most once in the order of arrival.           *)
THEOREM ReturnQueueIsLossyFifo == Spec => RefinesLossyFifo
<1>1. Init => ReturnFifo!Init
  BY DEF Init, ReturnFifo!Init
<1>2. CallInv /\ [Next]_vars => [ReturnFifo!Next]_<<returnQ, consumed>>
  <2>. SUFFICES ASSUME CallInv, [Next]_vars
                PROVE  ReturnFifo!Next \/ UNCHANGED <<returnQ, consumed>>
    OBVIOUS
  <2>. TypeOK
    BY DEF CallInv
  <2>1. CASE Register \/ Answer
    BY <2>1 DEF Register, Answer
  <2>2. CASE PushReturnData
    <3>1. Head(back) \in Id
      BY <2>2, HeadTailProperties DEF PushReturnData, TypeOK
    <3>2. ReturnFifo!Put(Head(back))
      BY <2>2, <3>1, PushIsPut DEF PushReturnData
    <3>. QED  BY <3>1, <3>2 DEF ReturnFifo!Next
  <2>3. ASSUME NEW c \in Callers, Call(c) \/ Expire(c) \/ InTime(c)
        PROVE  UNCHANGED <<returnQ, consumed>>
    BY <2>3 DEF Call, Expire, InTime
  <2>4. ASSUME NEW c \in Callers, GetReturnData(c)
        PROVE  ReturnFifo!Take \/ UNCHANGED <<returnQ, consumed>>
    BY <2>4 DEF GetReturnData, TakeFirst, ReturnFifo!Take
  <2>5. CASE UNCHANGED vars
    BY <2>5 DEF vars
  <2>. QED
    BY <2>1, <2>2, <2>3, <2>4, <2>5 DEF Next, DoActionRemoteFun, ReturnFifo!Next
<1>3. Init => CallInv
  BY InitCallInv
<1>4. CallInv /\ [Next]_vars => CallInv'
  BY NextCallInv
<1>. QED  BY <1>1, <1>2, <1>3, <1>4, PTL DEF Spec, RefinesLossyFifo, ReturnFifo!Spec
-----------------------------------------------------------------------------
(***************************************************************************)
(* No packet is returned by two calls: the identity of a request is in one *)
(* place at a time (a queue, or the outcome of one call), once.            *)
(***************************************************************************)
Returned == UNION {result[id].of : id \in Id}

OncePerQueue == IsInjective(sendQ) /\ IsInjective(back) /\ IsInjective(returnQ)

OnePlace ==
  /\ Range(sendQ) \cap Range(back) = {} /\ Range(sendQ) \cap Range(returnQ) = {}
  /\ Range(sendQ) \cap Returned = {} /\ Range(back) \cap Range(returnQ) = {}
  /\ Range(back) \cap Returned = {} /\ Range(returnQ) \cap Returned = {}

OnlyCalled ==
  \A id \in Range(sendQ) \cup Range(back) \cup Range(returnQ) \cup Returned :
    id \in Id /\ id[2] <= called[id[1]]

OutcomesApart ==
  /\ \A a, b \in Id : a # b => result[a].of \cap result[b].of = {}
  /\ \A a \in Id : result[a].how = "success" => result[a].of # {}

PlaceInv == OncePerQueue /\ OnePlace /\ OnlyCalled /\ OutcomesApart

(* An outcome without a packet keeps what is returned, one with a packet   *)
(* adds that packet.                                                       *)
LEMMA NewOutcome ==
  ASSUME TypeOK, OutcomesApart, NEW a \in Id, NEW outcome \in Outcome,
         result' = [result EXCEPT ![a] = outcome],
         outcome.of \cap Returned = {}
  PROVE  OutcomesApart' /\ Returned' \subseteq Returned \cup outcome.of
<1>1. \A b \in Id : result'[b] = IF b = a THEN outcome ELSE result[b]
  BY DEF TypeOK
<1>2. \A b \in Id : result[b].of \subseteq Returned
  BY DEF Returned
<1>3. outcome.how = "success" => outcome.of # {}
  BY DEF Outcome, Pending, NoSocketFound, NoResponse, Success
<1>4. ASSUME NEW b \in Id, NEW d \in Id, b # d PROVE result'[b].of \cap result'[d].of = {}
  BY <1>1, <1>2, <1>4 DEF OutcomesApart
<1>5. ASSUME NEW b \in Id, result'[b].how = "success" PROVE result'[b].of # {}
  BY <1>1, <1>3, <1>5 DEF OutcomesApart
<1>6. ASSUME NEW x \in Returned' PROVE x \in Returned \cup outcome.of
  <2>1. PICK b \in Id : x \in result'[b].of
    BY DEF Returned
  <2>. QED  BY <1>1, <1>2, <2>1
<1>. QED  BY <1>4, <1>5, <1>6 DEF OutcomesApart

LEMMA SameReturned == ASSUME UNCHANGED result PROVE UNCHANGED Returned
BY DEF Returned

LEMMA InitPlaceInv == Init => PlaceInv
<1>. SUFFICES ASSUME Init PROVE PlaceInv
  OBVIOUS
<1>1. \A id \in Id : result[id].of = {} /\ result[id].how # "success"
  BY DEF Init, Pending
<1>2. Returned = {}
  BY <1>1 DEF Returned
<1>3. Range(<<>>) = {} /\ IsInjective(<<>>)
  BY DEF Range, IsInjective
<1>4. OncePerQueue /\ OnePlace /\ OnlyCalled
  BY <1>2, <1>3 DEF Init, OncePerQueue, OnePlace, OnlyCalled
<1>. QED  BY <1>1, <1>4 DEF PlaceInv, OutcomesApart

LEMMA NextPlaceInv == ASSUME CallInv, PlaceInv, [Next]_vars PROVE PlaceInv'
<1>. /\ TypeOK /\ OncePerQueue /\ OnePlace /\ OnlyCalled /\ OutcomesApart
  BY DEF CallInv, PlaceInv
<1>1. CASE Register
  BY <1>1, SameReturned
     DEF Register, callers, PlaceInv, OncePerQueue, OnePlace, OnlyCalled, OutcomesApart
<1>2. CASE Answer
  <2>1. /\ Head(sendQ) \in Range(sendQ) /\ Head(sendQ) \in Id /\ IsInjective(Tail(sendQ))
        /\ Range(Tail(sendQ)) = Range(sendQ) \ {Head(sendQ)}
    BY <1>2, TailDistinct, HeadTailProperties DEF Answer, TypeOK, OncePerQueue
  <2>2. /\ IsInjective(Append(back, Head(sendQ)))
        /\ Range(Append(back, Head(sendQ))) = Range(back) \cup {Head(sendQ)}
    <3>1. Head(sendQ) \notin Range(back) /\ back \in Seq(Id) /\ IsInjective(back)
      BY <2>1 DEF OnePlace, OncePerQueue, TypeOK
    <3>. QED  BY <2>1, <3>1, AppendDistinct
  <2>3. UNCHANGED <<result, called, returnQ, Returned>> /\ sendQ' = Tail(sendQ)
    BY <1>2, SameReturned DEF Answer, callers
  <2>4. IsInjective(back') /\ Range(back') \subseteq Range(back) \cup {Head(sendQ)}
    BY <1>2, <2>2 DEF Answer, OncePerQueue
  <2>5. OncePerQueue' /\ OutcomesApart'
    BY <2>1, <2>3, <2>4 DEF OncePerQueue, OutcomesApart
  <2>6. OnePlace'
    BY <2>1, <2>3, <2>4 DEF OnePlace
  <2>7. OnlyCalled'
    BY <2>1, <2>3, <2>4 DEF OnlyCalled
  <2>. QED  BY <2>5, <2>6, <2>7 DEF PlaceInv
<1>3. CASE PushReturnData
  <2>1. /\ Head(back) \in Range(back) /\ Head(back) \in Id /\ IsInjective(Tail(back))
        /\ Range(Tail(back)) = Range(back) \ {Head(back)}
    BY <1>3, TailDistinct, HeadTailProperties DEF PushReturnData, TypeOK, OncePerQueue
  <2>2. /\ IsInjective(returnQ') /\ Range(returnQ') \subseteq Range(returnQ) \cup {Head(back)}
    <3>1. Head(back) \notin Range(returnQ) /\ returnQ \in Seq(Id) /\ IsInjective(returnQ)
      BY <2>1 DEF OnePlace, OncePerQueue, TypeOK
    <3>2. returnQ' = PushDropOldest(returnQ, Head(back), MAX_RETURN)
      BY <1>3 DEF PushReturnData
    <3>. QED  BY <2>1, <3>1, <3>2, PushDropOldestDistinct, CallAssumption
  <2>3. UNCHANGED <<result, called, sendQ, Returned>> /\ back' = Tail(back)
    BY <1>3, SameReturned DEF PushReturnData, callers
  <2>4. OncePerQueue' /\ OutcomesApart'
    BY <2>1, <2>2, <2>3 DEF OncePerQueue, OutcomesApart
  <2>5. OnePlace'
    BY <2>1, <2>2, <2>3 DEF OnePlace
  <2>6. OnlyCalled'
    BY <2>1, <2>2, <2>3 DEF OnlyCalled
  <2>. QED  BY <2>4, <2>5, <2>6 DEF PlaceInv
<1>4. ASSUME NEW c \in Callers, Call(c) PROVE PlaceInv'
  <2>. DEFINE id == <<c, called[c] + 1>>
  <2>1. id \in Id /\ UNCHANGED <<back, returnQ>>
    <3>1. called[c] \in Nat /\ called[c] < MaxCalls[c] /\ MaxCalls[c] \in Nat
      BY <1>4, CallAssumption DEF Call, TypeOK, CallCounts
    <3>. QED  BY <1>4, <3>1, IdOfCall DEF Call
  <2>2. id \notin Range(sendQ) \cup Range(back) \cup Range(returnQ) \cup Returned
    BY <2>1 DEF OnlyCalled, TypeOK, CallCounts
  <2>3. \A x \in Id : x[2] <= called[x[1]] => x[2] <= called'[x[1]]
    BY <1>4 DEF Call, TypeOK, CallCounts, Id
  <2>4. id[2] <= called'[id[1]]
    BY <1>4 DEF Call, TypeOK, CallCounts
  <2>. HIDE DEF id
  <2>5. CASE registered
    <3>1. sendQ' = PushDropOldest(sendQ, id, MAX_PACKETDATA_NUM) /\ UNCHANGED <<result, Returned>>
      BY <1>4, <2>5, SameReturned DEF Call, id
    <3>2. IsInjective(sendQ') /\ Range(sendQ') \subseteq Range(sendQ) \cup {id}
      <4>1. sendQ \in Seq(Id) /\ IsInjective(sendQ) /\ id \notin Range(sendQ)
        BY <2>2 DEF TypeOK, OncePerQueue
      <4>. QED  BY <2>1, <3>1, <4>1, PushDropOldestDistinct, CallAssumption
    <3>3. OncePerQueue' /\ OutcomesApart'
      BY <2>1, <3>1, <3>2 DEF OncePerQueue, OutcomesApart
    <3>4. OnePlace'
      BY <2>1, <2>2, <3>1, <3>2 DEF OnePlace
    <3>5. OnlyCalled'
      BY <2>1, <2>3, <2>4, <3>1, <3>2 DEF OnlyCalled
    <3>. QED  BY <3>3, <3>4, <3>5 DEF PlaceInv
  <2>6. CASE ~registered
    <3>1. result' = [result EXCEPT ![id] = NoSocketFound] /\ UNCHANGED sendQ
      BY <1>4, <2>6 DEF Call, id
    <3>2. NoSocketFound \in Outcome /\ NoSocketFound.of = {}
      BY DEF Outcome, NoSocketFound
    <3>3. OutcomesApart' /\ Returned' \subseteq Returned
      BY <2>1, <3>1, <3>2, NewOutcome
    <3>. QED
      BY <2>1, <2>3, <3>1, <3>3 DEF PlaceInv, OncePerQueue, OnePlace, OnlyCalled
  <2>. QED  BY <2>5, <2>6
<1>5. ASSUME NEW c \in Callers, Expire(c) PROVE PlaceInv'
  <2>1. Current(c) \in Id /\ UNCHANGED <<called, sendQ, back, returnQ>>
        /\ result' = [result EXCEPT ![Current(c)] = NoResponse]
    BY <1>5, IdOfCall DEF Expire, Return, Current, CallInv
  <2>2. NoResponse \in Outcome /\ NoResponse.of = {}
    BY DEF Outcome, NoResponse
  <2>3. OutcomesApart' /\ Returned' \subseteq Returned
    BY <2>1, <2>2, NewOutcome
  <2>. QED  BY <2>1, <2>3 DEF PlaceInv, OncePerQueue, OnePlace, OnlyCalled
<1>6. ASSUME NEW c \in Callers, InTime(c) PROVE PlaceInv'
  BY <1>6, SameReturned
     DEF InTime, PlaceInv, OncePerQueue, OnePlace, OnlyCalled, OutcomesApart
<1>7. ASSUME NEW c \in Callers, GetReturnData(c) PROVE PlaceInv'
  <2>1. CASE returnQ # <<>>
    <3>. DEFINE x == Head(returnQ)
    <3>1. /\ x \in Range(returnQ) /\ x \in Id /\ IsInjective(Tail(returnQ))
          /\ Range(Tail(returnQ)) = Range(returnQ) \ {x}
      BY <2>1, TailDistinct, HeadTailProperties DEF TypeOK, OncePerQueue
    <3>2. consumed' = Append(consumed, x) /\ returnQ' = Tail(returnQ)
          /\ Return(c, Success(consumed'[Len(consumed')]))
          /\ UNCHANGED <<sendQ, back>> /\ pc[c] = "get"
      BY <1>7, <2>1 DEF GetReturnData, TakeFirst
    <3>3. consumed'[Len(consumed')] = x
      BY <3>1, <3>2, AppendProperties DEF TypeOK
    <3>4. /\ Current(c) \in Id /\ UNCHANGED called
          /\ result' = [result EXCEPT ![Current(c)] = Success(x)]
      BY <3>2, <3>3, IdOfCall DEF Return, Current, CallInv
    <3>. HIDE DEF x
    <3>5. Success(x) \in Outcome /\ Success(x).of = {x}
      BY <3>1 DEF Outcome, Success
    <3>6. x \notin Returned
      BY <3>1 DEF OnePlace
    <3>7. OutcomesApart' /\ Returned' \subseteq Returned \cup {x}
      BY <3>4, <3>5, <3>6, NewOutcome
    <3>8. OncePerQueue'
      BY <3>1, <3>2 DEF OncePerQueue
    <3>9. OnePlace' /\ OnlyCalled'
      BY <3>1, <3>2, <3>4, <3>7 DEF OnePlace, OnlyCalled
    <3>. QED  BY <3>7, <3>8, <3>9 DEF PlaceInv
  <2>2. CASE returnQ = <<>>
    <3>1. UNCHANGED <<called, result, sendQ, back, returnQ>>
      BY <1>7, <2>2 DEF GetReturnData
    <3>. QED  BY <3>1, SameReturned
         DEF PlaceInv, OncePerQueue, OnePlace, OnlyCalled, OutcomesApart
  <2>. QED  BY <2>1, <2>2
<1>8. CASE UNCHANGED vars
  BY <1>8, SameReturned
     DEF vars, callers, PlaceInv, OncePerQueue, OnePlace, OnlyCalled, OutcomesApart
<1>. QED
  BY <1>1, <1>2, <1>3, <1>4, <1>5, <1>6, <1>7, <1>8 DEF Next, DoActionRemoteFun

(* However many threads share the return queue, and whenever they give up  *)
(* and call again, no returned packet serves two calls.                    *)
THEOREM RepliesTakenOnce == Spec => []ReplyTakenOnce
<1>1. Init => CallInv /\ PlaceInv
  BY InitCallInv, InitPlaceInv
<1>2. CallInv /\ PlaceInv /\ [Next]_vars => (CallInv /\ PlaceInv)'
  BY NextCallInv, NextPlaceInv
<1>3. PlaceInv => ReplyTakenOnce
  BY DEF PlaceInv, OutcomesApart, ReplyTakenOnce
<1>. QED  BY <1>1, <1>2, <1>3, PTL DEF Spec
-----------------------------------------------------------------------------
(***************************************************************************)
(* The skew: requests and replies keep the order of the calls of a thread, *)
(* and while one thread calls alone no more of them are left over than     *)
(* calls of it that timed out.                                             *)
(***************************************************************************)
Earlier == {e \in Id \X Id : e[1][1] = e[2][1] => e[1][2] < e[2][2]}

Ordered == Sorted(sendQ, Earlier) /\ Sorted(back, Earlier) /\ Sorted(returnQ, Earlier)

(* A reply is ahead of the requests behind it, wherever they are.          *)
OrderedAcross ==
  /\ Range(returnQ) \X Range(back) \subseteq Earlier
  /\ Range(returnQ) \X Range(sendQ) \subseteq Earlier
  /\ Range(back) \X Range(sendQ) \subseteq Earlier

(* The calls of c that have returned, and those of the first n that gave up. *)
Finished(c) == IF pc[c] = "idle" THEN called[c] ELSE called[c] - 1
GaveUp(c, n) == {k \in 1 .. n : result[<<c, k>>].how = "timeout"}

NoQueueYet == registered \/ (sendQ = <<>> /\ back = <<>> /\ returnQ = <<>>)

OutcomeAtReturn ==
  \A c \in Callers : \A k \in 1 .. MaxCalls[c] :
    k > Finished(c) => result[<<c, k>>] = Pending

Alone(c) == \A d \in Callers \ {c} : called[d] = 0
Queued == Range(sendQ) \cup Range(back) \cup Range(returnQ)

LeftOver ==
  \A c \in Callers : Alone(c) =>
    \A x \in Queued : x[2] + Cardinality(GaveUp(c, Finished(c))) > Finished(c)

SkewInv == Ordered /\ OrderedAcross /\ NoQueueYet /\ OutcomeAtReturn /\ LeftOver /\ SkewBounded

LEMMA FinishedCalls ==
  ASSUME CallInv, NEW c \in Callers
  PROVE  /\ called[c] \in Nat /\ MaxCalls[c] \in Nat /\ called[c] <= MaxCalls[c]
         /\ Finished(c) \in Nat /\ Finished(c) <= called[c]
         /\ pc[c] # "idle" => called[c] = Finished(c) + 1 /\ called[c] \in 1 .. MaxCalls[c]
         /\ pc[c] = "idle" => called[c] = Finished(c)
<1>1. called[c] \in Nat /\ MaxCalls[c] \in Nat /\ called[c] <= MaxCalls[c]
  BY CallAssumption DEF CallInv, TypeOK, CallCounts
<1>2. pc[c] # "idle" => called[c] \in 1 .. MaxCalls[c]
  BY DEF CallInv
<1>. QED  BY <1>1, <1>2 DEF Finished

(* The calls that gave up are finitely many.                               *)
LEMMA GaveUpCounts ==
  ASSUME NEW c \in Callers, NEW n \in Nat
  PROVE  IsFiniteSet(GaveUp(c, n)) /\ Cardinality(GaveUp(c, n)) \in Nat
<1>1. IsFiniteSet(1 .. n) /\ GaveUp(c, n) \subseteq 1 .. n
  BY FS_Interval DEF GaveUp
<1>2. IsFiniteSet(GaveUp(c, n))
  BY <1>1, FS_Subset
<1>. QED  BY <1>2, FS_CardinalityType

LEMMA SameFinished == ASSUME NEW c \in Callers, UNCHANGED <<pc, called>> PROVE UNCHANGED Finished(c)
BY DEF Finished

(* A thread that calls alone owns whatever is queued.                      *)
LEMMA QueuedIsOwn ==
  ASSUME CallInv, PlaceInv, NEW c \in Callers, Alone(c), NEW x \in Queued
  PROVE  x = <<c, x[2]>> /\ x[2] \in 1 .. called[c]
<1>1. x \in Id /\ x[2] <= called[x[1]]
  BY DEF PlaceInv, OnlyCalled, Queued
<1>2. PICK d \in Callers : x \in {d} \X (1 .. MaxCalls[d])
  BY <1>1 DEF Id
<1>3. x = <<d, x[2]>> /\ x[1] = d /\ x[2] \in 1 .. MaxCalls[d] /\ MaxCalls[d] \in Nat
  BY <1>2, CallAssumption
<1>4. called[d] \in Nat /\ x[2] \in 1 .. called[d]
  BY <1>1, <1>3, FinishedCalls
<1>5. d = c
  BY <1>4 DEF Alone
<1>. QED  BY <1>3, <1>4, <1>5

(* The outcome of the next call of c is written, and the outcomes before   *)
(* it stay as they are.                                                    *)
LEMMA OutcomeWritten ==
  ASSUME CallInv, SkewInv, NEW c \in Callers, NEW outcome \in Outcome,
         NEW n \in 1 .. MaxCalls[c], n = Finished(c) + 1,
         result' = [result EXCEPT ![<<c, n>>] = outcome],
         Finished(c)' = n, \A d \in Callers \ {c} : Finished(d)' = Finished(d),
         \A d \in Callers : Alone(d)' => Alone(d),
         Alone(c)' /\ outcome.how = "success" =>
           \E m \in 1 .. n : /\ outcome = Success(<<c, m>>)
                             /\ n - m <= Cardinality(GaveUp(c, n - 1))
  PROVE  /\ OutcomeAtReturn' /\ SkewBounded'
         /\ GaveUp(c, n - 1)' = GaveUp(c, n - 1)
         /\ outcome.how = "timeout" =>
              Cardinality(GaveUp(c, n))' = Cardinality(GaveUp(c, n - 1)) + 1
         /\ outcome.how # "timeout" => GaveUp(c, n)' = GaveUp(c, n - 1)
<1>. n \in Nat \ {0} /\ MaxCalls[c] \in Nat /\ n - 1 \in Nat
  BY CallAssumption
<1>1. /\ <<c, n>> \in Id /\ result \in [Id -> Outcome]
      /\ result'[<<c, n>>] = outcome
      /\ \A b \in Id \ {<<c, n>>} : result'[b] = result[b]
  BY IdOfCall DEF CallInv, TypeOK, Outcome
<1>2. ASSUME NEW d \in Callers, NEW k \in 1 .. MaxCalls[d], ~(d = c /\ k = n)
      PROVE  result'[<<d, k>>] = result[<<d, k>>]
  BY <1>1, <1>2, IdOfCall
<1>3. OutcomeAtReturn'
  <2>. SUFFICES ASSUME NEW d \in Callers, NEW k \in 1 .. MaxCalls[d], k > Finished(d)'
                PROVE  result'[<<d, k>>] = Pending
    BY DEF OutcomeAtReturn
  <2>1. k > Finished(d) /\ ~(d = c /\ k = n)
    <3>1. CASE d = c
      <4>1. Finished(c)' = n /\ Finished(c) = n - 1 /\ k > Finished(c)'
        BY <3>1, FinishedCalls
      <4>. QED  BY <3>1, <4>1, CallAssumption
    <3>2. CASE d # c
      BY <3>2
    <3>. QED  BY <3>1, <3>2
  <2>. QED  BY <1>2, <2>1 DEF SkewInv, OutcomeAtReturn
<1>4. ASSUME NEW d \in Callers, NEW k \in Nat, k <= MaxCalls[d], d = c => k < n
      PROVE  GaveUp(d, k)' = GaveUp(d, k)
  <2>1. \A j \in 1 .. k : result'[<<d, j>>] = result[<<d, j>>]
    <3>. SUFFICES ASSUME NEW j \in 1 .. k PROVE result'[<<d, j>>] = result[<<d, j>>]
      OBVIOUS
    <3>1. j \in 1 .. MaxCalls[d] /\ ~(d = c /\ j = n)
      BY <1>4, CallAssumption
    <3>. QED  BY <1>2, <3>1
  <2>. QED  BY <2>1 DEF GaveUp
<1>5. GaveUp(c, n - 1)' = GaveUp(c, n - 1)
  BY <1>4
<1>6. ASSUME outcome.how = "timeout"
      PROVE  Cardinality(GaveUp(c, n))' = Cardinality(GaveUp(c, n - 1)) + 1
  <2>1. GaveUp(c, n)' = GaveUp(c, n - 1)' \cup {n} /\ n \notin GaveUp(c, n - 1)
    BY <1>1, <1>6 DEF GaveUp
  <2>2. IsFiniteSet(GaveUp(c, n - 1))
    BY GaveUpCounts
  <2>. QED  BY <1>5, <2>1, <2>2, FS_AddElement
<1>7. ASSUME outcome.how # "timeout" PROVE GaveUp(c, n)' = GaveUp(c, n - 1)
  <2>1. GaveUp(c, n)' = GaveUp(c, n - 1)'
    BY <1>1, <1>7 DEF GaveUp
  <2>. QED  BY <1>5, <2>1
<1>8. SkewBounded'
  <2>. SUFFICES ASSUME NEW d \in Callers, NEW k \in 1 .. MaxCalls[d], Alone(d)',
                       result'[<<d, k>>].how = "success"
                PROVE  \E m \in 1 .. k : /\ result'[<<d, k>>].of = {<<d, m>>}
                                         /\ k - m <= Cardinality(GaveUp(d, k - 1))'
    BY DEF SkewBounded, Alone, GaveUp
  <2>. k \in Nat /\ k - 1 \in Nat /\ k - 1 <= MaxCalls[d] /\ MaxCalls[d] \in Nat
    BY CallAssumption
  <2>1. CASE d = c /\ k = n
    <3>1. PICK m \in 1 .. n : /\ outcome = Success(<<c, m>>)
                              /\ n - m <= Cardinality(GaveUp(c, n - 1))
      BY <1>1, <2>1
    <3>2. result'[<<d, k>>].of = {<<d, m>>}
      BY <1>1, <2>1, <3>1 DEF Success
    <3>. QED  BY <1>5, <2>1, <3>1, <3>2
  <2>2. CASE ~(d = c /\ k = n)
    <3>1. result'[<<d, k>>] = result[<<d, k>>] /\ Alone(d)
      BY <1>2, <2>2
    <3>2. k <= Finished(d)
      <4>1. Finished(d) \in Nat
        BY FinishedCalls
      <4>2. Pending.how # "success"
        BY DEF Pending
      <4>. QED  BY <3>1, <4>1, <4>2 DEF SkewInv, OutcomeAtReturn
    <3>3. GaveUp(d, k - 1)' = GaveUp(d, k - 1)
      <4>1. d = c => k - 1 < n
        BY <3>2, FinishedCalls
      <4>. QED  BY <1>4, <4>1
    <3>4. \E m \in 1 .. k : /\ result[<<d, k>>].of = {<<d, m>>}
                            /\ k - m <= Cardinality(GaveUp(d, k - 1))
      BY <3>1 DEF SkewInv, SkewBounded, Alone, GaveUp
    <3>. QED  BY <3>1, <3>3, <3>4
  <2>. QED  BY <2>1, <2>2
<1>. QED  BY <1>3, <1>5, <1>6, <1>7, <1>8

LEMMA SameOutcomes ==
  ASSUME SkewInv, UNCHANGED <<called, result>>,
         \A c \in Callers : Finished(c)' = Finished(c), Queued' \subseteq Queued
  PROVE  OutcomeAtReturn' /\ LeftOver' /\ SkewBounded'
<1>1. OutcomeAtReturn'
  BY DEF SkewInv, OutcomeAtReturn
<1>2. SkewBounded'
  BY DEF SkewInv, SkewBounded
<1>3. \A c \in Callers : UNCHANGED <<Alone(c), GaveUp(c, Finished(c))>>
  BY DEF Alone, GaveUp
<1>4. LeftOver'
  BY <1>3 DEF SkewInv, LeftOver
<1>. QED  BY <1>1, <1>2, <1>4

LEMMA InitSkewInv == Init => SkewInv
<1>. SUFFICES ASSUME Init PROVE SkewInv
  OBVIOUS
<1>1. Sorted(<<>>, Earlier) /\ Range(<<>>) = {}
  BY EmptySorted
<1>2. sendQ = <<>> /\ back = <<>> /\ returnQ = <<>>
  BY DEF Init
<1>3. Ordered /\ OrderedAcross /\ NoQueueYet
  BY <1>1, <1>2 DEF Ordered, OrderedAcross, NoQueueYet
<1>4. Queued = {}
  BY <1>1, <1>2 DEF Queued
<1>5. ASSUME NEW c \in Callers, NEW k \in 1 .. MaxCalls[c]
      PROVE  result[<<c, k>>] = Pending /\ result[<<c, k>>].how # "success"
  BY <1>5, IdOfCall DEF Init, Pending
<1>. QED  BY <1>3, <1>4, <1>5 DEF SkewInv, LeftOver, OutcomeAtReturn, SkewBounded

(* A call queues its request behind everything that is left over.          *)
LEMMA CallSkewInv == ASSUME CallInv, PlaceInv, SkewInv, NEW c \in Callers, Call(c) PROVE SkewInv'
<1>. DEFINE n == called[c] + 1
            id == <<c, n>>
<1>. /\ TypeOK /\ Ordered /\ OrderedAcross /\ NoQueueYet /\ LeftOver
  BY DEF CallInv, SkewInv
<1>1. /\ n \in 1 .. MaxCalls[c] /\ id \in Id /\ n = Finished(c) + 1
      /\ pc[c] = "idle" /\ called' = [called EXCEPT ![c] = n] /\ called \in [Callers -> Nat]
  <2>1. pc[c] = "idle" /\ called' = [called EXCEPT ![c] = n] /\ called[c] < MaxCalls[c]
    BY DEF Call
  <2>2. called[c] \in Nat /\ MaxCalls[c] \in Nat /\ called[c] = Finished(c)
    BY <2>1, FinishedCalls
  <2>3. called \in [Callers -> Nat]
    BY DEF TypeOK, CallCounts
  <2>. QED  BY <2>1, <2>2, <2>3, IdOfCall
<1>. HIDE DEF n, id
<1>2. /\ called'[c] = n /\ \A d \in Callers \ {c} : called'[d] = called[d] /\ pc'[d] = pc[d]
  BY <1>1 DEF Call, TypeOK, n
<1>3. \A d \in Callers \ {c} : Finished(d)' = Finished(d)
  BY <1>2 DEF Finished
<1>4. \A d \in Callers : Alone(d)' => d = c /\ Alone(d)
  <2>1. n > 0
    BY <1>1 DEF n
  <2>. QED  BY <1>2, <2>1 DEF Alone
<1>5. CASE registered
  <2>1. /\ sendQ' = PushDropOldest(sendQ, id, MAX_PACKETDATA_NUM) /\ registered'
        /\ pc'[c] = "wait" /\ UNCHANGED <<result, back, returnQ>>
    BY <1>5 DEF Call, TypeOK, id, n
  <2>2. \A y \in Queued : <<y, id>> \in Earlier
    <3>. SUFFICES ASSUME NEW y \in Queued, y[1] = c PROVE y \in Id /\ y[2] < n
      BY <1>1 DEF Earlier, id, Queued, PlaceInv, OnlyCalled
    <3>1. y \in Id /\ y[2] <= called[c]
      BY DEF Queued, PlaceInv, OnlyCalled
    <3>2. y[2] \in Nat
      BY <3>1, CallAssumption DEF Id
    <3>. QED  BY <1>1, <3>1, <3>2 DEF n
  <2>3. Sorted(sendQ', Earlier) /\ Range(sendQ') \subseteq Range(sendQ) \cup {id}
    <3>1. sendQ \in Seq(Id) /\ Sorted(sendQ, Earlier) /\ \A y \in Range(sendQ) : <<y, id>> \in Earlier
      BY <2>2 DEF TypeOK, Ordered, Queued
    <3>. QED  BY <1>1, <2>1, <3>1, PushDropOldestSorted, CallAssumption
  <2>4. Ordered'
    BY <2>1, <2>3 DEF Ordered
  <2>5. OrderedAcross'
    BY <2>1, <2>2, <2>3 DEF OrderedAcross, Queued
  <2>6. NoQueueYet'
    BY <2>1 DEF NoQueueYet
  <2>7. Finished(c)' = Finished(c)
    BY <1>1, <1>2, <2>1 DEF Finished, n
  <2>8. OutcomeAtReturn'
    BY <1>3, <2>1, <2>7 DEF SkewInv, OutcomeAtReturn
  <2>9. SkewBounded'
    BY <1>4, <2>1 DEF SkewInv, SkewBounded, Alone
  <2>10. LeftOver'
    <3>. SUFFICES ASSUME Alone(c), NEW x \in Queued'
                  PROVE  x[2] + Cardinality(GaveUp(c, Finished(c)))' > Finished(c)'
      BY <1>4 DEF LeftOver
    <3>1. GaveUp(c, Finished(c))' = GaveUp(c, Finished(c))
      BY <2>1, <2>7 DEF GaveUp
    <3>2. Cardinality(GaveUp(c, Finished(c))) \in Nat /\ Finished(c) \in Nat
      BY FinishedCalls, GaveUpCounts
    <3>3. CASE x \in Queued
      BY <2>7, <3>1, <3>3 DEF LeftOver
    <3>4. CASE x = id
      <4>1. x[2] = Finished(c) + 1
        BY <1>1, <3>4 DEF id
      <4>. QED  BY <2>7, <3>1, <3>2, <4>1
    <3>. QED  BY <2>1, <2>3, <3>3, <3>4 DEF Queued
  <2>. QED  BY <2>4, <2>5, <2>6, <2>8, <2>9, <2>10 DEF SkewInv
<1>6. CASE ~registered
  <2>1. /\ sendQ = <<>> /\ back = <<>> /\ returnQ = <<>> /\ UNCHANGED <<sendQ, back, returnQ, pc>>
        /\ result' = [result EXCEPT ![id] = NoSocketFound]
    BY <1>6 DEF Call, NoQueueYet, id, n
  <2>2. Ordered' /\ OrderedAcross' /\ NoQueueYet'
    BY <2>1 DEF Ordered, OrderedAcross, NoQueueYet
  <2>3. Queued' = {}
    BY <2>1, EmptySorted DEF Queued
  <2>4. Finished(c)' = n
    BY <1>1, <1>2, <2>1 DEF Finished
  <2>5. NoSocketFound \in Outcome /\ NoSocketFound.how # "success"
    BY DEF Outcome, NoSocketFound
  <2>6. OutcomeAtReturn' /\ SkewBounded'
    BY <1>1, <1>3, <1>4, <2>1, <2>4, <2>5, OutcomeWritten DEF id
  <2>. QED  BY <2>2, <2>3, <2>6 DEF SkewInv, LeftOver
<1>. QED  BY <1>5, <1>6

(* What a call that returns leaves to be shown.                            *)
LEMMA ReturnFinishes ==
  ASSUME CallInv, SkewInv, NEW c \in Callers, pc[c] # "idle", NEW outcome, Return(c, outcome)
  PROVE  /\ called[c] \in 1 .. MaxCalls[c] /\ called[c] = Finished(c) + 1
         /\ result' = [result EXCEPT ![<<c, called[c]>>] = outcome]
         /\ Finished(c)' = called[c] /\ UNCHANGED called
         /\ \A d \in Callers \ {c} : Finished(d)' = Finished(d)
         /\ \A d \in Callers : Alone(d)' => d = c /\ Alone(d)
<1>1. called[c] \in 1 .. MaxCalls[c] /\ called[c] = Finished(c) + 1 /\ called[c] # 0
  BY FinishedCalls
<1>2. /\ result' = [result EXCEPT ![<<c, called[c]>>] = outcome] /\ UNCHANGED called
      /\ pc'[c] = "idle" /\ \A d \in Callers \ {c} : pc'[d] = pc[d]
  BY DEF Return, Current, CallInv, TypeOK
<1>3. Finished(c)' = called[c] /\ \A d \in Callers \ {c} : Finished(d)' = Finished(d)
  BY <1>2 DEF Finished
<1>4. \A d \in Callers : Alone(d)' => d = c /\ Alone(d)
  BY <1>1, <1>2 DEF Alone
<1>. QED  BY <1>1, <1>2, <1>3, <1>4

(* A call that gives up leaves one more packet behind, and is counted.     *)
LEMMA ExpireSkewInv == ASSUME CallInv, SkewInv, NEW c \in Callers, Expire(c) PROVE SkewInv'
<1>. Ordered /\ OrderedAcross /\ NoQueueYet /\ LeftOver
  BY DEF SkewInv
<1>1. pc[c] # "idle" /\ Return(c, NoResponse) /\ UNCHANGED <<registered, sendQ, back, returnQ>>
  BY DEF Expire
<1>2. /\ called[c] \in 1 .. MaxCalls[c] /\ called[c] = Finished(c) + 1
      /\ result' = [result EXCEPT ![<<c, called[c]>>] = NoResponse]
      /\ Finished(c)' = called[c] /\ UNCHANGED called
      /\ \A d \in Callers \ {c} : Finished(d)' = Finished(d)
      /\ \A d \in Callers : Alone(d)' => d = c /\ Alone(d)
  BY <1>1, ReturnFinishes
<1>3. NoResponse \in Outcome /\ NoResponse.how = "timeout"
  BY DEF Outcome, NoResponse
<1>4. /\ OutcomeAtReturn' /\ SkewBounded'
      /\ Cardinality(GaveUp(c, called[c]))' = Cardinality(GaveUp(c, called[c] - 1)) + 1
  <2>1. \A d \in Callers : Alone(d)' => Alone(d)
    BY <1>2
  <2>2. NoResponse.how # "success"
    BY <1>3
  <2>. QED  BY <1>2, <1>3, <2>1, <2>2, OutcomeWritten
<1>5. Ordered' /\ OrderedAcross' /\ NoQueueYet' /\ Queued' = Queued
  BY <1>1 DEF Ordered, OrderedAcross, NoQueueYet, Queued
<1>6. LeftOver'
  <2>. SUFFICES ASSUME Alone(c), NEW x \in Queued
                PROVE  x[2] + Cardinality(GaveUp(c, Finished(c)))' > Finished(c)'
    BY <1>2, <1>5 DEF LeftOver
  <2>1. /\ Finished(c) \in Nat /\ Cardinality(GaveUp(c, Finished(c))) \in Nat
        /\ called[c] - 1 = Finished(c)
    BY <1>2, FinishedCalls, GaveUpCounts
  <2>2. x[2] + Cardinality(GaveUp(c, Finished(c))) > Finished(c)
    BY DEF LeftOver
  <2>3. Cardinality(GaveUp(c, Finished(c)))' = Cardinality(GaveUp(c, Finished(c))) + 1
    <3>1. GaveUp(c, Finished(c))' = GaveUp(c, called[c])'
      BY <1>1, <1>2 DEF GaveUp, Return
    <3>. QED  BY <1>4, <2>1, <3>1
  <2>4. x[2] \in Int
    <3>1. PICK d \in Callers : x \in {d} \X (1 .. MaxCalls[d])
      <4>1. x \in Id
        BY RangeOfQueue DEF Queued, CallInv, TypeOK
      <4>. QED  BY <4>1 DEF Id
    <3>. QED  BY <3>1, CallAssumption
  <2>. QED  BY <1>2, <2>1, <2>2, <2>3, <2>4
<1>. QED  BY <1>4, <1>5, <1>6 DEF SkewInv

(* A call that takes a packet takes the oldest.                            *)
LEMMA TakeSkewInv ==
  ASSUME CallInv, PlaceInv, SkewInv, NEW c \in Callers, GetReturnData(c), returnQ # <<>>
  PROVE  SkewInv'
<1>. TypeOK /\ Ordered /\ OrderedAcross /\ NoQueueYet /\ LeftOver
  BY DEF CallInv, SkewInv
<1>. DEFINE x == Head(returnQ)
<1>1. /\ pc[c] # "idle" /\ Return(c, Success(consumed'[Len(consumed')]))
      /\ consumed' = Append(consumed, x) /\ returnQ' = Tail(returnQ)
      /\ UNCHANGED <<registered, sendQ, back>>
  BY DEF GetReturnData, TakeFirst
<1>2. /\ x \in Id /\ x \in Range(returnQ) /\ Range(returnQ') \subseteq Range(returnQ)
      /\ Sorted(returnQ', Earlier) /\ \A y \in Range(returnQ') : <<x, y>> \in Earlier
  <2>1. returnQ \in Seq(Id) /\ Sorted(returnQ, Earlier)
    BY DEF TypeOK, Ordered
  <2>. QED  BY <1>1, <2>1, TailSorted, HeadTailProperties
<1>3. consumed'[Len(consumed')] = x
  BY <1>1, <1>2, AppendProperties DEF TypeOK
<1>. HIDE DEF x
<1>4. /\ called[c] \in 1 .. MaxCalls[c] /\ called[c] = Finished(c) + 1
      /\ result' = [result EXCEPT ![<<c, called[c]>>] = Success(x)]
      /\ Finished(c)' = called[c] /\ UNCHANGED called
      /\ \A d \in Callers \ {c} : Finished(d)' = Finished(d)
      /\ \A d \in Callers : Alone(d)' => d = c /\ Alone(d)
  BY <1>1, <1>3, ReturnFinishes
<1>5. Success(x) \in Outcome /\ Success(x).how = "success"
  BY <1>2 DEF Outcome, Success
<1>6. /\ Finished(c) \in Nat /\ Cardinality(GaveUp(c, Finished(c))) \in Nat
      /\ called[c] - 1 = Finished(c)
  BY <1>4, FinishedCalls, GaveUpCounts
<1>7. ASSUME Alone(c)
      PROVE  /\ x = <<c, x[2]>> /\ x[2] \in 1 .. called[c]
             /\ x[2] + Cardinality(GaveUp(c, Finished(c))) > Finished(c)
  BY <1>2, <1>7, QueuedIsOwn DEF LeftOver, Queued
<1>8. Alone(c)' =>
        \E m \in 1 .. called[c] : /\ Success(x) = Success(<<c, m>>)
                                 /\ called[c] - m <= Cardinality(GaveUp(c, called[c] - 1))
  <2>. SUFFICES ASSUME Alone(c)
                PROVE  /\ x[2] \in 1 .. called[c] /\ Success(x) = Success(<<c, x[2]>>)
                       /\ called[c] - x[2] <= Cardinality(GaveUp(c, called[c] - 1))
    BY <1>4
  <2>. QED  BY <1>4, <1>6, <1>7
<1>9. OutcomeAtReturn' /\ SkewBounded' /\ GaveUp(c, called[c])' = GaveUp(c, called[c] - 1)
  <2>1. \A d \in Callers : Alone(d)' => Alone(d)
    BY <1>4
  <2>. QED  BY <1>4, <1>5, <1>8, <2>1, OutcomeWritten
<1>10. Ordered' /\ OrderedAcross' /\ NoQueueYet'
  BY <1>1, <1>2 DEF Ordered, OrderedAcross, NoQueueYet
<1>11. LeftOver'
  <2>. SUFFICES ASSUME Alone(c), NEW y \in Queued'
                PROVE  y[2] + Cardinality(GaveUp(c, Finished(c)))' > Finished(c)'
    BY <1>4 DEF LeftOver
  <2>1. y \in Queued /\ <<x, y>> \in Earlier
    BY <1>1, <1>2 DEF Queued, OrderedAcross
  <2>2. y = <<c, y[2]>> /\ y[2] \in 1 .. called[c]
    BY <2>1, QueuedIsOwn
  <2>3. x[2] < y[2]
    BY <1>7, <2>1, <2>2 DEF Earlier
  <2>4. GaveUp(c, Finished(c))' = GaveUp(c, Finished(c))
    <3>1. GaveUp(c, Finished(c))' = GaveUp(c, called[c])'
      BY <1>4 DEF GaveUp
    <3>. QED  BY <1>6, <1>9, <3>1
  <2>. QED  BY <1>4, <1>6, <1>7, <2>2, <2>3, <2>4
<1>. QED  BY <1>9, <1>10, <1>11 DEF SkewInv

LEMMA NextSkewInv == ASSUME CallInv, PlaceInv, SkewInv, [Next]_vars PROVE SkewInv'
<1>. TypeOK /\ Ordered /\ OrderedAcross /\ NoQueueYet /\ LeftOver
  BY DEF CallInv, SkewInv
<1>1. CASE Register
  <2>1. UNCHANGED <<pc, called, result, sendQ, back, returnQ>> /\ registered'
    BY <1>1 DEF Register, callers
  <2>2. Ordered' /\ OrderedAcross' /\ NoQueueYet' /\ Queued' = Queued
    BY <2>1 DEF Ordered, OrderedAcross, NoQueueYet, Queued
  <2>. QED  BY <2>1, <2>2, SameFinished, SameOutcomes DEF SkewInv
<1>2. CASE Answer
  <2>1. /\ Head(sendQ) \in Id /\ Head(sendQ) \in Range(sendQ)
        /\ Range(Tail(sendQ)) \subseteq Range(sendQ) /\ Sorted(Tail(sendQ), Earlier)
        /\ \A y \in Range(Tail(sendQ)) : <<Head(sendQ), y>> \in Earlier
    <3>1. sendQ \in Seq(Id) /\ Sorted(sendQ, Earlier) /\ sendQ # <<>>
      BY <1>2 DEF Answer, TypeOK, Ordered
    <3>. QED  BY <3>1, TailSorted, HeadTailProperties
  <2>2. /\ Sorted(Append(back, Head(sendQ)), Earlier)
        /\ Range(Append(back, Head(sendQ))) = Range(back) \cup {Head(sendQ)}
    <3>1. /\ back \in Seq(Id) /\ Sorted(back, Earlier)
          /\ \A y \in Range(back) : <<y, Head(sendQ)>> \in Earlier
      BY <2>1 DEF TypeOK, Ordered, OrderedAcross
    <3>. QED  BY <2>1, <3>1, AppendSorted
  <2>3. UNCHANGED <<pc, called, result, returnQ, registered>> /\ sendQ' = Tail(sendQ)
        /\ sendQ # <<>> /\ back' \in {back, Append(back, Head(sendQ))}
    BY <1>2 DEF Answer, callers
  <2>4. Sorted(back', Earlier) /\ Range(back') \subseteq Range(back) \cup {Head(sendQ)}
    BY <2>2, <2>3 DEF Ordered
  <2>5. Ordered' /\ NoQueueYet'
    BY <2>1, <2>3, <2>4 DEF Ordered, NoQueueYet
  <2>6. OrderedAcross'
    BY <2>1, <2>3, <2>4 DEF OrderedAcross
  <2>7. Queued' \subseteq Queued
    BY <2>1, <2>3, <2>4 DEF Queued
  <2>. QED  BY <2>3, <2>5, <2>6, <2>7, SameFinished, SameOutcomes DEF SkewInv
<1>3. CASE PushReturnData
  <2>1. /\ Head(back) \in Id /\ Head(back) \in Range(back)
        /\ Range(Tail(back)) \subseteq Range(back) /\ Sorted(Tail(back), Earlier)
        /\ \A y \in Range(Tail(back)) : <<Head(back), y>> \in Earlier
    <3>1. back \in Seq(Id) /\ Sorted(back, Earlier) /\ back # <<>>
      BY <1>3 DEF PushReturnData, TypeOK, Ordered
    <3>. QED  BY <3>1, TailSorted, HeadTailProperties
  <2>2. UNCHANGED <<pc, called, result, sendQ, registered>> /\ back' = Tail(back) /\ back # <<>>
        /\ returnQ' = PushDropOldest(returnQ, Head(back), MAX_RETURN)
    BY <1>3 DEF PushReturnData, callers
  <2>3. Sorted(returnQ', Earlier) /\ Range(returnQ') \subseteq Range(returnQ) \cup {Head(back)}
    <3>1. /\ returnQ \in Seq(Id) /\ Sorted(returnQ, Earlier)
          /\ \A y \in Range(returnQ) : <<y, Head(back)>> \in Earlier
      BY <2>1 DEF TypeOK, Ordered, OrderedAcross
    <3>. QED  BY <2>1, <2>2, <3>1, PushDropOldestSorted, CallAssumption
  <2>4. Ordered' /\ NoQueueYet'
    BY <2>1, <2>2, <2>3 DEF Ordered, NoQueueYet
  <2>5. OrderedAcross'
    BY <2>1, <2>2, <2>3 DEF OrderedAcross
  <2>6. Queued' \subseteq Queued
    BY <2>1, <2>2, <2>3 DEF Queued
  <2>. QED  BY <2>2, <2>4, <2>5, <2>6, SameFinished, SameOutcomes DEF SkewInv
<1>4. ASSUME NEW c \in Callers, InTime(c) \/ (GetReturnData(c) /\ returnQ = <<>>) PROVE SkewInv'
  <2>1. /\ UNCHANGED <<called, result, registered, sendQ, back, returnQ>>
        /\ pc[c] # "idle" /\ pc'[c] # "idle" /\ \A d \in Callers \ {c} : pc'[d] = pc[d]
    BY <1>4 DEF InTime, GetReturnData, TypeOK
  <2>2. Ordered' /\ OrderedAcross' /\ NoQueueYet' /\ Queued' = Queued
    BY <2>1 DEF Ordered, OrderedAcross, NoQueueYet, Queued
  <2>3. \A d \in Callers : Finished(d)' = Finished(d)
    BY <2>1 DEF Finished
  <2>. QED  BY <2>1, <2>2, <2>3, SameOutcomes DEF SkewInv
<1>5. CASE UNCHANGED vars
  <2>1. UNCHANGED <<pc, called, result, sendQ, back, returnQ, registered>>
    BY <1>5 DEF vars, callers
  <2>2. Ordered' /\ OrderedAcross' /\ NoQueueYet' /\ Queued' = Queued
    BY <2>1 DEF Ordered, OrderedAcross, NoQueueYet, Queued
  <2>. QED  BY <2>1, <2>2, SameFinished, SameOutcomes DEF SkewInv
<1>. QED
  BY <1>1, <1>2, <1>3, <1>4, <1>5, CallSkewInv, ExpireSkewInv, TakeSkewInv
     DEF Next, DoActionRemoteFun

(* A thread that calls alone gets replies that are late by no more calls   *)
(* than it gave up before; until its first timeout each is its own, however *)
(* many calls it makes and whatever the lengths of the queues.             *)
THEOREM SkewIsBounded == Spec => []SkewBounded
<1>1. Init => CallInv /\ PlaceInv /\ SkewInv
  BY InitCallInv, InitPlaceInv, InitSkewInv
<1>2. CallInv /\ PlaceInv /\ SkewInv /\ [Next]_vars => (CallInv /\ PlaceInv /\ SkewInv)'
  BY NextCallInv, NextPlaceInv, NextSkewInv
<1>3. SkewInv => SkewBounded
  BY DEF SkewInv
<1>. QED  BY <1>1, <1>2, <1>3, PTL DEF Spec
=============================================================================
