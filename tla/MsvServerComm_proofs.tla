----------------------- MODULE MsvServerComm_proofs ------------------------
(***************************************************************************)
(* Theorems about MsvServerComm, for any number of clients and any queue   *)
(* length: types for any local addresses, then, for distinct ones, routing *)
(* while nobody leaves and the removal of the one client that leaves.      *)
(***************************************************************************)
EXTENDS MsvServerComm, BoundedQueues_proofs

(***************************************************************************)
(* What the program counters say about the locals of the threads.          *)
(***************************************************************************)
AcceptInv ==
  /\ AcceptTypeOK
  /\ accPc # "accept" => accSock \in Sockets
  /\ lockSource = "held" => accPc = "wait"
  /\ accPc = "wait" => accAt >= 1 /\ accAsked \in Sockets

ClientInv ==
  /\ ClientTypeOK
  /\ \A s \in Sockets :
       /\ cliPc[s] \in {"find", "push"} => cliPkt[s] \in Packet
       /\ cliPc[s] \in {"push", "delSocket", "delRecvQ", "delSendQ", "delLockRecv", "delLockSend"}
            => cliIdx[s] >= 1

RxInv ==
  /\ RxTypeOK
  /\ rxPc \in {"pop", "replyPush"} => rxIdx >= 1
  /\ rxPc \in {"replyFind", "replyPush"} => rxPkt \in Packet

TxInv ==
  /\ TxTypeOK
  /\ txPc = "pop" => txIdx >= 1
  /\ txPc = "send" => txPkt \in Packet

TypeInv == NetTypeOK /\ RegistryTypeOK /\ AcceptInv /\ ClientInv /\ RxInv /\ TxInv

(***************************************************************************)
(* A part whose variables do not change is kept.                           *)
(***************************************************************************)
LEMMA KeepNet == ASSUME NetTypeOK, UNCHANGED net PROVE NetTypeOK'
BY DEF NetTypeOK, net

LEMMA KeepRegistry ==
  ASSUME RegistryTypeOK, UNCHANGED <<registry, lockSource, bad>> PROVE RegistryTypeOK'
BY DEF RegistryTypeOK, registry, Bounded

LEMMA KeepAccept ==
  ASSUME AcceptInv, UNCHANGED acc, lockSource' = "held" => lockSource = "held"
  PROVE  AcceptInv'
BY DEF AcceptInv, AcceptTypeOK, acc

LEMMA KeepClient == ASSUME ClientInv, UNCHANGED cli PROVE ClientInv'
BY DEF ClientInv, ClientTypeOK, cli

LEMMA KeepRx == ASSUME RxInv, UNCHANGED rx PROVE RxInv'
BY DEF RxInv, RxTypeOK, rx

LEMMA KeepTx == ASSUME TxInv, UNCHANGED tx PROVE TxInv'
BY DEF TxInv, TxTypeOK, tx

(***************************************************************************)
(* The operators.                                                          *)
(***************************************************************************)
(* FindIndexByPortName returns "not found" or an index into the registry   *)
(* of an entry whose socket compares equal.                                *)
LEMMA FindIndexInRegistry ==
  ASSUME RegistryTypeOK, NEW s
  PROVE  /\ FindIndexByPortName(s) \in 0 .. Len(remote)
         /\ FindIndexByPortName(s) # 0 =>
              IsSameSocket(s, remote[FindIndexByPortName(s)].sock)
<1>. DEFINE match == {i \in 1 .. Len(remote) : IsSameSocket(s, remote[i].sock)}
<1>1. Len(remote) \in Nat
  BY DEF RegistryTypeOK
<1>2. CASE match = {}
  BY <1>1, <1>2 DEF FindIndexByPortName
<1>3. CASE match # {}
  <2>1. match \in SUBSET Nat
    BY <1>1
  <2>2. PICK i \in match : \A j \in match : i <= j
    BY <1>3, <2>1, LeastNatural
  <2>3. FindIndexByPortName(s) = CHOOSE k \in match : \A j \in match : k <= j
    BY <1>3 DEF FindIndexByPortName
  <2>4. FindIndexByPortName(s) \in match
    BY <2>2, <2>3
  <2>. QED  BY <1>1, <2>4
<1>. QED  BY <1>2, <1>3

LEMMA FindIndexType ==
  ASSUME RegistryTypeOK, NEW s
  PROVE  /\ FindIndexByPortName(s) \in Nat
         /\ FindIndexByPortName(s) # 0 => FindIndexByPortName(s) >= 1
<1>1. Len(remote) \in Nat
  BY DEF RegistryTypeOK
<1>. QED  BY <1>1, FindIndexInRegistry

LEMMA PacketTypes ==
  ASSUME NEW s \in Sockets, NEW id \in Id, NEW outs \in SUBSET Id
  PROVE  AskPacket(s) \in Packet /\ ListPacket(s) \in Packet /\ ReplyPacket(id, outs) \in Packet
<1>1. <<s, 0>> \in Id
  BY CommAssumption DEF Id
<1>. QED  BY <1>1 DEF AskPacket, ListPacket, ReplyPacket, Packet

(* The queues of all entries: a push, a pop, a new and an erased queue.    *)
Queues == {queues \in Seq(Seq(Packet)) : Bounded(queues)}

LEMMA QueuePushed ==
  ASSUME NEW queues \in Queues, NEW i \in 1 .. Len(queues), NEW pkt \in Packet
  PROVE  [queues EXCEPT ![i] = PushDropOldest(@, pkt, MAX_PACKETDATA_NUM)] \in Queues
<1>. DEFINE q == PushDropOldest(queues[i], pkt, MAX_PACKETDATA_NUM)
            new == [queues EXCEPT ![i] = q]
<1>1. queues \in Seq(Seq(Packet)) /\ queues[i] \in Seq(Packet)
      /\ Len(queues[i]) <= MAX_PACKETDATA_NUM
  BY ElementOfSeq DEF Queues, Bounded
<1>2. q \in Seq(Packet) /\ Len(q) <= MAX_PACKETDATA_NUM
  BY <1>1, PushDropOldestType, CommAssumption
<1>. HIDE DEF q
<1>3. new \in Seq(Seq(Packet)) /\ Len(new) = Len(queues)
      /\ \A j \in 1 .. Len(queues) : new[j] = IF j = i THEN q ELSE queues[j]
  BY <1>1, <1>2, ExceptSeq
<1>. QED  BY <1>1, <1>2, <1>3 DEF Queues, Bounded, q

LEMMA QueuePopped ==
  ASSUME NEW queues \in Queues, NEW i \in 1 .. Len(queues), queues[i] # <<>>
  PROVE  /\ PopFirst(queues, i) \in Queues
         /\ Head(queues[i]) \in Packet
<1>. DEFINE new == [queues EXCEPT ![i] = Tail(queues[i])]
<1>1. queues \in Seq(Seq(Packet)) /\ queues[i] \in Seq(Packet)
      /\ Len(queues[i]) <= MAX_PACKETDATA_NUM /\ Len(queues[i]) \in Nat
  BY ElementOfSeq, LenProperties DEF Queues, Bounded
<1>2. /\ Tail(queues[i]) \in Seq(Packet) /\ Head(queues[i]) \in Packet
      /\ Len(Tail(queues[i])) = Len(queues[i]) - 1
  BY <1>1, HeadTailProperties
<1>3. Len(Tail(queues[i])) <= MAX_PACKETDATA_NUM
  BY <1>1, <1>2, CommAssumption
<1>4. new \in Seq(Seq(Packet)) /\ Len(new) = Len(queues)
      /\ \A j \in 1 .. Len(queues) : new[j] = IF j = i THEN Tail(queues[i]) ELSE queues[j]
  BY <1>1, <1>2, ExceptSeq
<1>5. Bounded(new)
  BY <1>3, <1>4 DEF Queues, Bounded
<1>. QED  BY <1>2, <1>4, <1>5 DEF Queues, PopFirst

LEMMA QueueAdded ==
  ASSUME NEW queues \in Queues PROVE Append(queues, <<>>) \in Queues
<1>1. queues \in Seq(Seq(Packet)) /\ <<>> \in Seq(Packet) /\ Len(<<>>) = 0
  BY EmptySeq DEF Queues
<1>2. /\ Append(queues, <<>>) \in Seq(Seq(Packet))
      /\ Len(Append(queues, <<>>)) = Len(queues) + 1
      /\ Append(queues, <<>>)[Len(queues) + 1] = <<>>
      /\ \A j \in 1 .. Len(queues) : Append(queues, <<>>)[j] = queues[j]
  BY <1>1, AppendProperties
<1>3. Len(queues) \in Nat
  BY <1>1, LenProperties
<1>4. ASSUME NEW j \in 1 .. Len(queues) + 1
      PROVE  Len(Append(queues, <<>>)[j]) <= MAX_PACKETDATA_NUM
  <2>1. CASE j = Len(queues) + 1
    BY <1>1, <1>2, <2>1, CommAssumption
  <2>2. CASE j \in 1 .. Len(queues)
    BY <1>2, <2>2 DEF Queues, Bounded
  <2>. QED  BY <1>3, <2>1, <2>2
<1>5. Bounded(Append(queues, <<>>))
  BY <1>2, <1>4 DEF Bounded
<1>. QED  BY <1>2, <1>5 DEF Queues

LEMMA QueueErased ==
  ASSUME NEW queues \in Queues, NEW i \in 1 .. Len(queues)
  PROVE  RemoveAt(queues, i) \in Queues
<1>1. queues \in Seq(Seq(Packet)) /\ Len(queues) \in Nat
  BY LenProperties DEF Queues
<1>2. /\ RemoveAt(queues, i) \in Seq(Seq(Packet))
      /\ Len(RemoveAt(queues, i)) = Len(queues) - 1
      /\ \A j \in 1 .. Len(queues) - 1 :
            RemoveAt(queues, i)[j] = IF j < i THEN queues[j] ELSE queues[j + 1]
  BY <1>1, RemoveAtProperties
<1>3. ASSUME NEW j \in 1 .. Len(queues) - 1
      PROVE  Len(RemoveAt(queues, i)[j]) <= MAX_PACKETDATA_NUM
  <2>1. j \in 1 .. Len(queues) /\ j + 1 \in 1 .. Len(queues)
    BY <1>1
  <2>. QED  BY <1>2, <2>1 DEF Queues, Bounded
<1>4. Bounded(RemoveAt(queues, i))
  BY <1>2, <1>3 DEF Bounded
<1>. QED  BY <1>2, <1>4 DEF Queues

(***************************************************************************)
(* The registry with one of its vectors replaced.                          *)
(***************************************************************************)
Entry == [sock : Sockets, funcs : SUBSET Id]
Locks == {"free", "held", "broken"}

LEMMA NewRemote ==
  ASSUME RegistryTypeOK, remote' \in Seq(Entry), lockSource' \in Locks, bad' \in BOOLEAN,
         UNCHANGED <<nLockRecv, nLockSend, recvQ, sendQ>>
  PROVE  RegistryTypeOK'
BY DEF RegistryTypeOK, Entry, Locks, Bounded

LEMMA NewRecvQueues ==
  ASSUME RegistryTypeOK, recvQ' \in Queues, lockSource' \in Locks, bad' \in BOOLEAN,
         UNCHANGED <<remote, nLockRecv, nLockSend, sendQ>>
  PROVE  RegistryTypeOK'
BY DEF RegistryTypeOK, Queues, Locks, Bounded

LEMMA NewSendQueues ==
  ASSUME RegistryTypeOK, sendQ' \in Queues, lockSource' \in Locks, bad' \in BOOLEAN,
         UNCHANGED <<remote, nLockRecv, nLockSend, recvQ>>
  PROVE  RegistryTypeOK'
BY DEF RegistryTypeOK, Queues, Locks, Bounded

(* An unowned Leave never makes the lock held.                             *)
LEMMA LeaveUnownedType ==
  ASSUME RegistryTypeOK, LeaveUnowned
  PROVE  lockSource' \in Locks /\ bad' \in BOOLEAN /\ (lockSource' = "held" => lockSource = "held")
BY DEF LeaveUnowned, RegistryTypeOK, Locks

LEMMA EntrySocket ==
  ASSUME RegistryTypeOK, NEW i \in 1 .. Len(remote) PROVE remote[i].sock \in Sockets
<1>1. remote[i] \in Entry
  BY ElementOfSeq DEF RegistryTypeOK, Entry
<1>. QED  BY <1>1 DEF Entry

LEMMA LastIsSocket ==
  ASSUME RegistryTypeOK, remote # <<>> PROVE remote[Len(remote)].sock \in Sockets
<1>1. Len(remote) \in 1 .. Len(remote)
  BY EmptySeq, LenProperties DEF RegistryTypeOK
<1>. QED  BY <1>1, EntrySocket

(***************************************************************************)
(* Every step keeps TypeInv: one lemma for each action.                    *)
(***************************************************************************)
LEMMA TypeClientSend ==
  ASSUME NEW s \in Sockets, NEW kind \in Kinds[s], TypeInv, ClientSend(s, kind)
  PROVE  TypeInv'
<1>. NetTypeOK /\ RegistryTypeOK /\ AcceptInv /\ ClientInv /\ RxInv /\ TxInv
  BY DEF TypeInv
<1>1. NetTypeOK'
  <2>. DEFINE pkt == [kind |-> kind, id |-> <<s, issued[s] + 1>>, out |-> {}]
  <2>1. issued[s] + 1 \in 0 .. MaxRequests
    BY CommAssumption DEF ClientSend, NetTypeOK
  <2>2. pkt \in Packet
    BY <2>1, CommAssumption DEF Packet, Id
  <2>. HIDE DEF pkt
  <2>3. Append(wire[s], pkt) \in Seq(Packet)
    BY <2>2, AppendProperties DEF NetTypeOK
  <2>. QED  BY <2>1, <2>3 DEF ClientSend, NetTypeOK, pkt
<1>2. RegistryTypeOK' /\ AcceptInv' /\ ClientInv' /\ RxInv' /\ TxInv'
  BY KeepRegistry, KeepAccept, KeepClient, KeepRx, KeepTx DEF ClientSend, registry
<1>. QED  BY <1>1, <1>2 DEF TypeInv

LEMMA TypeClientClose == ASSUME NEW s \in Sockets, TypeInv, ClientClose(s) PROVE TypeInv'
<1>. NetTypeOK /\ RegistryTypeOK /\ AcceptInv /\ ClientInv /\ RxInv /\ TxInv
  BY DEF TypeInv
<1>1. NetTypeOK'
  BY DEF ClientClose, NetTypeOK
<1>2. RegistryTypeOK' /\ AcceptInv' /\ ClientInv' /\ RxInv' /\ TxInv'
  BY KeepRegistry, KeepAccept, KeepClient, KeepRx, KeepTx DEF ClientClose, registry
<1>. QED  BY <1>1, <1>2 DEF TypeInv

LEMMA TypeAccept == ASSUME NEW s \in Sockets, TypeInv, Accept(s) PROVE TypeInv'
<1>. NetTypeOK /\ RegistryTypeOK /\ AcceptInv /\ ClientInv /\ RxInv /\ TxInv
  BY DEF TypeInv
<1>1. NetTypeOK'
  BY DEF Accept, NetTypeOK
<1>2. AcceptInv'
  BY DEF Accept, AcceptInv, AcceptTypeOK
<1>3. RegistryTypeOK' /\ ClientInv' /\ RxInv' /\ TxInv'
  BY KeepRegistry, KeepClient, KeepRx, KeepTx DEF Accept
<1>. QED  BY <1>1, <1>2, <1>3 DEF TypeInv

LEMMA TypeAddPushSocket == ASSUME TypeInv, AddPushSocket PROVE TypeInv'
<1>. NetTypeOK /\ RegistryTypeOK /\ AcceptInv /\ ClientInv /\ RxInv /\ TxInv
  BY DEF TypeInv
<1>1. RegistryTypeOK'
  BY AppendProperties DEF AddPushSocket, AcceptInv, RegistryTypeOK, Queues, Bounded
<1>2. AcceptInv'
  BY DEF AddPushSocket, AcceptInv, AcceptTypeOK, GotoAcc, RegistryTypeOK
<1>3. NetTypeOK' /\ ClientInv' /\ RxInv' /\ TxInv'
  BY KeepNet, KeepClient, KeepRx, KeepTx DEF AddPushSocket
<1>. QED  BY <1>1, <1>2, <1>3 DEF TypeInv

LEMMA TypeAddPushLockRecv == ASSUME TypeInv, AddPushLockRecv PROVE TypeInv'
<1>. NetTypeOK /\ RegistryTypeOK /\ AcceptInv /\ ClientInv /\ RxInv /\ TxInv
  BY DEF TypeInv
<1>1. RegistryTypeOK'
  BY DEF AddPushLockRecv, AcceptInv, RegistryTypeOK, Queues, Bounded
<1>2. AcceptInv'
  BY DEF AddPushLockRecv, AcceptInv, AcceptTypeOK, GotoAcc, RegistryTypeOK
<1>3. NetTypeOK' /\ ClientInv' /\ RxInv' /\ TxInv'
  BY KeepNet, KeepClient, KeepRx, KeepTx DEF AddPushLockRecv
<1>. QED  BY <1>1, <1>2, <1>3 DEF TypeInv

LEMMA TypeAddPushLockSend == ASSUME TypeInv, AddPushLockSend PROVE TypeInv'
<1>. NetTypeOK /\ RegistryTypeOK /\ AcceptInv /\ ClientInv /\ RxInv /\ TxInv
  BY DEF TypeInv
<1>1. RegistryTypeOK'
  BY DEF AddPushLockSend, AcceptInv, RegistryTypeOK, Queues, Bounded
<1>2. AcceptInv'
  BY DEF AddPushLockSend, AcceptInv, AcceptTypeOK, GotoAcc, RegistryTypeOK
<1>3. NetTypeOK' /\ ClientInv' /\ RxInv' /\ TxInv'
  BY KeepNet, KeepClient, KeepRx, KeepTx DEF AddPushLockSend
<1>. QED  BY <1>1, <1>2, <1>3 DEF TypeInv

LEMMA TypeAddPushRecvQ == ASSUME TypeInv, AddPushRecvQ PROVE TypeInv'
<1>. NetTypeOK /\ RegistryTypeOK /\ AcceptInv /\ ClientInv /\ RxInv /\ TxInv
  BY DEF TypeInv
<1>1. RegistryTypeOK'
  BY QueueAdded DEF AddPushRecvQ, AcceptInv, RegistryTypeOK, Queues, Bounded
<1>2. AcceptInv'
  BY DEF AddPushRecvQ, AcceptInv, AcceptTypeOK, GotoAcc, RegistryTypeOK
<1>3. NetTypeOK' /\ ClientInv' /\ RxInv' /\ TxInv'
  BY KeepNet, KeepClient, KeepRx, KeepTx DEF AddPushRecvQ
<1>. QED  BY <1>1, <1>2, <1>3 DEF TypeInv

LEMMA TypeAddPushSendQ == ASSUME TypeInv, AddPushSendQ PROVE TypeInv'
<1>. NetTypeOK /\ RegistryTypeOK /\ AcceptInv /\ ClientInv /\ RxInv /\ TxInv
  BY DEF TypeInv
<1>1. RegistryTypeOK'
  BY QueueAdded DEF AddPushSendQ, AcceptInv, RegistryTypeOK, Queues, Bounded
<1>2. AcceptInv'
  BY DEF AddPushSendQ, AcceptInv, AcceptTypeOK, GotoAcc, RegistryTypeOK
<1>3. NetTypeOK' /\ ClientInv' /\ RxInv' /\ TxInv'
  BY KeepNet, KeepClient, KeepRx, KeepTx DEF AddPushSendQ
<1>. QED  BY <1>1, <1>2, <1>3 DEF TypeInv

LEMMA TypeAddAskFunList == ASSUME TypeInv, AddAskFunList PROVE TypeInv'
<1>. NetTypeOK /\ RegistryTypeOK /\ AcceptInv /\ ClientInv /\ RxInv /\ TxInv
  BY DEF TypeInv
<1>1. RegistryTypeOK'
  <2>. DEFINE last == remote[Len(remote)].sock
              idx == FindIndexByPortName(last)
  <2>1. CASE remote = <<>> \/ idx > nLockSend \/ idx > Len(sendQ)
    BY <2>1 DEF AddAskFunList, RegistryTypeOK, registry, Bounded
  <2>2. CASE ~(remote = <<>> \/ idx > nLockSend \/ idx > Len(sendQ))
    <3>1. last \in Sockets /\ idx \in Nat /\ Len(sendQ) \in Nat
      BY <2>2, LastIsSocket, FindIndexType DEF RegistryTypeOK
    <3>2. sendQ' \in Queues
      <4>1. sendQ \in Queues
        BY DEF RegistryTypeOK, Queues
      <4>2. CASE idx = 0
        BY <2>2, <4>1, <4>2 DEF AddAskFunList
      <4>3. CASE idx # 0
        <5>1. idx \in 1 .. Len(sendQ)
          BY <2>2, <3>1, <4>3
        <5>2. <<last, 0>> \in Id
          BY <3>1, CommAssumption DEF Id
        <5>3. AskPacket(last) \in Packet
          BY <5>2 DEF AskPacket, Packet
        <5>4. [sendQ EXCEPT ![idx] = PushDropOldest(@, AskPacket(last), MAX_PACKETDATA_NUM)]
                \in Queues
          BY <4>1, <5>1, <5>3, QueuePushed
        <5>. QED  BY <2>2, <4>3, <5>4 DEF AddAskFunList
      <4>. QED  BY <4>2, <4>3
    <3>. QED  BY <2>2, <3>2, NewSendQueues DEF AddAskFunList, RegistryTypeOK, Locks
  <2>. QED  BY <2>1, <2>2
<1>2. AcceptInv'
  <2>1. CASE UNCHANGED <<lockSource, acc>>
    BY <2>1, KeepAccept
  <2>2. CASE ~UNCHANGED <<lockSource, acc>>
    <3>1. remote # <<>> /\ accPc' = "wait" /\ accAsked' = remote[Len(remote)].sock
          /\ accAt' = Len(remote) /\ UNCHANGED accSock /\ accPc # "accept"
      BY <2>2 DEF AddAskFunList
    <3>2. Len(remote) \in Nat \ {0} /\ accAsked' \in Sockets
      BY <3>1, LastIsSocket, EmptySeq, LenProperties DEF RegistryTypeOK
    <3>. QED  BY <3>1, <3>2 DEF AcceptInv, AcceptTypeOK
  <2>. QED  BY <2>1, <2>2
<1>3. NetTypeOK' /\ ClientInv' /\ RxInv' /\ TxInv'
  BY KeepNet, KeepClient, KeepRx, KeepTx DEF AddAskFunList
<1>. QED  BY <1>1, <1>2, <1>3 DEF TypeInv

(* The end of the wait gives at most one entry another list.               *)
LEMMA EndWaitList ==
  ASSUME RegistryTypeOK, AcceptInv, AddEndWait
  PROVE  \/ UNCHANGED remote
         \/ \E i \in 1 .. Len(remote), fs \in SUBSET Id :
              remote' = [remote EXCEPT ![i].funcs = fs]
<1>. DEFINE found == FindIndexByPortName(accAsked)
            fs == remote[accAt].funcs \cup remote[found].funcs
<1>1. CASE UNCHANGED remote
  BY <1>1
<1>2. CASE ~UNCHANGED remote
  <2>1. /\ found # 0 /\ ~(accAt > Len(remote))
        /\ remote' = [remote EXCEPT ![accAt].funcs = @ \cup remote[found].funcs]
    BY <1>2 DEF AddEndWait
  <2>2. accAt \in Nat /\ accAt >= 1 /\ Len(remote) \in Nat /\ remote \in Seq(Entry)
    BY LenProperties DEF AddEndWait, AcceptInv, AcceptTypeOK, RegistryTypeOK, Entry
  <2>3. accAt \in 1 .. Len(remote) /\ found \in 1 .. Len(remote)
    BY <2>1, <2>2, FindIndexInRegistry
  <2>4. remote[accAt] \in Entry /\ remote[found] \in Entry
    BY <2>2, <2>3, ElementOfSeq
  <2>5. fs \in SUBSET Id
    BY <2>4 DEF Entry
  <2>6. remote' = [remote EXCEPT ![accAt].funcs = fs]
    BY <2>1, <2>2, <2>3, LenProperties
  <2>. QED  BY <2>3, <2>5, <2>6
<1>. QED  BY <1>1, <1>2

LEMMA TypeAddEndWait == ASSUME TypeInv, AddEndWait PROVE TypeInv'
<1>. NetTypeOK /\ RegistryTypeOK /\ AcceptInv /\ ClientInv /\ RxInv /\ TxInv
  BY DEF TypeInv
<1>1. remote' \in Seq(Entry)
  <2>1. CASE UNCHANGED remote
    BY <2>1 DEF RegistryTypeOK, Entry
  <2>2. CASE ~UNCHANGED remote
    <3>1. PICK i \in 1 .. Len(remote), fs \in SUBSET Id :
            remote' = [remote EXCEPT ![i].funcs = fs]
      BY <2>2, EndWaitList
    <3>2. remote \in Seq(Entry)
      BY DEF RegistryTypeOK, Entry
    <3>3. remote[i] \in Entry
      BY <3>1, <3>2, ElementOfSeq
    <3>4. [remote[i] EXCEPT !.funcs = fs] \in Entry
      BY <3>3 DEF Entry
    <3>. QED  BY <3>1, <3>2, <3>4, ExceptSeq
  <2>. QED  BY <2>1, <2>2
<1>2. lockSource' \in Locks /\ bad' \in BOOLEAN
  <2>1. \/ bad' = TRUE /\ UNCHANGED lockSource
        \/ lockSource' = "free" /\ UNCHANGED bad
        \/ LeaveUnowned
    BY DEF AddEndWait
  <2>. QED  BY <2>1, LeaveUnownedType DEF RegistryTypeOK, Locks
<1>3. RegistryTypeOK'
  BY <1>1, <1>2, NewRemote DEF AddEndWait
<1>4. AcceptInv'
  <2>1. CASE UNCHANGED <<lockSource, acc>>
    BY <2>1, KeepAccept
  <2>2. CASE ~UNCHANGED <<lockSource, acc>>
    <3>1. /\ accPc' = "start" /\ accAsked' = NoSocket /\ accAt' = 0 /\ UNCHANGED accSock
          /\ accPc # "accept"
          /\ \/ lockSource' = "free"
             \/ lockSource # "held" /\ LeaveUnowned
      BY <2>2 DEF AddEndWait
    <3>2. lockSource' # "held"
      BY <3>1, LeaveUnownedType
    <3>. QED  BY <3>1, <3>2 DEF AcceptInv, AcceptTypeOK
  <2>. QED  BY <2>1, <2>2
<1>5. NetTypeOK' /\ ClientInv' /\ RxInv' /\ TxInv'
  BY KeepNet, KeepClient, KeepRx, KeepTx DEF AddEndWait
<1>. QED  BY <1>3, <1>4, <1>5 DEF TypeInv

LEMMA TypeStartProcessClient == ASSUME TypeInv, StartProcessClient PROVE TypeInv'
<1>. NetTypeOK /\ RegistryTypeOK /\ AcceptInv /\ ClientInv /\ RxInv /\ TxInv
  BY DEF TypeInv
<1>1. AcceptInv'
  BY DEF StartProcessClient, AcceptInv, AcceptTypeOK, registry
<1>2. ClientInv'
  BY DEF StartProcessClient, ClientInv, ClientTypeOK, GotoCli
<1>3. NetTypeOK' /\ RegistryTypeOK' /\ RxInv' /\ TxInv'
  BY KeepNet, KeepRegistry, KeepRx, KeepTx DEF StartProcessClient
<1>. QED  BY <1>1, <1>2, <1>3 DEF TypeInv

LEMMA TypeRecv == ASSUME NEW s \in Sockets, TypeInv, Recv(s) PROVE TypeInv'
<1>. NetTypeOK /\ RegistryTypeOK /\ AcceptInv /\ ClientInv /\ RxInv /\ TxInv
  BY DEF TypeInv
<1>1. NetTypeOK'
  BY HeadTailProperties DEF Recv, NetTypeOK
<1>2. ClientInv'
  BY HeadTailProperties DEF Recv, ClientInv, ClientTypeOK, NetTypeOK
<1>3. RegistryTypeOK' /\ AcceptInv' /\ RxInv' /\ TxInv'
  BY KeepRegistry, KeepAccept, KeepRx, KeepTx DEF Recv, registry
<1>. QED  BY <1>1, <1>2, <1>3 DEF TypeInv

LEMMA TypePushRecvFind == ASSUME NEW s \in Sockets, TypeInv, PushRecvFind(s) PROVE TypeInv'
<1>. NetTypeOK /\ RegistryTypeOK /\ AcceptInv /\ ClientInv /\ RxInv /\ TxInv
  BY DEF TypeInv
<1>1. ClientInv'
  BY FindIndexType DEF PushRecvFind, ClientInv, ClientTypeOK, BackToRecv
<1>2. NetTypeOK' /\ RegistryTypeOK' /\ AcceptInv' /\ RxInv' /\ TxInv'
  BY KeepNet, KeepRegistry, KeepAccept, KeepRx, KeepTx DEF PushRecvFind, registry
<1>. QED  BY <1>1, <1>2 DEF TypeInv

LEMMA TypePushPacketDataRecv ==
  ASSUME NEW s \in Sockets, TypeInv, PushPacketDataRecv(s)
  PROVE  TypeInv'
<1>. NetTypeOK /\ RegistryTypeOK /\ AcceptInv /\ ClientInv /\ RxInv /\ TxInv
  BY DEF TypeInv
<1>1. RegistryTypeOK'
  <2>1. CASE cliIdx[s] > nLockRecv \/ cliIdx[s] > Len(recvQ)
    BY <2>1 DEF PushPacketDataRecv, RegistryTypeOK, Bounded
  <2>2. CASE ~(cliIdx[s] > nLockRecv \/ cliIdx[s] > Len(recvQ))
    <3>1. cliIdx[s] \in 1 .. Len(recvQ) /\ recvQ \in Queues /\ cliPkt[s] \in Packet
      BY <2>2 DEF PushPacketDataRecv, ClientInv, ClientTypeOK, RegistryTypeOK, Queues
    <3>2. recvQ' \in Queues
      BY <2>2, <3>1, QueuePushed DEF PushPacketDataRecv
    <3>. QED  BY <2>2, <3>2, NewRecvQueues DEF PushPacketDataRecv, RegistryTypeOK, Locks
  <2>. QED  BY <2>1, <2>2
<1>2. ClientInv'
  <2>1. CASE UNCHANGED cli
    BY <2>1, KeepClient
  <2>2. CASE BackToRecv(s)
    BY <2>2 DEF BackToRecv, ClientInv, ClientTypeOK
  <2>. QED  BY <2>1, <2>2 DEF PushPacketDataRecv
<1>3. NetTypeOK' /\ AcceptInv' /\ RxInv' /\ TxInv'
  BY KeepNet, KeepAccept, KeepRx, KeepTx DEF PushPacketDataRecv
<1>. QED  BY <1>1, <1>2, <1>3 DEF TypeInv

LEMMA TypeDisconnect == ASSUME NEW s \in Sockets, TypeInv, Disconnect(s) PROVE TypeInv'
<1>. NetTypeOK /\ RegistryTypeOK /\ AcceptInv /\ ClientInv /\ RxInv /\ TxInv
  BY DEF TypeInv
<1>1. ClientInv'
  BY DEF Disconnect, ClientInv, ClientTypeOK, GotoCli
<1>2. NetTypeOK' /\ RegistryTypeOK' /\ AcceptInv' /\ RxInv' /\ TxInv'
  BY KeepNet, KeepRegistry, KeepAccept, KeepRx, KeepTx DEF Disconnect, registry
<1>. QED  BY <1>1, <1>2 DEF TypeInv

LEMMA TypeDelFind == ASSUME NEW s \in Sockets, TypeInv, DelFind(s) PROVE TypeInv'
<1>. NetTypeOK /\ RegistryTypeOK /\ AcceptInv /\ ClientInv /\ RxInv /\ TxInv
  BY DEF TypeInv
<1>1. ClientInv'
  BY FindIndexType DEF DelFind, ClientInv, ClientTypeOK
<1>2. NetTypeOK' /\ RegistryTypeOK' /\ AcceptInv' /\ RxInv' /\ TxInv'
  BY KeepNet, KeepRegistry, KeepAccept, KeepRx, KeepTx DEF DelFind, registry
<1>. QED  BY <1>1, <1>2 DEF TypeInv

LEMMA TypeDelSocket == ASSUME NEW s \in Sockets, TypeInv, DelSocket(s) PROVE TypeInv'
<1>. NetTypeOK /\ RegistryTypeOK /\ AcceptInv /\ ClientInv /\ RxInv /\ TxInv
  BY DEF TypeInv
<1>1. RegistryTypeOK'
  <2>1. CASE cliIdx[s] > Len(remote)
    BY <2>1 DEF DelSocket, RegistryTypeOK, Bounded
  <2>2. CASE ~(cliIdx[s] > Len(remote))
    <3>1. cliIdx[s] \in 1 .. Len(remote) /\ remote \in Seq(Entry)
      BY <2>2 DEF DelSocket, ClientInv, ClientTypeOK, RegistryTypeOK, Entry
    <3>2. remote' \in Seq(Entry)
      BY <2>2, <3>1, RemoveAtProperties DEF DelSocket
    <3>. QED  BY <2>2, <3>2, NewRemote DEF DelSocket, RegistryTypeOK, Locks
  <2>. QED  BY <2>1, <2>2
<1>2. ClientInv'
  BY DEF DelSocket, ClientInv, ClientTypeOK, GotoCli, cli
<1>3. NetTypeOK' /\ AcceptInv' /\ RxInv' /\ TxInv'
  BY KeepNet, KeepAccept, KeepRx, KeepTx DEF DelSocket
<1>. QED  BY <1>1, <1>2, <1>3 DEF TypeInv

LEMMA TypeDelRecvQ == ASSUME NEW s \in Sockets, TypeInv, DelRecvQ(s) PROVE TypeInv'
<1>. NetTypeOK /\ RegistryTypeOK /\ AcceptInv /\ ClientInv /\ RxInv /\ TxInv
  BY DEF TypeInv
<1>1. RegistryTypeOK'
  <2>1. CASE cliIdx[s] > nLockRecv \/ cliIdx[s] > Len(recvQ)
    BY <2>1 DEF DelRecvQ, RegistryTypeOK, Bounded
  <2>2. CASE ~(cliIdx[s] > nLockRecv \/ cliIdx[s] > Len(recvQ))
    <3>1. cliIdx[s] \in 1 .. Len(recvQ) /\ recvQ \in Queues
      BY <2>2 DEF DelRecvQ, ClientInv, ClientTypeOK, RegistryTypeOK, Queues
    <3>2. recvQ' \in Queues
      BY <2>2, <3>1, QueueErased DEF DelRecvQ
    <3>. QED  BY <2>2, <3>2, NewRecvQueues DEF DelRecvQ, RegistryTypeOK, Locks
  <2>. QED  BY <2>1, <2>2
<1>2. ClientInv'
  BY DEF DelRecvQ, ClientInv, ClientTypeOK, GotoCli, cli
<1>3. NetTypeOK' /\ AcceptInv' /\ RxInv' /\ TxInv'
  BY KeepNet, KeepAccept, KeepRx, KeepTx DEF DelRecvQ
<1>. QED  BY <1>1, <1>2, <1>3 DEF TypeInv

LEMMA TypeDelSendQ == ASSUME NEW s \in Sockets, TypeInv, DelSendQ(s) PROVE TypeInv'
<1>. NetTypeOK /\ RegistryTypeOK /\ AcceptInv /\ ClientInv /\ RxInv /\ TxInv
  BY DEF TypeInv
<1>1. RegistryTypeOK'
  <2>1. CASE cliIdx[s] > nLockSend \/ cliIdx[s] > Len(sendQ)
    BY <2>1 DEF DelSendQ, RegistryTypeOK, Bounded
  <2>2. CASE ~(cliIdx[s] > nLockSend \/ cliIdx[s] > Len(sendQ))
    <3>1. cliIdx[s] \in 1 .. Len(sendQ) /\ sendQ \in Queues
      BY <2>2 DEF DelSendQ, ClientInv, ClientTypeOK, RegistryTypeOK, Queues
    <3>2. sendQ' \in Queues
      BY <2>2, <3>1, QueueErased DEF DelSendQ
    <3>. QED  BY <2>2, <3>2, NewSendQueues DEF DelSendQ, RegistryTypeOK, Locks
  <2>. QED  BY <2>1, <2>2
<1>2. ClientInv'
  BY DEF DelSendQ, ClientInv, ClientTypeOK, GotoCli, cli
<1>3. NetTypeOK' /\ AcceptInv' /\ RxInv' /\ TxInv'
  BY KeepNet, KeepAccept, KeepRx, KeepTx DEF DelSendQ
<1>. QED  BY <1>1, <1>2, <1>3 DEF TypeInv

LEMMA TypeDelLockRecv == ASSUME NEW s \in Sockets, TypeInv, DelLockRecv(s) PROVE TypeInv'
<1>. NetTypeOK /\ RegistryTypeOK /\ AcceptInv /\ ClientInv /\ RxInv /\ TxInv
  BY DEF TypeInv
<1>1. RegistryTypeOK'
  <2>1. cliIdx[s] \in Nat \ {0} /\ nLockRecv \in Nat /\ nLockSend \in Nat
    BY DEF DelLockRecv, ClientInv, ClientTypeOK, RegistryTypeOK
  <2>2. nLockRecv' \in Nat
    BY <2>1 DEF DelLockRecv
  <2>3. bad' \in BOOLEAN
    BY DEF DelLockRecv, RegistryTypeOK
  <2>. QED  BY <2>2, <2>3 DEF DelLockRecv, RegistryTypeOK, Bounded
<1>2. ClientInv'
  BY DEF DelLockRecv, ClientInv, ClientTypeOK, GotoCli, cli
<1>3. NetTypeOK' /\ AcceptInv' /\ RxInv' /\ TxInv'
  BY KeepNet, KeepAccept, KeepRx, KeepTx DEF DelLockRecv
<1>. QED  BY <1>1, <1>2, <1>3 DEF TypeInv

LEMMA TypeDelLockSend == ASSUME NEW s \in Sockets, TypeInv, DelLockSend(s) PROVE TypeInv'
<1>. NetTypeOK /\ RegistryTypeOK /\ AcceptInv /\ ClientInv /\ RxInv /\ TxInv
  BY DEF TypeInv
<1>1. RegistryTypeOK'
  <2>1. cliIdx[s] \in Nat \ {0} /\ nLockSend \in Nat
    BY DEF DelLockSend, ClientInv, ClientTypeOK, RegistryTypeOK
  <2>2. nLockSend' \in Nat
    BY <2>1 DEF DelLockSend, EraseLockSend
  <2>3. bad' \in BOOLEAN
    BY DEF DelLockSend, RegistryTypeOK
  <2>. QED  BY <2>2, <2>3 DEF DelLockSend, RegistryTypeOK, Bounded
<1>2. ClientInv'
  BY DEF DelLockSend, ClientInv, ClientTypeOK, GotoCli, cli
<1>3. NetTypeOK' /\ AcceptInv' /\ RxInv' /\ TxInv'
  BY KeepNet, KeepAccept, KeepRx, KeepTx DEF DelLockSend
<1>. QED  BY <1>1, <1>2, <1>3 DEF TypeInv

LEMMA TypeCloseSocket == ASSUME NEW s \in Sockets, TypeInv, CloseSocket(s) PROVE TypeInv'
<1>. NetTypeOK /\ RegistryTypeOK /\ AcceptInv /\ ClientInv /\ RxInv /\ TxInv
  BY DEF TypeInv
<1>1. NetTypeOK'
  BY DEF CloseSocket, NetTypeOK
<1>2. ClientInv'
  BY DEF CloseSocket, ClientInv, ClientTypeOK
<1>3. RegistryTypeOK' /\ AcceptInv' /\ RxInv' /\ TxInv'
  BY KeepRegistry, KeepAccept, KeepRx, KeepTx DEF CloseSocket, registry
<1>. QED  BY <1>1, <1>2, <1>3 DEF TypeInv

LEMMA TypeRxPick == ASSUME TypeInv, RxPick PROVE TypeInv'
<1>. NetTypeOK /\ RegistryTypeOK /\ AcceptInv /\ ClientInv /\ RxInv /\ TxInv
  BY DEF TypeInv
<1>1. RxInv'
  <2>1. CASE rxI < Len(remote)
    <3>1. rxI + 1 \in 1 .. Len(remote) /\ rxI \in Nat
      BY <2>1 DEF RxInv, RxTypeOK, RegistryTypeOK
    <3>2. remote[rxI + 1].sock \in Sockets
      BY <3>1, EntrySocket
    <3>. QED  BY <2>1, <3>2 DEF RxPick, RxMore, RxNewPass, RxInv, RxTypeOK
  <2>2. CASE ~(rxI < Len(remote))
    BY <2>2 DEF RxPick, RxMore, RxNewPass, RxInv, RxTypeOK
  <2>. QED  BY <2>1, <2>2
<1>2. NetTypeOK' /\ RegistryTypeOK' /\ AcceptInv' /\ ClientInv' /\ TxInv'
  BY KeepNet, KeepRegistry, KeepAccept, KeepClient, KeepTx DEF RxPick, registry
<1>. QED  BY <1>1, <1>2 DEF TypeInv

LEMMA TypeRxFind == ASSUME TypeInv, RxFind PROVE TypeInv'
<1>. NetTypeOK /\ RegistryTypeOK /\ AcceptInv /\ ClientInv /\ RxInv /\ TxInv
  BY DEF TypeInv
<1>1. RxInv'
  BY FindIndexType DEF RxFind, RxInv, RxTypeOK, RxFindThen, RxNext
<1>2. NetTypeOK' /\ RegistryTypeOK' /\ AcceptInv' /\ ClientInv' /\ TxInv'
  BY KeepNet, KeepRegistry, KeepAccept, KeepClient, KeepTx DEF RxFind, registry
<1>. QED  BY <1>1, <1>2 DEF TypeInv

(* A request leaves the lock unowned; nothing else rx pops touches it.     *)
LEMMA RxPopLeaves ==
  ASSUME RxPop PROVE LeaveUnowned \/ (UNCHANGED lockSource /\ (UNCHANGED bad \/ bad' = TRUE))
BY DEF RxPop, RxHandle

LEMMA TypeRxPop == ASSUME TypeInv, RxPop PROVE TypeInv'
<1>. NetTypeOK /\ RegistryTypeOK /\ AcceptInv /\ ClientInv /\ RxInv /\ TxInv
  BY DEF TypeInv
<1>1. RegistryTypeOK'
  <2>0. lockSource' \in Locks /\ bad' \in BOOLEAN
    BY RxPopLeaves, LeaveUnownedType DEF RegistryTypeOK, Locks
  <2>1. CASE UNCHANGED recvQ
    BY <2>0, <2>1 DEF RxPop, RegistryTypeOK, Bounded, Locks
  <2>2. CASE ~UNCHANGED recvQ
    <3>1. ~(rxIdx > nLockRecv \/ rxIdx > Len(recvQ)) /\ recvQ[rxIdx] # <<>>
      BY <2>2 DEF RxPop
    <3>2. rxIdx \in 1 .. Len(recvQ) /\ recvQ \in Queues
      BY <3>1 DEF RxPop, RxInv, RxTypeOK, RegistryTypeOK, Queues
    <3>3. recvQ' \in Queues
      BY <3>1, <3>2, QueuePopped DEF RxPop
    <3>. QED  BY <2>0, <3>1, <3>3, NewRecvQueues DEF RxPop
  <2>. QED  BY <2>1, <2>2
<1>2. RxInv'
  <2>1. CASE UNCHANGED rx
    BY <2>1, KeepRx
  <2>2. CASE RxNext /\ UNCHANGED <<rxParams, rxOuts>>
    BY <2>2 DEF RxNext, RxInv, RxTypeOK
  <2>3. CASE RxHandle(Head(recvQ[rxIdx])) /\ rxIdx \in 1 .. Len(recvQ) /\ recvQ[rxIdx] # <<>>
    <3>. DEFINE pkt == Head(recvQ[rxIdx])
    <3>1. pkt \in Packet
      BY <2>3, QueuePopped DEF RegistryTypeOK, Queues
    <3>2. pkt.id \in Id
      BY <3>1 DEF Packet
    <3>. HIDE DEF pkt
    <3>3. RxHandle(pkt)
      BY <2>3 DEF pkt
    <3>4. rxParams' \in SUBSET Id
      BY <3>2, <3>3 DEF RxHandle, RxInv, RxTypeOK
    <3>5. CASE pkt.kind = "list"
      BY <3>3, <3>4, <3>5 DEF RxHandle, RxInv, RxTypeOK
    <3>6. CASE pkt.kind = "req"
      <4>1. rxOuts' \in SUBSET Id
        BY <3>2, <3>3, <3>6 DEF RxHandle, RxInv, RxTypeOK
      <4>2. rxPkt' \in Packet
        BY <3>2, <3>3, <3>6, <4>1 DEF RxHandle, ReplyPacket, Packet
      <4>. QED  BY <3>3, <3>4, <3>6, <4>1, <4>2 DEF RxHandle, RxInv, RxTypeOK
    <3>7. CASE pkt.kind \notin {"list", "req"}
      BY <3>3, <3>4, <3>7 DEF RxHandle, RxNext, RxInv, RxTypeOK
    <3>. QED  BY <3>5, <3>6, <3>7
  <2>4. rxPc = "pop" /\ rxIdx \in Nat \ {0} /\ Len(recvQ) \in Nat
    BY DEF RxPop, RxInv, RxTypeOK, RegistryTypeOK
  <2>. QED  BY <2>1, <2>2, <2>3, <2>4 DEF RxPop
<1>3. NetTypeOK' /\ AcceptInv' /\ ClientInv' /\ TxInv'
  BY KeepNet, KeepAccept, KeepClient, KeepTx, RxPopLeaves, LeaveUnownedType DEF RxPop
<1>. QED  BY <1>1, <1>2, <1>3 DEF TypeInv

LEMMA TypeRxUpdataRemoteFuncList == ASSUME TypeInv, RxUpdataRemoteFuncList PROVE TypeInv'
<1>. NetTypeOK /\ RegistryTypeOK /\ AcceptInv /\ ClientInv /\ RxInv /\ TxInv
  BY DEF TypeInv
<1>1. RegistryTypeOK'
  <2>. DEFINE idx == FindIndexByPortName(rxSock)
              new == [remote EXCEPT ![idx].funcs = rxParams]
  <2>1. idx \in 0 .. Len(remote) /\ remote \in Seq(Entry) /\ Len(remote) \in Nat
    BY FindIndexInRegistry DEF RegistryTypeOK, Entry
  <2>. HIDE DEF idx
  <2>2. CASE idx = 0
    BY <2>2, <2>1, NewRemote DEF RxUpdataRemoteFuncList, UpdataRemoteFuncList,
                  RegistryTypeOK, Locks, idx
  <2>3. CASE idx # 0
    <3>1. idx \in 1 .. Len(remote)
      BY <2>1, <2>3
    <3>2. remote[idx] \in Entry
      BY <2>1, <3>1, ElementOfSeq
    <3>3. [remote[idx] EXCEPT !.funcs = rxParams] \in Entry
      BY <3>2 DEF Entry, RxInv, RxTypeOK
    <3>4. new \in Seq(Entry)
      BY <2>1, <3>1, <3>3, ExceptSeq
    <3>. QED  BY <2>3, <3>4, NewRemote DEF RxUpdataRemoteFuncList, UpdataRemoteFuncList,
                  RegistryTypeOK, Locks, idx
  <2>. QED  BY <2>2, <2>3
<1>2. RxInv'
  BY DEF RxUpdataRemoteFuncList, RxInv, RxTypeOK, RxNext
<1>3. NetTypeOK' /\ AcceptInv' /\ ClientInv' /\ TxInv'
  BY KeepNet, KeepAccept, KeepClient, KeepTx DEF RxUpdataRemoteFuncList
<1>. QED  BY <1>1, <1>2, <1>3 DEF TypeInv

LEMMA TypeRxReplyFind == ASSUME TypeInv, RxReplyFind PROVE TypeInv'
<1>. NetTypeOK /\ RegistryTypeOK /\ AcceptInv /\ ClientInv /\ RxInv /\ TxInv
  BY DEF TypeInv
<1>1. RxInv'
  BY FindIndexType DEF RxReplyFind, RxInv, RxTypeOK, RxFindThen, RxNext
<1>2. NetTypeOK' /\ RegistryTypeOK' /\ AcceptInv' /\ ClientInv' /\ TxInv'
  BY KeepNet, KeepRegistry, KeepAccept, KeepClient, KeepTx DEF RxReplyFind, registry
<1>. QED  BY <1>1, <1>2 DEF TypeInv

LEMMA TypeRxPushPacketDataSend == ASSUME TypeInv, RxPushPacketDataSend PROVE TypeInv'
<1>. NetTypeOK /\ RegistryTypeOK /\ AcceptInv /\ ClientInv /\ RxInv /\ TxInv
  BY DEF TypeInv
<1>1. RegistryTypeOK'
  <2>1. CASE rxIdx > nLockSend \/ rxIdx > Len(sendQ)
    BY <2>1 DEF RxPushPacketDataSend, RegistryTypeOK, Bounded
  <2>2. CASE ~(rxIdx > nLockSend \/ rxIdx > Len(sendQ))
    <3>1. rxIdx \in 1 .. Len(sendQ) /\ sendQ \in Queues /\ rxPkt \in Packet
      BY <2>2 DEF RxPushPacketDataSend, RxInv, RxTypeOK, RegistryTypeOK, Queues
    <3>2. sendQ' \in Queues
      BY <2>2, <3>1, QueuePushed DEF RxPushPacketDataSend
    <3>. QED  BY <2>2, <3>2, NewSendQueues DEF RxPushPacketDataSend, RegistryTypeOK, Locks
  <2>. QED  BY <2>1, <2>2
<1>2. RxInv'
  BY DEF RxPushPacketDataSend, RxInv, RxTypeOK, RxNext, rx
<1>3. NetTypeOK' /\ AcceptInv' /\ ClientInv' /\ TxInv'
  BY KeepNet, KeepAccept, KeepClient, KeepTx DEF RxPushPacketDataSend
<1>. QED  BY <1>1, <1>2, <1>3 DEF TypeInv

LEMMA TypeTxPick == ASSUME TypeInv, TxPick PROVE TypeInv'
<1>. NetTypeOK /\ RegistryTypeOK /\ AcceptInv /\ ClientInv /\ RxInv /\ TxInv
  BY DEF TypeInv
<1>1. TxInv'
  <2>1. CASE txI < Len(remote)
    <3>1. txI + 1 \in 1 .. Len(remote) /\ txI \in Nat
      BY <2>1 DEF TxInv, TxTypeOK, RegistryTypeOK
    <3>2. remote[txI + 1].sock \in Sockets
      BY <3>1, EntrySocket
    <3>. QED  BY <2>1, <3>2 DEF TxPick, TxInv, TxTypeOK
  <2>2. CASE ~(txI < Len(remote))
    BY <2>2 DEF TxPick, TxInv, TxTypeOK
  <2>. QED  BY <2>1, <2>2
<1>2. NetTypeOK' /\ RegistryTypeOK' /\ AcceptInv' /\ ClientInv' /\ RxInv'
  BY KeepNet, KeepRegistry, KeepAccept, KeepClient, KeepRx DEF TxPick, registry
<1>. QED  BY <1>1, <1>2 DEF TypeInv

LEMMA TypeTxFind == ASSUME TypeInv, TxFind PROVE TypeInv'
<1>. NetTypeOK /\ RegistryTypeOK /\ AcceptInv /\ ClientInv /\ RxInv /\ TxInv
  BY DEF TypeInv
<1>1. TxInv'
  BY FindIndexType DEF TxFind, TxInv, TxTypeOK, TxNext
<1>2. NetTypeOK' /\ RegistryTypeOK' /\ AcceptInv' /\ ClientInv' /\ RxInv'
  BY KeepNet, KeepRegistry, KeepAccept, KeepClient, KeepRx DEF TxFind, registry
<1>. QED  BY <1>1, <1>2 DEF TypeInv

LEMMA TypeTxPop == ASSUME TypeInv, TxPop PROVE TypeInv'
<1>. NetTypeOK /\ RegistryTypeOK /\ AcceptInv /\ ClientInv /\ RxInv /\ TxInv
  BY DEF TypeInv
<1>1. RegistryTypeOK'
  <2>1. CASE UNCHANGED sendQ
    BY <2>1 DEF TxPop, RegistryTypeOK, Bounded
  <2>2. CASE ~UNCHANGED sendQ
    <3>1. ~(txIdx > nLockSend) /\ ~(txIdx > Len(sendQ)) /\ sendQ[txIdx] # <<>>
      BY <2>2 DEF TxPop
    <3>2. txIdx \in 1 .. Len(sendQ) /\ sendQ \in Queues
      BY <3>1 DEF TxPop, TxInv, TxTypeOK, RegistryTypeOK, Queues
    <3>3. sendQ' \in Queues
      BY <3>1, <3>2, QueuePopped DEF TxPop
    <3>. QED  BY <3>1, <3>3, NewSendQueues DEF TxPop, RegistryTypeOK, Locks
  <2>. QED  BY <2>1, <2>2
<1>2. TxInv'
  BY QueuePopped DEF TxPop, TxInv, TxTypeOK, TxNext, tx, RegistryTypeOK, Queues
<1>3. NetTypeOK' /\ AcceptInv' /\ ClientInv' /\ RxInv'
  BY KeepNet, KeepAccept, KeepClient, KeepRx DEF TxPop
<1>. QED  BY <1>1, <1>2, <1>3 DEF TypeInv

LEMMA TypeTxSendToClient == ASSUME TypeInv, TxSendToClient PROVE TypeInv'
<1>. NetTypeOK /\ RegistryTypeOK /\ AcceptInv /\ ClientInv /\ RxInv /\ TxInv
  BY DEF TypeInv
<1>1. NetTypeOK'
  <2>1. CASE txSock \in open
    <3>1. txSock \in Sockets /\ txPkt \in Packet /\ ListPacket(txSock) \in Packet
      BY <2>1, CommAssumption DEF TxSendToClient, TxInv, NetTypeOK, ListPacket, Packet, Id
    <3>2. Append(sent[txSock], txPkt) \in Seq(Packet)
          /\ Append(wire[txSock], ListPacket(txSock)) \in Seq(Packet)
      BY <3>1, AppendProperties DEF NetTypeOK
    <3>. QED  BY <2>1, <3>1, <3>2 DEF TxSendToClient, NetTypeOK
  <2>2. CASE txSock \notin open
    BY <2>2 DEF TxSendToClient, NetTypeOK
  <2>. QED  BY <2>1, <2>2
<1>2. TxInv'
  BY DEF TxSendToClient, TxInv, TxTypeOK, TxNext
<1>3. RegistryTypeOK' /\ AcceptInv' /\ ClientInv' /\ RxInv'
  BY KeepRegistry, KeepAccept, KeepClient, KeepRx DEF TxSendToClient, registry
<1>. QED  BY <1>1, <1>2, <1>3 DEF TypeInv

LEMMA InitTypeInv == Init => TypeInv
<1>. SUFFICES ASSUME Init PROVE TypeInv
  OBVIOUS
<1>1. NetTypeOK
  <2>1. 0 \in 0 .. MaxRequests
    BY CommAssumption
  <2>2. issued \in [Sockets -> 0 .. MaxRequests]
    BY <2>1 DEF Init
  <2>3. <<>> \in Seq(Packet)
    BY EmptySeq
  <2>4. wire \in [Sockets -> Seq(Packet)] /\ sent \in [Sockets -> Seq(Packet)]
    BY <2>3 DEF Init
  <2>. QED  BY <2>2, <2>4 DEF Init, NetTypeOK
<1>2. RegistryTypeOK
  <2>1. <<>> \in Seq(Seq(Packet)) /\ Bounded(<<>>)
    BY EmptySeq DEF Bounded
  <2>2. remote \in Seq([sock : Sockets, funcs : SUBSET Id])
    BY DEF Init
  <2>. QED  BY <2>1, <2>2 DEF Init, RegistryTypeOK
<1>3. AcceptInv
  BY DEF Init, AcceptInv, AcceptTypeOK
<1>4. ClientInv
  BY DEF Init, ClientInv, ClientTypeOK
<1>5. RxInv /\ TxInv
  BY DEF Init, RxInv, RxTypeOK, TxInv, TxTypeOK
<1>. QED  BY <1>1, <1>2, <1>3, <1>4, <1>5 DEF TypeInv

LEMMA NextTypeInv == ASSUME TypeInv, [Next]_vars PROVE TypeInv'
<1>1. ASSUME NEW s \in Sockets, Client(s) PROVE TypeInv'
  BY <1>1, TypeClientClose, TypeClientSend DEF Client
<1>2. ASSUME NEW s \in Sockets, ProcessClient(s) PROVE TypeInv'
  BY <1>2, TypeRecv, TypePushRecvFind, TypePushPacketDataRecv, TypeDisconnect,
      TypeDelFind, TypeDelSocket, TypeDelRecvQ, TypeDelSendQ, TypeDelLockRecv, TypeDelLockSend,
      TypeCloseSocket
     DEF ProcessClient
<1>3. CASE AcceptThread
  BY <1>3, TypeAddPushSocket, TypeAddPushLockRecv, TypeAddPushLockSend,
      TypeAddPushRecvQ, TypeAddPushSendQ, TypeAddAskFunList, TypeAddEndWait,
      TypeStartProcessClient
     DEF AcceptThread
<1>4. CASE ParamThreadRecvProc
  BY <1>4, TypeRxPick, TypeRxFind, TypeRxPop, TypeRxUpdataRemoteFuncList,
      TypeRxReplyFind, TypeRxPushPacketDataSend
     DEF ParamThreadRecvProc
<1>5. CASE ParamThreadSendProc
  BY <1>5, TypeTxPick, TypeTxFind, TypeTxPop, TypeTxSendToClient DEF ParamThreadSendProc
<1>6. CASE UNCHANGED vars
  <2>1. UNCHANGED <<net, registry, lockSource, bad, acc, remote, cli, rx, tx>>
    BY <1>6 DEF vars, registry
  <2>. QED  BY <2>1, KeepNet, KeepRegistry, KeepAccept, KeepClient, KeepRx, KeepTx DEF TypeInv
<1>. QED  BY <1>1, <1>2, <1>3, <1>4, <1>5, <1>6, TypeAccept DEF Next, Halted

(* Every reachable state is typed; above all, however the threads          *)
(* interleave, no packet queue ever holds more than MAX_PACKETDATA_NUM     *)
(* packets (PushPacketDataSend, PushPacketDataRecv).                       *)
THEOREM TypeCorrect == Spec => []TypeOK
<1>1. Init => TypeInv
  BY InitTypeInv
<1>2. TypeInv /\ [Next]_vars => TypeInv'
  BY NextTypeInv
<1>3. TypeInv => TypeOK
  BY DEF TypeInv, TypeOK, AcceptInv, ClientInv, RxInv, TxInv
<1>. QED  BY <1>1, <1>2, <1>3, PTL DEF Spec
-----------------------------------------------------------------------------
(***************************************************************************)
(* Routing. While nobody leaves, and when every client reaches the server  *)
(* through an address of its own, an index that was found stays the index  *)
(* of the socket it was found for.                                         *)
(***************************************************************************)
OwnAddresses == \A s, t \in Sockets : LocalAddr[s] = LocalAddr[t] => s = t

(* Entry i is that of socket s. *)
At(i, s) == i \in 1 .. Len(remote) /\ remote[i].sock = s

AllOwned(queues) ==
  \A i \in 1 .. Len(queues) : \A j \in DOMAIN queues[i] : At(i, queues[i][j].id[1])

NobodyLeaves ==
  \A s \in Sockets : ~fin[s] /\ cliPc[s] \in {"none", "recv", "find", "push"}

WireOwn == \A s \in Sockets : \A i \in DOMAIN wire[s] : wire[s][i].id[1] = s

ClientsOwn ==
  \A s \in Sockets :
    /\ cliPc[s] \in {"find", "push"} => cliPkt[s].id[1] = s
    /\ cliPc[s] = "push" => At(cliIdx[s], s)

RxOwn ==
  /\ rxPc # "pick" => rxSock \in Sockets
  /\ rxPc \in {"pop", "replyPush"} => At(rxIdx, rxSock)
  /\ rxPc \in {"replyFind", "replyPush"} => rxPkt.id[1] = rxSock

TxOwn ==
  /\ txPc # "pick" => txSock \in Sockets
  /\ txPc = "pop" => At(txIdx, txSock)
  /\ txPc = "send" => txPkt.id[1] = txSock

QueuesOwn == AllOwned(recvQ) /\ AllOwned(sendQ)

OwnInv ==
  /\ TypeInv /\ NobodyLeaves /\ WireOwn /\ RoutedToClient
  /\ ClientsOwn /\ RxOwn /\ TxOwn /\ QueuesOwn

(* The registry grows, and its entries stay where they are. *)
EntriesStay ==
  /\ Len(remote) <= Len(remote')
  /\ \A i \in 1 .. Len(remote) : remote'[i].sock = remote[i].sock

LEMMA FoundIsOwn ==
  ASSUME OwnAddresses, TypeInv, NEW s \in Sockets, FindIndexByPortName(s) # 0
  PROVE  At(FindIndexByPortName(s), s)
<1>. DEFINE i == FindIndexByPortName(s)
<1>. RegistryTypeOK /\ NetTypeOK
  BY DEF TypeInv
<1>1. i \in 1 .. Len(remote) /\ IsSameSocket(s, remote[i].sock)
  BY FindIndexInRegistry DEF RegistryTypeOK
<1>. HIDE DEF i
<1>2. remote[i].sock \in Sockets
  BY <1>1, EntrySocket
<1>. QED  BY <1>1, <1>2 DEF IsSameSocket, OwnAddresses, At, i

LEMMA PushedOwned ==
  ASSUME NEW queues \in Queues, AllOwned(queues), NEW i \in 1 .. Len(queues),
         NEW pkt \in Packet, At(i, pkt.id[1])
  PROVE  AllOwned([queues EXCEPT ![i] = PushDropOldest(@, pkt, MAX_PACKETDATA_NUM)])
<1>. DEFINE q == PushDropOldest(queues[i], pkt, MAX_PACKETDATA_NUM)
            new == [queues EXCEPT ![i] = q]
<1>1. queues \in Seq(Seq(Packet)) /\ queues[i] \in Seq(Packet)
      /\ Len(queues[i]) <= MAX_PACKETDATA_NUM
  BY ElementOfSeq DEF Queues, Bounded
<1>2. \A j \in DOMAIN q : q[j] = pkt \/ \E k \in DOMAIN queues[i] : q[j] = queues[i][k]
  BY <1>1, PushDropOldestElements, CommAssumption
<1>3. q \in Seq(Packet)
  BY <1>1, PushDropOldestType, CommAssumption
<1>. HIDE DEF q
<1>4. Len(new) = Len(queues)
      /\ \A j \in 1 .. Len(queues) : new[j] = IF j = i THEN q ELSE queues[j]
  BY <1>1, <1>3, ExceptSeq
<1>5. ASSUME NEW j \in DOMAIN q PROVE At(i, q[j].id[1])
  BY <1>2 DEF AllOwned
<1>. HIDE DEF new
<1>. QED  BY <1>4, <1>5 DEF AllOwned, new, q

LEMMA PoppedOwned ==
  ASSUME NEW queues \in Queues, AllOwned(queues), NEW i \in 1 .. Len(queues),
         queues[i] # <<>>
  PROVE  AllOwned(PopFirst(queues, i)) /\ At(i, Head(queues[i]).id[1])
<1>. DEFINE q == Tail(queues[i])
            new == [queues EXCEPT ![i] = q]
<1>1. queues \in Seq(Seq(Packet)) /\ queues[i] \in Seq(Packet)
  BY ElementOfSeq DEF Queues
<1>2. /\ q \in Seq(Packet) /\ Len(q) = Len(queues[i]) - 1 /\ Head(queues[i]) = queues[i][1]
      /\ \A j \in 1 .. Len(q) : q[j] = queues[i][j + 1]
  BY <1>1, HeadTailProperties
<1>3. /\ Len(queues[i]) \in Nat \ {0} /\ DOMAIN queues[i] = 1 .. Len(queues[i])
      /\ DOMAIN q = 1 .. Len(queues[i]) - 1
  BY <1>1, <1>2, LenProperties, EmptySeq
<1>. HIDE DEF q
<1>4. Len(new) = Len(queues)
      /\ \A j \in 1 .. Len(queues) : new[j] = IF j = i THEN q ELSE queues[j]
  BY <1>1, <1>2, ExceptSeq
<1>5. ASSUME NEW j \in DOMAIN q PROVE At(i, q[j].id[1])
  <2>1. j + 1 \in DOMAIN queues[i] /\ q[j] = queues[i][j + 1]
    BY <1>2, <1>3
  <2>. QED  BY <2>1 DEF AllOwned
<1>6. At(i, Head(queues[i]).id[1])
  BY <1>2, <1>3 DEF AllOwned
<1>7. new = PopFirst(queues, i)
  BY DEF PopFirst, q
<1>. HIDE DEF new
<1>8. AllOwned(new)
  BY <1>4, <1>5 DEF AllOwned
<1>. QED  BY <1>6, <1>7, <1>8

LEMMA AddedOwned ==
  ASSUME NEW queues \in Queues, AllOwned(queues) PROVE AllOwned(Append(queues, <<>>))
<1>1. queues \in Seq(Seq(Packet)) /\ <<>> \in Seq(Packet) /\ Len(queues) \in Nat
  BY EmptySeq, LenProperties DEF Queues
<1>2. /\ Len(Append(queues, <<>>)) = Len(queues) + 1
      /\ Append(queues, <<>>)[Len(queues) + 1] = <<>>
      /\ \A j \in 1 .. Len(queues) : Append(queues, <<>>)[j] = queues[j]
  BY <1>1, AppendProperties
<1>3. DOMAIN <<>> = {}
  OBVIOUS
<1>4. ASSUME NEW i \in 1 .. Len(queues) + 1, NEW j \in DOMAIN Append(queues, <<>>)[i]
      PROVE  At(i, Append(queues, <<>>)[i][j].id[1])
  <2>1. i \in 1 .. Len(queues)
    BY <1>1, <1>2, <1>3, <1>4
  <2>. QED  BY <1>2, <1>4, <2>1 DEF AllOwned
<1>. QED  BY <1>2, <1>4 DEF AllOwned

(***************************************************************************)
(* What stays with the entries.                                            *)
(***************************************************************************)
LEMMA AtStays ==
  ASSUME RegistryTypeOK, RegistryTypeOK', EntriesStay, NEW i, NEW s, At(i, s)
  PROVE  i \in 1 .. Len(remote') /\ remote'[i].sock = s
BY LenProperties DEF EntriesStay, At, RegistryTypeOK

LEMMA QueuesStay ==
  ASSUME RegistryTypeOK, RegistryTypeOK', EntriesStay, QueuesOwn, UNCHANGED <<recvQ, sendQ>>
  PROVE  QueuesOwn'
BY AtStays DEF QueuesOwn, AllOwned, At

LEMMA ClientsStay ==
  ASSUME RegistryTypeOK, RegistryTypeOK', EntriesStay, ClientsOwn, UNCHANGED cli
  PROVE  ClientsOwn'
BY AtStays DEF ClientsOwn, At, cli

LEMMA RxStays ==
  ASSUME RegistryTypeOK, RegistryTypeOK', EntriesStay, RxOwn, UNCHANGED rx
  PROVE  RxOwn'
BY AtStays DEF RxOwn, At, rx

LEMMA TxStays ==
  ASSUME RegistryTypeOK, RegistryTypeOK', EntriesStay, TxOwn, UNCHANGED tx
  PROVE  TxOwn'
BY AtStays DEF TxOwn, At, tx

LEMMA SameEntriesStay == ASSUME RegistryTypeOK, UNCHANGED remote PROVE EntriesStay
BY LenProperties DEF EntriesStay, RegistryTypeOK

(* Another list of functions in one entry. *)
LEMMA NewListStays ==
  ASSUME RegistryTypeOK, NEW i \in 1 .. Len(remote), NEW fs,
         remote' = [remote EXCEPT ![i].funcs = fs]
  PROVE  EntriesStay
<1>1. remote \in Seq(Entry) /\ Len(remote) \in Nat
  BY LenProperties DEF RegistryTypeOK, Entry
<1>2. remote[i] \in Entry
  BY <1>1, ElementOfSeq
<1>3. [remote[i] EXCEPT !.funcs = fs].sock = remote[i].sock
  BY <1>2 DEF Entry
<1>4. Len(remote') = Len(remote) /\ \A k \in 1 .. Len(remote) :
        remote'[k] = IF k = i THEN [remote[i] EXCEPT !.funcs = fs] ELSE remote[k]
  BY <1>1
<1>. QED  BY <1>1, <1>3, <1>4 DEF EntriesStay

(***************************************************************************)
(* Every step of each thread keeps OwnInv.                                 *)
(***************************************************************************)
LEMMA NetKept ==
  ASSUME NobodyLeaves, WireOwn, RoutedToClient, UNCHANGED <<net, cli>>
  PROVE  NobodyLeaves' /\ WireOwn' /\ RoutedToClient'
BY DEF NobodyLeaves, WireOwn, RoutedToClient, net, cli

LEMMA OwnKeptWhenEntriesStay ==
  ASSUME OwnInv, TypeInv', EntriesStay, UNCHANGED <<net, cli, rx, tx, recvQ, sendQ>>
  PROVE  OwnInv'
<1>. RegistryTypeOK /\ RegistryTypeOK'
  BY DEF OwnInv, TypeInv
<1>. QED  BY NetKept, QueuesStay, ClientsStay, RxStays, TxStays DEF OwnInv

LEMMA OwnClientSend ==
  ASSUME OwnInv, TypeInv', NEW s \in Sockets, NEW kind, ClientSend(s, kind) PROVE OwnInv'
<1>. DEFINE pkt == [kind |-> kind, id |-> <<s, issued[s] + 1>>, out |-> {}]
            q == Append(wire[s], pkt)
<1>. RegistryTypeOK /\ RegistryTypeOK' /\ NetTypeOK
  BY DEF OwnInv, TypeInv
<1>1. pkt.id[1] = s
  OBVIOUS
<1>2. wire[s] \in Seq(Packet) /\ wire' = [wire EXCEPT ![s] = q]
  BY DEF ClientSend, NetTypeOK
<1>. HIDE DEF pkt
<1>3. /\ DOMAIN q = 1 .. Len(wire[s]) + 1 /\ DOMAIN wire[s] = 1 .. Len(wire[s])
      /\ q[Len(wire[s]) + 1] = pkt /\ \A j \in 1 .. Len(wire[s]) : q[j] = wire[s][j]
  BY <1>2, AppendProperties, LenProperties
<1>. HIDE DEF q
<1>4. \A j \in DOMAIN q : q[j].id[1] = s
  <2>1. Len(wire[s]) \in Nat
    BY <1>2, LenProperties
  <2>. QED  BY <1>1, <1>3, <2>1 DEF OwnInv, WireOwn
<1>5. WireOwn'
  BY <1>2, <1>4 DEF OwnInv, WireOwn, NetTypeOK
<1>6. NobodyLeaves' /\ RoutedToClient'
  BY DEF ClientSend, OwnInv, NobodyLeaves, RoutedToClient, cli
<1>7. EntriesStay /\ UNCHANGED <<cli, rx, tx, recvQ, sendQ>>
  BY SameEntriesStay DEF ClientSend, registry
<1>8. QueuesOwn' /\ ClientsOwn' /\ RxOwn' /\ TxOwn'
  BY <1>7, QueuesStay, ClientsStay, RxStays, TxStays DEF OwnInv
<1>. QED  BY <1>5, <1>6, <1>8 DEF OwnInv

LEMMA OwnAccept ==
  ASSUME OwnInv, TypeInv', NEW s \in Sockets, Accept(s) PROVE OwnInv'
<1>. RegistryTypeOK /\ RegistryTypeOK'
  BY DEF OwnInv, TypeInv
<1>1. EntriesStay /\ UNCHANGED <<cli, rx, tx, recvQ, sendQ>>
  BY SameEntriesStay DEF Accept, registry
<1>2. NobodyLeaves' /\ WireOwn' /\ RoutedToClient'
  BY DEF Accept, OwnInv, NobodyLeaves, WireOwn, RoutedToClient, cli
<1>3. QueuesOwn' /\ ClientsOwn' /\ RxOwn' /\ TxOwn'
  BY <1>1, QueuesStay, ClientsStay, RxStays, TxStays DEF OwnInv
<1>. QED  BY <1>2, <1>3 DEF OwnInv

(* An entry is added at the end; the question that is queued for it is its own. *)
LEMMA OwnAcceptThread ==
  ASSUME OwnAddresses, OwnInv, TypeInv', AcceptThread PROVE OwnInv'
<1>. TypeInv /\ RegistryTypeOK /\ RegistryTypeOK' /\ AcceptInv
  BY DEF OwnInv, TypeInv
<1>. Len(remote) \in Nat /\ recvQ \in Queues /\ sendQ \in Queues
  BY LenProperties DEF RegistryTypeOK, Queues
<1>1. CASE AddPushSocket
  <2>1. EntriesStay
    BY <1>1, AppendProperties DEF AddPushSocket, EntriesStay, RegistryTypeOK
  <2>. QED  BY <1>1, <2>1, OwnKeptWhenEntriesStay DEF AddPushSocket
<1>2. CASE AddPushLockRecv \/ AddPushLockSend
  BY <1>2, SameEntriesStay, OwnKeptWhenEntriesStay DEF AddPushLockRecv, AddPushLockSend
<1>3. CASE AddPushRecvQ \/ AddPushSendQ
  <2>1. EntriesStay /\ UNCHANGED <<net, cli, rx, tx, remote>>
    BY <1>3, SameEntriesStay DEF AddPushRecvQ, AddPushSendQ
  <2>2. AllOwned(recvQ') /\ AllOwned(sendQ')
    BY <1>3, AddedOwned DEF AddPushRecvQ, AddPushSendQ, OwnInv, QueuesOwn
  <2>3. QueuesOwn'
    BY <2>1, <2>2 DEF QueuesOwn, AllOwned, At
  <2>. QED  BY <2>1, <2>3, NetKept, ClientsStay, RxStays, TxStays DEF OwnInv
<1>4. CASE AddAskFunList
  <2>. DEFINE last == remote[Len(remote)].sock
              idx == FindIndexByPortName(last)
  <2>1. EntriesStay /\ UNCHANGED <<net, cli, rx, tx, remote, recvQ>>
    BY <1>4, SameEntriesStay DEF AddAskFunList, registry
  <2>2. AllOwned(sendQ')
    <3>1. CASE UNCHANGED sendQ
      BY <3>1 DEF OwnInv, QueuesOwn
    <3>2. CASE ~UNCHANGED sendQ
      <4>1. /\ remote # <<>> /\ ~(idx > Len(sendQ)) /\ idx # 0
            /\ sendQ' = [sendQ EXCEPT ![idx] =
                           PushDropOldest(@, AskPacket(last), MAX_PACKETDATA_NUM)]
        BY <1>4, <3>2 DEF AddAskFunList, registry
      <4>2. last \in Sockets
        BY <4>1, LastIsSocket
      <4>3. At(idx, last) /\ AskPacket(last) \in Packet
        BY <4>1, <4>2, FoundIsOwn, CommAssumption DEF AskPacket, Packet, Id
      <4>4. AskPacket(last).id[1] = last
        BY DEF AskPacket
      <4>. HIDE DEF last, idx
      <4>5. idx \in 1 .. Len(sendQ)
        BY <4>1, <4>3, LenProperties DEF At, RegistryTypeOK
      <4>. QED  BY <4>1, <4>3, <4>4, <4>5, PushedOwned DEF OwnInv, QueuesOwn
    <3>. QED  BY <3>1, <3>2
  <2>3. QueuesOwn'
    BY <2>1, <2>2 DEF OwnInv, QueuesOwn, AllOwned, At
  <2>. QED  BY <2>1, <2>3, NetKept, ClientsStay, RxStays, TxStays DEF OwnInv
<1>5. CASE AddEndWait
  <2>1. EntriesStay
    <3>1. CASE UNCHANGED remote
      BY <3>1, SameEntriesStay
    <3>2. CASE ~UNCHANGED remote
      BY <1>5, <3>2, EndWaitList, NewListStays
    <3>. QED  BY <3>1, <3>2
  <2>. QED  BY <1>5, <2>1, OwnKeptWhenEntriesStay DEF AddEndWait
<1>6. CASE StartProcessClient
  <2>1. EntriesStay /\ UNCHANGED <<net, rx, tx, remote, recvQ, sendQ>>
    BY <1>6, SameEntriesStay DEF StartProcessClient, registry
  <2>2. cliPc' = [cliPc EXCEPT ![accSock] = "recv"] /\ UNCHANGED <<cliIdx, cliPkt>>
    BY <1>6 DEF StartProcessClient, GotoCli
  <2>3. NobodyLeaves' /\ WireOwn' /\ RoutedToClient'
    BY <2>1, <2>2 DEF OwnInv, NobodyLeaves, WireOwn, RoutedToClient, net, TypeInv, ClientInv,
                     ClientTypeOK
  <2>4. ClientsOwn'
    BY <2>1, <2>2 DEF OwnInv, ClientsOwn, At, TypeInv, ClientInv, ClientTypeOK
  <2>. QED  BY <2>1, <2>3, <2>4, QueuesStay, RxStays, TxStays DEF OwnInv
<1>. QED  BY <1>1, <1>2, <1>3, <1>4, <1>5, <1>6 DEF AcceptThread

(* What is received from a client goes into the queue of its entry. *)
LEMMA OwnProcessClient ==
  ASSUME OwnAddresses, OwnInv, TypeInv', NEW s \in Sockets, ProcessClient(s) PROVE OwnInv'
<1>. TypeInv /\ RegistryTypeOK /\ RegistryTypeOK' /\ ClientTypeOK /\ NetTypeOK
  BY DEF OwnInv, TypeInv, ClientInv
<1>1. CASE Recv(s)
  <2>1. EntriesStay /\ UNCHANGED <<rx, tx, remote, recvQ, sendQ, cliIdx>>
    BY <1>1, SameEntriesStay DEF Recv, registry
  <2>2. wire[s] \in Seq(Packet) /\ wire[s] # <<>>
    BY <1>1 DEF Recv, NetTypeOK
  <2>. DEFINE q == Tail(wire[s])
  <2>3. /\ q \in Seq(Packet) /\ Len(q) = Len(wire[s]) - 1 /\ Head(wire[s]) = wire[s][1]
        /\ \A j \in 1 .. Len(q) : q[j] = wire[s][j + 1]
    BY <2>2, HeadTailProperties
  <2>4. /\ Len(wire[s]) \in Nat \ {0} /\ DOMAIN wire[s] = 1 .. Len(wire[s])
        /\ DOMAIN q = 1 .. Len(wire[s]) - 1
    BY <2>2, <2>3, LenProperties, EmptySeq
  <2>. HIDE DEF q
  <2>5. Head(wire[s]).id[1] = s
    BY <2>3, <2>4 DEF OwnInv, WireOwn
  <2>6. \A j \in DOMAIN q : q[j].id[1] = s
    <3>. SUFFICES ASSUME NEW j \in DOMAIN q PROVE q[j].id[1] = s
      OBVIOUS
    <3>1. j + 1 \in DOMAIN wire[s] /\ q[j] = wire[s][j + 1]
      BY <2>3, <2>4
    <3>. QED  BY <3>1 DEF OwnInv, WireOwn
  <2>7. wire' = [wire EXCEPT ![s] = q]
    BY <1>1 DEF Recv, q
  <2>8. WireOwn'
    BY <2>6, <2>7 DEF OwnInv, WireOwn, NetTypeOK
  <2>9. NobodyLeaves' /\ RoutedToClient'
    BY <1>1 DEF Recv, OwnInv, NobodyLeaves, RoutedToClient, ClientTypeOK
  <2>10. ClientsOwn'
    BY <1>1, <2>1, <2>5 DEF Recv, OwnInv, ClientsOwn, At, ClientTypeOK
  <2>. QED  BY <2>1, <2>8, <2>9, <2>10, QueuesStay, RxStays, TxStays DEF OwnInv
<1>2. CASE PushRecvFind(s)
  <2>. DEFINE idx == FindIndexByPortName(s)
  <2>1. EntriesStay /\ UNCHANGED <<net, rx, tx, remote, recvQ, sendQ>>
    BY <1>2, SameEntriesStay DEF PushRecvFind, registry
  <2>2. idx # 0 => At(idx, s)
    BY FoundIsOwn
  <2>. HIDE DEF idx
  <2>3. \/ BackToRecv(s)
        \/ /\ idx # 0 /\ cliPc' = [cliPc EXCEPT ![s] = "push"]
           /\ cliIdx' = [cliIdx EXCEPT ![s] = idx] /\ UNCHANGED cliPkt
    BY <1>2 DEF PushRecvFind, idx
  <2>4. NobodyLeaves' /\ WireOwn' /\ RoutedToClient'
    BY <2>1, <2>3 DEF BackToRecv, OwnInv, NobodyLeaves, WireOwn, RoutedToClient, net,
                     ClientTypeOK
  <2>5. ClientsOwn'
    BY <1>2, <2>1, <2>2, <2>3 DEF PushRecvFind, BackToRecv, OwnInv, ClientsOwn, At, ClientTypeOK
  <2>. QED  BY <2>1, <2>4, <2>5, QueuesStay, RxStays, TxStays DEF OwnInv
<1>3. CASE PushPacketDataRecv(s)
  <2>1. EntriesStay /\ UNCHANGED <<net, rx, tx, remote, sendQ>>
    BY <1>3, SameEntriesStay DEF PushPacketDataRecv
  <2>2. BackToRecv(s) \/ UNCHANGED cli
    BY <1>3 DEF PushPacketDataRecv
  <2>3. NobodyLeaves' /\ WireOwn' /\ RoutedToClient'
    BY <2>1, <2>2 DEF BackToRecv, OwnInv, NobodyLeaves, WireOwn, RoutedToClient, net, cli,
                     ClientTypeOK
  <2>4. ClientsOwn'
    BY <2>1, <2>2 DEF BackToRecv, OwnInv, ClientsOwn, At, ClientTypeOK, cli
  <2>5. AllOwned(recvQ')
    <3>1. CASE UNCHANGED recvQ
      BY <3>1 DEF OwnInv, QueuesOwn
    <3>2. CASE ~UNCHANGED recvQ
      <4>1. /\ cliPc[s] = "push" /\ ~(cliIdx[s] > Len(recvQ))
            /\ recvQ' = [recvQ EXCEPT ![cliIdx[s]] =
                           PushDropOldest(@, cliPkt[s], MAX_PACKETDATA_NUM)]
        BY <1>3, <3>2 DEF PushPacketDataRecv
      <4>2. At(cliIdx[s], s) /\ cliPkt[s] \in Packet /\ cliPkt[s].id[1] = s
        BY <4>1 DEF OwnInv, ClientsOwn, TypeInv, ClientInv
      <4>3. cliIdx[s] \in 1 .. Len(recvQ) /\ recvQ \in Queues
        BY <4>1, <4>2, LenProperties DEF At, RegistryTypeOK, Queues
      <4>. QED  BY <4>1, <4>2, <4>3, PushedOwned DEF OwnInv, QueuesOwn
    <3>. QED  BY <3>1, <3>2
  <2>6. QueuesOwn'
    BY <2>1, <2>5 DEF OwnInv, QueuesOwn, AllOwned, At
  <2>. QED  BY <2>1, <2>3, <2>4, <2>6, RxStays, TxStays DEF OwnInv
<1>4. ~(Disconnect(s) \/ DelFind(s) \/ DelSocket(s) \/ DelRecvQ(s) \/ DelSendQ(s)
        \/ DelLockRecv(s) \/ DelLockSend(s) \/ CloseSocket(s))
  BY DEF OwnInv, NobodyLeaves, Disconnect, DelFind, DelSocket, DelRecvQ, DelSendQ,
         DelLockRecv, DelLockSend, CloseSocket
<1>. QED  BY <1>1, <1>2, <1>3, <1>4 DEF ProcessClient

(* A request is taken from the queue of its socket, and its reply is queued there. *)
LEMMA OwnParamThreadRecvProc ==
  ASSUME OwnAddresses, OwnInv, TypeInv', ParamThreadRecvProc PROVE OwnInv'
<1>. TypeInv /\ RegistryTypeOK /\ RegistryTypeOK' /\ RxInv /\ RxTypeOK
  BY DEF OwnInv, TypeInv, RxInv
<1>. Len(remote) \in Nat /\ recvQ \in Queues /\ sendQ \in Queues
  BY LenProperties DEF RegistryTypeOK, Queues
<1>0. UNCHANGED <<net, cli, tx>> /\ NobodyLeaves' /\ WireOwn' /\ RoutedToClient'
  BY NetKept DEF ParamThreadRecvProc, RxPick, RxFind, RxPop, RxUpdataRemoteFuncList,
     RxReplyFind, RxPushPacketDataSend, OwnInv
<1>. SUFFICES EntriesStay /\ RxOwn' /\ QueuesOwn'
  BY <1>0, ClientsStay, TxStays DEF OwnInv
<1>1. CASE RxPick
  <2>1. EntriesStay /\ QueuesOwn'
    BY <1>1, SameEntriesStay, QueuesStay DEF RxPick, registry, OwnInv
  <2>2. RxOwn'
    <3>1. CASE rxI < Len(remote)
      <4>1. rxI + 1 \in 1 .. Len(remote)
        BY <3>1 DEF RxTypeOK
      <4>2. remote[rxI + 1].sock \in Sockets
        BY <4>1, EntrySocket
      <4>. QED  BY <1>1, <3>1, <4>2 DEF RxPick, RxMore, RxOwn
    <3>2. CASE ~(rxI < Len(remote))
      BY <1>1, <3>2 DEF RxPick, RxMore, RxOwn
    <3>. QED  BY <3>1, <3>2
  <2>. QED  BY <2>1, <2>2
<1>2. CASE RxFind \/ RxReplyFind
  <2>1. EntriesStay /\ QueuesOwn' /\ UNCHANGED remote
    BY <1>2, SameEntriesStay, QueuesStay DEF RxFind, RxReplyFind, registry, OwnInv
  <2>. DEFINE idx == FindIndexByPortName(rxSock)
  <2>2. rxSock \in Sockets
    BY <1>2 DEF RxFind, RxReplyFind, OwnInv, RxOwn
  <2>3. idx # 0 => At(idx, rxSock)
    BY <2>2, FoundIsOwn
  <2>. HIDE DEF idx
  <2>4. \/ RxNext
        \/ /\ idx # 0 /\ rxIdx' = idx /\ UNCHANGED <<rxSock, rxPkt>>
           /\ rxPc' = "pop" \/ (rxPc = "replyFind" /\ rxPc' = "replyPush")
    <3>1. CASE RxFind
      BY <3>1 DEF RxFind, RxFindThen, idx
    <3>2. CASE RxReplyFind
      BY <3>2 DEF RxReplyFind, RxFindThen, idx
    <3>. QED  BY <1>2, <3>1, <3>2
  <2>5. RxOwn'
    BY <2>1, <2>2, <2>3, <2>4 DEF RxNext, OwnInv, RxOwn, At
  <2>. QED  BY <2>1, <2>5
<1>3. CASE RxPop
  <2>1. EntriesStay /\ UNCHANGED <<remote, sendQ>>
    BY <1>3, SameEntriesStay DEF RxPop
  <2>2. CASE UNCHANGED recvQ /\ (UNCHANGED rx \/ RxNext)
    <3>1. RxOwn'
      BY <2>1, <2>2 DEF RxNext, OwnInv, RxOwn, At, rx
    <3>. QED  BY <2>1, <2>2, <3>1, QueuesStay DEF OwnInv
  <2>3. CASE ~(UNCHANGED recvQ /\ (UNCHANGED rx \/ RxNext))
    <3>. DEFINE pkt == Head(recvQ[rxIdx])
    <3>1. /\ ~(rxIdx > Len(recvQ)) /\ recvQ[rxIdx] # <<>> /\ rxPc = "pop"
          /\ recvQ' = PopFirst(recvQ, rxIdx) /\ RxHandle(pkt)
      BY <1>3, <2>3 DEF RxPop
    <3>2. At(rxIdx, rxSock) /\ rxSock \in Sockets
      BY <3>1 DEF OwnInv, RxOwn
    <3>3. rxIdx \in 1 .. Len(recvQ)
      BY <3>1, <3>2, LenProperties DEF At, RegistryTypeOK
    <3>4. AllOwned(recvQ') /\ At(rxIdx, pkt.id[1])
      BY <3>1, <3>3, PoppedOwned DEF OwnInv, QueuesOwn
    <3>5. pkt.id[1] = rxSock
      BY <3>2, <3>4 DEF At
    <3>. HIDE DEF pkt
    <3>6. QueuesOwn'
      BY <2>1, <3>4 DEF OwnInv, QueuesOwn, AllOwned, At
    <3>7. ReplyPacket(pkt.id, rxOuts').id[1] = rxSock
      BY <3>5 DEF ReplyPacket
    <3>8. RxOwn'
      BY <3>1, <3>2, <3>7 DEF RxHandle, RxNext, RxOwn
    <3>. QED  BY <2>1, <3>6, <3>8
  <2>. QED  BY <2>2, <2>3
<1>4. CASE RxUpdataRemoteFuncList
  <2>. DEFINE idx == FindIndexByPortName(rxSock)
  <2>1. idx \in 0 .. Len(remote)
    BY FindIndexInRegistry
  <2>. HIDE DEF idx
  <2>2. EntriesStay
    <3>1. CASE idx = 0
      BY <1>4, <3>1, SameEntriesStay DEF RxUpdataRemoteFuncList, UpdataRemoteFuncList, idx
    <3>2. CASE idx # 0
      <4>1. remote' = [remote EXCEPT ![idx].funcs = rxParams] /\ idx \in 1 .. Len(remote)
        BY <1>4, <2>1, <3>2 DEF RxUpdataRemoteFuncList, UpdataRemoteFuncList, idx
      <4>. QED  BY <4>1, NewListStays
    <3>. QED  BY <3>1, <3>2
  <2>3. QueuesOwn'
    BY <1>4, <2>2, QueuesStay DEF RxUpdataRemoteFuncList, OwnInv
  <2>. QED  BY <1>4, <2>2, <2>3 DEF RxUpdataRemoteFuncList, RxNext, RxOwn
<1>5. CASE RxPushPacketDataSend
  <2>1. EntriesStay /\ UNCHANGED <<remote, recvQ>>
    BY <1>5, SameEntriesStay DEF RxPushPacketDataSend
  <2>2. RxOwn'
    BY <1>5, <2>1 DEF RxPushPacketDataSend, RxNext, OwnInv, RxOwn, At, rx
  <2>3. AllOwned(sendQ')
    <3>1. CASE UNCHANGED sendQ
      BY <3>1 DEF OwnInv, QueuesOwn
    <3>2. CASE ~UNCHANGED sendQ
      <4>1. /\ rxPc = "replyPush" /\ ~(rxIdx > Len(sendQ))
            /\ sendQ' = [sendQ EXCEPT ![rxIdx] =
                           PushDropOldest(@, rxPkt, MAX_PACKETDATA_NUM)]
        BY <1>5, <3>2 DEF RxPushPacketDataSend
      <4>2. At(rxIdx, rxSock) /\ rxPkt \in Packet /\ rxPkt.id[1] = rxSock
        BY <4>1 DEF OwnInv, RxOwn, RxInv
      <4>3. rxIdx \in 1 .. Len(sendQ)
        BY <4>1, <4>2, LenProperties DEF At, RegistryTypeOK
      <4>. QED  BY <4>1, <4>2, <4>3, PushedOwned DEF OwnInv, QueuesOwn
    <3>. QED  BY <3>1, <3>2
  <2>4. QueuesOwn'
    BY <2>1, <2>3 DEF OwnInv, QueuesOwn, AllOwned, At
  <2>. QED  BY <2>1, <2>2, <2>4
<1>. QED  BY <1>1, <1>2, <1>3, <1>4, <1>5 DEF ParamThreadRecvProc

(* What is sent on a socket was taken from its queue. *)
LEMMA OwnParamThreadSendProc ==
  ASSUME OwnAddresses, OwnInv, TypeInv', ParamThreadSendProc PROVE OwnInv'
<1>. TypeInv /\ RegistryTypeOK /\ RegistryTypeOK' /\ TxInv /\ TxTypeOK /\ NetTypeOK
  BY DEF OwnInv, TypeInv, TxInv
<1>. Len(remote) \in Nat /\ recvQ \in Queues /\ sendQ \in Queues
  BY LenProperties DEF RegistryTypeOK, Queues
<1>0. UNCHANGED <<cli, rx, remote, recvQ>> /\ EntriesStay
  BY SameEntriesStay
     DEF ParamThreadSendProc, TxPick, TxFind, TxPop, TxSendToClient, registry
<1>. SUFFICES NobodyLeaves' /\ WireOwn' /\ RoutedToClient' /\ TxOwn' /\ QueuesOwn'
  BY <1>0, ClientsStay, RxStays DEF OwnInv
<1>1. CASE TxPick
  <2>1. QueuesOwn' /\ NobodyLeaves' /\ WireOwn' /\ RoutedToClient'
    BY <1>0, <1>1, QueuesStay, NetKept DEF TxPick, registry, OwnInv
  <2>2. TxOwn'
    <3>1. CASE txI < Len(remote)
      <4>1. txI + 1 \in 1 .. Len(remote)
        BY <3>1 DEF TxTypeOK
      <4>2. remote[txI + 1].sock \in Sockets
        BY <4>1, EntrySocket
      <4>. QED  BY <1>1, <3>1, <4>2 DEF TxPick, TxOwn
    <3>2. CASE ~(txI < Len(remote))
      BY <1>1, <3>2 DEF TxPick, TxOwn
    <3>. QED  BY <3>1, <3>2
  <2>. QED  BY <2>1, <2>2
<1>2. CASE TxFind
  <2>1. QueuesOwn' /\ NobodyLeaves' /\ WireOwn' /\ RoutedToClient'
    BY <1>0, <1>2, QueuesStay, NetKept DEF TxFind, registry, OwnInv
  <2>. DEFINE idx == FindIndexByPortName(txSock)
  <2>2. txSock \in Sockets
    BY <1>2 DEF TxFind, OwnInv, TxOwn
  <2>3. idx # 0 => At(idx, txSock)
    BY <2>2, FoundIsOwn
  <2>. HIDE DEF idx
  <2>4. TxNext \/ (idx # 0 /\ txPc' = "pop" /\ txIdx' = idx /\ UNCHANGED txSock)
    BY <1>2 DEF TxFind, idx
  <2>5. TxOwn'
    BY <1>0, <2>2, <2>3, <2>4 DEF TxNext, TxOwn, At
  <2>. QED  BY <2>1, <2>5
<1>3. CASE TxPop
  <2>1. NobodyLeaves' /\ WireOwn' /\ RoutedToClient'
    BY <1>0, <1>3, NetKept DEF TxPop, OwnInv
  <2>2. CASE UNCHANGED sendQ /\ (UNCHANGED tx \/ TxNext)
    <3>1. TxOwn'
      BY <1>0, <2>2 DEF TxNext, OwnInv, TxOwn, At, tx
    <3>. QED  BY <1>0, <2>1, <2>2, <3>1, QueuesStay DEF OwnInv
  <2>3. CASE ~(UNCHANGED sendQ /\ (UNCHANGED tx \/ TxNext))
    <3>1. /\ ~(txIdx > Len(sendQ)) /\ sendQ[txIdx] # <<>> /\ txPc = "pop"
          /\ sendQ' = PopFirst(sendQ, txIdx) /\ txPkt' = Head(sendQ[txIdx])
          /\ txPc' = "send" /\ UNCHANGED txSock
      BY <1>3, <2>3 DEF TxPop
    <3>2. At(txIdx, txSock) /\ txSock \in Sockets
      BY <3>1 DEF OwnInv, TxOwn
    <3>3. txIdx \in 1 .. Len(sendQ)
      BY <3>1, <3>2, LenProperties DEF At, RegistryTypeOK
    <3>4. AllOwned(sendQ') /\ At(txIdx, txPkt'.id[1])
      BY <3>1, <3>3, PoppedOwned DEF OwnInv, QueuesOwn
    <3>5. QueuesOwn'
      BY <1>0, <3>4 DEF OwnInv, QueuesOwn, AllOwned, At
    <3>6. TxOwn'
      BY <3>1, <3>2, <3>4 DEF TxOwn, At
    <3>. QED  BY <2>1, <3>5, <3>6
  <2>. QED  BY <2>2, <2>3
<1>4. CASE TxSendToClient
  <2>1. QueuesOwn' /\ TxOwn' /\ NobodyLeaves'
    BY <1>0, <1>4, QueuesStay
       DEF TxSendToClient, TxNext, TxOwn, registry, OwnInv, NobodyLeaves, cli
  <2>2. CASE txSock \notin open
    BY <1>4, <2>1, <2>2 DEF TxSendToClient, OwnInv, WireOwn, RoutedToClient
  <2>3. CASE txSock \in open
    <3>. DEFINE q == Append(sent[txSock], txPkt)
                w == Append(wire[txSock], ListPacket(txSock))
    <3>1. /\ txSock \in Sockets /\ sent[txSock] \in Seq(Packet) /\ wire[txSock] \in Seq(Packet)
          /\ txPkt.id[1] = txSock /\ ListPacket(txSock).id[1] = txSock
      BY <1>4, <2>3 DEF TxSendToClient, NetTypeOK, OwnInv, TxOwn, ListPacket
    <3>2. /\ DOMAIN q = 1 .. Len(sent[txSock]) + 1 /\ q[Len(sent[txSock]) + 1] = txPkt
          /\ \A j \in 1 .. Len(sent[txSock]) : q[j] = sent[txSock][j]
          /\ DOMAIN sent[txSock] = 1 .. Len(sent[txSock]) /\ Len(sent[txSock]) \in Nat
      BY <3>1, AppendProperties, LenProperties
    <3>3. /\ DOMAIN w = 1 .. Len(wire[txSock]) + 1
          /\ w[Len(wire[txSock]) + 1] = ListPacket(txSock)
          /\ \A j \in 1 .. Len(wire[txSock]) : w[j] = wire[txSock][j]
          /\ DOMAIN wire[txSock] = 1 .. Len(wire[txSock]) /\ Len(wire[txSock]) \in Nat
      BY <3>1, AppendProperties, LenProperties
    <3>4. /\ sent' = [sent EXCEPT ![txSock] = q]
          /\ wire' = [wire EXCEPT ![txSock] = w] \/ UNCHANGED wire
      BY <1>4, <2>3 DEF TxSendToClient
    <3>. HIDE DEF q, w
    <3>5. \A j \in DOMAIN q : q[j].id[1] = txSock
      <4>1. \A j \in 1 .. Len(sent[txSock]) : sent[txSock][j].id[1] = txSock
        BY <3>1, <3>2 DEF OwnInv, RoutedToClient
      <4>. QED  BY <3>1, <3>2, <4>1
    <3>6. \A j \in DOMAIN w : w[j].id[1] = txSock
      <4>1. \A j \in 1 .. Len(wire[txSock]) : wire[txSock][j].id[1] = txSock
        BY <3>1, <3>3 DEF OwnInv, WireOwn
      <4>. QED  BY <3>1, <3>3, <4>1
    <3>7. RoutedToClient'
      BY <3>4, <3>5 DEF OwnInv, RoutedToClient, NetTypeOK
    <3>8. WireOwn'
      BY <3>4, <3>6 DEF OwnInv, WireOwn, NetTypeOK
    <3>. QED  BY <2>1, <3>7, <3>8
  <2>. QED  BY <2>2, <2>3
<1>. QED  BY <1>1, <1>2, <1>3, <1>4 DEF ParamThreadSendProc

LEMMA InitOwnInv == ASSUME Init PROVE OwnInv
<1>1. TypeInv
  BY InitTypeInv
<1>2. DOMAIN <<>> = {} /\ Len(<<>>) = 0
  OBVIOUS
<1>. QED  BY <1>1, <1>2 DEF Init, OwnInv, NobodyLeaves, WireOwn, RoutedToClient, ClientsOwn,
                          RxOwn, TxOwn, QueuesOwn, AllOwned

LEMMA NextOwnInv ==
  ASSUME Leaving = {}, OwnAddresses, OwnInv, [Next]_vars PROVE OwnInv'
<1>1. TypeInv'
  BY NextTypeInv DEF OwnInv
<1>2. ASSUME NEW s \in Sockets, Client(s) PROVE OwnInv'
  BY <1>1, <1>2, OwnClientSend DEF Client, ClientClose
<1>3. CASE UNCHANGED vars
  <2>1. EntriesStay
    BY <1>3, SameEntriesStay DEF vars, registry, OwnInv, TypeInv
  <2>. QED  BY <1>1, <1>3, <2>1, OwnKeptWhenEntriesStay DEF vars, registry
<1>. QED  BY <1>1, <1>2, <1>3, OwnAccept, OwnProcessClient, OwnAcceptThread,
             OwnParamThreadRecvProc, OwnParamThreadSendProc DEF Next, Halted

(* Where clients have addresses of their own and stay, SendToClient sends every
   client its own packets and nobody else's, for any number of clients that
   connect and call in any interleaving. *)
THEOREM RoutedWhenDistinct ==
  ASSUME Leaving = {}, OwnAddresses PROVE Spec => []RoutedToClient
<1>1. OwnInv /\ [Next]_vars => OwnInv'
  BY NextOwnInv
<1>2. OwnInv => RoutedToClient
  BY DEF OwnInv
<1>3. Init => OwnInv
  BY InitOwnInv
<1>. QED  BY <1>1, <1>2, <1>3, PTL DEF Spec

(* And the packets that wait in the queues of an entry are those of its socket. *)
THEOREM QueuesOwnWhenDistinct ==
  ASSUME Leaving = {}, OwnAddresses PROVE Spec => []QueueHoldsOwn
<1>1. OwnInv /\ [Next]_vars => OwnInv'
  BY NextOwnInv
<1>2. OwnInv => QueueHoldsOwn
  <2>. SUFFICES ASSUME OwnInv, NEW i \in 1 .. Len(remote) PROVE
         /\ i <= Len(recvQ) => \A j \in DOMAIN recvQ[i] : recvQ[i][j].id[1] = remote[i].sock
         /\ i <= Len(sendQ) => \A j \in DOMAIN sendQ[i] : sendQ[i][j].id[1] = remote[i].sock
    BY DEF QueueHoldsOwn
  <2>1. Len(recvQ) \in Nat /\ Len(sendQ) \in Nat /\ Len(remote) \in Nat
    BY LenProperties DEF OwnInv, TypeInv, RegistryTypeOK
  <2>. QED  BY <2>1 DEF OwnInv, QueuesOwn, AllOwned, At
<1>3. Init => OwnInv
  BY InitOwnInv
<1>. QED  BY <1>1, <1>2, <1>3, PTL DEF Spec
-----------------------------------------------------------------------------
(***************************************************************************)
(* Disconnects.  An entry moves when one before it is erased, so an index  *)
(* a thread holds goes stale when another client leaves, and only then.    *)
(***************************************************************************)
LeaverInv ==
  /\ TypeInv
  /\ \A s \in Sockets : fin[s] => s \in Leaving
  /\ \A s \in Sockets : cliPc[s] \notin {"none", "recv", "find", "push"} => fin[s]
  /\ \A s \in Sockets : cliPc[s] = "delSocket" => At(cliIdx[s], s)

LEMMA OnlyErasingMoves ==
  ASSUME TypeInv, [Next]_vars, \A s \in Sockets : ~DelSocket(s) \/ bad' PROVE EntriesStay
<1>. RegistryTypeOK /\ AcceptInv
  BY DEF TypeInv
<1>. Len(remote) \in Nat
  BY LenProperties DEF RegistryTypeOK
<1>1. CASE UNCHANGED remote
  BY <1>1, SameEntriesStay
<1>2. CASE AddPushSocket
  BY <1>2, AppendProperties DEF AddPushSocket, EntriesStay, RegistryTypeOK
<1>3. CASE AddEndWait /\ ~UNCHANGED remote
  BY <1>3, EndWaitList, NewListStays
<1>4. CASE RxUpdataRemoteFuncList /\ ~UNCHANGED remote
  <2>. DEFINE f == FindIndexByPortName(rxSock)
  <2>1. f # 0 /\ remote' = [remote EXCEPT ![f].funcs = rxParams]
    BY <1>4 DEF RxUpdataRemoteFuncList, UpdataRemoteFuncList
  <2>2. f \in 1 .. Len(remote)
    BY <2>1, FindIndexInRegistry DEF RegistryTypeOK
  <2>. HIDE DEF f
  <2>. QED  BY <2>1, <2>2, NewListStays
<1>5. CASE ~AddPushSocket /\ ~AddEndWait /\ ~RxUpdataRemoteFuncList
  <2>1. ASSUME ~bad, NEW s \in Sockets, Client(s) \/ Accept(s) \/ ProcessClient(s)
        PROVE  UNCHANGED remote
    <3>1. CASE DelSocket(s)
      BY <2>1, <3>1 DEF DelSocket
    <3>. QED  BY <2>1, <3>1 DEF Client, ClientSend, ClientClose, Accept, ProcessClient, Recv,
         PushRecvFind, PushPacketDataRecv, Disconnect, DelFind, DelRecvQ, DelSendQ,
          DelLockRecv, DelLockSend,
         CloseSocket, registry
  <2>2. AcceptThread => UNCHANGED remote
    BY <1>5 DEF AcceptThread, AddPushLockRecv, AddPushLockSend, AddPushRecvQ, AddPushSendQ,
       AddAskFunList, StartProcessClient, registry
  <2>3. ParamThreadRecvProc \/ ParamThreadSendProc => UNCHANGED remote
    BY <1>5 DEF ParamThreadRecvProc, RxPick, RxFind, RxPop, RxReplyFind, RxPushPacketDataSend,
       ParamThreadSendProc, TxPick, TxFind, TxPop, TxSendToClient, registry
  <2>4. UNCHANGED vars => UNCHANGED remote
    BY DEF vars, registry
  <2>. QED  BY <1>1, <2>1, <2>2, <2>3, <2>4 DEF Next, Halted
<1>. QED  BY <1>1, <1>2, <1>3, <1>4, <1>5

(* What a step does to the clients that leave and to their threads.        *)
LEMMA LeaverSteps ==
  ASSUME LeaverInv, [Next]_vars
  PROVE  /\ \A s \in Sockets : fin'[s] => s \in Leaving
         /\ \A s \in Sockets : cliPc'[s] \notin {"none", "recv", "find", "push"} => fin'[s]
         /\ \A s \in Sockets : cliPc'[s] = "delSocket" =>
              \/ cliPc[s] = "delSocket" /\ cliIdx'[s] = cliIdx[s]
              \/ DelFind(s) /\ cliIdx'[s] = FindIndexByPortName(s) /\ cliIdx'[s] # 0
<1>. NetTypeOK /\ ClientTypeOK
  BY DEF LeaverInv, TypeInv, ClientInv
<1>1. ASSUME NEW s \in Sockets, ClientClose(s)
      PROVE  fin' = [fin EXCEPT ![s] = TRUE] /\ s \in Leaving /\ UNCHANGED cli
  BY <1>1 DEF ClientClose
<1>2. CASE \E s \in Sockets : ClientClose(s)
  BY <1>1, <1>2 DEF LeaverInv, NetTypeOK, cli
<1>3. CASE UNCHANGED <<fin, cliPc, cliIdx>>
  BY <1>3 DEF LeaverInv
<1>4. ASSUME NEW s \in Sockets, ProcessClient(s)
      PROVE  /\ UNCHANGED fin
             /\ \A t \in Sockets : t # s => cliPc'[t] = cliPc[t] /\ cliIdx'[t] = cliIdx[t]
             /\ cliPc'[s] \notin {"none", "recv", "find", "push"} =>
                  fin[s] \/ cliPc[s] \notin {"none", "recv", "find", "push"}
             /\ cliPc'[s] = "delSocket" =>
                  \/ cliPc[s] = "delSocket" /\ cliIdx'[s] = cliIdx[s]
                  \/ DelFind(s) /\ cliIdx'[s] = FindIndexByPortName(s) /\ cliIdx'[s] # 0
  <2>1. CASE Recv(s) \/ PushRecvFind(s) \/ PushPacketDataRecv(s)
    BY <2>1 DEF Recv, PushRecvFind, PushPacketDataRecv, BackToRecv, ClientTypeOK, net, cli
  <2>2. CASE Disconnect(s)
    BY <2>2 DEF Disconnect, GotoCli, ClientTypeOK, net
  <2>3. CASE DelFind(s)
    BY <2>3 DEF DelFind, ClientTypeOK, net
  <2>4. CASE DelSocket(s) \/ DelRecvQ(s) \/ DelSendQ(s) \/ DelLockRecv(s) \/ DelLockSend(s)
    BY <2>4 DEF DelSocket, DelRecvQ, DelSendQ, DelLockRecv, DelLockSend, GotoCli, ClientTypeOK,
              net, cli
  <2>5. CASE CloseSocket(s)
    BY <2>5 DEF CloseSocket, ClientTypeOK
  <2>. QED  BY <1>4, <2>1, <2>2, <2>3, <2>4, <2>5 DEF ProcessClient
<1>5. CASE \E s \in Sockets : ProcessClient(s)
  <2>1. PICK s \in Sockets : ProcessClient(s)
    BY <1>5
  <2>. QED  BY <1>4, <2>1 DEF LeaverInv
<1>6. CASE StartProcessClient
  <2>1. cliPc' = [cliPc EXCEPT ![accSock] = "recv"] /\ UNCHANGED <<fin, cliIdx>>
    BY <1>6 DEF StartProcessClient, GotoCli, net
  <2>. QED  BY <2>1 DEF LeaverInv, ClientTypeOK
<1>7. ASSUME NEW s \in Sockets, Client(s) \/ Accept(s), ~ClientClose(s)
      PROVE  UNCHANGED <<fin, cliPc, cliIdx>>
  BY <1>7 DEF Client, ClientSend, Accept, cli
<1>8. AcceptThread /\ ~StartProcessClient => UNCHANGED <<fin, cliPc, cliIdx>>
  BY DEF AcceptThread, AddPushSocket, AddPushLockRecv, AddPushLockSend, AddPushRecvQ,
     AddPushSendQ, AddAskFunList, AddEndWait, net, cli
<1>9. ParamThreadRecvProc => UNCHANGED <<fin, cliPc, cliIdx>>
  BY DEF ParamThreadRecvProc, RxPick, RxFind, RxPop, RxUpdataRemoteFuncList, RxReplyFind,
     RxPushPacketDataSend, net, cli
<1>10. ParamThreadSendProc => UNCHANGED <<fin, cliPc, cliIdx>>
  BY DEF ParamThreadSendProc, TxPick, TxFind, TxPop, TxSendToClient, net, cli
<1>11. UNCHANGED vars => UNCHANGED <<fin, cliPc, cliIdx>>
  BY DEF vars, net, cli
<1>. QED  BY <1>2, <1>3, <1>5, <1>6, <1>7, <1>8, <1>9, <1>10, <1>11 DEF Next, Halted

LEMMA NextLeaverInv ==
  ASSUME OwnAddresses, \A s, t \in Leaving : s = t, LeaverInv, [Next]_vars PROVE LeaverInv'
<1>1. TypeInv /\ TypeInv' /\ RegistryTypeOK /\ RegistryTypeOK'
  BY NextTypeInv DEF LeaverInv, TypeInv
<1>2. ASSUME NEW s \in Sockets, cliPc'[s] = "delSocket" PROVE At(cliIdx[s], s)'
  <2>1. CASE DelFind(s) /\ cliIdx'[s] = FindIndexByPortName(s) /\ cliIdx'[s] # 0
    <3>1. At(FindIndexByPortName(s), s)
      BY <1>1, <2>1, FoundIsOwn
    <3>2. UNCHANGED remote
      BY <2>1 DEF DelFind, registry
    <3>. QED  BY <2>1, <3>1, <3>2 DEF At
  <2>2. CASE cliPc[s] = "delSocket" /\ cliIdx'[s] = cliIdx[s]
    <3>1. At(cliIdx[s], s) /\ s \in Leaving
      BY <2>2 DEF LeaverInv
    <3>2. ASSUME NEW t \in Sockets, DelSocket(t), ~bad' PROVE FALSE
      <4>1. cliPc[t] = "delSocket" /\ cliPc' = [cliPc EXCEPT ![t] = "delRecvQ"]
        BY <3>2 DEF DelSocket, GotoCli
      <4>2. t \in Leaving
        BY <4>1 DEF LeaverInv
      <4>3. cliPc'[s] = "delRecvQ"
        BY <1>1, <3>1, <4>1, <4>2 DEF TypeInv, ClientInv, ClientTypeOK
      <4>. QED  BY <1>2, <4>3
    <3>3. EntriesStay
      BY <1>1, <3>2, OnlyErasingMoves
    <3>. QED  BY <1>1, <2>2, <3>1, <3>3, AtStays DEF At
  <2>. QED  BY <1>2, <2>1, <2>2, LeaverSteps
<1>. QED  BY <1>1, <1>2, LeaverSteps DEF LeaverInv

(* DelSocketSource erases the entry of the client that has gone, as long   *)
(* as no second client leaves: of any number of clients that connect, call *)
(* and are served meanwhile, none can make its index stale.                *)
THEOREM LoneLeaverRemovesOwn ==
  ASSUME OwnAddresses, \A s, t \in Leaving : s = t PROVE Spec => DisconnectRemovesOwn
<1>1. Init => LeaverInv
  BY InitTypeInv DEF Init, LeaverInv
<1>2. LeaverInv /\ [Next]_vars => LeaverInv'
  BY NextLeaverInv
<1>3. LeaverInv =>
        [\A s \in Sockets : DelSocket(s) /\ ~bad' => remote[cliIdx[s]].sock = s]_vars
  BY DEF LeaverInv, DelSocket, At
<1>. QED  BY <1>1, <1>2, <1>3, PTL DEF Spec, DisconnectRemovesOwn
=============================================================================
