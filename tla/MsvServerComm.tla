--------------------------- MODULE MsvServerComm ---------------------------
(***************************************************************************)
(* The server role of CMsvServerComm: the registry of connected sockets    *)
(* (m_vecSocketRemote) with the four vectors that run parallel to it (a    *)
(* receive queue, a send queue and a critical section for each), and the   *)
(* threads that work on them:                                              *)
(*                                                                         *)
(*   - the accept thread, whose connect callback adds a socket;            *)
(*   - one ProcessClient thread per client, which queues what it receives  *)
(*     and, when the client closes, removes the socket;                    *)
(*   - ParamThreadRecvProc (rx), which executes the queued requests;       *)
(*   - ParamThreadSendProc (tx), which sends the queued packets.           *)
(*                                                                         *)
(* A step is what a thread does between two releases of a lock.  The index *)
(* FindIndexByPortName returns is used after m_lockSocketSource is         *)
(* released, so it may be stale, and indexing one of the vectors past its  *)
(* end is undefined behaviour: here it ends the run with bad = TRUE.       *)
(* A critical section of one queue is never held across two steps, so of   *)
(* those vectors only the lengths are kept.                                *)
(*                                                                         *)
(* m_lockSocketSource is held across a wait by the accept thread alone,    *)
(* and left by a thread that did not enter it: FindActionFun_Local, which  *)
(* rx calls for every request it executes, leaves it and never enters it.  *)
(* What that does is undefined, so LeaveUnowned is a choice.               *)
(***************************************************************************)
EXTENDS BoundedQueues, FiniteSets, SequencesExt

CONSTANTS
  Sockets,             \* handles that accept() may return, each used once
  NoSocket,            \* INVALID_SOCKET
  LocalAddr,           \* local address and port of each handle (getsockname)
  Kinds,               \* what each client may ask for: "req", "unknown"
  Leaving,             \* the sockets whose client may close the connection
  MAX_PACKETDATA_NUM,  \* length of a packet queue (128 in the code)
  MaxRequests          \* bound: requests a client sends

ASSUME CommAssumption ==
  /\ NoSocket \notin Sockets
  /\ IsFiniteSet(Sockets)
  /\ DOMAIN LocalAddr = Sockets
  /\ Kinds \in [Sockets -> SUBSET {"req", "unknown"}]
  /\ Leaving \subseteq Sockets
  /\ MAX_PACKETDATA_NUM \in Nat \ {0}
  /\ MaxRequests \in Nat

VARIABLES
  open,        \* the handles on which getsockname and send succeed
  wire,        \* bytes on their way from each client, as whole packets
  fin,         \* the client has closed its side
  issued,      \* number of requests each client has sent
  sent,        \* history: the packets sent on each socket
  remote,      \* m_vecSocketRemote: the socket and its function list
  nLockRecv,   \* size of m_lockPacetDataRecv
  nLockSend,   \* size of m_lockPacetDataSend
  recvQ,       \* m_vecPacetDataRecv
  sendQ,       \* m_vecPacetDataSend
  lockSource,  \* m_lockSocketSource: free, held over the wait, or broken
  bad,         \* undefined behaviour has happened
  accPc, accSock,                \* accept thread, and the socket it adds
  accAsked, accAt,               \* the socket it asks, and whose list it passes
  cliPc, cliIdx, cliPkt,         \* ProcessClient thread of each socket
  rxPc, rxI, rxSock, rxIdx, rxPkt,  \* ParamThreadRecvProc
  rxParams, rxOuts,              \* its paramsIN and paramsOUT
  txPc, txI, txSock, txIdx, txPkt   \* ParamThreadSendProc

net == <<open, wire, fin, issued, sent>>
registry == <<remote, nLockRecv, nLockSend, recvQ, sendQ>>
acc == <<accPc, accSock, accAsked, accAt>>
cli == <<cliPc, cliIdx, cliPkt>>
rx == <<rxPc, rxI, rxSock, rxIdx, rxPkt, rxParams, rxOuts>>
tx == <<txPc, txI, txSock, txIdx, txPkt>>
vars == <<net, registry, lockSource, bad, acc, cli, rx, tx>>
-----------------------------------------------------------------------------
(***************************************************************************)
(* A packet is identified by the client whose request it carries, answers  *)
(* or (number 0) whose function list it asks for or holds.  out is what    *)
(* its data stands for: the requests whose outputs it returns.             *)
(***************************************************************************)
Id == Sockets \X (0 .. MaxRequests)
Packet == [kind : {"ask", "list", "req", "unknown", "reply"}, id : Id, out : SUBSET Id]
NoPacket == [kind |-> "none", id |-> <<NoSocket, 0>>, out |-> {}]

AskPacket(s) == [kind |-> "ask", id |-> <<s, 0>>, out |-> {}]
ListPacket(s) == [kind |-> "list", id |-> <<s, 0>>, out |-> {}]
ReplyPacket(id, outs) == [kind |-> "reply", id |-> id, out |-> outs]

(* A slip: the addresses are read and not compared. *)
AreConnected(a, b) == a \in open /\ b \in open

(* getsockname of both sockets, compared. *)
IsSameSocket(a, b) == a \in open /\ b \in open /\ LocalAddr[a] = LocalAddr[b]

(* The first entry that matches, counted from 1; 0 is "not found" (-1). *)
FindIndexByPortName(s) ==
  LET match == {i \in 1 .. Len(remote) : IsSameSocket(s, remote[i].sock)}
  IN IF match = {} THEN 0 ELSE CHOOSE i \in match : \A j \in match : i <= j

(* A slip: the registry is used without entering m_lockSocketSource. *)
NoLock == TRUE

(* m_lockSocketSource can be entered. *)
SourceFree == lockSource = "free"

NetTypeOK ==
  /\ open \subseteq Sockets
  /\ wire \in [Sockets -> Seq(Packet)]
  /\ fin \in [Sockets -> BOOLEAN]
  /\ issued \in [Sockets -> 0 .. MaxRequests]
  /\ sent \in [Sockets -> Seq(Packet)]

Bounded(queues) == \A i \in 1 .. Len(queues) : Len(queues[i]) <= MAX_PACKETDATA_NUM

RegistryTypeOK ==
  /\ remote \in Seq([sock : Sockets, funcs : SUBSET Id])
  /\ nLockRecv \in Nat /\ nLockSend \in Nat
  /\ recvQ \in Seq(Seq(Packet)) /\ Bounded(recvQ)
  /\ sendQ \in Seq(Seq(Packet)) /\ Bounded(sendQ)
  /\ lockSource \in {"free", "held", "broken"}
  /\ bad \in BOOLEAN

AcceptTypeOK ==
  /\ accPc \in {"accept", "pushSocket", "pushLockRecv", "pushLockSend",
                "pushRecvQ", "pushSendQ", "askFunList", "wait", "start"}
  /\ accSock \in Sockets \cup {NoSocket}
  /\ accAsked \in Sockets \cup {NoSocket}
  /\ accAt \in Nat

ClientTypeOK ==
  /\ cliPc \in [Sockets -> {"none", "recv", "find", "push", "delFind", "delSocket",
                            "delRecvQ", "delSendQ", "delLockRecv", "delLockSend",
                            "close", "gone"}]
  /\ cliIdx \in [Sockets -> Nat]
  /\ cliPkt \in [Sockets -> Packet \cup {NoPacket}]

RxTypeOK ==
  /\ rxPc \in {"pick", "find", "pop", "update", "replyFind", "replyPush"}
  /\ rxI \in Nat /\ rxIdx \in Nat
  /\ rxSock \in Sockets \cup {NoSocket}
  /\ rxPkt \in Packet \cup {NoPacket}
  /\ rxParams \in SUBSET Id /\ rxOuts \in SUBSET Id

TxTypeOK ==
  /\ txPc \in {"pick", "find", "pop", "send"}
  /\ txI \in Nat /\ txIdx \in Nat
  /\ txSock \in Sockets \cup {NoSocket}
  /\ txPkt \in Packet \cup {NoPacket}

(* Types, and the bound on every packet queue. *)
TypeOK ==
  NetTypeOK /\ RegistryTypeOK /\ AcceptTypeOK /\ ClientTypeOK /\ RxTypeOK /\ TxTypeOK

Init ==
  /\ open = {}
  /\ wire = [s \in Sockets |-> <<>>]
  /\ fin = [s \in Sockets |-> FALSE]
  /\ issued = [s \in Sockets |-> 0]
  /\ sent = [s \in Sockets |-> <<>>]
  /\ remote = <<>> /\ nLockRecv = 0 /\ nLockSend = 0 /\ recvQ = <<>> /\ sendQ = <<>>
  /\ lockSource = "free"
  /\ bad = FALSE
  /\ accPc = "accept" /\ accSock = NoSocket /\ accAsked = NoSocket /\ accAt = 0
  /\ cliPc = [s \in Sockets |-> "none"]
  /\ cliIdx = [s \in Sockets |-> 0]
  /\ cliPkt = [s \in Sockets |-> NoPacket]
  /\ rxPc = "pick" /\ rxI = 0 /\ rxSock = NoSocket /\ rxIdx = 0 /\ rxPkt = NoPacket
  /\ rxParams = {} /\ rxOuts = {}
  /\ txPc = "pick" /\ txI = 0 /\ txSock = NoSocket /\ txIdx = 0 /\ txPkt = NoPacket
-----------------------------------------------------------------------------
(***************************************************************************)
(* The clients, which run the client role of the same program.             *)
(***************************************************************************)
ClientSend(s, kind) ==
  /\ s \in open /\ ~fin[s]
  /\ issued[s] < MaxRequests
  /\ issued' = [issued EXCEPT ![s] = @ + 1]
  /\ wire' = [wire EXCEPT
       ![s] = Append(@, [kind |-> kind, id |-> <<s, issued[s] + 1>>, out |-> {}])]
  /\ UNCHANGED <<open, fin, sent, registry, lockSource, acc, cli, rx, tx, bad>>

ClientClose(s) ==
  /\ s \in open \cap Leaving /\ ~fin[s]
  /\ fin' = [fin EXCEPT ![s] = TRUE]
  /\ UNCHANGED <<open, wire, issued, sent, registry, lockSource, acc, cli, rx, tx, bad>>
-----------------------------------------------------------------------------
(***************************************************************************)
(* The accept thread: accept, AddSocketSource in the connect callback, and *)
(* only then the thread that reads from the socket.                        *)
(***************************************************************************)
Accept(s) ==
  /\ accPc = "accept"
  /\ cliPc[s] = "none" /\ s \notin open
  /\ open' = open \cup {s}
  /\ accPc' = "pushSocket" /\ accSock' = s
  /\ UNCHANGED <<wire, fin, issued, sent, accAsked, accAt, registry, lockSource, cli, rx, tx,
                 bad>>

GotoAcc(pc) == accPc' = pc /\ UNCHANGED <<accSock, accAsked, accAt>>
GotoCli(s, pc) == cliPc' = [cliPc EXCEPT ![s] = pc] /\ UNCHANGED <<cliIdx, cliPkt>>

AddPushSocket ==
  /\ accPc = "pushSocket" /\ SourceFree
  /\ remote' = Append(remote, [sock |-> accSock, funcs |-> {}])
  /\ GotoAcc("pushLockRecv")
  /\ UNCHANGED <<net, nLockRecv, nLockSend, recvQ, sendQ, lockSource, cli, rx, tx, bad>>

AddPushLockRecv ==
  /\ accPc = "pushLockRecv"
  /\ nLockRecv' = nLockRecv + 1
  /\ GotoAcc("pushLockSend")
  /\ UNCHANGED <<net, remote, nLockSend, recvQ, sendQ, lockSource, cli, rx, tx, bad>>

AddPushLockSend ==
  /\ accPc = "pushLockSend"
  /\ nLockSend' = nLockSend + 1
  /\ GotoAcc("pushRecvQ")
  /\ UNCHANGED <<net, remote, nLockRecv, recvQ, sendQ, lockSource, cli, rx, tx, bad>>

AddPushRecvQ ==
  /\ accPc = "pushRecvQ"
  /\ recvQ' = Append(recvQ, <<>>)
  /\ GotoAcc("pushSendQ")
  /\ UNCHANGED <<net, remote, nLockRecv, nLockSend, sendQ, lockSource, cli, rx, tx, bad>>

AddPushSendQ ==
  /\ accPc = "pushSendQ"
  /\ sendQ' = Append(sendQ, <<>>)
  /\ GotoAcc("askFunList")
  /\ UNCHANGED <<net, remote, nLockRecv, nLockSend, recvQ, lockSource, cli, rx, tx, bad>>

(* GetFunList_Remote on the last entry, its socket passed by value and its *)
(* list by reference: the question is queued, and the thread sleeps with   *)
(* m_lockSocketSource held by its caller.                                  *)
AddAskFunList ==
  /\ accPc = "askFunList" /\ SourceFree
  /\ LET last == remote[Len(remote)].sock
         idx == FindIndexByPortName(last)
     IN IF remote = <<>> \/ idx > nLockSend \/ idx > Len(sendQ)
        THEN /\ bad' = TRUE
             /\ UNCHANGED <<registry, lockSource, acc>>
        ELSE /\ sendQ' = IF idx = 0 THEN sendQ
                         ELSE [sendQ EXCEPT ![idx] =
                                 PushDropOldest(@, AskPacket(last), MAX_PACKETDATA_NUM)]
             /\ lockSource' = "held"
             /\ accPc' = "wait" /\ accAsked' = last /\ accAt' = Len(remote)
             /\ UNCHANGED <<accSock, remote, nLockRecv, nLockSend, recvQ, bad>>
  /\ UNCHANGED <<net, cli, rx, tx>>

(* A thread is about to change m_vecSocketRemote under m_lockSocketSource. *)
Changing == accPc = "pushSocket" \/ \E s \in Sockets : cliPc[s] = "delSocket"

(* LeaveCriticalSection by a thread that did not enter: nothing happens,   *)
(* or no thread can enter any more, or the lock is taken from the thread   *)
(* that sleeps with it, or from one that is changing the vector, and       *)
(* another that enters meets it half changed.                              *)
LeaveUnowned ==
  \/ UNCHANGED <<lockSource, bad>>
  \/ lockSource' = "broken" /\ UNCHANGED bad
  \/ lockSource = "held" /\ lockSource' = "free" /\ UNCHANGED bad
  \/ Changing /\ bad' = TRUE /\ UNCHANGED lockSource

(* The sleep is over: GetRemoteFuncListBySocket, which enters the lock     *)
(* once more, appends the list of the entry it finds to the list it was    *)
(* given.  When both are the same vector and it is not empty the loop      *)
(* feeds itself and never ends; when the lock was lost during the sleep    *)
(* the entry of that list may have been erased.  The caller then leaves    *)
(* the lock, whether it still has it or not.                               *)
AddEndWait ==
  /\ accPc = "wait" /\ lockSource # "broken"
  /\ LET found == FindIndexByPortName(accAsked)
     IN IF found # 0 /\ remote[found].funcs # {} /\ (found = accAt \/ accAt > Len(remote))
        THEN /\ bad' = TRUE
             /\ UNCHANGED <<remote, lockSource, acc>>
        ELSE /\ remote' = IF found = 0 \/ accAt > Len(remote) THEN remote
                          ELSE [remote EXCEPT ![accAt].funcs = @ \cup remote[found].funcs]
             /\ IF lockSource = "held" THEN lockSource' = "free" /\ UNCHANGED bad
                                       ELSE LeaveUnowned
             /\ accPc' = "start" /\ accAsked' = NoSocket /\ accAt' = 0
             /\ UNCHANGED accSock
  /\ UNCHANGED <<net, nLockRecv, nLockSend, recvQ, sendQ, cli, rx, tx>>

StartProcessClient ==
  /\ accPc = "start"
  /\ GotoCli(accSock, "recv")
  /\ accPc' = "accept" /\ accSock' = NoSocket
  /\ UNCHANGED <<net, accAsked, accAt, registry, lockSource, rx, tx, bad>>

AcceptThread ==
  \/ AddPushSocket \/ AddPushLockRecv \/ AddPushLockSend \/ AddPushRecvQ
  \/ AddPushSendQ \/ AddAskFunList \/ AddEndWait \/ StartProcessClient
-----------------------------------------------------------------------------
(***************************************************************************)
(* The ProcessClient thread of socket s: recv, the receive callback, and   *)
(* when recv returns 0 the disconnect callback, DelSocketSource.           *)
(***************************************************************************)
Recv(s) ==
  /\ cliPc[s] = "recv" /\ wire[s] # <<>>
  /\ wire' = [wire EXCEPT ![s] = Tail(@)]
  /\ cliPc' = [cliPc EXCEPT ![s] = "find"]
  /\ cliPkt' = [cliPkt EXCEPT ![s] = Head(wire[s])]
  /\ UNCHANGED <<open, fin, issued, sent, cliIdx, registry, lockSource, bad, acc, rx, tx>>

(* The thread is back at recv, its callback done. *)
BackToRecv(s) ==
  /\ cliPc' = [cliPc EXCEPT ![s] = "recv"]
  /\ cliIdx' = [cliIdx EXCEPT ![s] = 0]
  /\ cliPkt' = [cliPkt EXCEPT ![s] = NoPacket]

PushRecvFind(s) ==
  /\ cliPc[s] = "find" /\ SourceFree
  /\ LET idx == FindIndexByPortName(s)
     IN IF idx = 0 THEN BackToRecv(s)
        ELSE /\ cliPc' = [cliPc EXCEPT ![s] = "push"]
             /\ cliIdx' = [cliIdx EXCEPT ![s] = idx]
             /\ UNCHANGED cliPkt
  /\ UNCHANGED <<net, registry, lockSource, bad, acc, rx, tx>>

PushPacketDataRecv(s) ==
  /\ cliPc[s] = "push"
  /\ LET idx == cliIdx[s]
     IN IF idx > nLockRecv \/ idx > Len(recvQ)
        THEN bad' = TRUE /\ UNCHANGED <<recvQ, cli>>
        ELSE /\ recvQ' = [recvQ EXCEPT ![idx] =
                             PushDropOldest(@, cliPkt[s], MAX_PACKETDATA_NUM)]
             /\ BackToRecv(s)
             /\ UNCHANGED bad
  /\ UNCHANGED <<net, remote, nLockRecv, nLockSend, sendQ, lockSource, acc, rx, tx>>

Disconnect(s) ==
  /\ cliPc[s] = "recv" /\ wire[s] = <<>> /\ fin[s]
  /\ GotoCli(s, "delFind")
  /\ UNCHANGED <<net, registry, lockSource, bad, acc, rx, tx>>

DelFind(s) ==
  /\ cliPc[s] = "delFind" /\ SourceFree
  /\ LET idx == FindIndexByPortName(s)
     IN /\ cliPc' = [cliPc EXCEPT ![s] = IF idx = 0 THEN "close" ELSE "delSocket"]
        /\ cliIdx' = [cliIdx EXCEPT ![s] = idx]
  /\ UNCHANGED <<net, cliPkt, registry, lockSource, bad, acc, rx, tx>>

DelSocket(s) ==
  /\ cliPc[s] = "delSocket" /\ SourceFree
  /\ IF cliIdx[s] > Len(remote)
     THEN bad' = TRUE /\ UNCHANGED <<remote, cli>>
     ELSE /\ remote' = RemoveAt(remote, cliIdx[s])
          /\ GotoCli(s, "delRecvQ")
          /\ UNCHANGED bad
  /\ UNCHANGED <<net, nLockRecv, nLockSend, recvQ, sendQ, lockSource, acc, rx, tx>>

DelRecvQ(s) ==
  /\ cliPc[s] = "delRecvQ"
  /\ IF cliIdx[s] > nLockRecv \/ cliIdx[s] > Len(recvQ)
     THEN bad' = TRUE /\ UNCHANGED <<recvQ, cli>>
     ELSE /\ recvQ' = RemoveAt(recvQ, cliIdx[s])
          /\ GotoCli(s, "delSendQ")
          /\ UNCHANGED bad
  /\ UNCHANGED <<net, remote, nLockRecv, nLockSend, sendQ, lockSource, acc, rx, tx>>

DelSendQ(s) ==
  /\ cliPc[s] = "delSendQ"
  /\ IF cliIdx[s] > nLockSend \/ cliIdx[s] > Len(sendQ)
     THEN bad' = TRUE /\ UNCHANGED <<sendQ, cli>>
     ELSE /\ sendQ' = RemoveAt(sendQ, cliIdx[s])
          /\ GotoCli(s, "delLockRecv")
          /\ UNCHANGED bad
  /\ UNCHANGED <<net, remote, nLockRecv, nLockSend, recvQ, lockSource, acc, rx, tx>>

(* Both critical sections are deleted, then the two vectors shrink.        *)
DelLockRecv(s) ==
  /\ cliPc[s] = "delLockRecv"
  /\ IF cliIdx[s] > nLockRecv \/ cliIdx[s] > nLockSend
     THEN bad' = TRUE /\ UNCHANGED <<nLockRecv, cli>>
     ELSE /\ nLockRecv' = nLockRecv - 1
          /\ GotoCli(s, "delLockSend")
          /\ UNCHANGED bad
  /\ UNCHANGED <<net, remote, nLockSend, recvQ, sendQ, lockSource, acc, rx, tx>>

(* A slip: the second vector of critical sections is forgotten. *)
KeepLockSend == UNCHANGED nLockSend

EraseLockSend == nLockSend' = nLockSend - 1

DelLockSend(s) ==
  /\ cliPc[s] = "delLockSend"
  /\ IF cliIdx[s] > nLockSend
     THEN bad' = TRUE /\ UNCHANGED <<nLockSend, cli>>
     ELSE /\ EraseLockSend
          /\ GotoCli(s, "close")
          /\ UNCHANGED bad
  /\ UNCHANGED <<net, remote, nLockRecv, recvQ, sendQ, lockSource, acc, rx, tx>>

CloseSocket(s) ==
  /\ cliPc[s] = "close"
  /\ open' = open \ {s}
  /\ cliPc' = [cliPc EXCEPT ![s] = "gone"]
  /\ cliIdx' = [cliIdx EXCEPT ![s] = 0]
  /\ UNCHANGED <<wire, fin, issued, sent, cliPkt, registry, lockSource, bad, acc, rx, tx>>

ProcessClient(s) ==
  \/ Recv(s) \/ PushRecvFind(s) \/ PushPacketDataRecv(s) \/ Disconnect(s)
  \/ DelFind(s) \/ DelSocket(s) \/ DelRecvQ(s) \/ DelSendQ(s)
  \/ DelLockRecv(s) \/ DelLockSend(s) \/ CloseSocket(s)
-----------------------------------------------------------------------------
(***************************************************************************)
(* ParamThreadRecvProc: one pass asks every socket for one packet.  params *)
(* and outs are paramsIN and paramsOUT, which live for the whole pass.     *)
(***************************************************************************)
(* The rest of the loop body and the next value of i. *)
RxNext ==
  /\ rxPc' = "pick" /\ rxI' = rxI + 1
  /\ rxSock' = NoSocket /\ rxIdx' = 0 /\ rxPkt' = NoPacket

(* Two slips: the last socket is left out, and the variables declared in   *)
(* the body of the outer loop survive it.                                  *)
RxMoreOffByOne == rxI + 1 < Len(remote)
RxSamePass == rxI' = 0 /\ UNCHANGED <<rxParams, rxOuts>>

RxMore == rxI < Len(remote)
RxNewPass == rxI' = 0 /\ rxParams' = {} /\ rxOuts' = {}

RxPick ==
  /\ rxPc = "pick" /\ SourceFree
  /\ IF RxMore
     THEN /\ rxPc' = "find" /\ rxSock' = remote[rxI + 1].sock
          /\ UNCHANGED <<rxI, rxParams, rxOuts>>
     ELSE RxNewPass /\ UNCHANGED <<rxPc, rxSock>>
  /\ UNCHANGED <<net, rxIdx, rxPkt, registry, lockSource, bad, acc, cli, tx>>

RxFindThen(pc) ==
  LET idx == FindIndexByPortName(rxSock)
  IN IF idx = 0 THEN RxNext
     ELSE rxPc' = pc /\ rxIdx' = idx /\ UNCHANGED <<rxI, rxSock, rxPkt>>

RxFind ==
  /\ rxPc = "find" /\ SourceFree
  /\ RxFindThen("pop")
  /\ UNCHANGED <<net, rxParams, rxOuts, registry, lockSource, bad, acc, cli, tx>>

(* AnasysPacket, which appends to paramsIN, and for a function that exists *)
(* here DoActionLocalFun, which appends to paramsOUT and leaves the lock   *)
(* it did not enter.  Any other request is dropped without an answer.      *)
RxHandle(pkt) ==
  /\ rxParams' = rxParams \cup {pkt.id}
  /\ \/ /\ pkt.kind = "list"
        /\ rxPc' = "update"
        /\ UNCHANGED <<rxI, rxSock, rxIdx, rxPkt, rxOuts, lockSource, bad>>
     \/ /\ pkt.kind = "req"
        /\ LeaveUnowned
        /\ rxOuts' = rxOuts \cup {pkt.id}
        /\ rxPkt' = ReplyPacket(pkt.id, rxOuts')
        /\ rxPc' = "replyFind"
        /\ UNCHANGED <<rxI, rxSock, rxIdx>>
     \/ /\ pkt.kind \notin {"list", "req"}
        /\ RxNext
        /\ UNCHANGED <<rxOuts, lockSource, bad>>

RxPop ==
  /\ rxPc = "pop"
  /\ IF rxIdx > nLockRecv \/ rxIdx > Len(recvQ)
     THEN bad' = TRUE /\ UNCHANGED <<recvQ, lockSource, rx>>
     ELSE IF recvQ[rxIdx] = <<>>
     THEN RxNext /\ UNCHANGED <<recvQ, lockSource, bad, rxParams, rxOuts>>
     ELSE /\ recvQ' = PopFirst(recvQ, rxIdx)
          /\ RxHandle(Head(recvQ[rxIdx]))
  /\ UNCHANGED <<net, remote, nLockRecv, nLockSend, sendQ, acc, cli, tx>>

(* A slip: the new list only restricts the stored one instead of replacing *)
(* it.                                                                     *)
IntersectFuncList(sock, list) ==
  LET idx == FindIndexByPortName(sock)
  IN remote' = IF idx = 0 THEN remote ELSE [remote EXCEPT ![idx].funcs = @ \cap list]

UpdataRemoteFuncList(sock, list) ==
  LET idx == FindIndexByPortName(sock)
  IN remote' = IF idx = 0 THEN remote ELSE [remote EXCEPT ![idx].funcs = list]

(* The list of every parameter parsed so far in this pass is stored.       *)
RxUpdataRemoteFuncList ==
  /\ rxPc = "update" /\ SourceFree
  /\ UpdataRemoteFuncList(rxSock, rxParams)
  /\ RxNext
  /\ UNCHANGED <<net, rxParams, rxOuts, nLockRecv, nLockSend, recvQ, sendQ,
                 lockSource, bad, acc, cli, tx>>

RxReplyFind ==
  /\ rxPc = "replyFind" /\ SourceFree
  /\ RxFindThen("replyPush")
  /\ UNCHANGED <<net, rxParams, rxOuts, registry, lockSource, bad, acc, cli, tx>>

RxPushPacketDataSend ==
  /\ rxPc = "replyPush"
  /\ IF rxIdx > nLockSend \/ rxIdx > Len(sendQ)
     THEN bad' = TRUE /\ UNCHANGED <<sendQ, rx>>
     ELSE /\ sendQ' = [sendQ EXCEPT ![rxIdx] = PushDropOldest(@, rxPkt, MAX_PACKETDATA_NUM)]
          /\ RxNext
          /\ UNCHANGED <<bad, rxParams, rxOuts>>
  /\ UNCHANGED <<net, remote, nLockRecv, nLockSend, recvQ, lockSource, acc, cli, tx>>

ParamThreadRecvProc ==
  \/ RxPick \/ RxFind \/ RxPop \/ RxUpdataRemoteFuncList
  \/ RxReplyFind \/ RxPushPacketDataSend
-----------------------------------------------------------------------------
(***************************************************************************)
(* ParamThreadSendProc: one packet per socket and pass.                    *)
(***************************************************************************)
TxNext ==
  /\ txPc' = "pick" /\ txI' = txI + 1
  /\ txSock' = NoSocket /\ txIdx' = 0 /\ txPkt' = NoPacket

TxPick ==
  /\ txPc = "pick" /\ SourceFree
  /\ IF txI < Len(remote)
     THEN txPc' = "find" /\ txSock' = remote[txI + 1].sock /\ UNCHANGED txI
     ELSE txI' = 0 /\ UNCHANGED <<txPc, txSock>>
  /\ UNCHANGED <<net, txIdx, txPkt, registry, lockSource, bad, acc, cli, rx>>

TxFind ==
  /\ txPc = "find" /\ SourceFree
  /\ LET idx == FindIndexByPortName(txSock)
     IN IF idx = 0 THEN TxNext
        ELSE txPc' = "pop" /\ txIdx' = idx /\ UNCHANGED <<txI, txSock, txPkt>>
  /\ UNCHANGED <<net, registry, lockSource, bad, acc, cli, rx>>

(* GetPacketDataSend, the only one that checks the index it locked.        *)
TxPop ==
  /\ txPc = "pop"
  /\ IF txIdx > nLockSend
     THEN bad' = TRUE /\ UNCHANGED <<sendQ, tx>>
     ELSE IF txIdx > Len(sendQ) \/ sendQ[txIdx] = <<>>
     THEN TxNext /\ UNCHANGED <<sendQ, bad>>
     ELSE /\ sendQ' = PopFirst(sendQ, txIdx)
          /\ txPc' = "send" /\ txPkt' = Head(sendQ[txIdx])
          /\ UNCHANGED <<txI, txSock, txIdx, bad>>
  /\ UNCHANGED <<net, remote, nLockRecv, nLockSend, recvQ, lockSource, acc, cli, rx>>

(* SendToClient on the socket of this turn of the loop.  A client that is  *)
(* asked for its function list answers.                                    *)
TxSendToClient ==
  /\ txPc = "send"
  /\ IF txSock \in open
     THEN /\ sent' = [sent EXCEPT ![txSock] = Append(@, txPkt)]
          /\ wire' = IF txPkt.kind = "ask" /\ ~fin[txSock]
                     THEN [wire EXCEPT ![txSock] = Append(@, ListPacket(txSock))]
                     ELSE wire
     ELSE UNCHANGED <<sent, wire>>
  /\ TxNext
  /\ UNCHANGED <<open, fin, issued, registry, lockSource, bad, acc, cli, rx>>

ParamThreadSendProc == TxPick \/ TxFind \/ TxPop \/ TxSendToClient
-----------------------------------------------------------------------------
Client(s) == ClientClose(s) \/ \E kind \in Kinds[s] : ClientSend(s, kind)

(* Nothing is defined after undefined behaviour: the run ends there. *)
Halted == bad /\ UNCHANGED vars

Next ==
  \/ /\ ~bad
     /\ \/ \E s \in Sockets : Client(s) \/ Accept(s) \/ ProcessClient(s)
        \/ AcceptThread \/ ParamThreadRecvProc \/ ParamThreadSendProc
  \/ Halted

Spec == Init /\ [][Next]_vars

(* The operating system runs every thread that can take a step. *)
Fairness ==
  /\ WF_vars(~bad /\ AcceptThread)
  /\ WF_vars(~bad /\ ParamThreadRecvProc)
  /\ WF_vars(~bad /\ ParamThreadSendProc)
  /\ \A s \in Sockets : WF_vars(~bad /\ ProcessClient(s))

FairSpec == Spec /\ Fairness
-----------------------------------------------------------------------------
(***************************************************************************)
(* Safety.                                                                 *)
(***************************************************************************)

(* SendToClient (TcpServer.h: "send data to the specified client") puts on *)
(* a socket only what is meant for its client: its replies and the         *)
(* question for its own function list.                                     *)
RoutedToClient ==
  \A s \in Sockets : \A i \in DOMAIN sent[s] : sent[s][i].id[1] = s

(* A packet waiting in the queues of a fully added entry belongs to the    *)
(* socket of that entry.                                                   *)
QueueHoldsOwn ==
  \A i \in 1 .. Len(remote) :
    /\ i <= Len(recvQ) => \A j \in DOMAIN recvQ[i] : recvQ[i][j].id[1] = remote[i].sock
    /\ i <= Len(sendQ) => \A j \in DOMAIN sendQ[i] : sendQ[i][j].id[1] = remote[i].sock

(* However threads interleave, connect and disconnect, the five parallel   *)
(* vectors have the same length when no socket is being added or removed.  *)
Settled ==
  /\ accPc \in {"accept", "pushSocket", "askFunList", "wait", "start"}
  /\ \A s \in Sockets : cliPc[s] \notin {"delRecvQ", "delSendQ", "delLockRecv", "delLockSend"}

LengthsAgree ==
  Settled =>
    /\ Len(recvQ) = Len(remote) /\ Len(sendQ) = Len(remote)
    /\ nLockRecv = Len(remote) /\ nLockSend = Len(remote)

(* No request is answered twice, whatever is lost or misrouted. *)
ReplyOnce ==
  \A s, t \in Sockets : \A i \in DOMAIN sent[s], j \in DOMAIN sent[t] :
    /\ sent[s][i].kind = "reply" /\ sent[t][j].kind = "reply"
    /\ sent[s][i].id = sent[t][j].id
    => s = t /\ i = j

(* The replies a client receives come in the order of its requests, also   *)
(* when a full queue has dropped some of them.                             *)
RepliesInOrder ==
  \A s \in Sockets : \A i, j \in DOMAIN sent[s] :
    /\ i < j /\ sent[s][i].kind = "reply" /\ sent[s][j].kind = "reply"
    => sent[s][i].id[2] < sent[s][j].id[2]

(* A reply returns the outputs of the request it answers and of no other:  *)
(* paramsOUT starts empty for every packet as long as a pass has only one. *)
ReplyReturnsOwnOutputs ==
  \A s \in Sockets : \A i \in DOMAIN sent[s] :
    sent[s][i].kind = "reply" => sent[s][i].out = {sent[s][i].id}

(* The list UpdataRemoteFuncList stores ("parse the function list") is     *)
(* what that client announced and nothing else. The code does not keep     *)
(* this: paramsIN lives as long as a pass over all sockets.                *)
FunListIsAnnounced ==
  \A i \in 1 .. Len(remote) : remote[i].funcs \subseteq {<<remote[i].sock, 0>>}

(* No vector is indexed past its end, which is what the range check in     *)
(* GetPacketDataSend is there for. The code does not keep this: a socket   *)
(* is published before its queues and critical sections exist.             *)
IndexInRange == ~bad

(***************************************************************************)
(* Action properties.                                                      *)
(***************************************************************************)

(* While AddSocketSource waits for the function list it holds the lock     *)
(* that UpdataRemoteFuncList needs: as long as no client has sent a        *)
(* request, whose execution leaves that lock for another thread, no list   *)
(* can arrive during the wait and no entry come or go.                     *)
NoListDuringWait ==
  [][accPc = "wait" /\ accPc' = "wait" /\ (\A s \in Sockets : issued[s] = 0)
       => UNCHANGED remote]_vars

(* A client's disconnect removes the entry of that client and no other.    *)
(* The code does not keep this: an index is used after the lock it was     *)
(* found under is released.                                                *)
DisconnectRemovesOwn ==
  [][\A s \in Sockets : DelSocket(s) /\ ~bad' => remote[cliIdx[s]].sock = s]_vars

(***************************************************************************)
(* What the server promises its clients.                                   *)
(***************************************************************************)

(* What a packet with the server stands for. The reply that is still to be *)
(* sent stands for the call it answers; a question asks the client.        *)
Meaning(p) == [kind |-> IF p.kind = "reply" THEN "req" ELSE p.kind, id |-> p.id]
MeaningOf(packets) == {Meaning(p) : p \in {q \in packets : q.kind \notin {"ask", "none"}}}

PacketsIn(queues) == UNION {Range(queues[i]) : i \in DOMAIN queues}
InHand == {cliPkt[s] : s \in Sockets} \cup {rxPkt, txPkt}
WithServer == PacketsIn(wire) \cup InHand \cup PacketsIn(recvQ) \cup PacketsIn(sendQ)
AnsweredTo(s) == {p.id : p \in {q \in Range(sent[s]) : q.kind = "reply"}}

Service ==
  INSTANCE OrderedService WITH
    Clients <- Sockets, Calls <- 1 .. MaxRequests,
    pending <- MeaningOf(WithServer), answered <- [s \in Sockets |-> AnsweredTo(s)]

(* Between the threads, the queues and their bound, the server serves each *)
(* client in order: a call is answered to the client that sent it, once,   *)
(* before its later calls, or is lost to something that client sent later. *)
ServesInOrder == Service!Spec

(***************************************************************************)
(* Liveness, under fair scheduling.                                        *)
(***************************************************************************)

(* A client that stays connected gets its function list registered, unless *)
(* a request has left m_lockSocketSource so that nobody can enter it.      *)
Listed(s) == \E i \in 1 .. Len(remote) : remote[i].sock = s /\ <<s, 0>> \in remote[i].funcs
FunListLearned ==
  \A s \in Sockets : (s \in open) ~> (bad \/ lockSource = "broken" \/ Listed(s))

(* A full queue drops its oldest packet, never the one being pushed: the   *)
(* request a client sends last, if it names a function, is answered,       *)
(* whatever went before it, unless a request has left m_lockSocketSource   *)
(* so that nobody can enter it.                                            *)
Answered(id) ==
  \E i \in DOMAIN sent[id[1]] : sent[id[1]][i].kind = "reply" /\ sent[id[1]][i].id = id
SentLast(s) ==
  \E i \in DOMAIN wire[s] : wire[s][i].kind = "req" /\ wire[s][i].id = <<s, MaxRequests>>
LastRequestAnswered ==
  \A s \in Sockets :
    SentLast(s) ~> (bad \/ lockSource = "broken" \/ Answered(<<s, MaxRequests>>))
=============================================================================
