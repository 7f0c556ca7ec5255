---------------------------- MODULE CommLifecycle ----------------------------
(***************************************************************************)
(* Starting and stopping the RPC (ClientOperation, CMsvServerComm) and the *)
(* threads that live through it: the program's own, which calls InitSDK,   *)
(* StartWork, StopWork and FreeSDK; the receive and the send thread; and   *)
(* the detached threads of the CAsyncTCPServer or CAsyncTCPClient each     *)
(* StartWork makes, which nobody waits for. What a connection carries is   *)
(* the subject of MsvServerComm; adding and removing one is a step here,   *)
(* and an object has one connection at a time.                             *)
(* Assumed of the caller: one ClientOperation, used by one thread.         *)
(* Using a deleted object may end the process or pass unnoticed; a field   *)
(* read from it may hold anything.                                         *)
(***************************************************************************)
EXTENDS Integers, Sequences, SequencesExt

CONSTANT MaxStarts   \* bound: servers or clients StartWork makes

ASSUME StartsAssumption == MaxStarts \in Nat \ {0}

VARIABLES app,        \* where the program's thread is; "none" without an SDK
          freeing,    \* it stops inside the destructor
          asServer,   \* isActAsServer
          threadRun,  \* m_bThreadRun
          starts,     \* objects made so far
          svr,        \* Socketsvr, 0 for NULL
          object,     \* of each server or client: m_running or m_connected, or deleted
          accepting,  \* where AcceptThread of each server is
          reading,    \* where ProcessClient or ProcessData of each is
          opened,     \* objects whose connection has an open socket
          recvThread, sendThread,
          sendTo,     \* the object the send thread took from Socketsvr
          sendIndex,  \* its place in the registry
          socks,      \* m_vecSocketRemote: the object a socket belongs to
          queues,     \* size of m_vecPacetDataRecv and m_vecPacetDataSend
          lockBroken, \* m_lockSocketSource can no longer be entered
          wsa,        \* WSAStartup without its WSACleanup
          crashed

appVars == <<app, freeing, asServer, threadRun>>
objectVars == <<starts, svr, object, opened>>
workerVars == <<recvThread, sendThread, sendTo, sendIndex>>
registry == <<socks, queues, lockBroken>>
lifeVars == <<appVars, objectVars, accepting, reading, workerVars, registry, wsa, crashed>>

Objects == 1 .. MaxStarts

LifeInit ==
    /\ app = "none" /\ freeing = FALSE /\ asServer \in BOOLEAN /\ threadRun = FALSE
    /\ starts = 0 /\ svr = 0
    /\ object = [o \in Objects |-> "unborn"] /\ opened = {}
    /\ accepting = [o \in Objects |-> "none"] /\ reading = [o \in Objects |-> "none"]
    /\ recvThread = "none" /\ sendThread = "none" /\ sendTo = 0 /\ sendIndex = 1
    /\ socks = << >> /\ queues = 0 /\ lockBroken = FALSE
    /\ wsa = 0 /\ crashed = FALSE

Cleaned == IF wsa = 0 THEN 0 ELSE wsa - 1     \* WSACleanup

(* EnterCriticalSection(&m_lockSocketSource) returns *)
LockEntered == ~lockBroken

(* AddSocketSource and DelSocketSource, which finds no socket that is closed;
   both enter m_lockSocketSource *)
AddSocketSource(o) ==
    /\ LockEntered
    /\ socks' = Append(socks, o) /\ queues' = queues + 1
    /\ UNCHANGED lockBroken
DelSocketSource(o) ==
    LET i == SelectInSeq(socks, LAMBDA s : s = o /\ o \in opened)
    IN  /\ LockEntered
        /\ IF i = 0 THEN UNCHANGED registry
           ELSE socks' = RemoveAt(socks, i) /\ queues' = queues - 1 /\ UNCHANGED lockBroken

(* What is deleted may end the process when it is used *)
Used(dead) == crashed' \in IF dead THEN BOOLEAN ELSE {FALSE}
SDKGone == app = "none"

-----------------------------------------------------------------------------
(* The program's thread *)

(* The constructor makes a new lock and does not set m_bThreadRun *)
InitSDK ==
    /\ app = "none"
    /\ threadRun' \in BOOLEAN
    /\ wsa' = wsa + 1
    /\ app' = "idle"
    /\ socks' = << >> /\ queues' = 0 /\ lockBroken' = FALSE /\ svr' = 0
    /\ UNCHANGED <<freeing, asServer, starts, object, opened, accepting, reading,
                   workerVars, crashed>>

(* Nothing is started again while the flag is set *)
StartWork ==
    /\ app = "idle" /\ ~threadRun /\ starts < MaxStarts
    /\ threadRun' = TRUE
    /\ starts' = starts + 1
    /\ app' = "init"
    /\ UNCHANGED <<freeing, asServer, svr, object, opened, accepting, reading,
                   workerVars, registry, wsa, crashed>>

(* Slip: the library is up already, so Start does not start it *)
WinsockUpAlready == wsa
WinsockOfStart == wsa + 1

(* InitSocks: a server that cannot listen or a client that cannot connect
   throws through StartWork: the flag stays set and no thread is made *)
InitThrows ==
    /\ app = "init"
    /\ wsa' = WinsockOfStart
    /\ app' = "idle"
    /\ UNCHANGED <<freeing, asServer, threadRun, objectVars, accepting, reading,
                   workerVars, registry, crashed>>

ServerStart ==
    /\ app = "init" /\ asServer
    /\ wsa' = WinsockOfStart
    /\ object' = [object EXCEPT ![starts] = "up"]
    /\ accepting' = [accepting EXCEPT ![starts] = "accept"]
    /\ app' = "spawn"
    /\ UNCHANGED <<freeing, asServer, threadRun, starts, svr, opened, reading,
                   workerVars, registry, crashed>>

(* Connect starts ProcessData before it calls the callback *)
ClientConnect ==
    /\ app = "init" /\ ~asServer
    /\ wsa' = WinsockOfStart
    /\ object' = [object EXCEPT ![starts] = "up"]
    /\ opened' = opened \cup {starts}
    /\ reading' = [reading EXCEPT ![starts] = "recv"]
    /\ app' = "connected"
    /\ UNCHANGED <<freeing, asServer, threadRun, starts, svr, accepting,
                   workerVars, registry, crashed>>

OnConnectClient ==
    /\ app = "connected"
    /\ AddSocketSource(starts)
    /\ app' = "spawn"
    /\ UNCHANGED <<freeing, asServer, threadRun, objectVars, accepting, reading,
                   workerVars, wsa, crashed>>

SpawnWorkers ==
    /\ app = "spawn"
    /\ svr' = starts
    /\ recvThread' = "loop" /\ sendThread' = "top"
    /\ app' = "idle"
    /\ UNCHANGED <<freeing, asServer, threadRun, starts, object, opened, accepting,
                   reading, sendTo, sendIndex, registry, wsa, crashed>>

(* Slip: the flag is left for the threads to clear *)
KeepFlag == threadRun
ClearFlag == FALSE

(* StopWork, of the program or of the destructor in FreeSDK *)
StopWork ==
    /\ app = "idle"
    /\ freeing' \in BOOLEAN
    /\ threadRun' = ClearFlag
    /\ app' = IF threadRun THEN "release" ELSE "delAll"
    /\ UNCHANGED <<asServer, objectVars, accepting, reading, workerVars, registry, wsa, crashed>>

(* ReleaseSocks. Stop closes the sockets it knows of, which is not yet that of
   a connection just accepted. *)
NothingToRelease ==
    /\ app = "release" /\ svr = 0
    /\ app' = "waitRecv"
    /\ UNCHANGED <<freeing, asServer, threadRun, objectVars, accepting, reading,
                   workerVars, registry, wsa, crashed>>

ServerStop ==
    /\ app = "release" /\ svr # 0 /\ asServer
    /\ object' = [object EXCEPT ![svr] = "stopped"]
    /\ opened' = IF reading[svr] = "none" THEN opened ELSE opened \ {svr}
    /\ wsa' = Cleaned
    /\ app' = "delete"
    /\ UNCHANGED <<freeing, asServer, threadRun, starts, svr, accepting, reading,
                   workerVars, registry, crashed>>

(* Disconnect tells its callback TRUE, which adds the socket a second time *)
ClientDisconnect ==
    /\ app = "release" /\ svr # 0 /\ ~asServer
    /\ IF object[svr] = "up"
       THEN AddSocketSource(svr) /\ app' = "disconnect"
       ELSE app' = "delete" /\ UNCHANGED registry
    /\ UNCHANGED <<freeing, asServer, threadRun, objectVars, accepting, reading,
                   workerVars, wsa, crashed>>

EndDisconnect ==
    /\ app = "disconnect"
    /\ object' = [object EXCEPT ![svr] = "stopped"]
    /\ opened' = opened \ {svr}
    /\ wsa' = Cleaned
    /\ app' = "delete"
    /\ UNCHANGED <<freeing, asServer, threadRun, starts, svr, accepting, reading,
                   workerVars, registry, crashed>>

(* delete, and then Socketsvr = NULL, which the send thread reads unlocked *)
DeleteObject ==
    /\ app = "delete"
    /\ object' = [object EXCEPT ![svr] = "deleted"]
    /\ app' = "clear"
    /\ UNCHANGED <<freeing, asServer, threadRun, starts, svr, opened, accepting, reading,
                   workerVars, registry, wsa, crashed>>

ClearSocketsvr ==
    /\ app = "clear"
    /\ svr' = 0
    /\ app' = "waitRecv"
    /\ UNCHANGED <<freeing, asServer, threadRun, starts, object, opened, accepting, reading,
                   workerVars, registry, wsa, crashed>>

(* Slip: StopWork goes on without the thread *)
WaitNot(thread) == TRUE
WaitFor(thread) == thread = "none"

WaitRecv ==
    /\ app = "waitRecv" /\ WaitFor(recvThread)
    /\ app' = "waitSend"
    /\ UNCHANGED <<freeing, asServer, threadRun, objectVars, accepting, reading,
                   workerVars, registry, wsa, crashed>>

WaitSend ==
    /\ app = "waitSend" /\ WaitFor(sendThread)
    /\ app' = "delAll"
    /\ UNCHANGED <<freeing, asServer, threadRun, objectVars, accepting, reading,
                   workerVars, registry, wsa, crashed>>

(* DelAllSocketSource empties the queues and keeps them, one for each socket
   there has been; the destructor goes on to WSACleanup *)
DelAllSocketSource ==
    /\ app = "delAll" /\ LockEntered
    /\ socks' = << >>
    /\ app' = IF freeing THEN "none" ELSE "idle"
    /\ wsa' = IF freeing THEN Cleaned ELSE wsa
    /\ freeing' = FALSE
    /\ UNCHANGED <<asServer, threadRun, objectVars, accepting, reading, workerVars,
                   queues, lockBroken, crashed>>

-----------------------------------------------------------------------------
(* The receive thread, and the send thread *)

(* A request that is executed leaves m_lockSocketSource without having entered
   it, which may break it; the reply needs the lock again. A pass may still be
   under way when the flag is cleared. *)
RecvRequest ==
    /\ recvThread = "loop" /\ socks # << >> /\ LockEntered
    /\ lockBroken' = TRUE
    /\ UNCHANGED <<appVars, objectVars, accepting, reading, workerVars, socks, queues,
                   wsa, crashed>>

(* The flag is asked after a pass, which enters the lock for each socket *)
RecvThreadEnds ==
    /\ recvThread = "loop" /\ ~threadRun /\ LockEntered
    /\ recvThread' = "none"
    /\ UNCHANGED <<appVars, objectVars, accepting, reading, sendThread, sendTo, sendIndex,
                   registry, wsa, crashed>>

(* The flag is asked before a pass over the sockets, not within one *)
SendTop ==
    /\ sendThread = "top"
    /\ sendThread' = IF threadRun THEN "pass" ELSE "none"
    /\ sendIndex' = 1
    /\ UNCHANGED <<appVars, objectVars, accepting, reading, recvThread, sendTo,
                   registry, wsa, crashed>>

SendPass ==
    /\ sendThread = "pass" /\ LockEntered
    /\ IF sendIndex > Len(socks)
       THEN sendThread' = "top" /\ UNCHANGED <<sendIndex, sendTo>>
       ELSE \/ sendThread' = "pass" /\ sendIndex' = sendIndex + 1 /\ UNCHANGED sendTo
            \/ sendThread' = "send" /\ sendTo' = svr /\ UNCHANGED sendIndex
    /\ UNCHANGED <<appVars, objectVars, accepting, reading, recvThread,
                   registry, wsa, crashed>>

SendTargetDead == sendTo = 0 \/ object[sendTo] = "deleted"

SendPacket ==
    /\ sendThread = "send"
    /\ IF sendTo = 0 THEN crashed' = TRUE ELSE Used(SendTargetDead)
    /\ sendThread' = "pass" /\ sendIndex' = sendIndex + 1
    /\ UNCHANGED <<appVars, objectVars, accepting, reading, recvThread, sendTo,
                   registry, wsa>>

-----------------------------------------------------------------------------
(* AcceptThread. A deleted server may still look as if it ran. *)

Accept(o) ==
    /\ accepting[o] = "accept"
    /\ \/ /\ object[o] = "up" /\ reading[o] = "none"
          /\ accepting' = [accepting EXCEPT ![o] = "callback"]
          /\ opened' = opened \cup {o}
       \/ /\ object[o] # "up"
          /\ accepting' = [accepting EXCEPT ![o] = "none"]
          /\ UNCHANGED opened
    /\ UNCHANGED <<appVars, starts, svr, object, reading, workerVars, registry, wsa, crashed>>

OnConnectServer(o) ==
    /\ accepting[o] = "callback"
    /\ Used(SDKGone)
    /\ AddSocketSource(o)
    /\ accepting' = [accepting EXCEPT ![o] = "push"]
    /\ UNCHANGED <<appVars, objectVars, reading, workerVars, wsa>>

StartProcessClient(o) ==
    /\ accepting[o] = "push"
    /\ Used(object[o] = "deleted")
    /\ reading' = [reading EXCEPT ![o] = "recv"]
    /\ accepting' = [accepting EXCEPT ![o] = "accept"]
    /\ UNCHANGED <<appVars, objectVars, workerVars, registry, wsa>>

-----------------------------------------------------------------------------
(* ProcessClient and ProcessData *)

Receive(o) ==
    /\ reading[o] = "recv" /\ object[o] = "up"
    /\ reading' = [reading EXCEPT ![o] = "data"]
    /\ UNCHANGED <<appVars, objectVars, accepting, workerVars, registry, wsa, crashed>>

OnReceive(o) ==
    /\ reading[o] = "data"
    /\ Used(SDKGone \/ object[o] = "deleted")
    /\ reading' = [reading EXCEPT ![o] = "recv"]
    /\ UNCHANGED <<appVars, objectVars, accepting, workerVars, registry, wsa>>

(* The peer closes; a server's reader asks its flag after an error, a client's
   reader calls Disconnect, which asks its own *)
PeerCloses(o) ==
    /\ reading[o] = "recv" /\ object[o] = "up"
    /\ reading' = [reading EXCEPT ![o] = IF asServer THEN "del" ELSE "callback"]
    /\ UNCHANGED <<appVars, objectVars, accepting, workerVars, registry, wsa, crashed>>

ReaderEnds(o) ==
    /\ reading[o] = "recv" /\ object[o] \in {"stopped", "deleted"}
    /\ Used(~asServer /\ object[o] = "deleted")
    /\ reading' = [reading EXCEPT ![o] = "none"]
    /\ UNCHANGED <<appVars, objectVars, accepting, workerVars, registry, wsa>>

OnDisconnectServer(o) ==
    /\ reading[o] = "del"
    /\ Used(SDKGone)
    /\ DelSocketSource(o)
    /\ reading' = [reading EXCEPT ![o] = "close"]
    /\ UNCHANGED <<appVars, objectVars, accepting, workerVars, wsa>>

CloseClientSocket(o) ==
    /\ reading[o] = "close"
    /\ Used(object[o] = "deleted")
    /\ opened' = opened \ {o}
    /\ reading' = [reading EXCEPT ![o] = "none"]
    /\ UNCHANGED <<appVars, starts, svr, object, accepting, workerVars, registry, wsa>>

ReaderDisconnects(o) ==
    /\ reading[o] = "callback"
    /\ Used(SDKGone \/ object[o] = "deleted")
    /\ AddSocketSource(o)
    /\ reading' = [reading EXCEPT ![o] = "disconnect"]
    /\ UNCHANGED <<appVars, objectVars, accepting, workerVars, wsa>>

ReaderEndsDisconnect(o) ==
    /\ reading[o] = "disconnect"
    /\ Used(object[o] = "deleted")
    /\ object' = [object EXCEPT ![o] = IF @ = "deleted" THEN @ ELSE "stopped"]
    /\ opened' = opened \ {o}
    /\ wsa' = Cleaned
    /\ reading' = [reading EXCEPT ![o] = "none"]
    /\ UNCHANGED <<appVars, starts, svr, accepting, workerVars, registry>>

-----------------------------------------------------------------------------
Starting ==
    \/ InitSDK \/ StartWork \/ InitThrows \/ ServerStart \/ ClientConnect
    \/ OnConnectClient \/ SpawnWorkers

Stopping ==
    \/ NothingToRelease \/ ServerStop \/ ClientDisconnect \/ EndDisconnect
    \/ DeleteObject \/ ClearSocketsvr \/ WaitRecv \/ WaitSend \/ DelAllSocketSource

ParamThreadRecvProc == RecvRequest \/ RecvThreadEnds

ParamThreadSendProc == SendTop \/ SendPass \/ SendPacket

Detached(o) ==
    \/ Accept(o) \/ OnConnectServer(o) \/ StartProcessClient(o)
    \/ Receive(o) \/ OnReceive(o) \/ PeerCloses(o) \/ ReaderEnds(o)
    \/ OnDisconnectServer(o) \/ CloseClientSocket(o)
    \/ ReaderDisconnects(o) \/ ReaderEndsDisconnect(o)

LifeNext ==
    /\ ~crashed
    /\ \/ Starting \/ StopWork \/ Stopping
       \/ ParamThreadRecvProc \/ ParamThreadSendProc
       \/ \E o \in Objects : Detached(o)

LifeSpec ==
    /\ LifeInit /\ [][LifeNext]_lifeVars
    /\ WF_lifeVars(~crashed /\ Stopping)
    /\ WF_lifeVars(~crashed /\ RecvThreadEnds)
    /\ WF_lifeVars(~crashed /\ ParamThreadSendProc)

-----------------------------------------------------------------------------
(* Types; and as a server the SDK never stops Winsock under itself, whatever
   starts fail and stops follow. *)
LifeTypeOK ==
    /\ app \in {"none", "idle", "init", "connected", "spawn", "release", "disconnect",
                "delete", "clear", "waitRecv", "waitSend", "delAll"}
    /\ freeing \in BOOLEAN /\ asServer \in BOOLEAN /\ threadRun \in BOOLEAN /\ crashed \in BOOLEAN
    /\ starts \in 0 .. MaxStarts /\ svr \in 0 .. starts /\ opened \subseteq Objects
    /\ object \in [Objects -> {"unborn", "up", "stopped", "deleted"}]
    /\ accepting \in [Objects -> {"none", "accept", "callback", "push"}]
    /\ reading \in [Objects -> {"none", "recv", "data", "del", "close", "callback", "disconnect"}]
    /\ recvThread \in {"none", "loop"} /\ sendThread \in {"none", "top", "pass", "send"}
    /\ sendTo \in 0 .. starts /\ sendIndex \in Nat \ {0}
    /\ socks \in Seq(Objects) /\ queues \in Nat /\ lockBroken \in BOOLEAN
    /\ wsa \in Nat
    /\ asServer /\ app # "none" => wsa > 0

(* A worker thread runs from the end of StartWork until StopWork has waited for
   it, so never without an SDK, nor beside one of the next start; and Socketsvr
   points to a deleted object between two statements of ReleaseSocks and at no
   other time. *)
Releasing == {"release", "disconnect", "delete", "clear"}
WorkersMatchStart ==
    /\ recvThread # "none" => app \in Releasing \cup {"idle", "waitRecv"}
    /\ sendThread # "none" => app \in Releasing \cup {"idle", "waitRecv", "waitSend"}
    /\ app = "idle" /\ ~threadRun => recvThread = "none" /\ sendThread = "none"
    /\ svr # 0 /\ app # "clear" => object[svr] # "deleted"

(* The send thread holds the server or client outside any lock. That what it
   holds is deleted happens between the delete in ReleaseSocks and the end of
   the wait for the thread, and at no other time. *)
DanglingOnlyWhileStopping ==
    sendThread = "send" /\ SendTargetDead => app \in {"clear", "waitRecv", "waitSend"}

(* StopWork returns, whatever the connections do, unless the process ends or a
   request has left m_lockSocketSource so that nobody can enter it. *)
StopReturns ==
    app \in {"release", "waitRecv", "waitSend"} ~>
        app \in {"idle", "none"} \/ crashed \/ lockBroken
=============================================================================
