------------------------ MODULE CommLifecycle_proofs ------------------------
(***************************************************************************)
(* Theorems about CommLifecycle, for any number of starts: however often   *)
(* the RPC is started and stopped and the SDK freed and made again, and    *)
(* whatever threads of earlier starts live on.                             *)
(***************************************************************************)
EXTENDS CommLifecycle, BoundedQueues_proofs

AppTypeOK ==
  /\ app \in {"none", "idle", "init", "connected", "spawn", "release", "disconnect",
              "delete", "clear", "waitRecv", "waitSend", "delAll"}
  /\ freeing \in BOOLEAN /\ asServer \in BOOLEAN /\ threadRun \in BOOLEAN /\ crashed \in BOOLEAN

ObjectTypeOK ==
  /\ starts \in 0 .. MaxStarts /\ svr \in 0 .. starts /\ opened \subseteq Objects
  /\ object \in [Objects -> {"unborn", "up", "stopped", "deleted"}]

DetachedTypeOK ==
  /\ accepting \in [Objects -> {"none", "accept", "callback", "push"}]
  /\ reading \in [Objects -> {"none", "recv", "data", "del", "close", "callback", "disconnect"}]

WorkerTypeOK ==
  /\ recvThread \in {"none", "loop"} /\ sendThread \in {"none", "top", "pass", "send"}
  /\ sendTo \in 0 .. starts /\ sendIndex \in Nat \ {0}

(* A socket of the registry has its queues: what is taken from them can be. *)
RegistryTypeOK ==
  /\ socks \in Seq(Objects) /\ queues \in Nat /\ Len(socks) <= queues
  /\ lockBroken \in BOOLEAN

(* Only clients disconnect from two sides. *)
DisconnectInv ==
  /\ app \in {"connected", "disconnect"} => ~asServer
  /\ \A o \in Objects : reading[o] \in {"callback", "disconnect"} => ~asServer

(* A server's Start and the SDK have each started Winsock. *)
WinsockInv ==
  /\ wsa \in Nat
  /\ asServer /\ app # "none" => wsa >= 1
  /\ asServer /\ (app = "spawn" \/ (svr # 0 /\ app \in {"idle", "release"})) => wsa >= 2

(* Where Socketsvr is set, and with it everything a start has made. *)
StartInv ==
  /\ app \in {"init", "connected", "spawn"} => threadRun /\ starts # 0
  /\ app \in {"connected", "spawn"} => object[starts] # "deleted"
  /\ svr # 0 => (app = "idle" /\ threadRun) \/ app \in Releasing
  /\ app \in {"disconnect", "delete", "clear"} => svr # 0
  /\ sendThread # "none" => svr # 0 \/ app \in {"waitRecv", "waitSend"}

TypeInv ==
  AppTypeOK /\ ObjectTypeOK /\ DetachedTypeOK /\ WorkerTypeOK /\ RegistryTypeOK

LifeInv ==
  /\ TypeInv /\ DisconnectInv /\ WinsockInv /\ StartInv
  /\ WorkersMatchStart /\ DanglingOnlyWhileStopping

-----------------------------------------------------------------------------
LEMMA KeepRegistry == ASSUME RegistryTypeOK, UNCHANGED registry PROVE RegistryTypeOK'
BY DEF RegistryTypeOK, registry

(* Adding a socket makes room for it, removing one removes its queues. *)
LEMMA AddKeepsRegistry ==
  ASSUME RegistryTypeOK, NEW o \in Objects, AddSocketSource(o) PROVE RegistryTypeOK'
<1>1. socks' \in Seq(Objects) /\ Len(socks') = Len(socks) + 1 /\ Len(socks) \in Nat
  BY AppendProperties, LenProperties DEF AddSocketSource, RegistryTypeOK
<1>2. queues' \in Nat /\ Len(socks') <= queues'
  BY <1>1 DEF AddSocketSource, RegistryTypeOK
<1>. QED  BY <1>1, <1>2 DEF AddSocketSource, RegistryTypeOK

LEMMA DelKeepsRegistry ==
  ASSUME RegistryTypeOK, NEW o, DelSocketSource(o) PROVE RegistryTypeOK'
<1>. DEFINE I == {i \in 1 .. Len(socks) : socks[i] = o /\ o \in opened}
            m == CHOOSE x \in I : \A y \in I : x <= y
<1>1. CASE I = {}
  <2>1. UNCHANGED registry
    BY <1>1 DEF DelSocketSource, SelectInSeq
  <2>. QED  BY <2>1, KeepRegistry
<1>2. CASE I # {}
  <2>1. m \in 1 .. Len(socks)
    <3>1. I \in SUBSET Nat
      BY DEF RegistryTypeOK
    <3>2. \E x \in I : \A y \in I : x <= y
      BY <1>2, <3>1, LeastNatural
    <3>. QED  BY <3>2
  <2>2. socks' = RemoveAt(socks, m) /\ queues' = queues - 1 /\ UNCHANGED lockBroken
    <3>1. SelectInSeq(socks, LAMBDA s : s = o /\ o \in opened) = m
      BY <1>2 DEF SelectInSeq, Min
    <3>. HIDE DEF m
    <3>2. m # 0
      BY <2>1
    <3>. QED  BY <3>1, <3>2 DEF DelSocketSource
  <2>3. socks' \in Seq(Objects) /\ Len(socks') = Len(socks) - 1
    BY <2>1, <2>2, RemoveAtProperties DEF RegistryTypeOK
  <2>4. Len(socks) \in Nat
    BY LenProperties DEF RegistryTypeOK
  <2>. HIDE DEF m
  <2>5. queues' \in Nat /\ Len(socks') <= queues'
    BY <2>1, <2>2, <2>3, <2>4 DEF RegistryTypeOK
  <2>. QED  BY <2>2, <2>3, <2>5 DEF RegistryTypeOK
<1>. QED  BY <1>1, <1>2
-----------------------------------------------------------------------------
(***************************************************************************)
(* Every step keeps LifeInv.                                               *)
(***************************************************************************)
LEMMA StartingKeeps ==
  ASSUME StartsAssumption, LifeInv, Starting PROVE LifeInv'
<1>. USE StartsAssumption DEF LifeInv, TypeInv, AppTypeOK, ObjectTypeOK,
      DetachedTypeOK, WorkerTypeOK, DisconnectInv, WinsockInv, StartInv,
      Releasing, WorkersMatchStart, DanglingOnlyWhileStopping, SendTargetDead, Objects
<1>1. CASE InitSDK
  <2>1. RegistryTypeOK'
    <3>1. socks' \in Seq(Objects) /\ Len(socks') = 0 /\ queues' = 0
      BY <1>1, EmptySeq DEF InitSDK
    <3>2. lockBroken' \in BOOLEAN
      BY <1>1, Zenon DEF InitSDK
    <3>. QED  BY <3>1, <3>2 DEF RegistryTypeOK
  <2>. QED  BY <1>1, <2>1 DEF InitSDK, appVars, objectVars, workerVars
<1>2. CASE StartWork
  <2>1. RegistryTypeOK'
    BY <1>2, KeepRegistry DEF StartWork
  <2>. QED  BY <1>2, <2>1 DEF StartWork, appVars, objectVars, workerVars
<1>3. CASE InitThrows
  <2>1. RegistryTypeOK'
    BY <1>3, KeepRegistry DEF InitThrows, WinsockOfStart
  <2>. QED  BY <1>3, <2>1 DEF InitThrows, WinsockOfStart, appVars, objectVars, workerVars
<1>4. CASE ServerStart
  <2>1. RegistryTypeOK'
    BY <1>4, KeepRegistry DEF ServerStart, WinsockOfStart
  <2>. QED  BY <1>4, <2>1 DEF ServerStart, WinsockOfStart, appVars, objectVars, workerVars
<1>5. CASE ClientConnect
  <2>1. RegistryTypeOK'
    BY <1>5, KeepRegistry DEF ClientConnect, WinsockOfStart
  <2>. QED  BY <1>5, <2>1 DEF ClientConnect, WinsockOfStart, appVars, objectVars, workerVars
<1>6. CASE OnConnectClient
  <2>1. RegistryTypeOK'
    BY <1>6, AddKeepsRegistry DEF OnConnectClient
  <2>. QED  BY <1>6, <2>1 DEF OnConnectClient, appVars, objectVars, workerVars
<1>7. CASE SpawnWorkers
  <2>1. RegistryTypeOK'
    BY <1>7, KeepRegistry DEF SpawnWorkers
  <2>. QED  BY <1>7, <2>1 DEF SpawnWorkers, appVars, objectVars, workerVars
<1>. QED  BY <1>1, <1>2, <1>3, <1>4, <1>5, <1>6, <1>7 DEF Starting

LEMMA StoppingKeeps ==
  ASSUME StartsAssumption, LifeInv, StopWork \/ Stopping PROVE LifeInv'
<1>. USE StartsAssumption DEF LifeInv, TypeInv, AppTypeOK, ObjectTypeOK,
      DetachedTypeOK, WorkerTypeOK, DisconnectInv, WinsockInv, StartInv,
      Releasing, WorkersMatchStart, DanglingOnlyWhileStopping, SendTargetDead, Objects
<1>1. CASE StopWork
  <2>1. RegistryTypeOK'
    BY <1>1, KeepRegistry DEF StopWork, ClearFlag
  <2>. QED  BY <1>1, <2>1 DEF StopWork, ClearFlag, appVars, objectVars, workerVars
<1>2. CASE NothingToRelease
  <2>1. RegistryTypeOK'
    BY <1>2, KeepRegistry DEF NothingToRelease
  <2>. QED  BY <1>2, <2>1 DEF NothingToRelease, appVars, objectVars, workerVars
<1>3. CASE ServerStop
  <2>1. RegistryTypeOK'
    BY <1>3, KeepRegistry DEF ServerStop, Cleaned
  <2>. QED  BY <1>3, <2>1 DEF ServerStop, Cleaned, appVars, objectVars, workerVars
<1>4. CASE ClientDisconnect
  <2>1. RegistryTypeOK'
    <3>1. svr \in Objects
      BY <1>4 DEF ClientDisconnect
    <3>. QED  BY <1>4, <3>1, AddKeepsRegistry, KeepRegistry DEF ClientDisconnect
  <2>. QED  BY <1>4, <2>1 DEF ClientDisconnect, appVars, objectVars, workerVars
<1>5. CASE EndDisconnect
  <2>1. RegistryTypeOK'
    BY <1>5, KeepRegistry DEF EndDisconnect, Cleaned
  <2>. QED  BY <1>5, <2>1 DEF EndDisconnect, Cleaned, appVars, objectVars, workerVars
<1>6. CASE DeleteObject
  <2>1. RegistryTypeOK'
    BY <1>6, KeepRegistry DEF DeleteObject
  <2>. QED  BY <1>6, <2>1 DEF DeleteObject, appVars, objectVars, workerVars
<1>10. CASE ClearSocketsvr
  <2>1. RegistryTypeOK'
    BY <1>10, KeepRegistry DEF ClearSocketsvr
  <2>. QED  BY <1>10, <2>1 DEF ClearSocketsvr, appVars, objectVars, workerVars
<1>7. CASE WaitRecv
  <2>1. RegistryTypeOK'
    BY <1>7, KeepRegistry DEF WaitRecv, WaitFor
  <2>. QED  BY <1>7, <2>1 DEF WaitRecv, WaitFor, appVars, objectVars, workerVars
<1>8. CASE WaitSend
  <2>1. RegistryTypeOK'
    BY <1>8, KeepRegistry DEF WaitSend, WaitFor
  <2>. QED  BY <1>8, <2>1 DEF WaitSend, WaitFor, appVars, objectVars, workerVars
<1>9. CASE DelAllSocketSource
  <2>1. RegistryTypeOK'
    BY <1>9, LenProperties, EmptySeq DEF DelAllSocketSource, Cleaned, RegistryTypeOK
  <2>2. AppTypeOK' /\ ObjectTypeOK' /\ DetachedTypeOK' /\ WorkerTypeOK'
    BY <1>9 DEF DelAllSocketSource, Cleaned, appVars, objectVars, workerVars
  <2>3. DisconnectInv' /\ WinsockInv'
    BY <1>9 DEF DelAllSocketSource, Cleaned, appVars, objectVars, workerVars
  <2>4. StartInv' /\ WorkersMatchStart' /\ DanglingOnlyWhileStopping'
    BY <1>9 DEF DelAllSocketSource, Cleaned, appVars, objectVars, workerVars
  <2>. QED  BY <2>1, <2>2, <2>3, <2>4
<1>. QED  BY <1>1, <1>2, <1>3, <1>4, <1>5, <1>6, <1>7, <1>8, <1>9, <1>10 DEF Stopping

LEMMA WorkersKeep ==
  ASSUME StartsAssumption, LifeInv, ParamThreadRecvProc \/ ParamThreadSendProc PROVE LifeInv'
<1>. USE StartsAssumption DEF LifeInv, TypeInv, AppTypeOK, ObjectTypeOK,
      DetachedTypeOK, WorkerTypeOK, DisconnectInv, WinsockInv, StartInv,
      Releasing, WorkersMatchStart, DanglingOnlyWhileStopping, SendTargetDead, Objects
<1>1. CASE RecvThreadEnds
  <2>1. RegistryTypeOK'
    BY <1>1, KeepRegistry DEF RecvThreadEnds
  <2>. QED  BY <1>1, <2>1 DEF RecvThreadEnds, appVars, objectVars, workerVars
<1>5. CASE RecvRequest
  <2>1. RegistryTypeOK'
    BY <1>5 DEF RecvRequest, RegistryTypeOK
  <2>. QED  BY <1>5, <2>1 DEF RecvRequest, appVars, objectVars, workerVars
<1>2. CASE SendTop
  <2>1. RegistryTypeOK'
    BY <1>2, KeepRegistry DEF SendTop
  <2>. QED  BY <1>2, <2>1 DEF SendTop, appVars, objectVars, workerVars
<1>3. CASE SendPass
  <2>1. RegistryTypeOK'
    BY <1>3, KeepRegistry DEF SendPass
  <2>. QED  BY <1>3, <2>1 DEF SendPass, appVars, objectVars, workerVars
<1>4. CASE SendPacket
  <2>1. RegistryTypeOK'
    BY <1>4, KeepRegistry DEF SendPacket, Used
  <2>2. crashed' \in BOOLEAN
    <3>1. CASE sendTo = 0
      BY <1>4, <3>1 DEF SendPacket
    <3>2. CASE sendTo # 0 /\ SendTargetDead
      BY <1>4, <3>2, Zenon DEF SendPacket, Used
    <3>3. CASE sendTo # 0 /\ ~SendTargetDead
      BY <1>4, <3>3 DEF SendPacket, Used
    <3>. QED  BY <3>1, <3>2, <3>3
  <2>3. AppTypeOK' /\ ObjectTypeOK' /\ DetachedTypeOK' /\ WorkerTypeOK'
    <3>1. /\ UNCHANGED <<app, freeing, asServer, threadRun, starts, svr, object, opened>>
          /\ UNCHANGED <<accepting, reading, recvThread, sendTo>>
          /\ sendThread' = "pass" /\ sendIndex' = sendIndex + 1
      BY <1>4 DEF SendPacket, appVars, objectVars
    <3>. QED  BY <2>2, <3>1
  <2>4. DisconnectInv' /\ WinsockInv'
    BY <1>4 DEF SendPacket, Used, appVars, objectVars, workerVars
  <2>5. StartInv' /\ WorkersMatchStart' /\ DanglingOnlyWhileStopping'
    BY <1>4 DEF SendPacket, Used, appVars, objectVars, workerVars
  <2>. QED  BY <2>1, <2>3, <2>4, <2>5
<1>. QED  BY <1>1, <1>2, <1>3, <1>4, <1>5 DEF ParamThreadRecvProc, ParamThreadSendProc

(* A step of a detached thread that leaves the program's thread, the workers *)
(* and the objects alone.                                                    *)
LEMMA OnlyThreadsKeep ==
  ASSUME LifeInv, UNCHANGED <<appVars, objectVars, workerVars, wsa>>,
         RegistryTypeOK', DetachedTypeOK', crashed' \in BOOLEAN,
         \A o \in Objects : reading'[o] \in {"callback", "disconnect"} => ~asServer
  PROVE  LifeInv'
<1>1. /\ app' = app /\ freeing' = freeing /\ asServer' = asServer /\ threadRun' = threadRun
      /\ starts' = starts /\ svr' = svr /\ object' = object /\ opened' = opened
      /\ recvThread' = recvThread /\ sendThread' = sendThread
      /\ sendTo' = sendTo /\ sendIndex' = sendIndex /\ wsa' = wsa
  BY DEF appVars, objectVars, workerVars
<1>2. AppTypeOK'
  BY <1>1, Zenon DEF LifeInv, TypeInv, AppTypeOK
<1>3. ObjectTypeOK' /\ WorkerTypeOK'
  BY <1>1, Zenon DEF LifeInv, TypeInv, ObjectTypeOK, WorkerTypeOK
<1>4. DisconnectInv'
  BY <1>1 DEF LifeInv, DisconnectInv
<1>5. WinsockInv' /\ StartInv'
  BY <1>1, Zenon DEF LifeInv, WinsockInv, StartInv, Releasing
<1>6. WorkersMatchStart' /\ DanglingOnlyWhileStopping'
  BY <1>1, Zenon DEF LifeInv, Releasing, WorkersMatchStart, DanglingOnlyWhileStopping, SendTargetDead
<1>. QED  BY <1>2, <1>3, <1>4, <1>5, <1>6 DEF LifeInv, TypeInv

LEMMA UsedOK == ASSUME NEW dead, Used(dead) PROVE crashed' \in BOOLEAN
BY Zenon DEF Used

LEMMA DetachedKeep ==
  ASSUME StartsAssumption, LifeInv, NEW o \in Objects, Detached(o) PROVE LifeInv'
<1>. USE StartsAssumption DEF Objects
<1>1. CASE Accept(o)
  <2>. USE DEF LifeInv, TypeInv, AppTypeOK, ObjectTypeOK,
          DetachedTypeOK, WorkerTypeOK, DisconnectInv, WinsockInv, StartInv,
          Releasing, WorkersMatchStart, DanglingOnlyWhileStopping, SendTargetDead
  <2>1. RegistryTypeOK'
    BY <1>1, KeepRegistry DEF Accept
  <2>2. AppTypeOK' /\ ObjectTypeOK' /\ DetachedTypeOK' /\ WorkerTypeOK'
    BY <1>1 DEF Accept, appVars, objectVars, workerVars
  <2>3. DisconnectInv' /\ WinsockInv'
    BY <1>1 DEF Accept, appVars, objectVars, workerVars
  <2>4. StartInv' /\ WorkersMatchStart' /\ DanglingOnlyWhileStopping'
    BY <1>1 DEF Accept, appVars, objectVars, workerVars
  <2>. QED  BY <2>1, <2>2, <2>3, <2>4
<1>2. CASE OnConnectServer(o)
  <2>1. RegistryTypeOK'
    BY <1>2, AddKeepsRegistry DEF OnConnectServer, LifeInv, TypeInv
  <2>2. crashed' \in BOOLEAN
    BY <1>2, UsedOK DEF OnConnectServer
  <2>3. /\ DetachedTypeOK'
        /\ \A p \in Objects : reading'[p] \in {"callback", "disconnect"} => ~asServer
    BY <1>2 DEF OnConnectServer, LifeInv, TypeInv, DetachedTypeOK, DisconnectInv
  <2>. QED  BY <1>2, <2>1, <2>2, <2>3, OnlyThreadsKeep DEF OnConnectServer
<1>3. CASE StartProcessClient(o)
  <2>1. RegistryTypeOK'
    BY <1>3, KeepRegistry DEF StartProcessClient, LifeInv, TypeInv
  <2>2. crashed' \in BOOLEAN
    BY <1>3, UsedOK DEF StartProcessClient
  <2>3. /\ DetachedTypeOK'
        /\ \A p \in Objects : reading'[p] \in {"callback", "disconnect"} => ~asServer
    BY <1>3 DEF StartProcessClient, LifeInv, TypeInv, DetachedTypeOK, DisconnectInv
  <2>. QED  BY <1>3, <2>1, <2>2, <2>3, OnlyThreadsKeep DEF StartProcessClient
<1>4. CASE Receive(o)
  <2>1. RegistryTypeOK'
    BY <1>4, KeepRegistry DEF Receive, LifeInv, TypeInv
  <2>2. crashed' \in BOOLEAN
    BY <1>4, Zenon DEF Receive, LifeInv, TypeInv, AppTypeOK
  <2>3. /\ DetachedTypeOK'
        /\ \A p \in Objects : reading'[p] \in {"callback", "disconnect"} => ~asServer
    BY <1>4 DEF Receive, LifeInv, TypeInv, DetachedTypeOK, DisconnectInv
  <2>. QED  BY <1>4, <2>1, <2>2, <2>3, OnlyThreadsKeep DEF Receive
<1>5. CASE OnReceive(o)
  <2>1. RegistryTypeOK'
    BY <1>5, KeepRegistry DEF OnReceive, LifeInv, TypeInv
  <2>2. crashed' \in BOOLEAN
    BY <1>5, UsedOK DEF OnReceive
  <2>3. /\ DetachedTypeOK'
        /\ \A p \in Objects : reading'[p] \in {"callback", "disconnect"} => ~asServer
    BY <1>5 DEF OnReceive, LifeInv, TypeInv, DetachedTypeOK, DisconnectInv
  <2>. QED  BY <1>5, <2>1, <2>2, <2>3, OnlyThreadsKeep DEF OnReceive
<1>6. CASE PeerCloses(o)
  <2>1. RegistryTypeOK'
    BY <1>6, KeepRegistry DEF PeerCloses, LifeInv, TypeInv
  <2>2. crashed' \in BOOLEAN
    BY <1>6, Zenon DEF PeerCloses, LifeInv, TypeInv, AppTypeOK
  <2>3. /\ DetachedTypeOK'
        /\ \A p \in Objects : reading'[p] \in {"callback", "disconnect"} => ~asServer
    BY <1>6 DEF PeerCloses, LifeInv, TypeInv, DetachedTypeOK, DisconnectInv
  <2>. QED  BY <1>6, <2>1, <2>2, <2>3, OnlyThreadsKeep DEF PeerCloses
<1>7. CASE ReaderEnds(o)
  <2>1. RegistryTypeOK'
    BY <1>7, KeepRegistry DEF ReaderEnds, LifeInv, TypeInv
  <2>2. crashed' \in BOOLEAN
    BY <1>7, UsedOK DEF ReaderEnds
  <2>3. /\ DetachedTypeOK'
        /\ \A p \in Objects : reading'[p] \in {"callback", "disconnect"} => ~asServer
    BY <1>7 DEF ReaderEnds, LifeInv, TypeInv, DetachedTypeOK, DisconnectInv
  <2>. QED  BY <1>7, <2>1, <2>2, <2>3, OnlyThreadsKeep DEF ReaderEnds
<1>8. CASE OnDisconnectServer(o)
  <2>1. RegistryTypeOK'
    BY <1>8, DelKeepsRegistry DEF OnDisconnectServer, LifeInv, TypeInv
  <2>2. crashed' \in BOOLEAN
    BY <1>8, UsedOK DEF OnDisconnectServer
  <2>3. /\ DetachedTypeOK'
        /\ \A p \in Objects : reading'[p] \in {"callback", "disconnect"} => ~asServer
    BY <1>8 DEF OnDisconnectServer, LifeInv, TypeInv, DetachedTypeOK, DisconnectInv
  <2>. QED  BY <1>8, <2>1, <2>2, <2>3, OnlyThreadsKeep DEF OnDisconnectServer
<1>9. CASE CloseClientSocket(o)
  <2>. USE DEF LifeInv, TypeInv, AppTypeOK, ObjectTypeOK,
          DetachedTypeOK, WorkerTypeOK, DisconnectInv, WinsockInv, StartInv,
          Releasing, WorkersMatchStart, DanglingOnlyWhileStopping, SendTargetDead
  <2>1. RegistryTypeOK'
    BY <1>9, KeepRegistry DEF CloseClientSocket, Used
  <2>2. AppTypeOK' /\ ObjectTypeOK' /\ DetachedTypeOK' /\ WorkerTypeOK'
    BY <1>9 DEF CloseClientSocket, Used, appVars, objectVars, workerVars
  <2>3. DisconnectInv' /\ WinsockInv'
    BY <1>9 DEF CloseClientSocket, Used, appVars, objectVars, workerVars
  <2>4. StartInv' /\ WorkersMatchStart' /\ DanglingOnlyWhileStopping'
    BY <1>9 DEF CloseClientSocket, Used, appVars, objectVars, workerVars
  <2>. QED  BY <2>1, <2>2, <2>3, <2>4
<1>10. CASE ReaderDisconnects(o)
  <2>1. RegistryTypeOK'
    BY <1>10, AddKeepsRegistry DEF ReaderDisconnects, LifeInv, TypeInv
  <2>2. crashed' \in BOOLEAN
    BY <1>10, UsedOK DEF ReaderDisconnects
  <2>3. /\ DetachedTypeOK'
        /\ \A p \in Objects : reading'[p] \in {"callback", "disconnect"} => ~asServer
    BY <1>10 DEF ReaderDisconnects, LifeInv, TypeInv, DetachedTypeOK, DisconnectInv
  <2>. QED  BY <1>10, <2>1, <2>2, <2>3, OnlyThreadsKeep DEF ReaderDisconnects
<1>11. CASE ReaderEndsDisconnect(o)
  <2>. USE DEF LifeInv, TypeInv, AppTypeOK, ObjectTypeOK,
          DetachedTypeOK, WorkerTypeOK, DisconnectInv, WinsockInv, StartInv,
          Releasing, WorkersMatchStart, DanglingOnlyWhileStopping, SendTargetDead
  <2>1. RegistryTypeOK'
    BY <1>11, KeepRegistry DEF ReaderEndsDisconnect, Used, Cleaned
  <2>2. AppTypeOK' /\ ObjectTypeOK' /\ DetachedTypeOK' /\ WorkerTypeOK'
    BY <1>11 DEF ReaderEndsDisconnect, Used, Cleaned, appVars, objectVars, workerVars
  <2>3. DisconnectInv' /\ WinsockInv'
    BY <1>11 DEF ReaderEndsDisconnect, Used, Cleaned, appVars, objectVars, workerVars
  <2>4. StartInv' /\ WorkersMatchStart' /\ DanglingOnlyWhileStopping'
    BY <1>11 DEF ReaderEndsDisconnect, Used, Cleaned, appVars, objectVars, workerVars
  <2>. QED  BY <2>1, <2>2, <2>3, <2>4
<1>. QED  BY <1>1, <1>2, <1>3, <1>4, <1>5, <1>6, <1>7, <1>8, <1>9, <1>10, <1>11 DEF Detached
-----------------------------------------------------------------------------
LEMMA InitLifeInv == StartsAssumption /\ LifeInit => LifeInv
<1>. SUFFICES ASSUME StartsAssumption, LifeInit PROVE LifeInv
  OBVIOUS
<1>. USE DEF LifeInit
<1>1. RegistryTypeOK
  <2>1. socks \in Seq(Objects) /\ Len(socks) = 0
    BY EmptySeq
  <2>2. lockBroken \in BOOLEAN
    BY Zenon
  <2>. QED  BY <2>1, <2>2 DEF RegistryTypeOK
<1>2. AppTypeOK
  <2>1. freeing \in BOOLEAN /\ asServer \in BOOLEAN /\ threadRun \in BOOLEAN /\ crashed \in BOOLEAN
    BY Zenon
  <2>. QED  BY <2>1 DEF AppTypeOK
<1>3. DetachedTypeOK /\ WorkerTypeOK
  BY DEF DetachedTypeOK, WorkerTypeOK
<1>4. ObjectTypeOK
  BY DEF StartsAssumption, ObjectTypeOK
<1>5. DisconnectInv /\ WinsockInv /\ StartInv
  BY DEF DisconnectInv, WinsockInv, StartInv, Releasing
<1>6. WorkersMatchStart /\ DanglingOnlyWhileStopping
  BY DEF WorkersMatchStart, DanglingOnlyWhileStopping
<1>. QED  BY <1>1, <1>2, <1>3, <1>4, <1>5, <1>6 DEF LifeInv, TypeInv

LEMMA LifeInvInductive == StartsAssumption /\ LifeInv /\ [LifeNext]_lifeVars => LifeInv'
<1>. SUFFICES ASSUME StartsAssumption, LifeInv, [LifeNext]_lifeVars PROVE LifeInv'
  OBVIOUS
<1>1. CASE LifeNext
  BY <1>1, StartingKeeps, StoppingKeeps, WorkersKeep, DetachedKeep DEF LifeNext
<1>2. CASE UNCHANGED lifeVars
  <2>1. RegistryTypeOK'
    BY <1>2, KeepRegistry DEF LifeInv, TypeInv, lifeVars
  <2>2. AppTypeOK' /\ ObjectTypeOK' /\ DetachedTypeOK' /\ WorkerTypeOK'
    BY <1>2 DEF LifeInv, TypeInv, lifeVars, appVars, objectVars, workerVars,
                AppTypeOK, ObjectTypeOK, DetachedTypeOK, WorkerTypeOK
  <2>3. DisconnectInv' /\ WinsockInv' /\ StartInv'
    BY <1>2 DEF LifeInv, lifeVars, appVars, objectVars, workerVars,
                DisconnectInv, WinsockInv, StartInv, Releasing
  <2>4. WorkersMatchStart' /\ DanglingOnlyWhileStopping'
    BY <1>2 DEF LifeInv, lifeVars, appVars, objectVars, workerVars,
                Releasing, WorkersMatchStart, DanglingOnlyWhileStopping, SendTargetDead
  <2>. QED  BY <2>1, <2>2, <2>3, <2>4 DEF LifeInv, TypeInv
<1>. QED  BY <1>1, <1>2

LEMMA LifeInvariant == LifeSpec => []LifeInv
<1>. QED  BY InitLifeInv, LifeInvInductive, StartsAssumption, PTL DEF LifeSpec

(* Types, sizes of the registry included; and a server's SDK never stops   *)
(* Winsock under itself, however many starts fail and stops follow.        *)
THEOREM LifeTypeCorrect == LifeSpec => []LifeTypeOK
<1>1. LifeInv => LifeTypeOK
  BY DEF LifeInv, TypeInv, AppTypeOK, ObjectTypeOK, DetachedTypeOK, WorkerTypeOK,
         RegistryTypeOK, WinsockInv, LifeTypeOK
<1>. QED  BY <1>1, LifeInvariant, PTL

(* A worker thread never outlives StopWork, meets one of another start or  *)
(* runs without an SDK, and Socketsvr points to a deleted object only      *)
(* between the delete in ReleaseSocks and the assignment that follows it.  *)
THEOREM WorkersAlwaysMatchStart == LifeSpec => []WorkersMatchStart
<1>1. LifeInv => WorkersMatchStart
  BY DEF LifeInv
<1>. QED  BY <1>1, LifeInvariant, PTL

(* What ReleaseSocks deletes under the send thread is used until StopWork  *)
(* has waited for that thread, and never after.                            *)
THEOREM DanglingEndsWithStop == LifeSpec => []DanglingOnlyWhileStopping
<1>1. LifeInv => DanglingOnlyWhileStopping
  BY DEF LifeInv
<1>. QED  BY <1>1, LifeInvariant, PTL
=============================================================================
