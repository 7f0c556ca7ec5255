# Verification of VisionServerApp

TLA+ models of VisionServerApp, its concurrent core and the components around it,
checked with TLC, and theorems about them proved with TLAPS. VisionServerApp is a Windows service that
drives industrial cameras and IO boards and offers its functions to other programs
over a small RPC protocol on TCP. Paths below are relative to `src/VisionServerApp/`.

How to run: `tlc -config Log.cfg MCLog` for a run (the module of each is in the
table of runs), `tlapm MsvLog_proofs.tla` for the proofs of a component. Each module
says in comments which function an operator stands for, and `PROJECT.json` maps
definitions to source lines.

## 1. The system

| Component | State | Operations | Talks to |
|---|---|---|---|
| RPC, server side (`MZ_ClientControl/CMsvServerComm`, `TcpServer`) | `m_vecSocketRemote` (socket, port names, functions of each connection); four vectors parallel to it: receive queues, send queues, and a critical section for each of those; `m_lockSocketSource` | accept and register a client, receive, parse and queue packets, execute a request, queue and send a reply, learn a client's function list, remove a client; start and stop | one accept thread, one receive thread per connection, one thread that handles packets and one that sends them |
| RPC, calls (`DoActionRemoteFun`, return queue) | `m_vecReturnDataRecv`, at most 100 packets, shared by all callers | call a function of the peer and poll for its reply until a timeout | application threads; the peer program |
| Packet framing (`DispatchParamData`) | one static buffer and offset for all connections | append what `recv` returned, cut out complete packets | receive threads |
| Packet encoding (`PacketHead.h`) | none | pack and unpack heads, parameters, function lists | everything above |
| RPC, client side (`TcpClient`) | socket, thread handle, flags | connect, receive, disconnect, with callbacks into the registry | `CMsvServerComm` |
| Service (`MZ_VisionServerApp`) | service status, running flag, exit event, kernel object | install, start, the control handler, stop | the service control manager; the kernel |
| Image queues (`CMainProcess`) | a bounded deque of images per camera | push, get, length | processing threads (empty bodies in this code) |
| Log (`MZ_Log`) | per log: queue of at most 1990 lines, running flag, thread, file; shared: instance count, pool of buffers (a private heap and an idle list) | create, add a line, write, delete | every other component |
| Cameras (`MZ_Device`) | open, grabbing and offline flags; the vendor's handle | open, close, start and stop grabbing, callbacks for lost and regained links | vendor SDKs, which call back on their own threads |
| IO boards (`MZ_PCIControl`) | board handles, serial port table, light parameters | open, close, read and write bits, save, reboot | vendor DLLs, serial ports |
| Database (`MZ_ADOConnect`) | connection and record set, each open or not | connect, open a record set, get, set, add, update, close | ADO |
| PLC (`MZ_PLCControl`) | a socket | read holding registers, write one | a Modbus TCP device |

`Demo`, `Demo_algo`, and the sources no project file compiles (`MsvClientComm.cpp`,
`camerastacomm.cpp`, `SocketBase.cpp`, `GlxCamera.cpp`) are left aside.

### What is hard here

* **Parallel vectors without one lock.** A connection is entered into and removed
  from five vectors in five steps, each under its own rule or none; an index is
  found under a lock and used after it is released (`CMsvServerComm.cpp` 697-751).
* **What identifies a connection.** Sockets are compared by their *local* address
  (66-75), which is the server's own address on every accepted socket.
* **A lock left by a thread that never entered it.** Executing a request looks its
  function up in `FindActionFun_Local`, which leaves `m_lockSocketSource` (273) on a path
  that has not entered it (892, 195-206): undefined behaviour, once per request.
* **State shared between connections.** One packet buffer (590), one pair of
  parameter lists per pass of the handling thread (842), one return queue (573).
* **Waiting with a lock held.** `AddSocketSource` sleeps for the function list with
  the recursive lock its caller took, the same one the list needs to be stored.
* **Data taken for a length.** The buffer of packets is read as a head wherever a label
  is found; once connections mix, any four bytes may be the length (636-638).
* **Timeouts.** A reply that comes after its call has given up stays in the queue.
* **Limits.** Every queue drops its oldest element when full, without notice.
* **Lifetimes.** Stop runs while worker threads still use what it deletes; the
  service's stop handler waits for an event that does not exist yet; a log's pool
  goes with its last log; camera callbacks run during open and close.

### What makes each component correct

* Server side: a packet reaches the client it is meant for; requests are executed
  at most once and answered in order, with their own outputs; the vectors agree
  whenever nobody is adding or removing; a client's function list is learned;
  disconnecting removes that client's entry.
* Calls: a call ends; it returns its own reply; no reply is returned twice.
* Framing: the packets that come out are those that went in, whole, in order, for
  every way TCP may cut the stream; no connection disturbs another.
* Log: lines of a thread are written once and in order, loss is of the oldest only,
  no buffer of the pool is forgotten, deleting a log ends.
* Starting and stopping: stop ends; the worker threads live from start to stop and no
  longer; what stop deletes is used while it stops at most, and no other time.
* Service: the control handler returns, and a service that is asked to stop stops.
* Image queue: a FIFO that loses its oldest images only, and deletes what it loses.
* Cameras: every handle of the SDK is the camera's and open; the flags of engine and
  camera agree; a lost camera is opened again and grabs again.
* IO boards: the list of ports and the handles of the library agree; no board is asked
  for a light or a pulse of the two checked types that it cannot give, whatever ints a
  caller passes (any other type goes to the board unchecked).
* Database: a value that was set is in the table before it ceases to be pending.
* PLC: a response belongs to its request.
* Encoding: what is packed is what is unpacked, within the widths of the counts.

The hazards these properties are aimed at are listed, line by line, in
`PROJECT.json`, with the properties that would catch each.

## 2. The modules

| Module | Models |
|---|---|
| `BoundedQueues` | the one push-and-drop-oldest, and the pop, that packet queues, return queue and log queues share |
| `LossyFifo` | abstract specification of such a queue: a FIFO that may lose its oldest elements when one is put, never the new one |
| `OrderedService` | abstract specification of a server with bounded queues: a client's calls are answered to it, once, oldest first, or lost to something it sent later |
| `MsvServerComm`, `MCServerComm` | the server side: registry, vectors, every thread |
| `RemoteCall`, `MCRemoteCall` | `DoActionRemoteFun`, the return queue and the peer |
| `PacketStream`, `MCPacketStream` | `DispatchParamData` on a byte stream |
| `MsvLog`, `MCLog` | logs, their threads and the pool |
| `CommLifecycle` | starting and stopping the RPC as a server or a client, and the threads that live through it |
| `Camera` | the camera library: engine, both makes of camera, the SDK's thread that reconnects |
| `IOBoard` | serial ports, PCIe cards and GPIO |
| `Database` | connection, record set, a field being read and edited |
| `ServiceControl` | the service: main thread and control handler, the thread of `ServiceMain`, the manager |
| `ModbusClient` | the PLC client and a PLC |
| `ImageQueue` | one queue of `CMainProcess` |
| `FunctionList` | function tables, the packets that carry them and the arguments of calls |
| `MCStation` | the last seven in one run: a behaviour is one component's, the others rest |
| `*_proofs` | theorems and lemmas of the module they are named after; `MsvServerComm_proofs` has the types and the routing of the server side, `MsvServerCommQueues_proofs` what concerns lengths, order and outputs, and `OrderedService`; `Station_proofs` is about the seven modules of `MCStation` |

How they fit: `MsvServerComm` works with whole packets on a socket; `PacketStream`
shows what that takes (a connection that is alone) and that more connections mix
their bytes. `RemoteCall` sees the worker threads of both programs only as a channel
that executes requests in order and may lose some; its push and the queues' bounds
are those of `BoundedQueues`. `RemoteCall`, `MsvLog` and `ImageQueue` each implement
`LossyFifo`, and `MsvServerComm` implements `OrderedService`. `CommLifecycle` is about when the threads and objects of `MsvServerComm`
exist: adding and removing a connection, split into its pushes and erases there, is
one step here, and what a connection carries is left to it. `FunctionList` opens the
packets that `MsvServerComm` treats as wholes. Cameras, boards, database, service and
PLC client call neither each other nor the RPC in this repository (the programs that
combine them are not part of it), which is why `MCStation` puts them side by side.

### MsvServerComm

A step is what a thread does between two points where another may interfere: taking
or releasing a lock, a blocking call, or one change of a shared vector.

| Part of the model | Code |
|---|---|
| `remote`, `recvQ`, `sendQ`, `nLockRecv`, `nLockSend` | `m_vecSocketRemote`, `m_vecPacetDataRecv`, `m_vecPacetDataSend`, and the lengths of the two vectors of critical sections |
| `accPc`, `AcceptThread` | `AcceptThread`, `OnConnectServer`, `AddSocketSource`: one action for each `push_back`, the request for the function list, the wait with the lock, the start of the receive thread |
| `cliPc[s]`, `cliIdx[s]`, `ProcessClient(s)` | the receive thread of a connection: `recv`, `PushPacketDataRecv` in its two steps (find the index, push with it), and on disconnect `DelSocketSource` erase by erase, then `closesocket` |
| `rxPc` ..., `ParamThreadRecvProc` | walk the registry; find, pop, parse, execute, queue the reply; or store a function list |
| `txPc` ..., `ParamThreadSendProc` | walk the registry; find, pop, send |
| `wire`, `sent`, `open`, `fin`, `issued` | the connections: what a client has sent and the server has not received; what the server has sent |

Decisions. An index past the end of a vector is undefined behaviour: `bad` is set
and nothing more happens, so that no property says anything of what follows.
A single erase or push is atomic although the code does not lock all of them; races
inside `std::vector` are not modelled. The critical section of one queue is never
held across a step and is not a variable; entering one that is deleted and not yet erased
is not told apart. `m_lockSocketSource` is a variable, as it is held over the wait:
`free`, `held` by the accept thread, or `broken`; what other threads do under it, one
look-up or one change, is one step. Executing a request includes `LeaveUnowned`, the
`LeaveCriticalSection` of `FindActionFun_Local` by a thread that has not entered. What
that does is undefined, and a choice: nothing; no thread can enter the lock any more; the lock is
taken from the accept thread in its sleep, whose own leave is then the unowned one; or it is
taken from a thread that is changing the vector, and another meets it half changed
(`bad`). Asking for the length of the registry and
then for an element of it is one step. A client answers the question for its function
list as soon as it has been sent. A request that names no registered function gets no
reply, as in the code. What the handling thread has parsed stays in its parameter
lists for the rest of the pass. Addresses are a constant, `LocalAddr`: `OneAddr` is
the usual deployment, where every client dials one address of the server, `OwnAddr`
the one where each client reaches it through an interface of its own.

`Service` maps this state to `OrderedService`. Pending is what the packets mean that are with the
server, on the wire, in a queue or in a thread's hands: a request, or the reply to it that is still to be
sent, is a call; a list is a list; the question for the list is nothing. Answered are the
calls whose reply is in `sent`. Most steps of the program move a packet and are none of the
service. Its steps are `ClientSend` (`Send`), `TxSendToClient` (`Answer`, or `SendList` by the client that
is asked), `RxPop` of what needs no answer (`Discharge`), and a push to a full queue (`Lose`).

### RemoteCall

One action for the call up to its loop (look up the connection, queue the request),
one for each test of the time, one for `GetReturnData`. A caller's clock is the number
of its polls: it may find its time over at any poll and has after `MaxPolls`. A packet
carries nothing that tells which call it answers; the identity in the model is a
history variable the actions never read. The peer may leave any request unanswered.

### PacketStream

A byte is its value (the two of the label, a length, anything else) with the numbers it
may be read as where the code expects a length: its own if it is one, any of `Strange` if it is not,
as `DispatchParamData` takes whatever lies there. Behind a head that is cut off lie old bytes
of the memory, read the same way. A negative length is a `new` of a negative size, which throws
in a thread that catches nothing: `thrown`, and the program is over. And, for the properties alone, the connection, packet and place it came from. A
body holds any values, those of a label among them. `Recv` takes any number of bytes that are there, and
`Dispatch` is the loop that follows: drop up to the first label, stop if the packet
is incomplete by the length it reads, cut one out, go on. Calls for different connections follow each other
in the model; in the code they may also overlap. Growing the buffer is left out.

### MsvLog

`AddLog` is split where other threads can come between: the test of the instance
count, the allocation (one lock), the push (another lock). `ThreadWriteProc` has the
test of the flag and the pass under the lock. Of the pool only the numbers of idle and
allocated buffers are kept. Logs are created and deleted by one thread (`Owner`), as
by `Mz_GetInstance` in the constructors the service's main thread runs; `StartDelete` asks
that no thread is inside `AddLog` of that log, which is the caller's duty. What the
code does past that is in the model: a log over the limit stays uninitialised and
touching it, or using the pool after the last counted log is gone, is `bad`; with exactly as
many logs open as there may be nobody can add a line (`<` at `MsvLog.cpp` 177); the
lines queued when a log is deleted are not written.

### CommLifecycle

`app` is where the program's own thread is: `InitSDK`, `StartWork` (flag, `InitSocks`,
threads), `StopWork` (flag, `ReleaseSocks`, the two waits, `DelAllSocketSource`),
`FreeSDK`. `object[o]` is a `CAsyncTCPServer` or `CAsyncTCPClient`, one for each start,
and `accepting[o]`, `reading[o]` its detached threads, for which nobody waits. What the
code does and a tidy program would not is in the model: a failing `InitSocks` leaves
the flag set; `Disconnect` tells its callback that it connected; both the owner and the
reading thread may disconnect and clean Winsock up; `DelAllSocketSource` keeps the queues.
`ReleaseSocks` deletes the object and then sets `Socketsvr` to NULL: two steps, between which
the send thread may read the pointer. Using a deleted object may end the process (`crashed`) or pass unnoticed.
A received request may leave the registry's lock so that nobody can enter it
(`lockBroken`, `RecvRequest`); who needs it then, a connection that comes or goes or
`StopWork`, waits for good.
An object has one connection at a time; one thread uses the SDK.

### Camera

`cam` has the fields of `CMvCamera` or `IMvCamera` that decide something (handle,
device info there or not, `m_bOpenDevice`, `m_bStartGrabbing`), `sdk` the handles that
live, are open, grab and deliver. The device's answer to a call is chosen among what
its state (`up`) allows. `ReconnectDevice` takes three steps, close, open in a loop,
start again, between which the program's calls come. Creating a handle and opening the device
is one step, and succeeds whenever the device is up: its other failures are left out. The callbacks of the other make
close the camera and go on with a handle NULL, as the code does. One parameter stands
for all; a text that could not be read is `Unread`, as is the buffer of a frame that was
given back. Opening and deleting wait for a reconnection to end, an assumption.

### IOBoard, Database, ServiceControl

`IOBoard`: a call that finds the port open is `OnPort`; times are ints, taken modulo
`WordSize` where the code converts them. `SaveParam` and `Reboot` of a port that is not
open end the process (`boardDown`), the one outcome that can be told apart. The value
`sent` last is what the vendor's library was asked for. An output has one of two types
that `CheckOutputParam` knows, or `other`, for which its `if` and `else if` check nothing.
`Database`: ADO caches a record and keeps an edit pending until `Update`; the server may
be away, and another client may change the record, which refuses the update. A value that
is not NULL is read from its variant as it is (`MsvAdo.cpp` 216, 258, 298, 339: the type of the
variant is not looked at, nor in the model).
`ServiceControl`: `main` and `svc` are the two threads; `status` is the one record both
fill in, `reported` what the manager was told.

### ModbusClient, ImageQueue, FunctionList

`ModbusClient` builds both frames byte by byte from the place of the unit on, since the
function code lands on it; the PLC reads them as the protocol says.
`ImageQueue`: every function holds the lock of the queue throughout, so each is a step;
the images that are alive are counted with it.
`FunctionList`: a packet is its two counts, modulo `CountMod`, and its cells. The list of
functions is five values for each, and is parsed by the same arithmetic as in the code. A call
looks its function up under the address of the connection, as a client does; the lock
that a look-up leaves is part of `MsvServerComm`.

## 3. The runs

| Run | Module | Instance | Distinct states |
|---|---|---|---|
| `CommStable` | `MCServerComm` | 2 clients that stay, own addresses, one asks once, queues of 2 | 70,444 |
| `CommOneClient` | `MCServerComm` | 1 client, 3 requests of both kinds, queues of 2 | 50,236 |
| `CommLeave` | `MCServerComm` | 2 clients on one address, one leaves, the other asks, queues of 1 | 2,134,192 |
| `RemoteCall` | `MCRemoteCall` | one thread with up to 4 calls, one with 1, queues of 2, 1 poll | 100,755 |
| `Stream` | `MCPacketStream` | 2 connections, 2 packets each, with and without data that looks like a label, pieces of any length up to 8, data read as -1 or 4 where a length is expected | 2,017,598 |
| `Lifecycle` | `CommLifecycle` | server or client, 2 starts, any number of `InitSDK` and `FreeSDK` | 744,145 |
| `Station` | `MCStation` | 2 camera handles of both makes; 2 ports, 2 port handles, 1 card; a table of 2 records; the service; 4 registers; queues of 3 images, 5 images; 5 functions, counts modulo 16 | 133,281 |
| `Log` | `MCLog` | 3 logs, at most 2 open, 2 threads, queues of 2, an idle list of 1, a heap of 3 buffers | 203,457 |

**CommStable** shows, where clients do not share an address and stay connected:
`RoutedToClient` (a packet is sent to its client, and to no other, through
all interleavings of accepting the second client with the first one's traffic),
`NoListDuringWait` (as long as no request has been sent, the wait of the accept thread cannot
succeed: the lock it holds is the one the list needs) and `FunListLearned` (the list is stored all
the same, later, unless an executed request has left the lock broken).

**CommOneClient** lets requests overflow the queues: `TypeOK` (bounds included),
`RepliesInOrder`, `ReplyReturnsOwnOutputs`, `ServesInOrder`, and `LastRequestAnswered`: a full queue
never costs the newest request, and only an earlier one that left the lock broken can. `ServesInOrder` is the specification `OrderedService` as a
property: it says where a call goes, not only what comes of it. A request for a function that exists
leaves the server by its reply, which is sent when no older call of the client is left, or by being pushed
out of a full queue by something the same client sent later, and in no other way. A reply for nobody, a
request dropped on the way with no later one behind it, or answered after a later one, is a step the service
does not have. It promises nothing of a client that leaves, whose entry may take another's with it.

**CommLeave** has a disconnect interleaved with an accept and requests, under the
addresses that get confused: `LengthsAgree` and `ReplyOnce` hold whatever entry is removed.

**RemoteCall**: `ReplyTakenOnce`; `SkewBounded`, that a caller who is alone gets replies
late by no more than its earlier timeouts, hence its own until the first of them;
`RefinesLossyFifo`; `CallEnds`.

**Stream**: `Framed` (whole packets in order, and no data taken for a length) and
`NothingStuck` for a connection that is alone; for any number of
them `NoByteTwice`, that no byte is in two packets that were pushed, or in one and still
in the buffer.

**Log**: `BuffersConserved` (allocated = idle + queued + in the hands of a thread + left
behind by deleted logs; together with the test in `BufferLeft` this means that a line
is dropped for want of a buffer only when the heap is smaller than queues and threads
can fill, or logs were deleted with lines in them), `InOrderOfThread`,
`LogIsLossyFifo`, `QueueDrains`, `DeleteEnds`.

**Lifecycle**: `WorkersMatchStart` (a worker thread never runs without an SDK or beside
one of the next start, and `Socketsvr` points to what was deleted only between two
statements of `ReleaseSocks`),
`DanglingOnlyWhileStopping` (the send thread, which holds the server or client outside
any lock, holds a deleted one from that delete until `StopWork` has waited for it, and at no other time),
`StopReturns` (unless a request has left the registry's lock broken), and in `LifeTypeOK` that a server never stops Winsock under itself.
A client does: two disconnects clean up twice.

**Station**, for each component from its own initial state: `HandlesAccounted`,
`FlagsAgree`, `Reconnects` (cameras); `PortsAccounted`, `CheckedOutputPossible` (boards);
`EditKeptUntilStored` (database); `StopHandled` (service); `ImageQueueIsLossyFifo`;
`ListLearned`, `ArgumentsIntact` (encoding: what is learned of a table too long to be
counted is a beginning of it); and `StationTypeOK`, the types of all of them, where
those of the PLC say that no request is ever answered with the function it asked
for, and those of the image queue that nothing in it has been deleted.

Runs that find a counterexample, each for something a comment in the code says:

| Run | Property | What happens |
|---|---|---|
| `BugSharedAddr` | `RoutedToClient` | two clients on one server address: every lookup finds the first entry, whose client gets the packets of both |
| `BugForeignReply` | `ReplyIsOwn` | two threads call at once, one returns the other's reply |
| `BugGrabbing` | `GrabsAgain` | `ReconnectDevice` opens a camera again and calls `StartGrabbing`, which returns at once as its flag is still set: no frames |
| `BugStop` | `StopEnds` | a stop that comes while the start is pending: the start sets state and flag again, the service runs on |

Four more definitions state what the code does not keep; no configuration asks for
them, and adding one to a configuration of its module as named shows a counterexample:
`DisconnectRemovesOwn` (`MsvServerComm`, three clients of which two leave at once: the second
erase uses an index the first has shifted), `IndexInRange` (`MsvServerComm`, two clients:
the sending thread enters a critical section of a vector that has not grown yet),
`FunListIsAnnounced` (`MsvServerComm`, two clients: a list is stored with parameters of
another client's packet, parsed earlier in the pass), `OwnBytes` (`PacketStream`, two
connections: a packet cut by TCP is completed with bytes of the other). Where the code does
keep the first and the third is a theorem: `LoneLeaverRemovesOwn` and `ListIsAnnounced`.

### Bounds, and why they are enough

* Two connections are what the routing, registry and framing hazards need: each is about one
  connection disturbing another. How many may leave at once is unbounded in theorem
  `LengthsCorrect`; the run has one leaver because two exceed what can be enumerated.
* Queues of 1 or 2 elements are full, empty and in between within two or three packets,
  which is every case the code distinguishes.
* Three requests against queues of two make a full receive queue and a full send queue
  reachable; four calls against one poll reach a return queue that holds replies of
  two calls that gave up.
* Packets have a head of three bytes (two of the label, the length) and no data, or two bytes
  that look like a label. Pieces of up to `MaxChunk` = 8 bytes end anywhere in a label,
  a head or the data, and hold one packet with a part of the next. Data is read as a length of -1 or 4: negative, which
throws, and longer than any body, which takes bytes of the packets that follow.
* Two starts have a thread of the first meet the second, which is as far as anything
  the threads of one start touch reaches; `InitSDK` and `FreeSDK` come any number of times.
* Two handles of each kind tell a handle that was destroyed and given out again from
  another. Counts modulo 16 wrap at the fourth of five functions, as modulo 256 at the
  52nd. Times are -2, 0, 1, 2 and 3 with a limit of 2: negative, zero, dividing each
  other, at the limit and over it, in words that hold more than twice the limit. Five images
  pass through a queue that holds three.
* Three logs with a limit of two have one at the limit, one over it, and a log
  created after another was deleted; a heap of three is full while queues are not.

No symmetry is used with liveness properties. `CHECK_DEADLOCK FALSE` is given where
the system may stop because clients, callers or lines are bounded: calls, streams, logs;
on the server side because a request may leave the registry's lock so that every thread
waits for it; in `Lifecycle` and `Station` because starts and images are bounded and a process that
crashed does nothing more.

### Fairness

Weak fairness of every thread of the program, and of nothing else: Windows schedules each runnable
thread, every loop polls and sleeps, and a thread that waits for a lock gets it, as no
holder waits forever (`AddSocketSource` sleeps a bounded time), unless the lock is `broken`: then it is
not enabled, and the properties say so. Clients need not send,
connect or disconnect; peers need not answer; nobody has to call, and nobody has to
add a line or delete a log. In `Lifecycle` the steps of `StopWork` and of the two worker
threads are fair, those of the detached threads are not, which `StopReturns` does without: it
is stated of a stop that has begun, and no lock that they take is kept for ever but the one that
a request left broken, which it names. In
`Station` both threads of the service are fair, and the loop of `ReconnectDevice`; device,
network, manager and callers are not. In `Log`, whoever *is* deleting a log has promised to
wait for its thread, so `EndDelete` is fair.

## 4. The theorems

| Theorem | Module | Says |
|---|---|---|
| `TypeCorrect` | `MsvServerComm_proofs` | `TypeOK`, with the bound on all packet queues, for any clients, addresses and lengths |
| `LengthsCorrect` | `MsvServerCommQueues_proofs` | `LengthsAgree` for any number of clients that come and go in any interleaving |
| `NobodyListsDuringWait` | `MsvServerCommQueues_proofs` | `NoListDuringWait`, an action property, for any clients, addresses and lengths: nothing changes the registry during the wait before the first request |
| `RoutedWhenDistinct`, `QueuesOwnWhenDistinct` | `MsvServerComm_proofs` | `RoutedToClient` and `QueueHoldsOwn` for any number of clients, if nobody leaves and local addresses are distinct |
| `AnsweredAtMostOnce` | `MsvServerCommQueues_proofs` | `ReplyOnce` for any clients, addresses and lengths, whoever leaves and whichever entry is erased |
| `AnsweredInOrder` | `MsvServerCommQueues_proofs` | `RepliesInOrder` for any number of clients, if nobody leaves and local addresses are distinct |
| `ServedInOrder` | `MsvServerCommQueues_proofs` | the server implements `OrderedService` for any number of clients, requests and lengths, if nobody leaves and local addresses are distinct |
| `AnsweredWithOwnOutputs` | `MsvServerCommQueues_proofs` | `ReplyReturnsOwnOutputs` for one client, any number of requests and any lengths |
| `ListIsAnnounced` | `MsvServerCommQueues_proofs` | `FunListIsAnnounced` for one client, whatever it asks for and when it leaves |
| `LoneLeaverRemovesOwn` | `MsvServerComm_proofs` | `DisconnectRemovesOwn`, an action property, for any number of clients, if at most one leaves and local addresses are distinct |
| `CallTypeCorrect` | `RemoteCall_proofs` | `TypeOK` for any callers and lengths |
| `ReturnQueueIsLossyFifo` | `RemoteCall_proofs` | the return queue implements `LossyFifo` |
| `RepliesTakenOnce` | `RemoteCall_proofs` | no packet is the result of two calls |
| `SkewIsBounded` | `RemoteCall_proofs` | `SkewBounded` for any callers, number of calls and lengths |
| `StreamTypeCorrect` | `PacketStream_proofs` | `TypeOK`, and that a call leaves less than a head in the buffer or bytes that start with a label, for any connections and data |
| `PacketsAreFramed`, `NothingIsStuck` | `PacketStream_proofs` | `Framed` and `NothingStuck`: a connection that is alone gets out the packets that went in and has no data taken for a length, for any data, whatever it reads as, and every way to cut the stream |
| `BytesAreMoved` | `PacketStream_proofs` | `NoByteTwice` for any number of connections |
| `LogTypeCorrect` | `MsvLog_proofs` | `TypeOK`, with the bounds on queues, instances and pool |
| `NoBufferForgotten` | `MsvLog_proofs` | `BuffersConserved` for any logs, threads and sizes of the pool |
| `LogsAreLossyFifos` | `MsvLog_proofs` | every log implements `LossyFifo`, for any logs, threads and lengths |
| `LinesInOrder` | `MsvLog_proofs` | each file has a thread's lines in order, none twice |
| `LifeTypeCorrect` | `CommLifecycle_proofs` | `LifeTypeOK` for any number of starts |
| `WorkersAlwaysMatchStart` | `CommLifecycle_proofs` | worker threads run from `StartWork` until `StopWork` has waited for them; `Socketsvr` points to a deleted object only until `ReleaseSocks` sets it to NULL |
| `DanglingEndsWithStop` | `CommLifecycle_proofs` | a deleted object is in use by the send thread only from the delete in `StopWork` to the end of its waits |
| `HandlesAlwaysAccounted` | `Station_proofs` | every handle the SDK holds is the camera's, and open |
| `FlagsAlwaysAgree` | `Station_proofs` | the engine's and the camera's flag "grabbing" agree |
| `PortsAlwaysAccounted` | `Station_proofs` | the list of serial ports and the handles of the library are in step |
| `CheckedOutputAlwaysPossible` | `Station_proofs` | lights, and outputs of the two types that are checked, are asked of a board only as it can make them, whatever ints come |
| `ImageQueueLosesOldest` | `Station_proofs` | the image queue's steps are those of `LossyFifo`, or empty it |
| `StationTypesCorrect` | `Station_proofs` | `StationTypeOK`, the types of every component of the station, with what they say of frames, images, tables and the PLC's answers |
| `EditIsKept` | `Station_proofs` | `EditKeptUntilStored`, an action property, for any values, table and failures |
| `ListsAreLearned`, `ArgumentsArrive` | `Station_proofs` | `ListLearned` and `ArgumentsIntact` for any functions, numbers of arguments and width of the counts |

Assumptions are those the modules name: lengths are positive naturals, bounds are
naturals, clients are a finite set and their addresses and kinds of requests functions on it.
None restricts how many threads, clients or logs there are. The theorems on routing,
`AnsweredInOrder` and `ServedInOrder` assume besides that `Leaving` is empty and `OwnAddresses`; `BugSharedAddr`
shows what comes of the first without the latter. `AnsweredWithOwnOutputs` assumes that there
is one socket, as its run does: with two, a reply may carry what the handling thread parsed
for the other client in the same pass of the registry, the lists being cleared once a pass;
`ListIsAnnounced` assumes it for the same reason. `LoneLeaverRemovesOwn` assumes `OwnAddresses` and that
`Leaving` has one element at most: with two leavers the property is false, as section 3 says.
`FrameAssumption` says that the two frames a device may send are the same pixels with their colours in either order, and `ModbusAssumption` that the bytes of
registers include 0, with which they start.
`StreamAssumption` says that bodies are sequences of byte values and that data reads as some ints (`Strange`), `FunctionAssumption` that a
function is a record of a name and four numbers. `CheckedOutputAlwaysPossible` assumes of `Times` that they are ints of the width
that `WordSize` says, in which `MaxTime` is positive.

Arguments. `TypeOK` of the server side is not inductive: that a queue keeps its type
when a thread pushes needs that what the thread has in its hands is a packet and its index at
least 1. `TypeInv` adds, for each step of each thread, what its locals hold there, and that the lock is held only while the accept thread waits.
That it is held whenever that thread waits is not an invariant, as an executed
request leaves it; before the first request it is (`NobodyAsked`, `Idle`: no request anywhere, hence no
unowned leave), which is the invariant of `NobodyListsDuringWait`. `LengthsAgree` says nothing while a
client is being added or removed, so its invariant counts instead: each vector is as
long as the registry, plus the removals that have not reached it yet, minus the
addition that has not. Each erase and push keeps that sum whichever
*index* it hits, which is why the theorem holds though the wrong entry may be removed. The
sums are cardinalities of sets of threads, and the finite-set theorems of the library
carry the proof.

Routing rests on `OwnInv`: an entry never moves while nobody leaves (`EntriesStay`), so an
index found before a lock was released is still the index of the socket it was found for;
with distinct addresses that is the socket looked for. Every queue, packet in hand and packet on the
wire is then the socket's own. That the vectors have equal lengths is not needed.

What `ReplyOnce`, `RepliesInOrder` share is the way of a call: not yet issued, on the wire, in the
hands of its receive thread, in a receive queue, with the handling thread, in a send queue,
with the sending thread, sent: eight `Places`. `Ordered(R)` says that each queue among them is
sorted by `R` and that of two places whatever is further ahead comes first; for this it is enough that a
step moves the calls from the end of one place to the next, or drops some (`NeighboursAhead`, `Moved`). `R` is
"another call" for `ReplyOnce`, and then nothing more is needed, whichever entry a stale index hits; for
`RepliesInOrder` it is "an earlier call if of the same socket", and two queues
must not hold calls of one socket (`AllApart`): that is `OwnInv` again, with an entry in the registry for
each socket at most once (`EntriesOnce`) and each packet in the hands of the thread it belongs to (`HeldOwn`).

`ServedInOrder` has these invariants for its own and three more (`ServeInv`). `Registered`: while nobody leaves, whoever a
thread works for has an entry, so no look-up fails and no packet is dropped for want of a socket. `Sides`: what
clients send and what the server sends share no queue, and hands are empty but where a step says what
is in them. `Quiet`: a client whose thread has not started has no call beyond the wire, so the question for its
list pushes no reply out. Each step of a thread then keeps what the packets mean (`PacketsKept`, `NothingServed`, `Replied`), or
takes one away: for nothing (`Discharged`), by a push to a full queue (`Displaced`), or with its reply
(`ServeTxReply`). Where a call goes, `Places` says that the others of its client are younger than the one sent, and
the one that pushes younger than the one pushed out.

`ReplyReturnsOwnOutputs` needs that a pass over a registry with one entry parses one packet at most
(`OnePerPass`), which `EntriesOnce` gives. So does `ListIsAnnounced`: `ListsInv` adds that only the packet a
client answers the question for its list with is taken for a list, and that lists only move between entries.

`LoneLeaverRemovesOwn` rests on `LeaverInv`: the leaver's index, once found, is its entry's. Of all steps only
an erase moves an entry (`OnlyErasingMoves`), and the only thread that could erase is the leaver's.

`ReplyTakenOnce` looks at results only; to be inductive it needs that a request's
identity is in one place at a time: among the requests, among the replies on their way, in the return
queue, or in one result, and there once (`PlaceInv`). `CallInv` gives the types on which it
rests. For `SkewBounded`, requests and replies on their way, and the return queue, are sorted by number
(`SkewInv`), and what is left there is behind its caller by no more calls than that one has given up (`LeftOver`).

For a connection that is alone, `FrameInv` says that the packets pushed are the first ones sent, and that buffer
and wire together carry the others, one after the other. They start at the boundary of a packet, so the label `Dispatch` looks for is at the front and the length after
it is a real one, read as itself whatever `Strange` holds; data that looks like a label is never where it looks. `NoByteTwice` needs no boundary: whatever is cut out
of a sequence without repetition shares nothing with the rest, and neither does what is joined to it
(`CutDistinct`, `JoinDistinct`), so `ByteInv` holds of any number of connections.

`LogInv` says that a thread inside `AddLog` has a log and a line of its own, so a push
is a `Put` of a real line; `StepOfLog` reduces the steps of the program to three: nothing, a
`Take` with a line written, a `Put`. `OrderInv` strengthens `InOrderOfThread` by the
queue (in order, and after all of the file) and by `Given`: no number in queue or file is
one its thread has yet to use. `PoolInv` counts buffers as a set, of the pairs of a log and a place in its
queue and of the threads that hold one; a push at a full queue frees the oldest as it adds the newest, and a log
that is deleted takes what it queued to those left behind.

`LifeInv` says where `Socketsvr` is set: in an SDK that is idle with the flag set, and in
`StopWork` until it is set to NULL, which is after the delete (`StartInv`). With it a send thread can meet a deleted object
only between that delete and the end of the waits of `StopWork`. The types need more than they state: that Winsock is not cleaned up more
often than started rests on the SDK and a server's start having each started it, and on a server's
connections never disconnecting from two sides (`WinsockInv`, `DisconnectInv`); that
`queues - 1` is a natural, on a socket of the registry having its queues (`RegistryTypeOK`).

`CamInv` adds to the two properties the fields they are about (`ShapeOK`) and that without an engine
there is no handle, so a new engine, which starts without one, forgets none. `OpenKeeps` and
`CloseKeeps` carry every function of both makes and both reconnections. For ports, a name that
`GetSerialComIndexByName` does not find is no port's, and the handle of a new port is not alive, so
not in the list; removing a port shifts the others, whose places are mapped by `old`. An
int that is short as an unsigned int is not negative (`ShortIsPositive`), from which
`CheckedOutputPossible` follows without an invariant. A pending edit (`DbInv`) is that of a record that is there, or of
a new one: `Update` stores its value or leaves it pending. The parsing of a packet is one
function of the place (`Described`), no recursion, so what comes out of a list is compared with the
table function by function; the counts are compared modulo `CountMod`.

`BoundedQueues_proofs` has the lemmas on push, tail, append and removal that all of
this uses.

The types of the station (`StationInv`) hold each for a reason of its component's: a value read from a camera, or a frame, is
one the device had; images are in the queue in the order of their numbers, so the one that is deleted when a
full queue drops it is not in it a second time; a request on its way to the PLC is a frame that its own function has made (`FrameAsked`), with the
function where the protocol has the unit, and for each of the two the PLC's answer fails the test that follows.

Only model-checked: everything temporal under fairness (`FunListLearned`,
`LastRequestAnswered`, `CallEnds`, `QueueDrains`, `DeleteEnds`, `StopReturns`, `Reconnects`,
`StopHandled`), which is out of the prover's reach. Every invariant, every action property and every
refinement that the passing runs check is a theorem as well. `QueueHoldsOwn` is a theorem alone, being the
larger part of the invariant from which `RoutedToClient` is proved.

## 5. Not modelled, and the plan

Nothing is said of wording and layout of messages, of image processing, of what vendor
libraries do inside, of memory exhaustion outside the log's heap, or of races within
one `std::vector` operation. Left out of the components that are modelled in part:

* RPC: the lookups that only read (`GetSocketByIPAndPort` and its likes), the growth of the buffer
  of `DispatchParamData` and races on it, more than one connection of a client's object.
* Packets: the bytes of a value, texts cut at the width of their field, and `sc_mat`.
* Log: the singletons (`GetInstance`, `Mz_GetInstance`, `Mz_Realse`), the file of the day, the text of lines.
* Service: the work of the kernel manager, which is empty in the code; the debug build.
* Images: the processing threads, which are empty in the code.
* Cameras: soft triggers, the sizes of the SDK's buffers, several cameras at once.
* Boards: calls that only read a level or a parameter, and what a call means to the hardware.
* Database: moving in a record set, transactions, parameters and commands, which nobody in the
  repository calls.
* Demos, and sources that no project file compiles.

Of these only the log's singletons and the buffer of `DispatchParamData` keep state that
threads share; they would come next. Next proofs: `OrderedService` for clients that stay while others leave,
which needs a server that keeps indices and entries together; and `CommLifecycle` as an implementation of an
abstract life of its threads.
