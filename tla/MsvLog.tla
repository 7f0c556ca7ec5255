------------------------------- MODULE MsvLog -------------------------------
(***************************************************************************)
(* CMsvLog: logs with a bounded queue of messages and a thread that writes *)
(* them to a file, and the pool of message buffers all logs share          *)
(* (LogMessageData).  Logs are created and deleted by one thread; any      *)
(* thread adds lines to a log that exists.                                 *)
(*                                                                         *)
(* A step is what a thread does between two releases of a lock: the pool   *)
(* is locked for one allocation or release, a queue for one push or one    *)
(* line written.  Of the pool only the numbers of buffers are kept.  The   *)
(* file of the day and the text of a line are left out.                    *)
(***************************************************************************)
EXTENDS BoundedQueues, FiniteSets

CONSTANTS
  NumLogs,               \* bound: CMsvLog objects, numbered as they are created
  Threads,               \* threads that add lines
  Owner,                 \* the thread that creates and deletes logs
  MAX_LOG_INSTANCE_NUM,  \* 40 in the code
  MAX_VEC_LENGTH,        \* length of the queue of a log (1990 in the code)
  MAX_IDL_DATA,          \* length of the idle queue of the pool (80000)
  HeapBlocks,            \* buffers that fit into s_Heap
  MaxLines               \* bound: lines of each thread, for each

ASSUME LogAssumption ==
  /\ Owner \in Threads /\ NumLogs \in Nat
  /\ MAX_LOG_INSTANCE_NUM \in Nat /\ MAX_VEC_LENGTH \in Nat \ {0}
  /\ MAX_IDL_DATA \in Nat /\ HeapBlocks \in Nat /\ MaxLines \in [Threads -> Nat]

Logs == 1 .. NumLogs
NoLog == 0  \* the thread is not inside AddLog

VARIABLES
  state,      \* of each log; "open" while m_bRunningFlag is set
  useCount,   \* s_Use_Count
  idle,       \* size of s_IDLQue
  allocated,  \* buffers allocated from s_Heap
  queue,      \* m_vecLogMsg of each log
  wrPc,       \* ThreadWriteProc of each log
  file,       \* the lines each log has written
  pc,         \* of each thread that adds lines
  at,         \* the log the thread adds to
  todo,       \* lines it still has to add in this call
  lines,      \* number of the last line of each thread
  lost,       \* history: buffers in the queues of deleted logs
  bad         \* undefined behaviour has happened

pool == <<idle, allocated, lost>>
adder == <<pc, at, todo, lines>>
vars == <<state, useCount, pool, queue, wrPc, file, adder, bad>>

Line == UNION {{t} \X (1 .. MaxLines[t]) : t \in Threads}
LineCounts == {f \in [Threads -> Nat] : \A t \in Threads : f[t] <= MaxLines[t]}

TypeOK ==
  /\ state \in [Logs -> {"none", "open", "unusable", "closing", "closed"}]
  /\ useCount \in 0 .. MAX_LOG_INSTANCE_NUM
  /\ idle \in 0 .. MAX_IDL_DATA + 1
  /\ allocated \in 0 .. HeapBlocks
  /\ queue \in [Logs -> Seq(Line)] /\ \A l \in Logs : Len(queue[l]) <= MAX_VEC_LENGTH
  /\ wrPc \in [Logs -> {"none", "loop", "pass", "ended"}]
  /\ file \in [Logs -> Seq(Line)]
  /\ pc \in [Threads -> {"idle", "check", "alloc", "push"}]
  /\ at \in [Threads -> Logs \cup {NoLog}]
  /\ todo \in [Threads -> 0 .. 2]
  /\ lines \in LineCounts
  /\ lost \in Nat
  /\ bad \in BOOLEAN

Init ==
  /\ state = [l \in Logs |-> "none"]
  /\ useCount = 0
  /\ idle = 0 /\ allocated = 0 /\ lost = 0
  /\ queue = [l \in Logs |-> <<>>]
  /\ wrPc = [l \in Logs |-> "none"]
  /\ file = [l \in Logs |-> <<>>]
  /\ pc = [t \in Threads |-> "idle"]
  /\ at = [t \in Threads |-> NoLog]
  /\ todo = [t \in Threads |-> 0]
  /\ lines = [t \in Threads |-> 0]
  /\ bad = FALSE
-----------------------------------------------------------------------------
(***************************************************************************)
(* The pool.                                                               *)
(***************************************************************************)

(* Threads inside PushLogMsg, with a buffer that is in no queue yet. *)
InHands == {t \in Threads : pc[t] = "push"}

(* A slip of operator delete: the buffer goes neither way. *)
ForgetBuffer == UNCHANGED <<idle, allocated>>

(* LogMessageData's operator delete. *)
FreeBuffer ==
  IF idle <= MAX_IDL_DATA THEN idle' = idle + 1 /\ UNCHANGED allocated
  ELSE allocated' = allocated - 1 /\ UNCHANGED idle

BufferLeft == idle > 0 \/ allocated < HeapBlocks

(* LogMessageData's operator new, where it finds a buffer. *)
TakeBuffer ==
  IF idle > 0 THEN idle' = idle - 1 /\ UNCHANGED allocated
  ELSE allocated' = allocated + 1 /\ UNCHANGED idle

(* ReleaseReource: the heap goes, with every buffer that is in it. *)
ReleasePool == idle' = 0 /\ allocated' = 0 /\ lost' = 0
-----------------------------------------------------------------------------
(***************************************************************************)
(* Adding lines.                                                           *)
(***************************************************************************)
StartAdding(t, l, n) ==
  /\ pc' = [pc EXCEPT ![t] = "check"]
  /\ at' = [at EXCEPT ![t] = l]
  /\ todo' = [todo EXCEPT ![t] = n]
  /\ lines' = [lines EXCEPT ![t] = @ + 1]

(* AddLog is over: the constructor goes on with its second line.           *)
NextLine(t) ==
  LET more == todo[t] > 1 IN
  /\ pc' = [pc EXCEPT ![t] = IF more THEN "check" ELSE "idle"]
  /\ at' = [at EXCEPT ![t] = IF more THEN @ ELSE NoLog]
  /\ todo' = [todo EXCEPT ![t] = @ - 1]
  /\ lines' = [lines EXCEPT ![t] = IF more THEN @ + 1 ELSE @]

(* A log that has been created and is not being deleted. *)
Exists(l) == state[l] \in {"open", "unusable"}

(* The owner is neither inside AddLog nor waiting in a destructor. *)
OwnerFree == pc[Owner] = "idle" /\ \A l \in Logs : state[l] # "closing"

AddLog(t, l) ==
  /\ pc[t] = "idle" /\ (t = Owner => OwnerFree)
  /\ Exists(l) /\ lines[t] < MaxLines[t]
  /\ StartAdding(t, l, 1)
  /\ UNCHANGED <<state, useCount, pool, queue, wrPc, file, bad>>

(* Lines are dropped while as many logs are open as there may be. *)
AddCheck(t) ==
  /\ pc[t] = "check"
  /\ IF useCount < MAX_LOG_INSTANCE_NUM
     THEN pc' = [pc EXCEPT ![t] = "alloc"] /\ UNCHANGED <<at, todo, lines>>
     ELSE NextLine(t)
  /\ UNCHANGED <<state, useCount, pool, queue, wrPc, file, bad>>

(* PushLogMsg up to its lock: without a buffer the line is dropped.  A log *)
(* over the limit, which is not counted, may find the pool released.       *)
AddAllocate(t) ==
  /\ pc[t] = "alloc"
  /\ bad' = (bad \/ useCount = 0)
  /\ \/ /\ BufferLeft /\ TakeBuffer
        /\ pc' = [pc EXCEPT ![t] = "push"]
        /\ UNCHANGED <<at, todo, lines>>
     \/ /\ ~BufferLeft
        /\ NextLine(t)
        /\ UNCHANGED <<idle, allocated>>
  /\ UNCHANGED <<state, useCount, lost, queue, wrPc, file>>

(* PushLogMsg under m_secLog, which a log that is not initialised lacks. *)
PushLogMsg(t) ==
  LET l == at[t] IN
  /\ pc[t] = "push"
  /\ bad' = (bad \/ state[l] = "unusable")
  /\ queue' = [queue EXCEPT ![l] = PushDropOldest(@, <<t, lines[t]>>, MAX_VEC_LENGTH)]
  /\ IF Len(queue[l]) >= MAX_VEC_LENGTH THEN FreeBuffer ELSE UNCHANGED <<idle, allocated>>
  /\ NextLine(t)
  /\ UNCHANGED <<state, useCount, lost, wrPc, file>>

AddStep(t) == AddCheck(t) \/ AddAllocate(t) \/ PushLogMsg(t)
-----------------------------------------------------------------------------
(***************************************************************************)
(* Creating and deleting logs.                                             *)
(***************************************************************************)
(* A log over the limit is left as it is; the others get a thread, and the *)
(* constructor adds two lines.  InitReource finds the pool empty.          *)
DoInitialize(l) ==
  /\ OwnerFree /\ state[l] = "none" /\ \A k \in 1 .. (l - 1) : state[k] # "none"
  /\ \/ /\ useCount >= MAX_LOG_INSTANCE_NUM
        /\ state' = [state EXCEPT ![l] = "unusable"]
        /\ UNCHANGED <<useCount, wrPc, adder>>
     \/ /\ useCount < MAX_LOG_INSTANCE_NUM /\ lines[Owner] + 2 <= MaxLines[Owner]
        /\ state' = [state EXCEPT ![l] = "open"]
        /\ useCount' = useCount + 1
        /\ wrPc' = [wrPc EXCEPT ![l] = "loop"]
        /\ StartAdding(Owner, l, 2)
  /\ UNCHANGED <<pool, queue, file, bad>>

(* The destructor up to its wait.  Only a caller that knows of no other    *)
(* thread in AddLog of this log may delete it.  There is no thread to wait *)
(* for and no lock to delete in a log over the limit.                      *)
StartDelete(l) ==
  /\ OwnerFree /\ Exists(l) /\ \A t \in Threads : at[t] # l
  /\ state' = [state EXCEPT ![l] = IF @ = "open" THEN "closing" ELSE "closed"]
  /\ bad' = (bad \/ state[l] = "unusable")
  /\ UNCHANGED <<useCount, pool, queue, wrPc, file, adder>>

(* The rest of it: what the queue holds is not freed.  The last one takes  *)
(* the pool away from whoever still holds a buffer.                        *)
EndDelete(l) ==
  /\ state[l] = "closing" /\ wrPc[l] = "ended"
  /\ state' = [state EXCEPT ![l] = "closed"]
  /\ useCount' = useCount - 1
  /\ IF useCount = 1 THEN ReleasePool
     ELSE lost' = lost + Len(queue[l]) /\ UNCHANGED <<idle, allocated>>
  /\ bad' = (bad \/ (useCount = 1 /\ InHands # {}))
  /\ UNCHANGED <<queue, wrPc, file, adder>>
-----------------------------------------------------------------------------
(***************************************************************************)
(* ThreadWriteProc.                                                        *)
(***************************************************************************)
(* Slips: the thread stops when it finds no line; m_bRunningFlag stays set *)
(* in the destructor.                                                      *)
LoopForLines(l) == state[l] = "open" /\ queue[l] # <<>>
LoopOn(l) == state[l] \in {"open", "closing"}

RunningFlag(l) == state[l] = "open"

WriteLoop(l) ==
  /\ wrPc[l] = "loop"
  /\ wrPc' = [wrPc EXCEPT ![l] = IF RunningFlag(l) THEN "pass" ELSE "ended"]
  /\ UNCHANGED <<state, useCount, pool, queue, file, adder, bad>>

(* One pass under m_secLog: the first line is written and its buffer freed. *)
WritePass(l) ==
  /\ wrPc[l] = "pass"
  /\ wrPc' = [wrPc EXCEPT ![l] = "loop"]
  /\ \/ /\ queue[l] = <<>>
        /\ UNCHANGED <<idle, allocated, queue, file>>
     \/ /\ queue[l] # <<>>
        /\ file' = [file EXCEPT ![l] = Append(@, Head(queue[l]))]
        /\ queue' = PopFirst(queue, l)
        /\ FreeBuffer
  /\ UNCHANGED <<state, useCount, lost, adder, bad>>

ThreadWriteProc(l) == WriteLoop(l) \/ WritePass(l)
-----------------------------------------------------------------------------
Next ==
  /\ ~bad  \* nothing is said of what follows undefined behaviour
  /\ \/ \E l \in Logs :
          \/ DoInitialize(l) \/ StartDelete(l) \/ EndDelete(l)
          \/ ThreadWriteProc(l)
     \/ \E t \in Threads : AddStep(t) \/ \E l \in Logs : AddLog(t, l)

Spec == Init /\ [][Next]_vars

(* The threads run; whoever deletes a log waits for its thread. *)
FairSpec ==
  /\ Spec
  /\ \A t \in Threads : WF_vars(~bad /\ AddStep(t))
  /\ \A l \in Logs : WF_vars(~bad /\ ThreadWriteProc(l)) /\ WF_vars(~bad /\ EndDelete(l))
-----------------------------------------------------------------------------
(***************************************************************************)
(* Properties.                                                             *)
(***************************************************************************)

(* No buffer is forgotten or counted twice: every one that was allocated   *)
(* is idle, in the queue of a log, in the hands of a thread inside         *)
(* PushLogMsg, or was left behind by a log that was deleted.               *)
Live == {l \in Logs : state[l] \in {"open", "closing"}}
Queued == UNION {{l} \X (1 .. Len(queue[l])) : l \in Live}
BuffersConserved ==
  ~bad => allocated = idle + lost + Cardinality(InHands) + Cardinality(Queued)

(* A log is a lossy FIFO: its thread writes every line once, in the order  *)
(* they were pushed, whatever is dropped in between and whenever the log   *)
(* is deleted.                                                             *)
Fifo(l) == INSTANCE LossyFifo WITH items <- queue[l], taken <- file[l], Item <- Line
LogIsLossyFifo ==
  /\ \A l \in Logs : Fifo(l)!Init
  /\ [][\A l \in Logs : [Fifo(l)!Next]_<<queue[l], file[l]>>]_vars

(* The lines of one thread stand in each file in the order it added them,  *)
(* none twice.                                                             *)
InOrderOfThread ==
  \A l \in Logs : \A i, j \in DOMAIN file[l] :
     i < j /\ file[l][i][1] = file[l][j][1] => file[l][i][2] < file[l][j][2]

(* No line stays in the queue of a log that is not deleted: its thread     *)
(* empties the queue again and again.                                      *)
QueueDrains == \A l \in Logs : []<>(bad \/ state[l] # "open" \/ queue[l] = <<>>)

(* A log that is being deleted gets deleted: its thread ends.              *)
DeleteEnds == \A l \in Logs : state[l] = "closing" ~> (bad \/ state[l] = "closed")
=============================================================================
