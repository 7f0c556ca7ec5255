---------------------------- MODULE MsvLog_proofs ----------------------------
(***************************************************************************)
(* Theorems about MsvLog, for any number of logs, threads and lines and    *)
(* any lengths of the queues and the pool.                                 *)
(***************************************************************************)
EXTENDS MsvLog, BoundedQueues_proofs, FiniteSetTheorems

(* What the queues and files hold, and that a thread inside AddLog has a   *)
(* log and a line of its own to add.                                       *)
QueueInv ==
  /\ queue \in [Logs -> Seq(Line)] /\ \A l \in Logs : Len(queue[l]) <= MAX_VEC_LENGTH
  /\ file \in [Logs -> Seq(Line)]

AdderInv ==
  /\ pc \in [Threads -> {"idle", "check", "alloc", "push"}]
  /\ at \in [Threads -> Logs \cup {NoLog}]
  /\ todo \in [Threads -> 0 .. 2]
  /\ lines \in LineCounts
  /\ \A t \in Threads : pc[t] # "idle" =>
        /\ at[t] \in Logs /\ todo[t] \in 1 .. 2
        /\ lines[t] \in 1 .. MaxLines[t] /\ lines[t] + todo[t] - 1 <= MaxLines[t]

LogInv == QueueInv /\ AdderInv

LEMMA InitLogInv == Init => LogInv
<1>. SUFFICES ASSUME Init PROVE LogInv
  OBVIOUS
<1>1. <<>> \in Seq(Line) /\ Len(<<>>) = 0 /\ 0 <= MAX_VEC_LENGTH
  BY EmptySeq, LogAssumption
<1>2. QueueInv
  BY <1>1 DEF Init, QueueInv
<1>3. lines \in LineCounts
  <2>1. \A t \in Threads : 0 <= MaxLines[t]
    BY LogAssumption
  <2>. QED  BY <2>1 DEF Init, LineCounts
<1>4. AdderInv
  BY <1>3 DEF Init, AdderInv
<1>. QED  BY <1>2, <1>4 DEF LogInv

(* The line of a thread inside AddLog. *)
LEMMA LineOfThread ==
  ASSUME AdderInv, NEW t \in Threads, pc[t] # "idle"
  PROVE  <<t, lines[t]>> \in Line
<1>1. <<t, lines[t]>> \in {t} \X (1 .. MaxLines[t])
  BY DEF AdderInv
<1>. QED  BY <1>1 DEF Line

(* The end of AddLog, and its start. *)
LEMMA NextLineInv ==
  ASSUME AdderInv, NEW t \in Threads, pc[t] # "idle", NextLine(t)
  PROVE  AdderInv'
<1>. \A u \in Threads : MaxLines[u] \in Nat /\ lines[u] \in Nat
  BY LogAssumption DEF AdderInv, LineCounts
<1>1. CASE todo[t] > 1
  BY <1>1 DEF AdderInv, NextLine, LineCounts
<1>2. CASE ~(todo[t] > 1)
  BY <1>2 DEF AdderInv, NextLine, LineCounts
<1>. QED  BY <1>1, <1>2

LEMMA StartAddingInv ==
  ASSUME AdderInv, NEW t \in Threads, NEW l \in Logs, NEW n \in 1 .. 2,
         lines[t] + n <= MaxLines[t], StartAdding(t, l, n)
  PROVE  AdderInv'
<1>. \A u \in Threads : MaxLines[u] \in Nat /\ lines[u] \in Nat
  BY LogAssumption DEF AdderInv, LineCounts
<1>. QED  BY DEF AdderInv, StartAdding, LineCounts

(* The steps that touch no queue and no file, and what they do to the      *)
(* threads that add.                                                       *)
LEMMA NextLogInv == ASSUME LogInv, [Next]_vars PROVE LogInv'
<1>. QueueInv /\ AdderInv
  BY DEF LogInv
<1>. \A u \in Threads : MaxLines[u] \in Nat /\ lines[u] \in Nat
  BY LogAssumption DEF AdderInv, LineCounts
<1>1. ASSUME NEW l \in Logs, DoInitialize(l) PROVE LogInv'
  <2>1. QueueInv'
    BY <1>1 DEF DoInitialize, QueueInv
  <2>2. CASE UNCHANGED adder
    BY <2>1, <2>2 DEF adder, LogInv, AdderInv
  <2>3. CASE StartAdding(Owner, l, 2) /\ lines[Owner] + 2 <= MaxLines[Owner]
    BY <2>1, <2>3, StartAddingInv, LogAssumption DEF LogInv
  <2>. QED  BY <1>1, <2>2, <2>3 DEF DoInitialize
<1>2. ASSUME NEW l \in Logs, StartDelete(l) \/ EndDelete(l) PROVE LogInv'
  BY <1>2 DEF StartDelete, EndDelete, LogInv, QueueInv, AdderInv, adder
<1>3. ASSUME NEW l \in Logs, WriteLoop(l) PROVE LogInv'
  BY <1>3 DEF WriteLoop, LogInv, QueueInv, AdderInv, adder
<1>4. ASSUME NEW l \in Logs, WritePass(l) PROVE LogInv'
  <2>1. AdderInv'
    BY <1>4 DEF WritePass, AdderInv, adder
  <2>2. CASE queue[l] = <<>>
    BY <1>4, <2>1, <2>2 DEF WritePass, LogInv, QueueInv
  <2>3. CASE queue[l] # <<>>
    <3>1. /\ Head(queue[l]) \in Line /\ Tail(queue[l]) \in Seq(Line)
          /\ Len(Tail(queue[l])) = Len(queue[l]) - 1
      BY <2>3, HeadTailProperties DEF QueueInv
    <3>2. Append(file[l], Head(queue[l])) \in Seq(Line)
      BY <3>1, AppendProperties DEF QueueInv
    <3>3. Len(queue[l]) \in Nat /\ MAX_VEC_LENGTH \in Nat
      BY LenProperties, LogAssumption DEF QueueInv
    <3>4. /\ file' = [file EXCEPT ![l] = Append(@, Head(queue[l]))]
          /\ queue' = [queue EXCEPT ![l] = Tail(@)]
      BY <1>4, <2>3 DEF WritePass, PopFirst
    <3>5. QueueInv'
      BY <3>1, <3>2, <3>3, <3>4 DEF QueueInv
    <3>. QED  BY <2>1, <3>5 DEF LogInv
  <2>. QED  BY <2>2, <2>3
<1>5. ASSUME NEW t \in Threads, NEW l \in Logs, AddLog(t, l) PROVE LogInv'
  <2>1. AdderInv'
    BY <1>5, StartAddingInv DEF AddLog
  <2>2. QueueInv'
    BY <1>5 DEF AddLog, QueueInv
  <2>. QED  BY <2>1, <2>2 DEF LogInv
<1>6. ASSUME NEW t \in Threads, AddCheck(t) PROVE LogInv'
  <2>1. QueueInv'
    BY <1>6 DEF AddCheck, QueueInv
  <2>2. CASE pc' = [pc EXCEPT ![t] = "alloc"] /\ UNCHANGED <<at, todo, lines>>
    BY <1>6, <2>1, <2>2 DEF AddCheck, LogInv, AdderInv
  <2>3. CASE NextLine(t)
    BY <1>6, <2>1, <2>3, NextLineInv DEF AddCheck, LogInv
  <2>. QED  BY <1>6, <2>2, <2>3 DEF AddCheck
<1>7. ASSUME NEW t \in Threads, AddAllocate(t) PROVE LogInv'
  <2>1. QueueInv'
    BY <1>7 DEF AddAllocate, QueueInv
  <2>2. CASE pc' = [pc EXCEPT ![t] = "push"] /\ UNCHANGED <<at, todo, lines>>
    BY <1>7, <2>1, <2>2 DEF AddAllocate, LogInv, AdderInv
  <2>3. CASE NextLine(t)
    BY <1>7, <2>1, <2>3, NextLineInv DEF AddAllocate, LogInv
  <2>. QED  BY <1>7, <2>2, <2>3 DEF AddAllocate
<1>8. ASSUME NEW t \in Threads, PushLogMsg(t) PROVE LogInv'
  <2>1. AdderInv'
    BY <1>8, NextLineInv DEF PushLogMsg
  <2>2. at[t] \in Logs /\ <<t, lines[t]>> \in Line
    BY <1>8, LineOfThread DEF PushLogMsg, AdderInv
  <2>3. /\ PushDropOldest(queue[at[t]], <<t, lines[t]>>, MAX_VEC_LENGTH) \in Seq(Line)
        /\ Len(PushDropOldest(queue[at[t]], <<t, lines[t]>>, MAX_VEC_LENGTH)) <= MAX_VEC_LENGTH
    BY <2>2, PushDropOldestType, LogAssumption DEF QueueInv
  <2>4. /\ queue' = [queue EXCEPT ![at[t]] = PushDropOldest(@, <<t, lines[t]>>, MAX_VEC_LENGTH)]
        /\ UNCHANGED file
    BY <1>8 DEF PushLogMsg
  <2>5. QueueInv'
    BY <2>2, <2>3, <2>4 DEF QueueInv
  <2>. QED  BY <2>1, <2>5 DEF LogInv
<1>9. CASE UNCHANGED vars
  BY <1>9 DEF vars, adder, LogInv, QueueInv, AdderInv
<1>. QED
  BY <1>1, <1>2, <1>3, <1>4, <1>5, <1>6, <1>7, <1>8, <1>9 DEF Next, ThreadWriteProc, AddStep
-----------------------------------------------------------------------------
(***************************************************************************)
(* Every log implements the FIFO that may lose its oldest elements.        *)
(***************************************************************************)
(* A push is a Put that loses nothing, or the first line when full.        *)
LEMMA PushIsPut ==
  ASSUME QueueInv, NEW l \in Logs, NEW x \in Line,
         queue' = [queue EXCEPT ![l] = PushDropOldest(@, x, MAX_VEC_LENGTH)],
         UNCHANGED file
  PROVE  Fifo(l)!Put(x)
<1>. /\ queue[l] \in Seq(Line) /\ Len(queue[l]) \in Nat /\ MAX_VEC_LENGTH \in Nat \ {0}
     /\ queue'[l] = PushDropOldest(queue[l], x, MAX_VEC_LENGTH)
  BY LogAssumption, LenProperties DEF QueueInv
<1>1. CASE Len(queue[l]) >= MAX_VEC_LENGTH
  <2>1. queue[l] # <<>> /\ 1 \in 0 .. Len(queue[l])
    BY <1>1
  <2>2. Tail(queue[l]) = SubSeq(queue[l], 1 + 1, Len(queue[l]))
    BY <2>1, TailIsSubSeq
  <2>3. queue'[l] = Append(SubSeq(queue[l], 1 + 1, Len(queue[l])), x)
    BY <1>1, <2>2 DEF PushDropOldest
  <2>. QED  BY <2>1, <2>3 DEF Fifo!Put
<1>2. CASE ~(Len(queue[l]) >= MAX_VEC_LENGTH)
  <2>1. queue[l] = SubSeq(queue[l], 0 + 1, Len(queue[l]))
    BY SubSeqFull
  <2>2. queue'[l] = Append(SubSeq(queue[l], 0 + 1, Len(queue[l])), x)
    BY <1>2, <2>1 DEF PushDropOldest
  <2>. QED  BY <2>2 DEF Fifo!Put
<1>. QED  BY <1>1, <1>2

(* What a step does to the queue and the file of each log. *)
LEMMA StepOfLog ==
  ASSUME LogInv, [Next]_vars
  PROVE  \/ UNCHANGED <<queue, file>>
         \/ \E l \in Logs : /\ queue[l] # <<>>
                            /\ queue' = [queue EXCEPT ![l] = Tail(@)]
                            /\ file' = [file EXCEPT ![l] = Append(@, Head(queue[l]))]
                            /\ UNCHANGED adder
         \/ \E t \in Threads :
               /\ pc[t] # "idle" /\ at[t] \in Logs /\ <<t, lines[t]>> \in Line
               /\ queue' = [queue EXCEPT ![at[t]] =
                              PushDropOldest(@, <<t, lines[t]>>, MAX_VEC_LENGTH)]
               /\ UNCHANGED file
               /\ NextLine(t)
<1>1. ASSUME NEW l \in Logs, DoInitialize(l) \/ StartDelete(l) \/ EndDelete(l) \/ WriteLoop(l)
      PROVE  UNCHANGED <<queue, file>>
  BY <1>1 DEF DoInitialize, StartDelete, EndDelete, WriteLoop
<1>2. ASSUME NEW l \in Logs, WritePass(l)
      PROVE  \/ UNCHANGED <<queue, file>>
             \/ /\ queue[l] # <<>>
                /\ queue' = [queue EXCEPT ![l] = Tail(@)]
                /\ file' = [file EXCEPT ![l] = Append(@, Head(queue[l]))]
                /\ UNCHANGED adder
  BY <1>2 DEF WritePass, PopFirst
<1>3. ASSUME NEW t \in Threads, NEW l \in Logs, AddLog(t, l)
      PROVE  UNCHANGED <<queue, file>>
  BY <1>3 DEF AddLog
<1>4. ASSUME NEW t \in Threads, AddCheck(t) \/ AddAllocate(t)
      PROVE  UNCHANGED <<queue, file>>
  BY <1>4 DEF AddCheck, AddAllocate
<1>5. ASSUME NEW t \in Threads, PushLogMsg(t)
      PROVE  /\ pc[t] # "idle" /\ at[t] \in Logs /\ <<t, lines[t]>> \in Line
             /\ queue' = [queue EXCEPT ![at[t]] =
                            PushDropOldest(@, <<t, lines[t]>>, MAX_VEC_LENGTH)]
             /\ UNCHANGED file
             /\ NextLine(t)
  <2>1. pc[t] # "idle" /\ at[t] \in Logs
    BY <1>5 DEF PushLogMsg, LogInv, AdderInv
  <2>2. <<t, lines[t]>> \in Line
    BY <2>1, LineOfThread DEF LogInv
  <2>. QED  BY <1>5, <2>1, <2>2 DEF PushLogMsg
<1>6. CASE UNCHANGED vars
  BY <1>6 DEF vars
<1>. QED
  BY <1>1, <1>2, <1>3, <1>4, <1>5, <1>6 DEF Next, ThreadWriteProc, AddStep

(* Every step of the program on a log is a Put or a Take of the abstract   *)
(* FIFO, or leaves it alone: threads that add and the thread that writes   *)
(* lose only the oldest lines and write each of the others once, in order. *)
THEOREM LogsAreLossyFifos == Spec => LogIsLossyFifo
<1>1. Init => \A l \in Logs : Fifo(l)!Init
  BY DEF Init, Fifo!Init
<1>2. LogInv /\ [Next]_vars => \A l \in Logs : [Fifo(l)!Next]_<<queue[l], file[l]>>
  <2>. SUFFICES ASSUME LogInv, [Next]_vars, NEW l \in Logs
                PROVE  Fifo(l)!Next \/ UNCHANGED <<queue[l], file[l]>>
    OBVIOUS
  <2>. QueueInv
    BY DEF LogInv
  <2>1. CASE UNCHANGED <<queue, file>>
    BY <2>1
  <2>2. ASSUME NEW k \in Logs, queue[k] # <<>>, queue' = [queue EXCEPT ![k] = Tail(@)],
               file' = [file EXCEPT ![k] = Append(@, Head(queue[k]))]
        PROVE  Fifo(l)!Take \/ UNCHANGED <<queue[l], file[l]>>
    BY <2>2 DEF QueueInv, Fifo!Take
  <2>3. ASSUME NEW t \in Threads, at[t] \in Logs, <<t, lines[t]>> \in Line,
               queue' = [queue EXCEPT ![at[t]] =
                           PushDropOldest(@, <<t, lines[t]>>, MAX_VEC_LENGTH)],
               UNCHANGED file
        PROVE  Fifo(l)!Put(<<t, lines[t]>>) \/ UNCHANGED <<queue[l], file[l]>>
    <3>1. CASE l = at[t]
      BY <2>3, <3>1, PushIsPut
    <3>2. CASE l # at[t]
      BY <2>3, <3>2 DEF QueueInv
    <3>. QED  BY <3>1, <3>2
  <2>. QED  BY <2>1, <2>2, <2>3, StepOfLog DEF Fifo!Next
<1>3. Init => LogInv
  BY InitLogInv
<1>4. LogInv /\ [Next]_vars => LogInv'
  BY NextLogInv
<1>5. Spec => [][\A l \in Logs : [Fifo(l)!Next]_<<queue[l], file[l]>>]_vars
  BY <1>2, <1>3, <1>4, PTL DEF Spec
<1>. QED  BY <1>1, <1>5, PTL DEF Spec, LogIsLossyFifo
-----------------------------------------------------------------------------
(***************************************************************************)
(* The lines of a thread are written in the order it added them.           *)
(***************************************************************************)
(* s is in the order of each thread, and so are s followed by r.           *)
Ordered(s) ==
  \A i, j \in DOMAIN s : i < j /\ s[i][1] = s[j][1] => s[i][2] < s[j][2]
Before(s, r) ==
  \A i \in DOMAIN s, j \in DOMAIN r : s[i][1] = r[j][1] => s[i][2] < r[j][2]

(* Nothing in s has a number its thread has not given yet; the line of a   *)
(* thread inside AddLog is still to come.                                  *)
Given(s, number, where) ==
  \A i \in DOMAIN s :
     /\ s[i][2] <= number[s[i][1]]
     /\ where[s[i][1]] # "idle" => s[i][2] < number[s[i][1]]

OrderInv ==
  \A l \in Logs : /\ Ordered(file[l]) /\ Ordered(queue[l]) /\ Before(file[l], queue[l])
                  /\ Given(file[l], lines, pc) /\ Given(queue[l], lines, pc)

LEMMA LineFields ==
  ASSUME NEW s \in Seq(Line), NEW i \in DOMAIN s
  PROVE  s[i][1] \in Threads /\ s[i][2] \in Nat
<1>1. s[i] \in Line
  BY LenProperties, ElementOfSeq
<1>2. PICK t \in Threads : s[i] \in {t} \X (1 .. MaxLines[t])
  BY <1>1 DEF Line
<1>. QED  BY <1>2, LogAssumption

(* Erasing the first line keeps the order ...                              *)
LEMMA TailOrdered ==
  ASSUME NEW q \in Seq(Line), q # <<>>, Ordered(q), Given(q, lines, pc),
         NEW f \in Seq(Line), Before(f, q)
  PROVE  Ordered(Tail(q)) /\ Given(Tail(q), lines, pc) /\ Before(f, Tail(q)) /\ Before(<<Head(q)>>, Tail(q))
<1>1. /\ Tail(q) \in Seq(Line) /\ Len(Tail(q)) = Len(q) - 1 /\ Head(q) = q[1]
      /\ \A i \in 1 .. Len(Tail(q)) : Tail(q)[i] = q[i + 1]
  BY HeadTailProperties
<1>2. Len(q) \in Nat \ {0} /\ DOMAIN q = 1 .. Len(q) /\ DOMAIN Tail(q) = 1 .. Len(q) - 1
  BY <1>1, LenProperties, EmptySeq
<1>3. \A i \in DOMAIN Tail(q) : i + 1 \in DOMAIN q /\ 1 < i + 1 /\ Tail(q)[i] = q[i + 1]
  BY <1>1, <1>2
<1>4. Ordered(Tail(q))
  BY <1>2, <1>3 DEF Ordered
<1>5. Given(Tail(q), lines, pc) /\ Before(f, Tail(q))
  BY <1>3 DEF Given, Before
<1>6. Before(<<Head(q)>>, Tail(q))
  <2>1. DOMAIN <<Head(q)>> = {1} /\ <<Head(q)>>[1] = q[1] /\ 1 \in DOMAIN q
    BY <1>1, <1>2
  <2>. QED  BY <1>3, <2>1 DEF Before, Ordered
<1>. QED  BY <1>4, <1>5, <1>6

(* ... and so does appending one that comes after all others.              *)
LEMMA AppendOrdered ==
  ASSUME NEW q \in Seq(Line), Ordered(q), NEW x \in Line, Before(q, <<x>>)
  PROVE  /\ Ordered(Append(q, x))
         /\ \A i \in DOMAIN Append(q, x) :
               Append(q, x)[i] = x \/ (i \in DOMAIN q /\ Append(q, x)[i] = q[i])
<1>. DEFINE r == Append(q, x)
<1>1. /\ r \in Seq(Line) /\ r[Len(q) + 1] = x
      /\ \A i \in 1 .. Len(q) : r[i] = q[i]
  BY AppendProperties
<1>2. Len(q) \in Nat /\ DOMAIN q = 1 .. Len(q) /\ DOMAIN r = 1 .. Len(q) + 1
  BY AppendProperties, LenProperties
<1>. HIDE DEF r
<1>3. \A i \in DOMAIN q : q[i][1] = x[1] => q[i][2] < x[2]
  BY DEF Before
<1>4. ASSUME NEW i \in DOMAIN r, NEW j \in DOMAIN r, i < j, r[i][1] = r[j][1]
      PROVE  r[i][2] < r[j][2]
  <2>1. i \in DOMAIN q /\ r[i] = q[i]
    BY <1>1, <1>2, <1>4
  <2>2. CASE j = Len(q) + 1
    BY <1>1, <1>3, <1>4, <2>1, <2>2
  <2>3. CASE j # Len(q) + 1
    <3>1. j \in DOMAIN q /\ r[j] = q[j]
      BY <1>1, <1>2, <2>3
    <3>. QED  BY <1>4, <2>1, <3>1 DEF Ordered
  <2>. QED  BY <2>2, <2>3
<1>5. \A i \in DOMAIN r : r[i] = x \/ (i \in DOMAIN q /\ r[i] = q[i])
  BY <1>1, <1>2
<1>. QED  BY <1>4, <1>5 DEF Ordered, r

(* Lines that have been given stay given: numbers only grow, and whoever   *)
(* comes into AddLog has taken the next one.                               *)
LEMMA GivenStays ==
  ASSUME AdderInv, [Next]_vars, NEW s \in Seq(Line), Given(s, lines, pc)
  PROVE  Given(s, lines', pc')
<1>. SUFFICES ASSUME NEW i \in DOMAIN s
              PROVE  /\ s[i][2] <= lines'[s[i][1]]
                     /\ pc'[s[i][1]] # "idle" => s[i][2] < lines'[s[i][1]]
  BY DEF Given
<1>. DEFINE u == s[i][1]
            n == s[i][2]
<1>1. u \in Threads /\ n \in Nat /\ n <= lines[u] /\ (pc[u] # "idle" => n < lines[u])
  BY LineFields DEF Given
<1>2. /\ lines[u] \in Nat /\ lines \in [Threads -> Nat]
      /\ pc \in [Threads -> {"idle", "check", "alloc", "push"}]
  BY <1>1 DEF AdderInv, LineCounts
<1>. HIDE DEF u, n
<1>3. CASE UNCHANGED adder
  BY <1>1, <1>3 DEF adder, u, n
<1>4. ASSUME NEW t \in Threads, NextLine(t), pc[t] # "idle"
      PROVE  n <= lines'[u] /\ (pc'[u] # "idle" => n < lines'[u])
  BY <1>1, <1>2, <1>4 DEF NextLine
<1>5. ASSUME NEW t \in Threads, NEW l \in Logs, NEW k \in 1 .. 2, StartAdding(t, l, k)
      PROVE  n <= lines'[u] /\ (pc'[u] # "idle" => n < lines'[u])
  BY <1>1, <1>2, <1>5 DEF StartAdding
<1>6. ASSUME NEW t \in Threads, pc[t] # "idle", NEW w \in {"alloc", "push"},
             pc' = [pc EXCEPT ![t] = w], UNCHANGED lines
      PROVE  n <= lines'[u] /\ (pc'[u] # "idle" => n < lines'[u])
  BY <1>1, <1>2, <1>6
<1>7. ASSUME NEW l \in Logs, DoInitialize(l) \/ StartDelete(l) \/ EndDelete(l) \/ ThreadWriteProc(l)
      PROVE  UNCHANGED adder \/ StartAdding(Owner, l, 2)
  BY <1>7 DEF DoInitialize, StartDelete, EndDelete, ThreadWriteProc, WriteLoop, WritePass
<1>8. ASSUME NEW t \in Threads, AddStep(t)
      PROVE  /\ pc[t] # "idle"
             /\ \/ NextLine(t)
                \/ \E w \in {"alloc", "push"} : pc' = [pc EXCEPT ![t] = w] /\ UNCHANGED lines
  BY <1>8 DEF AddStep, AddCheck, AddAllocate, PushLogMsg
<1>9. ASSUME NEW t \in Threads, NEW l \in Logs, AddLog(t, l) PROVE StartAdding(t, l, 1)
  BY <1>9 DEF AddLog
<1>10. CASE UNCHANGED vars
  BY <1>3, <1>10 DEF vars
<1>11. n <= lines'[u] /\ (pc'[u] # "idle" => n < lines'[u])
  BY <1>3, <1>4, <1>5, <1>6, <1>7, <1>8, <1>9, <1>10, LogAssumption DEF Next, u, n
<1>. QED  BY <1>11 DEF u, n

(* A push keeps the order: the line of a thread comes after all the lines  *)
(* it gave before.                                                         *)
LEMMA PushOrdered ==
  ASSUME LogInv, NEW f \in Seq(Line), NEW q \in Seq(Line),
         Ordered(q), Before(f, q), Given(f, lines, pc), Given(q, lines, pc),
         NEW t \in Threads, pc[t] # "idle", <<t, lines[t]>> \in Line, NEW r,
         r = PushDropOldest(q, <<t, lines[t]>>, MAX_VEC_LENGTH)
  PROVE  Ordered(r) /\ Before(f, r)
<1>. DEFINE x == <<t, lines[t]>>
<1>. MAX_VEC_LENGTH \in Nat \ {0} /\ x[1] = t /\ x[2] = lines[t] /\ x \in Line
  BY LogAssumption
<1>1. PICK p \in Seq(Line) : /\ r = Append(p, x)
                             /\ Ordered(p) /\ Before(f, p) /\ Given(p, lines, pc)
  <2>1. CASE Len(q) >= MAX_VEC_LENGTH
    <3>1. q # <<>> /\ Tail(q) \in Seq(Line)
      BY <2>1, HeadTailProperties, LenProperties
    <3>2. Ordered(Tail(q)) /\ Given(Tail(q), lines, pc) /\ Before(f, Tail(q))
      BY <3>1, TailOrdered
    <3>3. r = Append(Tail(q), x)
      BY <2>1 DEF PushDropOldest
    <3>. QED  BY <3>1, <3>2, <3>3
  <2>2. CASE ~(Len(q) >= MAX_VEC_LENGTH)
    <3>1. r = Append(q, x)
      BY <2>2 DEF PushDropOldest
    <3>. QED  BY <3>1
  <2>. QED  BY <2>1, <2>2
<1>2. ASSUME NEW s \in Seq(Line), Given(s, lines, pc), NEW i \in DOMAIN s, s[i][1] = t
      PROVE  s[i][2] < lines[t]
  BY <1>2 DEF Given
<1>. HIDE DEF x
<1>3. DOMAIN <<x>> = {1} /\ <<x>>[1] = x
  OBVIOUS
<1>4. Before(p, <<x>>) /\ Before(f, <<x>>)
  BY <1>1, <1>2, <1>3 DEF Before
<1>5. /\ Ordered(r)
      /\ \A i \in DOMAIN r : r[i] = x \/ (i \in DOMAIN p /\ r[i] = p[i])
  <2>1. p \in Seq(Line) /\ Ordered(p) /\ x \in Line /\ Before(p, <<x>>)
    BY <1>1, <1>4
  <2>2. /\ Ordered(Append(p, x))
        /\ \A i \in DOMAIN Append(p, x) :
              Append(p, x)[i] = x \/ (i \in DOMAIN p /\ Append(p, x)[i] = p[i])
    BY <2>1, AppendOrdered
  <2>. QED  BY <1>1, <2>2
<1>6. Before(f, r)
  <2>. SUFFICES ASSUME NEW i \in DOMAIN f, NEW j \in DOMAIN r, f[i][1] = r[j][1]
                PROVE  f[i][2] < r[j][2]
    BY DEF Before
  <2>1. CASE r[j] = x
    BY <1>2, <2>1
  <2>2. CASE j \in DOMAIN p /\ r[j] = p[j]
    BY <1>1, <2>2 DEF Before
  <2>. QED  BY <1>5, <2>1, <2>2
<1>. QED  BY <1>5, <1>6

LEMMA NextOrderInv == ASSUME LogInv, OrderInv, [Next]_vars PROVE OrderInv'
<1>. AdderInv /\ QueueInv
  BY DEF LogInv
<1>. SUFFICES ASSUME NEW l \in Logs
              PROVE  /\ Ordered(file'[l]) /\ Ordered(queue'[l]) /\ Before(file'[l], queue'[l])
                     /\ Given(file'[l], lines', pc') /\ Given(queue'[l], lines', pc')
  BY DEF OrderInv
<1>1. file[l] \in Seq(Line) /\ queue[l] \in Seq(Line)
  BY DEF QueueInv
<1>2. /\ Ordered(file[l]) /\ Ordered(queue[l]) /\ Before(file[l], queue[l])
      /\ Given(file[l], lines, pc) /\ Given(queue[l], lines, pc)
  BY DEF OrderInv
<1>3. Given(file[l], lines', pc') /\ Given(queue[l], lines', pc')
  BY <1>1, <1>2, GivenStays
<1>4. CASE UNCHANGED <<queue[l], file[l]>>
  BY <1>2, <1>3, <1>4
<1>5. ASSUME queue[l] # <<>>, queue'[l] = Tail(queue[l]), UNCHANGED adder,
             file'[l] = Append(file[l], Head(queue[l]))
      PROVE  /\ Ordered(file'[l]) /\ Ordered(queue'[l]) /\ Before(file'[l], queue'[l])
             /\ Given(file'[l], lines', pc') /\ Given(queue'[l], lines', pc')
  <2>. DEFINE x == Head(queue[l])
  <2>1. x \in Line /\ 1 \in DOMAIN queue[l] /\ x = queue[l][1]
    BY <1>1, <1>5, HeadTailProperties, EmptySeq, LenProperties
  <2>2. /\ Ordered(Tail(queue[l])) /\ Given(Tail(queue[l]), lines, pc)
        /\ Before(file[l], Tail(queue[l])) /\ Before(<<x>>, Tail(queue[l]))
    BY <1>1, <1>2, <1>5, TailOrdered
  <2>. HIDE DEF x
  <2>3. DOMAIN <<x>> = {1} /\ <<x>>[1] = x
    OBVIOUS
  <2>4. Before(file[l], <<x>>)
    BY <1>2, <2>1, <2>3 DEF Before
  <2>5. /\ Ordered(Append(file[l], x))
        /\ \A i \in DOMAIN Append(file[l], x) :
              Append(file[l], x)[i] = x \/ (i \in DOMAIN file[l] /\ Append(file[l], x)[i] = file[l][i])
    BY <1>1, <1>2, <2>1, <2>4, AppendOrdered
  <2>6. Before(Append(file[l], x), Tail(queue[l]))
    <3>. SUFFICES ASSUME NEW i \in DOMAIN Append(file[l], x), NEW j \in DOMAIN Tail(queue[l]),
                         Append(file[l], x)[i][1] = Tail(queue[l])[j][1]
                  PROVE  Append(file[l], x)[i][2] < Tail(queue[l])[j][2]
      BY DEF Before
    <3>1. CASE Append(file[l], x)[i] = x
      BY <2>2, <2>3, <3>1 DEF Before
    <3>2. CASE i \in DOMAIN file[l] /\ Append(file[l], x)[i] = file[l][i]
      BY <2>2, <3>2 DEF Before
    <3>. QED  BY <2>5, <3>1, <3>2
  <2>7. Given(Append(file[l], x), lines, pc)
    BY <1>2, <2>1, <2>5 DEF Given
  <2>8. UNCHANGED <<lines, pc>> /\ file'[l] = Append(file[l], x)
    BY <1>5 DEF adder, x
  <2>. QED  BY <1>5, <2>2, <2>5, <2>6, <2>7, <2>8
<1>6. ASSUME NEW t \in Threads, pc[t] # "idle", <<t, lines[t]>> \in Line, UNCHANGED file[l],
             queue'[l] = PushDropOldest(queue[l], <<t, lines[t]>>, MAX_VEC_LENGTH), NextLine(t)
      PROVE  /\ Ordered(file'[l]) /\ Ordered(queue'[l]) /\ Before(file'[l], queue'[l])
             /\ Given(file'[l], lines', pc') /\ Given(queue'[l], lines', pc')
  <2>1. Ordered(queue'[l]) /\ Before(file[l], queue'[l])
    BY <1>1, <1>2, <1>6, PushOrdered
  <2>2. lines[t] <= lines'[t] /\ (pc'[t] # "idle" => lines[t] < lines'[t])
    BY <1>6, LogAssumption DEF NextLine, AdderInv, LineCounts
  <2>3. Len(queue[l]) <= MAX_VEC_LENGTH /\ MAX_VEC_LENGTH \in Nat \ {0}
    BY LogAssumption DEF QueueInv
  <2>4. \A j \in DOMAIN queue'[l] :
           queue'[l][j] = <<t, lines[t]>> \/ \E k \in DOMAIN queue[l] : queue'[l][j] = queue[l][k]
    BY <1>1, <1>6, <2>3, PushDropOldestElements, SMTT(30)
  <2>5. Given(queue'[l], lines', pc')
    <3>. SUFFICES ASSUME NEW j \in DOMAIN queue'[l]
                  PROVE  /\ queue'[l][j][2] <= lines'[queue'[l][j][1]]
                         /\ pc'[queue'[l][j][1]] # "idle" => queue'[l][j][2] < lines'[queue'[l][j][1]]
      BY DEF Given
    <3>1. CASE queue'[l][j] = <<t, lines[t]>>
      BY <2>2, <3>1
    <3>2. CASE \E k \in DOMAIN queue[l] : queue'[l][j] = queue[l][k]
      BY <1>3, <3>2 DEF Given
    <3>. QED  BY <2>4, <3>1, <3>2
  <2>. QED  BY <1>2, <1>3, <1>6, <2>1, <2>5
<1>7. ASSUME NEW k \in Logs, queue[k] # <<>>, queue' = [queue EXCEPT ![k] = Tail(@)],
             file' = [file EXCEPT ![k] = Append(@, Head(queue[k]))]
      PROVE  \/ UNCHANGED <<queue[l], file[l]>>
             \/ /\ queue[l] # <<>> /\ queue'[l] = Tail(queue[l])
                /\ file'[l] = Append(file[l], Head(queue[l]))
  BY <1>7 DEF QueueInv
<1>8. ASSUME NEW t \in Threads, at[t] \in Logs, UNCHANGED file,
             queue' = [queue EXCEPT ![at[t]] = PushDropOldest(@, <<t, lines[t]>>, MAX_VEC_LENGTH)]
      PROVE  \/ UNCHANGED <<queue[l], file[l]>>
             \/ /\ UNCHANGED file[l]
                /\ queue'[l] = PushDropOldest(queue[l], <<t, lines[t]>>, MAX_VEC_LENGTH)
  BY <1>8 DEF QueueInv
<1>9. CASE UNCHANGED <<queue, file>>
  BY <1>4, <1>9
<1>. QED  BY <1>4, <1>5, <1>6, <1>7, <1>8, <1>9, StepOfLog

(* However threads interleave, queues overflow and logs come and go, each  *)
(* file has the lines of a thread in the order the thread added them, and  *)
(* none twice.                                                             *)
THEOREM LinesInOrder == Spec => []InOrderOfThread
<1>1. Init => OrderInv
  <2>. SUFFICES ASSUME Init, NEW l \in Logs
                PROVE  /\ Ordered(file[l]) /\ Ordered(queue[l]) /\ Before(file[l], queue[l])
                       /\ Given(file[l], lines, pc) /\ Given(queue[l], lines, pc)
    BY DEF OrderInv
  <2>1. file[l] = <<>> /\ queue[l] = <<>> /\ DOMAIN <<>> = {}
    BY DEF Init
  <2>. QED  BY <2>1 DEF Ordered, Before, Given
<1>2. Init => LogInv
  BY InitLogInv
<1>3. LogInv /\ OrderInv /\ [Next]_vars => LogInv' /\ OrderInv'
  BY NextLogInv, NextOrderInv
<1>4. OrderInv => InOrderOfThread
  BY DEF OrderInv, Ordered, InOrderOfThread
<1>. QED  BY <1>1, <1>2, <1>3, <1>4, PTL DEF Spec
-----------------------------------------------------------------------------
(***************************************************************************)
(* The buffers: each that was allocated is accounted for, so that freeing  *)
(* one never counts below zero, and the types follow.                      *)
(***************************************************************************)
PoolTypes ==
  /\ state \in [Logs -> {"none", "open", "unusable", "closing", "closed"}]
  /\ wrPc \in [Logs -> {"none", "loop", "pass", "ended"}]
  /\ idle \in 0 .. MAX_IDL_DATA + 1 /\ allocated \in 0 .. HeapBlocks
  /\ lost \in Nat /\ bad \in BOOLEAN

(* The open logs are counted, and no more of them than there may be.       *)
Counted == useCount = Cardinality(Live) /\ useCount <= MAX_LOG_INSTANCE_NUM

(* Who adds a line has a log to add it to, and a log that was never        *)
(* created has none.                                                       *)
LinesHaveLogs ==
  /\ \A t \in Threads : pc[t] # "idle" => Exists(at[t])
  /\ \A l \in Logs : state[l] = "none" => queue[l] = <<>>

(* A thread that writes has an open log.                                   *)
WritersHaveLogs == \A l \in Logs : wrPc[l] \in {"loop", "pass"} => l \in Live

Finite == IsFiniteSet(Queued) /\ IsFiniteSet(InHands)

PoolInv ==
  PoolTypes /\ Counted /\ LinesHaveLogs /\ WritersHaveLogs /\ Finite /\ BuffersConserved

LEMMA LiveFinite ==
  /\ IsFiniteSet(Live) /\ Cardinality(Live) \in Nat
  /\ \A l \in Logs : IsFiniteSet(Live \cup {l}) /\ IsFiniteSet(Live \ {l})
<1>1. IsFiniteSet(Logs) /\ Live \subseteq Logs
  BY FS_Interval, LogAssumption DEF Logs, Live
<1>2. IsFiniteSet(Live)
  BY <1>1, FS_Subset
<1>. QED  BY <1>2, FS_CardinalityType, FS_AddElement, FS_RemoveElement

(* The places in the queues of the open logs.                              *)
LEMMA QueuedPlaces ==
  ASSUME NEW l, NEW i
  PROVE  <<l, i>> \in Queued <=> l \in Live /\ i \in 1 .. Len(queue[l])
BY DEF Queued

LEMMA QueuedPairs ==
  ASSUME NEW x \in Queued
  PROVE  \E l \in Live : \E i \in 1 .. Len(queue[l]) : x = <<l, i>>
<1>1. PICK l \in Live : x \in {l} \X (1 .. Len(queue[l]))
  BY DEF Queued
<1>. QED  BY <1>1

LEMMA SameQueued ==
  ASSUME Live' = Live, \A l \in Live : Len(queue'[l]) = Len(queue[l])
  PROVE  Queued' = Queued
BY DEF Queued

(* A line more, and a line less, in the queue of an open log.              *)
LEMMA QueuedGrows ==
  ASSUME QueueInv, IsFiniteSet(Queued), NEW l \in Live, Live' = Live, NEW q \in Seq(Line),
         Len(q) = Len(queue[l]) + 1, queue' = [queue EXCEPT ![l] = q]
  PROVE  IsFiniteSet(Queued)' /\ Cardinality(Queued)' = Cardinality(Queued) + 1
<1>1. l \in Logs /\ queue[l] \in Seq(Line) /\ Len(queue[l]) \in Nat
  BY LenProperties DEF Live, QueueInv
<1>2. queue'[l] = q /\ \A k \in Live \ {l} : queue'[k] = queue[k]
  BY <1>1 DEF QueueInv, Live
<1>. DEFINE new == <<l, Len(queue[l]) + 1>>
<1>3. new \notin Queued
  BY <1>1, QueuedPlaces
<1>4. Queued' = Queued \cup {new}
  <2>1. ASSUME NEW x \in Queued' PROVE x \in Queued \cup {new}
    <3>1. PICK k \in Live : x \in {k} \X (1 .. Len(queue'[k]))
      BY DEF Queued
    <3>2. PICK i \in 1 .. Len(queue'[k]) : x = <<k, i>>
      BY <3>1
    <3>3. CASE k = l /\ i = Len(queue[l]) + 1
      BY <3>2, <3>3
    <3>4. CASE ~(k = l /\ i = Len(queue[l]) + 1)
      <4>1. i \in 1 .. Len(queue[k])
        BY <1>1, <1>2, <3>2, <3>4
      <4>. QED  BY <3>2, <4>1, QueuedPlaces
    <3>. QED  BY <3>3, <3>4
  <2>2. ASSUME NEW x \in Queued PROVE x \in Queued'
    <3>1. PICK k \in Live : \E i \in 1 .. Len(queue[k]) : x = <<k, i>>
      BY QueuedPairs
    <3>. PICK i \in 1 .. Len(queue[k]) : x = <<k, i>>
      BY <3>1
    <3>2. i \in 1 .. Len(queue'[k])
      BY <1>1, <1>2, <3>1
    <3>. QED  BY <3>1, <3>2 DEF Queued
  <2>3. new \in Queued'
    <3>1. Len(queue[l]) + 1 \in 1 .. Len(queue'[l])
      BY <1>1, <1>2
    <3>. QED  BY <3>1 DEF Queued
  <2>. QED  BY <2>1, <2>2, <2>3
<1>. HIDE DEF new
<1>. QED  BY <1>3, <1>4, FS_AddElement

LEMMA QueuedShrinks ==
  ASSUME QueueInv, IsFiniteSet(Queued), NEW l \in Live, Live' = Live, NEW q \in Seq(Line),
         Len(queue[l]) = Len(q) + 1, queue' = [queue EXCEPT ![l] = q]
  PROVE  IsFiniteSet(Queued)' /\ Cardinality(Queued)' = Cardinality(Queued) - 1
<1>1. l \in Logs /\ Len(q) \in Nat
  BY LenProperties DEF Live
<1>2. queue'[l] = q /\ \A k \in Live \ {l} : queue'[k] = queue[k]
  BY <1>1 DEF QueueInv, Live
<1>. DEFINE old == <<l, Len(queue[l])>>
<1>3. old \in Queued
  BY <1>1, QueuedPlaces
<1>4. Queued' = Queued \ {old}
  <2>1. ASSUME NEW x \in Queued' PROVE x \in Queued \ {old}
    <3>1. PICK k \in Live : x \in {k} \X (1 .. Len(queue'[k]))
      BY DEF Queued
    <3>2. PICK i \in 1 .. Len(queue'[k]) : x = <<k, i>>
      BY <3>1
    <3>3. i \in 1 .. Len(queue[k]) /\ (k = l => i # Len(queue[l]))
      BY <1>1, <1>2, <3>2
    <3>. QED  BY <3>2, <3>3, QueuedPlaces
  <2>2. ASSUME NEW x \in Queued, x # old PROVE x \in Queued'
    <3>1. PICK k \in Live : \E i \in 1 .. Len(queue[k]) : x = <<k, i>>
      BY QueuedPairs
    <3>. PICK i \in 1 .. Len(queue[k]) : x = <<k, i>>
      BY <3>1
    <3>2. i \in 1 .. Len(queue'[k])
      BY <1>1, <1>2, <2>2, <3>1
    <3>. QED  BY <3>1, <3>2 DEF Queued
  <2>. QED  BY <2>1, <2>2, <1>3
<1>. HIDE DEF old
<1>. QED  BY <1>3, <1>4, FS_RemoveElement

(* A log that is no longer open takes the places of its queue with it.     *)
LEMMA QueuedWithoutLog ==
  ASSUME QueueInv, IsFiniteSet(Queued), NEW l \in Live, Live' = Live \ {l}, UNCHANGED queue
  PROVE  /\ IsFiniteSet(Queued)'
         /\ Cardinality(Queued)' = Cardinality(Queued) - Len(queue[l])
         /\ Len(queue[l]) \in Nat
<1>. DEFINE n == Len(queue[l])
            own == {l} \X (1 .. n)
<1>1. n \in Nat
  BY LenProperties DEF Live, QueueInv
<1>2. Queued' = Queued \ own /\ Queued \cap own = own
  BY DEF Queued
<1>. HIDE DEF n
<1>3. IsFiniteSet({l}) /\ Cardinality({l}) = 1
  BY FS_Singleton
<1>4. IsFiniteSet(1 .. n) /\ Cardinality(1 .. n) = n
  BY <1>1, FS_Interval
<1>5. Cardinality(own) = Cardinality({l}) * Cardinality(1 .. n)
  BY <1>3, <1>4, FS_Product
<1>6. Cardinality(own) = n
  BY <1>1, <1>3, <1>4, <1>5
<1>. HIDE DEF own
<1>7. /\ IsFiniteSet(Queued \ own)
      /\ Cardinality(Queued \ own) = Cardinality(Queued) - Cardinality(Queued \cap own)
  BY FS_Difference
<1>. QED  BY <1>1, <1>2, <1>6, <1>7 DEF n

(* What the pool does when there is a buffer to take, or one to free.      *)
LEMMA TakeBufferCounts ==
  ASSUME PoolTypes, BufferLeft, TakeBuffer
  PROVE  /\ idle' \in 0 .. MAX_IDL_DATA + 1 /\ allocated' \in 0 .. HeapBlocks
         /\ allocated' - idle' = allocated - idle + 1
BY LogAssumption DEF PoolTypes, BufferLeft, TakeBuffer

LEMMA FreeBufferCounts ==
  ASSUME PoolTypes, allocated >= idle, FreeBuffer
  PROVE  /\ idle' \in 0 .. MAX_IDL_DATA + 1 /\ allocated' \in 0 .. HeapBlocks
         /\ allocated' - idle' = allocated - idle - 1
BY LogAssumption DEF PoolTypes, FreeBuffer

LEMMA Accounts ==
  ASSUME PoolInv
  PROVE  /\ Cardinality(Queued) \in Nat /\ Cardinality(InHands) \in Nat
         /\ lost \in Nat /\ idle \in Nat /\ allocated \in Nat
         /\ ~bad => /\ allocated - idle = lost + Cardinality(InHands) + Cardinality(Queued)
                    /\ allocated >= idle
<1>1. Cardinality(Queued) \in Nat /\ Cardinality(InHands) \in Nat
  BY FS_CardinalityType DEF PoolInv, Finite
<1>2. lost \in Nat /\ idle \in Nat /\ allocated \in Nat
  BY LogAssumption DEF PoolInv, PoolTypes
<1>. QED  BY <1>1, <1>2 DEF PoolInv, BuffersConserved

(* Threads go in and out of PushLogMsg one at a time.                      *)
LEMMA HandsFill ==
  ASSUME AdderInv, IsFiniteSet(InHands), NEW t \in Threads, pc[t] # "push",
         pc' = [pc EXCEPT ![t] = "push"]
  PROVE  IsFiniteSet(InHands)' /\ Cardinality(InHands)' = Cardinality(InHands) + 1
<1>1. InHands' = InHands \cup {t} /\ t \notin InHands
  BY DEF InHands, AdderInv
<1>. QED  BY <1>1, FS_AddElement

LEMMA HandsEmpty ==
  ASSUME AdderInv, IsFiniteSet(InHands), NEW t \in Threads, NextLine(t)
  PROVE  /\ IsFiniteSet(InHands)'
         /\ Cardinality(InHands)' =
              IF pc[t] = "push" THEN Cardinality(InHands) - 1 ELSE Cardinality(InHands)
<1>1. InHands' = InHands \ {t} /\ (t \in InHands <=> pc[t] = "push")
  BY DEF InHands, AdderInv, NextLine
<1>. QED  BY <1>1, FS_RemoveElement

LEMMA SameHands ==
  ASSUME AdderInv, NEW t \in Threads, pc[t] # "push", NEW where, where # "push",
         pc' = [pc EXCEPT ![t] = where]
  PROVE  InHands' = InHands
BY DEF InHands, AdderInv

LEMMA InitPoolInv == Init => PoolInv
<1>. SUFFICES ASSUME Init PROVE PoolInv
  OBVIOUS
<1>1. Live = {} /\ Queued = {} /\ InHands = {}
  BY DEF Init, Live, Queued, InHands
<1>2. IsFiniteSet({}) /\ Cardinality({}) = 0
  BY FS_EmptySet
<1>3. PoolTypes
  <2>1. 0 \in 0 .. MAX_IDL_DATA + 1 /\ 0 \in 0 .. HeapBlocks /\ 0 \in Nat
    BY LogAssumption
  <2>2. /\ state \in [Logs -> {"none", "open", "unusable", "closing", "closed"}]
        /\ wrPc \in [Logs -> {"none", "loop", "pass", "ended"}]
    BY DEF Init
  <2>. QED  BY <2>1, <2>2 DEF Init, PoolTypes
<1>4. LinesHaveLogs
  BY DEF Init, LinesHaveLogs
<1>5. Counted /\ Finite
  BY <1>1, <1>2, LogAssumption DEF Init, Counted, Finite
<1>6. BuffersConserved
  BY <1>1, <1>2 DEF Init, BuffersConserved
<1>7. WritersHaveLogs
  BY DEF Init, WritersHaveLogs
<1>. QED  BY <1>3, <1>4, <1>5, <1>6, <1>7 DEF PoolInv

(* A log that a line is added to was created and is not being deleted.     *)
LEMMA NextLineLogs ==
  ASSUME AdderInv, LinesHaveLogs, NEW t \in Threads, pc[t] # "idle", NextLine(t), UNCHANGED state
  PROVE  \A u \in Threads : pc'[u] # "idle" => Exists(at[u])'
BY DEF AdderInv, LinesHaveLogs, NextLine, Exists

LEMMA DoInitializePoolInv ==
  ASSUME LogInv, PoolInv, ~bad, NEW l \in Logs, DoInitialize(l)
  PROVE  PoolInv'
<1>. QueueInv /\ AdderInv /\ PoolTypes /\ Counted /\ LinesHaveLogs /\ Finite /\ BuffersConserved /\ WritersHaveLogs
  BY DEF LogInv, PoolInv
<1>1. /\ state[l] = "none" /\ l \notin Live /\ UNCHANGED <<idle, allocated, lost, queue, bad>>
      /\ Len(queue[l]) = 0
  BY DEF DoInitialize, Live, pool, LinesHaveLogs
<1>2. CASE state' = [state EXCEPT ![l] = "unusable"] /\ UNCHANGED <<useCount, wrPc, adder>>
  <2>1. Live' = Live /\ UNCHANGED <<InHands, pc, at>>
    BY <1>1, <1>2 DEF Live, InHands, adder, PoolTypes
  <2>2. Queued' = Queued
    BY <1>1, <2>1, SameQueued
  <2>3. PoolTypes' /\ Counted' /\ Finite' /\ BuffersConserved'
    BY <1>1, <1>2, <2>1, <2>2 DEF PoolTypes, Counted, Finite, BuffersConserved
  <2>4. LinesHaveLogs'
    BY <1>1, <1>2, <2>1 DEF LinesHaveLogs, Exists, PoolTypes, AdderInv
  <2>5. WritersHaveLogs'
    BY <1>2, <2>1 DEF WritersHaveLogs
  <2>. QED  BY <2>3, <2>4, <2>5 DEF PoolInv
<1>3. CASE /\ state' = [state EXCEPT ![l] = "open"] /\ useCount' = useCount + 1
           /\ useCount < MAX_LOG_INSTANCE_NUM /\ wrPc' = [wrPc EXCEPT ![l] = "loop"]
           /\ StartAdding(Owner, l, 2)
  <2>1. Live' = Live \cup {l}
    BY <1>3 DEF Live, PoolTypes
  <2>2. Queued' = Queued
    BY <1>1, <2>1 DEF Queued
  <2>3. InHands' = InHands
    <3>1. Owner \in Threads /\ pc[Owner] # "push" /\ pc' = [pc EXCEPT ![Owner] = "check"]
      BY <1>3, LogAssumption DEF DoInitialize, OwnerFree, StartAdding
    <3>. QED  BY <3>1, SameHands
  <2>4. Counted'
    <3>1. Cardinality(Live)' = Cardinality(Live) + 1
      BY <1>1, <2>1, LiveFinite, FS_AddElement
    <3>. QED  BY <1>3, <3>1, LiveFinite, LogAssumption DEF Counted
  <2>5. PoolTypes' /\ Finite' /\ BuffersConserved'
    BY <1>1, <1>3, <2>2, <2>3 DEF PoolTypes, Finite, BuffersConserved
  <2>6. LinesHaveLogs'
    <3>1. \A t \in Threads : pc'[t] # "idle" => at'[t] = l \/ (pc[t] # "idle" /\ at'[t] = at[t])
      BY <1>3 DEF StartAdding, AdderInv
    <3>2. \A k \in Logs : Exists(k) => state'[k] = state[k]
      BY <1>1, <1>3 DEF Exists, PoolTypes
    <3>3. \A t \in Threads : pc[t] # "idle" => at[t] \in Logs
      BY DEF AdderInv
    <3>4. state'[l] = "open"
      BY <1>3 DEF PoolTypes
    <3>5. \A t \in Threads : pc'[t] # "idle" => Exists(at[t])'
      BY <3>1, <3>2, <3>3, <3>4 DEF Exists, LinesHaveLogs
    <3>6. \A k \in Logs : state'[k] = "none" => queue'[k] = <<>>
      BY <1>1, <1>3 DEF LinesHaveLogs, PoolTypes
    <3>. QED  BY <3>5, <3>6 DEF LinesHaveLogs
  <2>7. WritersHaveLogs'
    BY <1>3, <2>1 DEF WritersHaveLogs, PoolTypes
  <2>. QED  BY <2>4, <2>5, <2>6, <2>7 DEF PoolInv
<1>. QED  BY <1>2, <1>3 DEF DoInitialize

(* The destructor of a log that is not initialised is undefined behaviour, *)
(* so that of the buffers nothing is said.                                 *)
LEMMA StartDeletePoolInv ==
  ASSUME LogInv, PoolInv, ~bad, NEW l \in Logs, StartDelete(l)
  PROVE  PoolInv'
<1>. QueueInv /\ AdderInv /\ PoolTypes /\ Counted /\ LinesHaveLogs /\ Finite /\ BuffersConserved /\ WritersHaveLogs
  BY DEF LogInv, PoolInv
<1>1. /\ Exists(l) /\ \A t \in Threads : at[t] # l
      /\ UNCHANGED <<useCount, idle, allocated, lost, queue, wrPc, pc, at>>
      /\ bad' = (bad \/ state[l] = "unusable")
      /\ state' = [state EXCEPT ![l] = IF state[l] = "open" THEN "closing" ELSE "closed"]
  BY DEF StartDelete, pool, adder
<1>2. Live' = Live
  BY <1>1 DEF Live, Exists, PoolTypes
<1>3. Queued' = Queued /\ InHands' = InHands
  BY <1>1, <1>2, SameQueued DEF InHands
<1>4. PoolTypes'
  BY <1>1 DEF PoolTypes
<1>5. Counted' /\ Finite' /\ BuffersConserved'
  BY <1>1, <1>2, <1>3 DEF Counted, Finite, BuffersConserved
<1>6. LinesHaveLogs'
  BY <1>1 DEF LinesHaveLogs, Exists, PoolTypes, AdderInv
<1>7. WritersHaveLogs'
  BY <1>1, <1>2 DEF WritersHaveLogs
<1>. QED  BY <1>4, <1>5, <1>6, <1>7 DEF PoolInv

(* The last log to go takes the pool along; from the others the buffers in *)
(* their queues are lost.                                                  *)
LEMMA EndDeletePoolInv ==
  ASSUME LogInv, PoolInv, ~bad, NEW l \in Logs, EndDelete(l)
  PROVE  PoolInv'
<1>. QueueInv /\ AdderInv /\ PoolTypes /\ Counted /\ LinesHaveLogs /\ Finite /\ BuffersConserved /\ WritersHaveLogs
  BY DEF LogInv, PoolInv
<1>1. /\ state[l] = "closing" /\ l \in Live
      /\ state' = [state EXCEPT ![l] = "closed"] /\ useCount' = useCount - 1
      /\ UNCHANGED <<queue, wrPc, pc, at>>
      /\ bad' = (bad \/ (useCount = 1 /\ InHands # {}))
  BY DEF EndDelete, adder, Live
<1>2. Live' = Live \ {l} /\ InHands' = InHands
  BY <1>1 DEF Live, PoolTypes, InHands
<1>3. /\ IsFiniteSet(Queued)' /\ Len(queue[l]) \in Nat
      /\ Cardinality(Queued)' = Cardinality(Queued) - Len(queue[l])
  BY <1>1, <1>2, QueuedWithoutLog DEF Finite
<1>4. Cardinality(Live)' = Cardinality(Live) - 1
  BY <1>1, <1>2, LiveFinite, FS_RemoveElement
<1>5. Counted'
  BY <1>1, <1>4, LiveFinite, LogAssumption DEF Counted
<1>6. Finite' /\ LinesHaveLogs'
  <2>1. LinesHaveLogs'
    BY <1>1 DEF LinesHaveLogs, Exists, PoolTypes, AdderInv
  <2>. QED  BY <1>2, <1>3, <2>1 DEF Finite
<1>7. PoolTypes' /\ BuffersConserved'
  <2>1. CASE useCount = 1
    <3>1. ReleasePool
      BY <2>1 DEF EndDelete
    <3>2. PoolTypes'
      BY <1>1, <3>1, LogAssumption DEF PoolTypes, ReleasePool
    <3>3. Live' = {}
      <4>1. IsFiniteSet(Live') /\ Cardinality(Live') = 0
        BY <1>2, <1>4, <2>1, LiveFinite DEF Counted
      <4>. QED  BY <4>1, FS_EmptySet
    <3>4. Queued' = {}
      BY <3>3 DEF Queued
    <3>5. ~bad' => InHands' = {}
      BY <1>1, <1>2, <2>1
    <3>. QED  BY <3>1, <3>2, <3>4, <3>5, FS_EmptySet DEF BuffersConserved, ReleasePool
  <2>2. CASE useCount # 1
    <3>1. lost' = lost + Len(queue[l]) /\ UNCHANGED <<idle, allocated>>
      BY <2>2 DEF EndDelete
    <3>2. PoolTypes'
      BY <1>1, <1>3, <3>1 DEF PoolTypes
    <3>3. allocated - idle = lost + Cardinality(InHands) + Cardinality(Queued)
      BY Accounts
    <3>4. Cardinality(InHands)' = Cardinality(InHands)
      BY <1>2
    <3>5. /\ Cardinality(Queued) \in Nat /\ Cardinality(InHands) \in Nat
          /\ lost \in Nat /\ idle \in Nat /\ allocated \in Nat
      BY Accounts
    <3>6. allocated' = idle' + lost' + Cardinality(InHands)' + Cardinality(Queued)'
      BY <1>3, <3>1, <3>3, <3>4, <3>5, SMTT(30)
    <3>. QED  BY <3>2, <3>6 DEF BuffersConserved
  <2>. QED  BY <2>1, <2>2
<1>8. WritersHaveLogs'
  BY <1>1, <1>2 DEF WritersHaveLogs, EndDelete
<1>. QED  BY <1>5, <1>6, <1>7, <1>8 DEF PoolInv

(* A step of AddLog that leaves the queues alone.                          *)
LEMMA AdderPoolInv ==
  ASSUME LogInv, PoolInv, ~bad, NEW t \in Threads, AddCheck(t) \/ AddAllocate(t)
  PROVE  PoolInv'
<1>. QueueInv /\ AdderInv /\ PoolTypes /\ Counted /\ LinesHaveLogs /\ Finite /\ BuffersConserved /\ WritersHaveLogs
  BY DEF LogInv, PoolInv
<1>1. pc[t] # "idle" /\ pc[t] # "push" /\ UNCHANGED <<state, useCount, lost, queue, wrPc>>
  BY DEF AddCheck, AddAllocate, pool
<1>2. Live' = Live /\ Queued' = Queued /\ Counted'
  BY <1>1, SameQueued DEF Live, Counted
<1>3. CASE /\ pc' = [pc EXCEPT ![t] = "alloc"] \/ NextLine(t)
           /\ UNCHANGED <<idle, allocated>> /\ bad' \in BOOLEAN
           /\ pc' = [pc EXCEPT ![t] = "alloc"] => UNCHANGED at
  <2>1. /\ IsFiniteSet(InHands)' /\ Cardinality(InHands)' = Cardinality(InHands)
    BY <1>1, <1>3, SameHands, HandsEmpty DEF Finite
  <2>2. PoolTypes' /\ Finite' /\ BuffersConserved'
    BY <1>1, <1>2, <1>3, <2>1 DEF PoolTypes, Finite, BuffersConserved
  <2>3. LinesHaveLogs'
    <3>1. CASE NextLine(t)
      BY <1>1, <3>1, NextLineLogs DEF LinesHaveLogs
    <3>2. CASE pc' = [pc EXCEPT ![t] = "alloc"] /\ UNCHANGED at
      BY <1>1, <3>2 DEF LinesHaveLogs, Exists, AdderInv
    <3>. QED  BY <1>3, <3>1, <3>2
  <2>4. WritersHaveLogs'
    BY <1>1, <1>2 DEF WritersHaveLogs
  <2>. QED  BY <1>2, <2>2, <2>3, <2>4 DEF PoolInv
<1>4. CASE /\ BufferLeft /\ TakeBuffer /\ bad' \in BOOLEAN
           /\ pc' = [pc EXCEPT ![t] = "push"] /\ UNCHANGED at
  <2>1. /\ IsFiniteSet(InHands)' /\ Cardinality(InHands)' = Cardinality(InHands) + 1
    BY <1>1, <1>4, HandsFill DEF Finite
  <2>2. /\ idle' \in 0 .. MAX_IDL_DATA + 1 /\ allocated' \in 0 .. HeapBlocks
        /\ allocated' - idle' = allocated - idle + 1
    BY <1>4, TakeBufferCounts
  <2>3. PoolTypes' /\ Finite'
    BY <1>1, <1>2, <1>4, <2>1, <2>2 DEF PoolTypes, Finite
  <2>4. BuffersConserved'
    <3>1. allocated - idle = lost + Cardinality(InHands) + Cardinality(Queued)
      BY Accounts
    <3>2. idle' \in Nat /\ allocated' \in Nat
      BY <2>2, LogAssumption
    <3>3. allocated' = idle' + lost' + Cardinality(InHands)' + Cardinality(Queued)'
      BY <1>1, <1>2, <2>1, <2>2, <3>1, <3>2, Accounts
    <3>. QED  BY <3>3 DEF BuffersConserved
  <2>5. LinesHaveLogs'
    BY <1>1, <1>4 DEF LinesHaveLogs, Exists, AdderInv
  <2>6. WritersHaveLogs'
    BY <1>1, <1>2 DEF WritersHaveLogs
  <2>. QED  BY <1>2, <2>3, <2>4, <2>5, <2>6 DEF PoolInv
<1>5. CASE AddCheck(t)
  <2>1. UNCHANGED <<idle, allocated, bad>>
    BY <1>5 DEF AddCheck, pool
  <2>2. bad' \in BOOLEAN
    BY <2>1 DEF PoolTypes
  <2>3. /\ pc' = [pc EXCEPT ![t] = "alloc"] \/ NextLine(t)
        /\ pc' = [pc EXCEPT ![t] = "alloc"] => UNCHANGED at
    <3>1. CASE useCount < MAX_LOG_INSTANCE_NUM
      BY <1>5, <3>1 DEF AddCheck
    <3>2. CASE ~(useCount < MAX_LOG_INSTANCE_NUM)
      <4>1. NextLine(t)
        BY <1>5, <3>2 DEF AddCheck
      <4>2. pc' # [pc EXCEPT ![t] = "alloc"]
        BY <4>1 DEF NextLine, AdderInv
      <4>. QED  BY <4>1, <4>2
    <3>. QED  BY <3>1, <3>2
  <2>. QED  BY <1>3, <2>1, <2>2, <2>3
<1>6. CASE AddAllocate(t)
  <2>1. bad' = (bad \/ useCount = 0)
    BY <1>6 DEF AddAllocate
  <2>2. bad' \in BOOLEAN
    BY <2>1
  <2>3. CASE BufferLeft /\ TakeBuffer /\ pc' = [pc EXCEPT ![t] = "push"] /\ UNCHANGED at
    BY <1>4, <2>2, <2>3
  <2>4. CASE NextLine(t) /\ UNCHANGED <<idle, allocated>>
    <3>1. pc' # [pc EXCEPT ![t] = "alloc"]
      BY <2>4 DEF NextLine, AdderInv
    <3>. QED  BY <1>3, <2>2, <2>4, <3>1
  <2>. QED  BY <1>6, <2>3, <2>4 DEF AddAllocate
<1>. QED  BY <1>5, <1>6

(* The buffer in the hands of the thread goes into the queue; when the     *)
(* queue is full, its oldest goes back to the pool.                        *)
LEMMA PushPoolInv ==
  ASSUME LogInv, PoolInv, ~bad, NEW t \in Threads, PushLogMsg(t)
  PROVE  PoolInv'
<1>. QueueInv /\ AdderInv /\ PoolTypes /\ Counted /\ LinesHaveLogs /\ Finite /\ BuffersConserved /\ WritersHaveLogs
  BY DEF LogInv, PoolInv
<1>. DEFINE l == at[t]
            q == PushDropOldest(queue[l], <<t, lines[t]>>, MAX_VEC_LENGTH)
<1>1. /\ l \in Logs /\ pc[t] = "push" /\ Exists(l) /\ UNCHANGED <<state, useCount, lost, wrPc>>
      /\ bad' = (bad \/ state[l] = "unusable") /\ queue' = [queue EXCEPT ![l] = q]
      /\ IF Len(queue[l]) >= MAX_VEC_LENGTH THEN FreeBuffer ELSE UNCHANGED <<idle, allocated>>
      /\ NextLine(t)
  BY DEF PushLogMsg, AdderInv, LinesHaveLogs
<1>2. /\ q \in Seq(Line) /\ Len(queue[l]) \in Nat /\ Len(queue[l]) <= MAX_VEC_LENGTH
      /\ Len(q) = IF Len(queue[l]) >= MAX_VEC_LENGTH THEN Len(queue[l]) ELSE Len(queue[l]) + 1
  <2>1. /\ queue[l] \in Seq(Line) /\ <<t, lines[t]>> \in Line /\ Len(queue[l]) <= MAX_VEC_LENGTH
    BY <1>1, LineOfThread DEF QueueInv
  <2>2. Len(queue[l]) \in Nat
    BY <2>1, LenProperties
  <2>3. q \in Seq(Line)
    BY <2>1, PushDropOldestType, LogAssumption
  <2>4. CASE Len(queue[l]) >= MAX_VEC_LENGTH
    <3>1. queue[l] # <<>>
      BY <2>1, <2>2, <2>4, LogAssumption
    <3>2. Tail(queue[l]) \in Seq(Line) /\ Len(Tail(queue[l])) = Len(queue[l]) - 1
      BY <2>1, <3>1, HeadTailProperties
    <3>3. Len(Append(Tail(queue[l]), <<t, lines[t]>>)) = Len(queue[l]) - 1 + 1
      BY <2>1, <3>2, AppendProperties
    <3>. QED  BY <2>1, <2>2, <2>3, <2>4, <3>3 DEF PushDropOldest
  <2>5. CASE ~(Len(queue[l]) >= MAX_VEC_LENGTH)
    <3>1. Len(Append(queue[l], <<t, lines[t]>>)) = Len(queue[l]) + 1
      BY <2>1, AppendProperties
    <3>. QED  BY <2>1, <2>2, <2>3, <2>5, <3>1 DEF PushDropOldest
  <2>. QED  BY <2>4, <2>5
<1>. HIDE DEF q, l
<1>3. /\ IsFiniteSet(InHands)' /\ Cardinality(InHands)' = Cardinality(InHands) - 1
  BY <1>1, HandsEmpty DEF Finite
<1>4. Live' = Live /\ Counted'
  BY <1>1 DEF Live, Counted
<1>5. bad' \in BOOLEAN
  BY <1>1
<1>6. LinesHaveLogs'
  <2>1. \A u \in Threads : pc'[u] # "idle" => Exists(at[u])'
    BY <1>1, NextLineLogs
  <2>2. \A k \in Logs : state'[k] = "none" => queue'[k] = <<>>
    BY <1>1 DEF LinesHaveLogs, Exists, QueueInv
  <2>. QED  BY <2>1, <2>2 DEF LinesHaveLogs
<1>7. /\ idle' \in 0 .. MAX_IDL_DATA + 1 /\ allocated' \in 0 .. HeapBlocks
  <2>1. allocated >= idle
    BY Accounts
  <2>2. CASE Len(queue[l]) >= MAX_VEC_LENGTH
    BY <1>1, <2>1, <2>2, FreeBufferCounts
  <2>3. CASE ~(Len(queue[l]) >= MAX_VEC_LENGTH)
    BY <1>1, <2>3 DEF PoolTypes
  <2>. QED  BY <2>2, <2>3
<1>8. PoolTypes'
  BY <1>1, <1>5, <1>7 DEF PoolTypes
<1>9. /\ IsFiniteSet(Queued)'
      /\ l \in Live => Cardinality(Queued)' = IF Len(queue[l]) >= MAX_VEC_LENGTH
                                             THEN Cardinality(Queued) ELSE Cardinality(Queued) + 1
  <2>1. CASE l \notin Live
    <3>1. Queued' = Queued
      <4>1. \A k \in Live : queue'[k] = queue[k]
        BY <1>1, <2>1 DEF Live, QueueInv
      <4>. QED  BY <1>4, <4>1, SameQueued
    <3>. QED  BY <2>1, <3>1 DEF Finite
  <2>2. CASE l \in Live /\ Len(queue[l]) >= MAX_VEC_LENGTH
    <3>1. Queued' = Queued
      <4>1. \A k \in Live : Len(queue'[k]) = Len(queue[k])
        BY <1>1, <1>2, <2>2 DEF Live, QueueInv
      <4>. QED  BY <1>4, <4>1, SameQueued
    <3>. QED  BY <2>2, <3>1 DEF Finite
  <2>3. CASE l \in Live /\ ~(Len(queue[l]) >= MAX_VEC_LENGTH)
    BY <1>1, <1>2, <1>4, <2>3, QueuedGrows DEF Finite
  <2>. QED  BY <2>1, <2>2, <2>3
<1>10. BuffersConserved'
  <2>. SUFFICES ASSUME ~bad'
                PROVE  allocated' = idle' + lost' + Cardinality(InHands)' + Cardinality(Queued)'
    BY DEF BuffersConserved
  <2>. DEFINE hands == Cardinality(InHands)
              queued == Cardinality(Queued)
  <2>1. l \in Live
    BY <1>1 DEF Exists, Live
  <2>2. /\ allocated - idle = lost + hands + queued /\ hands \in Nat /\ queued \in Nat
        /\ lost' = lost /\ lost \in Nat /\ idle \in Nat /\ allocated \in Nat
    BY <1>1, Accounts
  <2>4. /\ hands' = hands - 1
        /\ queued' = IF Len(queue[l]) >= MAX_VEC_LENGTH THEN queued ELSE queued + 1
    BY <1>3, <1>9, <2>1
  <2>. HIDE DEF hands, queued
  <2>5. allocated' = idle' + lost' + hands' + queued'
    <3>1. CASE Len(queue[l]) >= MAX_VEC_LENGTH
      <4>1. queued' = queued /\ FreeBuffer
        BY <1>1, <2>4, <3>1
      <4>. QED  BY <2>2, <2>4, <4>1 DEF FreeBuffer
    <3>2. CASE ~(Len(queue[l]) >= MAX_VEC_LENGTH)
      <4>1. queued' = queued + 1 /\ UNCHANGED <<allocated, idle>>
        BY <1>1, <2>4, <3>2
      <4>. QED  BY <2>2, <2>4, <4>1
    <3>. QED  BY <3>1, <3>2
  <2>. QED  BY <2>5 DEF hands, queued
<1>11. WritersHaveLogs'
  BY <1>1, <1>4 DEF WritersHaveLogs
<1>. QED  BY <1>3, <1>4, <1>6, <1>8, <1>9, <1>10, <1>11 DEF PoolInv, Finite

(* The thread of a log frees the buffer of the line it writes.             *)
LEMMA WritePassPoolInv ==
  ASSUME LogInv, PoolInv, ~bad, NEW l \in Logs, WritePass(l)
  PROVE  PoolInv'
<1>. QueueInv /\ AdderInv /\ PoolTypes /\ Counted /\ LinesHaveLogs /\ Finite /\ BuffersConserved /\ WritersHaveLogs
  BY DEF LogInv, PoolInv
<1>1. /\ UNCHANGED <<state, useCount, lost, bad, pc, at>>
      /\ wrPc' = [wrPc EXCEPT ![l] = "loop"] /\ l \in Live
  BY DEF WritePass, adder, WritersHaveLogs
<1>2. Live' = Live /\ InHands' = InHands /\ Counted'
  BY <1>1 DEF Live, InHands, Counted
<1>5. WritersHaveLogs'
  BY <1>1, <1>2 DEF WritersHaveLogs, PoolTypes
<1>3. CASE queue[l] = <<>>
  <2>1. UNCHANGED <<idle, allocated, queue>>
    BY <1>3 DEF WritePass
  <2>2. Queued' = Queued
    BY <1>2, <2>1, SameQueued
  <2>3. PoolTypes' /\ Finite' /\ BuffersConserved'
    BY <1>1, <1>2, <2>1, <2>2 DEF PoolTypes, Finite, BuffersConserved
  <2>4. LinesHaveLogs'
    BY <1>1, <2>1 DEF LinesHaveLogs, Exists
  <2>. QED  BY <1>2, <1>5, <2>3, <2>4 DEF PoolInv
<1>4. CASE queue[l] # <<>>
  <2>1. queue' = [queue EXCEPT ![l] = Tail(queue[l])] /\ FreeBuffer
    BY <1>4 DEF WritePass, PopFirst
  <2>2. /\ queue[l] \in Seq(Line) /\ Tail(queue[l]) \in Seq(Line)
        /\ Len(queue[l]) = Len(Tail(queue[l])) + 1
    <3>1. queue[l] \in Seq(Line)
      BY DEF QueueInv
    <3>. QED  BY <1>4, <3>1, HeadTailProperties, LenProperties
  <2>3. IsFiniteSet(Queued)' /\ Cardinality(Queued)' = Cardinality(Queued) - 1
    BY <1>1, <1>2, <2>1, <2>2, QueuedShrinks DEF Finite
  <2>4. /\ idle' \in 0 .. MAX_IDL_DATA + 1 /\ allocated' \in 0 .. HeapBlocks
        /\ allocated' - idle' = allocated - idle - 1
    BY <2>1, Accounts, FreeBufferCounts
  <2>5. PoolTypes' /\ Finite'
    BY <1>1, <1>2, <2>3, <2>4 DEF PoolTypes, Finite
  <2>6. BuffersConserved'
    <3>1. allocated - idle = lost + Cardinality(InHands) + Cardinality(Queued)
      BY Accounts
    <3>2. idle' \in Nat /\ allocated' \in Nat /\ Cardinality(InHands)' = Cardinality(InHands)
      BY <1>2, <2>4, LogAssumption
    <3>3. allocated' = idle' + lost' + Cardinality(InHands)' + Cardinality(Queued)'
      BY <1>1, <2>3, <2>4, <3>1, <3>2, Accounts
    <3>. QED  BY <3>3 DEF BuffersConserved
  <2>7. LinesHaveLogs'
    BY <1>1, <2>1 DEF LinesHaveLogs, Exists, Live, QueueInv
  <2>. QED  BY <1>2, <1>5, <2>5, <2>6, <2>7 DEF PoolInv
<1>. QED  BY <1>3, <1>4

LEMMA NextPoolInv == ASSUME LogInv, PoolInv, [Next]_vars PROVE PoolInv'
<1>. QueueInv /\ AdderInv /\ PoolTypes /\ Counted /\ LinesHaveLogs /\ Finite /\ BuffersConserved /\ WritersHaveLogs
  BY DEF LogInv, PoolInv
<1>1. ASSUME NEW l \in Logs, WriteLoop(l) PROVE PoolInv'
  <2>1. /\ UNCHANGED <<state, useCount, pool, queue, pc, at, bad>> /\ wrPc[l] = "loop"
        /\ wrPc' = [wrPc EXCEPT ![l] = IF RunningFlag(l) THEN "pass" ELSE "ended"]
    BY <1>1 DEF WriteLoop, adder
  <2>2. Live' = Live /\ Queued' = Queued /\ InHands' = InHands
    BY <2>1 DEF Live, Queued, InHands
  <2>3. PoolTypes' /\ WritersHaveLogs'
    BY <2>1, <2>2 DEF PoolTypes, WritersHaveLogs, pool
  <2>4. Counted' /\ Finite' /\ BuffersConserved' /\ LinesHaveLogs'
    BY <2>1, <2>2 DEF Counted, Finite, BuffersConserved, LinesHaveLogs, Exists, pool
  <2>. QED  BY <2>3, <2>4 DEF PoolInv
<1>2. ASSUME NEW t \in Threads, NEW l \in Logs, AddLog(t, l) PROVE PoolInv'
  <2>1. /\ UNCHANGED <<state, useCount, pool, queue, wrPc, bad>> /\ pc[t] # "push"
        /\ pc' = [pc EXCEPT ![t] = "check"] /\ at' = [at EXCEPT ![t] = l] /\ Exists(l)
    BY <1>2 DEF AddLog, StartAdding
  <2>2. Live' = Live /\ Queued' = Queued
    BY <2>1 DEF Live, Queued
  <2>3. InHands' = InHands
    BY <2>1, SameHands
  <2>4. PoolTypes' /\ WritersHaveLogs' /\ Counted' /\ Finite' /\ BuffersConserved'
    BY <2>1, <2>2, <2>3 DEF PoolTypes, WritersHaveLogs, Counted, Finite, BuffersConserved, pool
  <2>5. LinesHaveLogs'
    BY <2>1 DEF LinesHaveLogs, Exists, AdderInv
  <2>. QED  BY <2>4, <2>5 DEF PoolInv
<1>3. CASE UNCHANGED vars
  <2>1. UNCHANGED <<state, useCount, idle, allocated, lost, queue, wrPc, pc, at, bad>>
    BY <1>3 DEF vars, adder, pool
  <2>2. Live' = Live /\ Queued' = Queued /\ InHands' = InHands
    BY <2>1 DEF Live, Queued, InHands
  <2>3. PoolTypes' /\ WritersHaveLogs' /\ Counted' /\ Finite' /\ BuffersConserved'
    BY <2>1, <2>2 DEF PoolTypes, WritersHaveLogs, Counted, Finite, BuffersConserved
  <2>4. LinesHaveLogs'
    BY <2>1 DEF LinesHaveLogs, Exists
  <2>. QED  BY <2>3, <2>4 DEF PoolInv
<1>4. CASE Next
  <2>1. ~bad
    BY <1>4 DEF Next
  <2>. QED
    BY <1>1, <1>2, <1>4, <2>1, DoInitializePoolInv, StartDeletePoolInv, EndDeletePoolInv,
       AdderPoolInv, PushPoolInv, WritePassPoolInv
       DEF Next, ThreadWriteProc, AddStep
<1>. QED  BY <1>3, <1>4

(* The types: the queues are bounded, the counters stay in their ranges,   *)
(* and the pool, whoever frees and in whatever order, never counts a       *)
(* buffer it does not have.                                                *)
THEOREM LogTypeCorrect == Spec => []TypeOK
<1>1. Init => LogInv /\ PoolInv
  BY InitLogInv, InitPoolInv
<1>2. LogInv /\ PoolInv /\ [Next]_vars => (LogInv /\ PoolInv)'
  BY NextLogInv, NextPoolInv
<1>3. LogInv /\ PoolInv => TypeOK
  <2>. SUFFICES ASSUME LogInv, PoolInv PROVE TypeOK
    OBVIOUS
  <2>1. useCount \in 0 .. MAX_LOG_INSTANCE_NUM
    BY LiveFinite, LogAssumption DEF PoolInv, Counted
  <2>. QED  BY <2>1 DEF LogInv, QueueInv, AdderInv, PoolInv, PoolTypes, TypeOK
<1>. QED  BY <1>1, <1>2, <1>3, PTL DEF Spec

(* As long as nothing undefined happened, every buffer is accounted for.   *)
THEOREM NoBufferForgotten == Spec => []BuffersConserved
<1>1. Init => LogInv /\ PoolInv
  BY InitLogInv, InitPoolInv
<1>2. LogInv /\ PoolInv /\ [Next]_vars => (LogInv /\ PoolInv)'
  BY NextLogInv, NextPoolInv
<1>3. PoolInv => BuffersConserved
  BY DEF PoolInv
<1>. QED  BY <1>1, <1>2, <1>3, PTL DEF Spec
=============================================================================
