-------------------------- MODULE EventLoop_proofs --------------------------
(***************************************************************************)
(* Proof that a loop never sleeps on a task, is there for whoever it was   *)
(* given to, and runs each task once: TasksSafe of EventLoop, for any      *)
(* loops, any pipe and any number of tasks.                                *)
(*                                                                         *)
(* TasksSafe is not inductive.  A loop that waits has an edge on its way   *)
(* because every task that came since it last let go of lock_ raised one   *)
(* or met a full pipe, so WakeOK says that of the whole way back to        *)
(* epoll_wait.  That loop_ is set follows from the order in which the two  *)
(* threads set running_, loop_, the promise and looping_ (ThreadOK).  That *)
(* a task is in one queue follows from its number, one more than all those *)
(* before (QueueOK).                                                       *)
(***************************************************************************)
EXTENDS EventLoop, Integers, TLAPS

Ids(q) == {q[i].id : i \in 1 .. Len(q)}
Increasing(q) == \A i, j \in 1 .. Len(q) : i < j => q[i].id < q[j].id

\* How far the thread of a loop has come, for what its owner has seen.
ThreadOK ==
  \A l \in Loops :
    /\ owner[l] \in {"started", "joining", "joined"} => promised[l]
    /\ promised[l] => worker[l] \notin {"created", "announce"}
    /\ loop_set[l] <=> worker[l] \notin {"created", "exited"}
    /\ worker[l] \in {"test", "epoll", "functions", "running"} /\ ~looping[l] =>
         owner[l] \in {"joining", "joined"}
    /\ worker[l] = "exited" => owner[l] \in {"joining", "joined"}

\* A loop's lock_ outlasts an action only while the loop runs tasks.
LockOK ==
  \A l \in Loops : /\ lock[l] \in {l, Free}
                   /\ lock[l] = l <=> worker[l] = "running"

\* Whoever is not about to look at the queue, or at it, will be told of a task.
WakeOK ==
  \A l \in Loops :
    /\ edge[l] => pipe[l] > 0
    /\ worker[l] \notin {"functions", "running"} /\ functions[l] # <<>> =>
         edge[l] \/ pipe[l] = PipeSize

\* Tasks are numbered as they are posted.
QueueOK ==
  /\ \A l \in Loops : /\ Increasing(functions[l])
                      /\ Ids(functions[l]) \subseteq 1 .. posted
                      /\ Ids(functions[l]) \cap ran = {}
  /\ ran \subseteq 1 .. posted
  /\ \A l, m \in Loops : l # m => Ids(functions[l]) \cap Ids(functions[m]) = {}

LoopInv == TypeOK /\ ThreadOK /\ LockOK /\ WakeOK /\ QueueOK

-----------------------------------------------------------------------------
(* The queue of a loop.                                                    *)

\* A task with a higher number goes to the end (RunInLoop, EventLoop.cpp:243).
LEMMA AppendedTask ==
  ASSUME NEW q \in Seq(Task), Increasing(q), NEW t \in Task,
         \A k \in Ids(q) : k < t.id
  PROVE  /\ Append(q, t) \in Seq(Task) /\ Append(q, t) # <<>>
         /\ Increasing(Append(q, t))
         /\ Ids(Append(q, t)) = Ids(q) \cup {t.id}
<1> DEFINE a == Append(q, t)
<1>1. a \in Seq(Task) /\ a # <<>> /\ Len(a) = Len(q) + 1 /\ Len(q) \in Nat
  OBVIOUS
<1>2. \A i \in 1 .. Len(q) : a[i] = q[i]
  OBVIOUS
<1>3. a[Len(q) + 1] = t
  OBVIOUS
<1> HIDE DEF a
<1>4. \A i \in 1 .. Len(a) : i \in 1 .. Len(q) \/ i = Len(q) + 1
  BY <1>1
<1>5. 1 .. Len(q) \subseteq 1 .. Len(a) /\ Len(q) + 1 \in 1 .. Len(a)
  BY <1>1
<1>6. Ids(a) = Ids(q) \cup {t.id}
  BY <1>2, <1>3, <1>4, <1>5 DEF Ids
<1>7. Increasing(a)
  <2> SUFFICES ASSUME NEW i \in 1 .. Len(a), NEW j \in 1 .. Len(a), i < j
               PROVE  a[i].id < a[j].id
    BY DEF Increasing
  <2>1. i \in 1 .. Len(q)
    BY <1>1
  <2>2. CASE j \in 1 .. Len(q)
    BY <2>1, <2>2, <1>2 DEF Increasing
  <2>3. CASE j = Len(q) + 1
    <3>1. q[i].id \in Ids(q)
      BY <2>1 DEF Ids
    <3> QED BY <3>1, <2>1, <2>3, <1>2, <1>3
  <2> QED BY <2>2, <2>3, <1>4
<1> QED BY <1>1, <1>6, <1>7 DEF a

\* The task that ran is taken off the front (RunFunctions, EventLoop.cpp:270).
LEMMA PoppedTask ==
  ASSUME NEW q \in Seq(Task), q # <<>>, Increasing(q)
  PROVE  /\ Head(q) \in Task /\ Popped(q) \in Seq(Task)
         /\ Increasing(Popped(q))
         /\ Head(q).id \in Ids(q)
         /\ Ids(Popped(q)) = Ids(q) \ {Head(q).id}
<1> DEFINE p == Tail(q)
<1>1. p \in Seq(Task) /\ Len(p) = Len(q) - 1 /\ Len(q) \in Nat \ {0}
  OBVIOUS
<1>2. \A i \in 1 .. Len(p) : p[i] = q[i + 1]
  OBVIOUS
<1>3. Head(q) = q[1] /\ q[1] \in Task
  OBVIOUS
<1>4. \A i \in 1 .. Len(q) : q[i].id \in Int
  <2>1. \A i \in 1 .. Len(q) : q[i] \in Task
    OBVIOUS
  <2>2. \A t \in Task : t.id \in 1 .. MaxTasks
    BY DEF Task
  <2> QED BY <2>1, <2>2
<1> HIDE DEF p
<1>5. \A i \in 1 .. Len(p) : i + 1 \in 1 .. Len(q) /\ i + 1 # 1
  BY <1>1
<1>6. \A j \in 1 .. Len(q) : j # 1 => j - 1 \in 1 .. Len(p) /\ (j - 1) + 1 = j
  BY <1>1
<1>7. 1 \in 1 .. Len(q) /\ \A j \in 1 .. Len(q) : j # 1 => 1 < j
  BY <1>1
<1>8. Increasing(p)
  <2> SUFFICES ASSUME NEW i \in 1 .. Len(p), NEW j \in 1 .. Len(p), i < j
               PROVE  p[i].id < p[j].id
    BY DEF Increasing
  <2>1. i + 1 < j + 1
    OBVIOUS
  <2> QED BY <2>1, <1>2, <1>5 DEF Increasing
<1>9. Ids(p) \subseteq Ids(q) \ {Head(q).id}
  <2> SUFFICES ASSUME NEW i \in 1 .. Len(p)
               PROVE  p[i].id \in Ids(q) /\ p[i].id # q[1].id
    BY <1>3 DEF Ids
  <2>1. q[1].id < q[i + 1].id
    BY <1>5, <1>7 DEF Increasing
  <2>2. q[1].id # q[i + 1].id
    BY <2>1, <1>4, <1>5, <1>7
  <2> QED BY <2>2, <1>2, <1>5 DEF Ids
<1>10. Ids(q) \ {Head(q).id} \subseteq Ids(p)
  <2> SUFFICES ASSUME NEW j \in 1 .. Len(q), j # 1
               PROVE  q[j].id \in Ids(p)
    BY <1>3 DEF Ids
  <2>1. p[j - 1] = q[j]
    BY <1>2, <1>6
  <2> QED BY <2>1, <1>6 DEF Ids
<1> QED BY <1>1, <1>3, <1>7, <1>8, <1>9, <1>10 DEF Popped, Ids, p

\* A pipe holds no more than it can (WakeUp).
LEMMA Woken ==
  ASSUME TypeOK, NEW l \in Loops, WakeUp(l) \/ UNCHANGED pipeVars
  PROVE  pipe' \in [Loops -> 0 .. PipeSize] /\ edge' \in [Loops -> BOOLEAN]
<1>1. pipe \in [Loops -> 0 .. PipeSize] /\ edge \in [Loops -> BOOLEAN] /\ PipeSize \in Nat
  BY LoopAssumption DEF TypeOK
<1>2. CASE pipe[l] < PipeSize /\ WakeUp(l)
  <2>1. pipe[l] + 1 \in 0 .. PipeSize
    BY <1>1, <1>2
  <2> QED BY <1>1, <1>2, <2>1 DEF WakeUp
<1>3. CASE UNCHANGED pipeVars
  BY <1>1, <1>3 DEF pipeVars
<1> QED BY <1>2, <1>3 DEF WakeUp

-----------------------------------------------------------------------------
(* Steps.                                                                  *)

\* Nothing is there before a thread runs (EventLoopThread's constructor).
LEMMA InitOK == ASSUME Init PROVE LoopInv
<1> USE LoopAssumption DEF Init
<1>1. TypeOK
  BY DEF TypeOK, Task
<1>2. ThreadOK
  BY DEF ThreadOK
<1>3. LockOK
  BY DEF LockOK
<1>4. WakeOK
  BY DEF WakeOK
<1>5. QueueOK
  <2>1. \A l \in Loops : functions[l] = <<>> /\ Len(functions[l]) = 0
    OBVIOUS
  <2>2. \A l \in Loops : Ids(functions[l]) = {}
    <3> TAKE l \in Loops
    <3>1. Len(functions[l]) = 0
      BY <2>1
    <3>2. 1 .. Len(functions[l]) = {}
      BY <3>1
    <3> QED BY <3>2, ZenonT(30) DEF Ids
  <2>3. \A l \in Loops : Increasing(functions[l])
    BY <2>1 DEF Increasing
  <2> QED BY <2>2, <2>3 DEF QueueOK
<1> QED BY <1>1, <1>2, <1>3, <1>4, <1>5 DEF LoopInv

\* The owner's steps and those of the thread between its tasks leave the queues
\* alone (Run, Loop, Quit).
LEMMA ThreadStep ==
  ASSUME LoopInv, NEW l \in Loops,
         \/ Run(l) \/ RunReturns(l) \/ Destroy(l) \/ Join(l)
         \/ StartEventLoop(l) \/ SetPromise(l) \/ Loop(l) \/ LoopAgain(l) \/ LoopEnds(l)
         \/ PipeRead(l) \/ EpollOther(l) \/ TakeFunctions(l) \/ FunctionsDone(l)
  PROVE  LoopInv'
<1> USE LoopAssumption
<1>1. TypeOK /\ ThreadOK /\ LockOK /\ WakeOK /\ QueueOK
  BY DEF LoopInv
<1>q. QueueOK'
  <2>1. UNCHANGED <<functions, posted, ran>>
    BY DEF Run, RunReturns, Destroy, Join, StartEventLoop, SetPromise, Loop, LoopAgain,
           LoopEnds, PipeRead, EpollOther, TakeFunctions, FunctionsDone, loopVars, threadVars,
           pipeVars
  <2> QED BY <2>1, <1>1 DEF QueueOK
<1>2. CASE Run(l)
  BY <1>1, <1>2, <1>q DEF Run, TypeOK, ThreadOK, LockOK, WakeOK, LoopInv, loopVars, pipeVars
<1>3. CASE RunReturns(l)
  BY <1>1, <1>3, <1>q DEF RunReturns, TypeOK, ThreadOK, LockOK, WakeOK, LoopInv, loopVars,
                         pipeVars
<1>4. CASE Destroy(l)
  <2>1. /\ owner[l] = "started" /\ owner' = [owner EXCEPT ![l] = "joining"]
        /\ looping' = [looping EXCEPT ![l] = FALSE] \/ looping' = looping
        /\ UNCHANGED <<running, promised, loop_set, worker, lock, functions, pipe, edge>>
        /\ UNCHANGED <<posted, ran>>
    BY <1>4 DEF Destroy, Quit, pipeVars
  <2>2. TypeOK'
    BY <1>1, <2>1 DEF TypeOK
  <2>3. ThreadOK'
    BY <1>1, <2>1 DEF TypeOK, ThreadOK
  <2>4. LockOK' /\ WakeOK'
    BY <1>1, <2>1 DEF LockOK, WakeOK
  <2> QED BY <2>2, <2>3, <2>4, <1>q DEF LoopInv
<1>5. CASE Join(l)
  BY <1>1, <1>5, <1>q DEF Join, TypeOK, ThreadOK, LockOK, WakeOK, LoopInv, loopVars, pipeVars
<1>6. CASE StartEventLoop(l)
  BY <1>1, <1>6, <1>q DEF StartEventLoop, Announce, TypeOK, ThreadOK, LockOK, WakeOK, LoopInv,
                         pipeVars
<1>7. CASE SetPromise(l)
  BY <1>1, <1>7, <1>q DEF SetPromise, TypeOK, ThreadOK, LockOK, WakeOK, LoopInv, pipeVars
<1>8. CASE Loop(l)
  BY <1>1, <1>8, <1>q DEF Loop, TypeOK, ThreadOK, LockOK, WakeOK, LoopInv, threadVars, pipeVars
<1>9. CASE LoopAgain(l)
  BY <1>1, <1>9, <1>q DEF LoopAgain, TypeOK, ThreadOK, LockOK, WakeOK, LoopInv, threadVars,
                         pipeVars
<1>10. CASE LoopEnds(l)
  BY <1>1, <1>10, <1>q DEF LoopEnds, TypeOK, ThreadOK, LockOK, WakeOK, LoopInv, pipeVars
<1>11. CASE PipeRead(l)
  BY <1>1, <1>11, <1>q DEF PipeRead, OnRead, TypeOK, ThreadOK, LockOK, WakeOK, LoopInv,
                          threadVars
<1>12. CASE EpollOther(l)
  BY <1>1, <1>12, <1>q DEF EpollOther, TypeOK, ThreadOK, LockOK, WakeOK, LoopInv, threadVars,
                          pipeVars
<1>13. CASE TakeFunctions(l)
  BY <1>1, <1>13, <1>q DEF TakeFunctions, TypeOK, ThreadOK, LockOK, WakeOK, LoopInv, threadVars,
                          pipeVars
<1>14. CASE FunctionsDone(l)
  BY <1>1, <1>14, <1>q DEF FunctionsDone, TypeOK, ThreadOK, LockOK, WakeOK, LoopInv, threadVars,
                          pipeVars
<1> QED BY <1>2, <1>3, <1>4, <1>5, <1>6, <1>7, <1>8, <1>9, <1>10, <1>11, <1>12, <1>13, <1>14

\* A task from outside takes the next number, and wakes the loop or meets a full
\* pipe (RunInLoop, WakeUp).
LEMMA RunInLoopStep ==
  ASSUME LoopInv, NEW l \in Loops, NEW m \in Loops, RunInLoop(l, m)
  PROVE  LoopInv'
<1> USE LoopAssumption
<1>1. TypeOK /\ ThreadOK /\ LockOK /\ WakeOK /\ QueueOK
  BY DEF LoopInv
<1> DEFINE q == functions[l]
           t == [id |-> posted + 1, next |-> m]
<1>2. posted \in Nat /\ posted' = posted + 1 /\ posted + 1 \in 1 .. MaxTasks
  BY <1>1 DEF RunInLoop, TypeOK
<1>3. t \in Task /\ t.id = posted + 1
  BY <1>2 DEF Task
<1>4. q \in Seq(Task) /\ Increasing(q) /\ \A k \in Ids(q) : k < t.id
  BY <1>1, <1>2 DEF TypeOK, QueueOK
<1>5. functions' = [functions EXCEPT ![l] = Append(q, t)]
  BY DEF RunInLoop
<1> HIDE DEF q, t
<1>6. /\ Append(q, t) \in Seq(Task) /\ Append(q, t) # <<>>
      /\ Increasing(Append(q, t))
      /\ Ids(Append(q, t)) = Ids(q) \cup {posted + 1}
  BY <1>3, <1>4, AppendedTask
<1> DEFINE a == Append(q, t)
<1> HIDE DEF a
<1>7. /\ functions' = [functions EXCEPT ![l] = a] /\ functions \in [Loops -> Seq(Task)]
      /\ a \in Seq(Task) /\ a # <<>> /\ Increasing(a)
      /\ Ids(a) = Ids(functions[l]) \cup {posted + 1}
  BY <1>1, <1>5, <1>6 DEF a, q, TypeOK
<1>8. TypeOK'
  <2>1. pipe' \in [Loops -> 0 .. PipeSize] /\ edge' \in [Loops -> BOOLEAN]
    BY <1>1, Woken DEF RunInLoop
  <2>2. posted' \in 0 .. MaxTasks /\ functions' \in [Loops -> Seq(Task)]
    BY <1>2, <1>7
  <2> QED BY <1>1, <2>1, <2>2 DEF RunInLoop, TypeOK, threadVars
<1>9. ThreadOK' /\ LockOK'
  BY <1>1 DEF RunInLoop, ThreadOK, LockOK, threadVars
<1>10. WakeOK'
  BY <1>1, <1>7 DEF RunInLoop, WakeUp, WakeOK, TypeOK, threadVars, pipeVars
<1>11. QueueOK'
  <2>1. ran' = ran
    BY DEF RunInLoop
  <2>2. \A k \in Loops : Ids(functions[k]) \subseteq 1 .. posted
    BY <1>1 DEF QueueOK
  <2>3. posted + 1 \notin 1 .. posted /\ (1 .. posted') = (1 .. posted) \cup {posted + 1}
    BY <1>2
  <2>4. \A k \in Loops : functions'[k] = IF k = l THEN a ELSE functions[k]
    BY <1>7
  <2>5. \A k \in Loops :
          Ids(functions'[k]) = IF k = l THEN Ids(functions[l]) \cup {posted + 1}
                                        ELSE Ids(functions[k])
    BY <1>7, <2>4
  <2> QED BY SMTT(30), <1>1, <1>7, <2>1, <2>2, <2>3, <2>4, <2>5 DEF QueueOK
<1> QED BY <1>8, <1>9, <1>10, <1>11 DEF LoopInv

\* A task of the loop's own runs and leaves the queue (RunFunctions).
LEMMA RunTaskStep ==
  ASSUME LoopInv, NEW l \in Loops, RunTask(l)
  PROVE  LoopInv'
<1> USE LoopAssumption
<1>1. TypeOK /\ ThreadOK /\ LockOK /\ WakeOK /\ QueueOK
  BY DEF LoopInv
<1> DEFINE q == functions[l]
           p == Popped(q)
           k == Head(q).id
<1>2. q \in Seq(Task) /\ q # <<>> /\ Increasing(q)
  BY <1>1 DEF RunTask, TypeOK, QueueOK
<1>3. /\ k \in 1 .. MaxTasks /\ p \in Seq(Task) /\ Increasing(p)
      /\ k \in Ids(q) /\ Ids(p) = Ids(q) \ {k}
  <2> HIDE DEF q
  <2> QED BY <1>2, PoppedTask DEF Task
<1>4. /\ functions' = [functions EXCEPT ![l] = p] /\ functions \in [Loops -> Seq(Task)]
      /\ ran' = ran \cup {k} /\ worker[l] = "running"
      /\ UNCHANGED <<threadVars, worker, looping, lock, pipeVars, posted>>
  BY <1>1 DEF RunTask, TypeOK
<1>5. k \in Ids(functions[l]) /\ Ids(p) = Ids(functions[l]) \ {k}
  BY <1>3
<1> HIDE DEF q, p, k
<1>6. TypeOK'
  BY <1>1, <1>3, <1>4 DEF TypeOK, threadVars, pipeVars
<1>7. ThreadOK' /\ LockOK'
  BY <1>1, <1>4 DEF ThreadOK, LockOK, threadVars
<1>8. WakeOK'
  BY <1>1, <1>4 DEF WakeOK, pipeVars
<1>9. QueueOK'
  <2>1. \A i \in Loops : functions'[i] = IF i = l THEN p ELSE functions[i]
    BY <1>4
  <2>2. \A i \in Loops : Ids(functions'[i]) = Ids(functions[i]) \ {k}
    <3> TAKE i \in Loops
    <3>1. CASE i = l
      BY <3>1, <2>1, <1>5
    <3>2. CASE i # l
      <4>1. k \notin Ids(functions[i])
        BY <3>2, <1>1, <1>5 DEF QueueOK
      <4> QED BY <4>1, <3>2, <2>1
    <3> QED BY <3>1, <3>2
  <2>3. k \in 1 .. posted
    BY <1>1, <1>5 DEF QueueOK
  <2>4. \A i \in Loops : Increasing(functions'[i])
    BY <1>1, <1>3, <2>1 DEF QueueOK
  <2> QED BY <1>1, <1>4, <2>2, <2>3, <2>4 DEF QueueOK
<1> QED BY <1>6, <1>7, <1>8, <1>9 DEF LoopInv

\* A task that gives another loop a task: both at once (RunFunctions, and RunInLoop
\* of the other loop).
LEMMA RunForwardStep ==
  ASSUME LoopInv, NEW l \in Loops, RunForward(l)
  PROVE  LoopInv'
<1> USE LoopAssumption
<1>1. TypeOK /\ ThreadOK /\ LockOK /\ WakeOK /\ QueueOK
  BY DEF LoopInv
<1> DEFINE q == functions[l]
           p == Popped(q)
           k == Head(q).id
           m == Head(q).next
           t == [id |-> posted + 1, next |-> m]
           gives == owner[m] = "started" /\ posted < MaxTasks
           a == IF gives THEN Append(functions[m], t) ELSE functions[m]
           added == IF gives THEN {posted + 1} ELSE {}
<1>2. q \in Seq(Task) /\ q # <<>> /\ Increasing(q)
  BY <1>1 DEF RunForward, TypeOK, QueueOK
<1>3. /\ k \in 1 .. MaxTasks /\ m \in Loops /\ p \in Seq(Task) /\ Increasing(p)
      /\ k \in Ids(q) /\ Ids(p) = Ids(q) \ {k}
  <2> HIDE DEF q
  <2> QED BY <1>2, PoppedTask DEF Task
<1>4. /\ functions' = [functions EXCEPT ![l] = p, ![m] = a]
      /\ functions \in [Loops -> Seq(Task)]
      /\ ran' = ran \cup {k} /\ worker[l] = "running" /\ m # l
      /\ UNCHANGED <<threadVars, worker, looping, lock>>
  <2>1. functions' = [functions EXCEPT ![l] = p,
                        ![m] = IF gives THEN Append(@, t) ELSE @]
    BY DEF RunForward
  <2>2. m # l /\ worker[l] = "running" /\ ran' = ran \cup {k}
    BY DEF RunForward
  <2>3. functions \in [Loops -> Seq(Task)]
    BY <1>1 DEF TypeOK
  <2>4. UNCHANGED <<threadVars, worker, looping, lock>>
    BY DEF RunForward
  <2> HIDE DEF q, p, k, m, t, gives
  <2>5. [functions EXCEPT ![l] = p][m] = functions[m]
    BY <2>2, <2>3
  <2> QED BY <2>1, <2>2, <2>3, <2>4, <2>5
<1>5. k \in Ids(functions[l]) /\ Ids(p) = Ids(functions[l]) \ {k}
  BY <1>3
<1>6. IF gives THEN posted' = posted + 1 /\ WakeUp(m) ELSE UNCHANGED <<posted, pipeVars>>
  BY DEF RunForward
<1> HIDE DEF q, p, k, m
<1>7. posted \in Nat /\ (gives => posted + 1 \in 1 .. MaxTasks)
  BY <1>1 DEF TypeOK
<1>8. /\ a \in Seq(Task) /\ Increasing(a)
      /\ Ids(a) = Ids(functions[m]) \cup added
      /\ gives \/ a = functions[m]
      /\ added \cap (1 .. posted) = {} /\ (1 .. posted') = (1 .. posted) \cup added
      /\ posted' \in 0 .. MaxTasks
  <2>0. functions[m] \in Seq(Task) /\ Increasing(functions[m])
    BY <1>1, <1>3, <1>4 DEF QueueOK
  <2>1. CASE gives
    <3>1. t \in Task /\ t.id = posted + 1
      BY <1>3, <1>7, <2>1 DEF Task
    <3>2. \A i \in Ids(functions[m]) : i < t.id
      BY <1>1, <1>3, <1>7, <3>1 DEF QueueOK
    <3> DEFINE b == functions[m]
    <3>3. b \in Seq(Task) /\ Increasing(b) /\ \A i \in Ids(b) : i < t.id
      BY <2>0, <3>2
    <3>4. a = Append(b, t) /\ added = {posted + 1}
      BY <2>1
    <3> HIDE DEF b, t, a, added
    <3>5. a \in Seq(Task) /\ Increasing(a) /\ Ids(a) = Ids(b) \cup {posted + 1}
      BY <3>1, <3>3, <3>4, AppendedTask
    <3>6. posted' = posted + 1
      BY <1>6, <2>1
    <3>7. {posted + 1} \cap (1 .. posted) = {} /\ (1 .. posted') = (1 .. posted) \cup {posted + 1}
      BY <3>6, <1>7
    <3>8. posted' \in 0 .. MaxTasks
      BY <3>6, <1>7, <2>1
    <3> QED BY <2>1, <3>4, <3>5, <3>7, <3>8 DEF b
  <2>2. CASE ~gives
    <3>1. posted' = posted /\ posted \in 0 .. MaxTasks
      BY <1>1, <1>6, <2>2 DEF TypeOK
    <3> QED BY <2>0, <2>2, <3>1
  <2> QED BY <2>1, <2>2
<1> HIDE DEF a, added
<1>9. /\ \A i \in Loops : functions'[i] = IF i = l THEN p ELSE IF i = m THEN a ELSE functions[i]
      /\ functions' \in [Loops -> Seq(Task)]
  BY <1>3, <1>4, <1>8
<1>10. TypeOK'
  <2>1. pipe' \in [Loops -> 0 .. PipeSize] /\ edge' \in [Loops -> BOOLEAN]
    BY <1>1, <1>3, <1>6, Woken
  <2> QED BY <1>1, <1>3, <1>4, <1>8, <1>9, <2>1 DEF TypeOK, threadVars
<1>11. ThreadOK' /\ LockOK'
  BY <1>1, <1>4 DEF ThreadOK, LockOK, threadVars
<1>12. WakeOK'
  <2> SUFFICES ASSUME NEW i \in Loops
               PROVE  /\ edge'[i] => pipe'[i] > 0
                      /\ worker'[i] \notin {"functions", "running"} /\ functions'[i] # <<>> =>
                           edge'[i] \/ pipe'[i] = PipeSize
    BY DEF WakeOK
  <2>1. CASE i = m /\ gives
    BY <1>1, <1>3, <1>6, <2>1 DEF TypeOK, WakeOK, WakeUp, pipeVars
  <2>2. CASE i # m \/ ~gives
    <3>1. edge'[i] = edge[i] /\ pipe'[i] = pipe[i]
      BY <1>1, <1>3, <1>6, <2>2 DEF TypeOK, WakeUp, pipeVars
    <3>2. i = l \/ functions'[i] = functions[i]
      BY <1>8, <1>9, <2>2
    <3> QED BY <1>1, <1>4, <3>1, <3>2 DEF WakeOK
  <2> QED BY <2>1, <2>2
<1>13. QueueOK'
  <2>1. /\ k \in 1 .. posted
        /\ \A i \in Loops : i # l => k \notin Ids(functions[i])
        /\ \A i \in Loops : Ids(functions[i]) \subseteq 1 .. posted
        /\ ran \subseteq 1 .. posted
    BY <1>1, <1>5 DEF QueueOK
  <2>2. \A i \in Loops : Ids(functions'[i]) =
          (Ids(functions[i]) \ {k}) \cup (IF i = m THEN added ELSE {})
    <3> TAKE i \in Loops
    <3>1. CASE i = l
      BY <3>1, <1>4, <1>5, <1>9
    <3>2. CASE i = m
      BY <3>2, <2>1, <1>3, <1>4, <1>8, <1>9
    <3>3. CASE i # l /\ i # m
      BY <3>3, <2>1, <1>9
    <3> QED BY <3>1, <3>2, <3>3
  <2>3. \A i \in Loops : Increasing(functions'[i])
    BY <1>1, <1>3, <1>8, <1>9 DEF QueueOK
  <2>4. \A i \in Loops : /\ Ids(functions'[i]) \subseteq 1 .. posted'
                         /\ Ids(functions'[i]) \cap ran' = {}
    BY <1>1, <1>4, <1>8, <2>1, <2>2 DEF QueueOK
  <2>5. ran' \subseteq 1 .. posted'
    BY <1>4, <1>8, <2>1
  <2>6. \A i, j \in Loops : i # j => Ids(functions'[i]) \cap Ids(functions'[j]) = {}
    BY <1>1, <1>8, <2>1, <2>2 DEF QueueOK
  <2> QED BY <2>3, <2>4, <2>5, <2>6 DEF QueueOK
<1> QED BY <1>10, <1>11, <1>12, <1>13 DEF LoopInv

\* Every step of every thread, or none.
LEMMA NextOK == ASSUME LoopInv, [Next]_vars PROVE LoopInv'
<1>1. CASE Next
  <2>1. PICK l \in Loops :
          \/ Run(l) \/ RunReturns(l) \/ Destroy(l) \/ Join(l)
          \/ \E m \in IF l \in ForwardLoops THEN Loops ELSE {l} : RunInLoop(l, m)
          \/ WorkerStep(l)
    BY <1>1 DEF Next
  <2>2. CASE \E m \in IF l \in ForwardLoops THEN Loops ELSE {l} : RunInLoop(l, m)
    <3>1. PICK m \in Loops : RunInLoop(l, m)
      BY <2>2
    <3> QED BY <3>1, RunInLoopStep
  <2>3. CASE RunTask(l)
    BY <2>3, RunTaskStep
  <2>4. CASE RunForward(l)
    BY <2>4, RunForwardStep
  <2> QED BY <2>1, <2>2, <2>3, <2>4, ThreadStep DEF WorkerStep
<1>2. CASE UNCHANGED vars
  <2>1. /\ UNCHANGED <<owner, running, promised, loop_set, worker, looping, lock, functions>>
        /\ UNCHANGED <<pipe, edge, posted, ran>>
    BY <1>2 DEF vars, threadVars, loopVars, pipeVars
  <2> QED BY <2>1 DEF LoopInv, TypeOK, ThreadOK, LockOK, WakeOK, QueueOK
<1> QED BY <1>1, <1>2

-----------------------------------------------------------------------------
\* The inductive invariant: the places of the two threads, the lock, the pipe and
\* the numbered queues of every loop fit together (EventLoop, EventLoopThread and
\* PipeEvent).
THEOREM LoopCorrect == Spec => []LoopInv
<1>1. Init => LoopInv
  BY InitOK
<1>2. LoopInv /\ [Next]_vars => LoopInv'
  BY NextOK
<1> QED BY <1>1, <1>2, PTL DEF Spec

\* No loop sleeps on a task, Run returns a loop that is there until it is
\* destroyed, and each task is queued once and runs once (RunInLoop, WakeUp,
\* OnRead, Run and RunFunctions).
THEOREM TasksCorrect == Spec => []TasksSafe
<1>1. LoopInv => TasksSafe
  <2> SUFFICES ASSUME LoopInv PROVE TasksSafe
    OBVIOUS
  <2>1. TypeOK /\ ThreadOK /\ LockOK /\ WakeOK /\ QueueOK
    BY DEF LoopInv
  <2>2. NoSleepOnTask
    BY <2>1 DEF NoSleepOnTask, WakeOK
  <2>3. LoopAfterRun
    BY <2>1 DEF LoopAfterRun, ThreadOK
  <2>4. \A l \in Loops : Queued(l) = Ids(functions[l])
    BY DEF Queued, Ids
  <2>5. TasksRunOnce
    BY <2>1, <2>4 DEF TasksRunOnce, LockOK, QueueOK, Increasing
  <2> QED BY <2>1, <2>2, <2>3, <2>5 DEF TasksSafe
<1> QED BY <1>1, LoopCorrect, PTL
=============================================================================
