----------------------------- MODULE EventLoop -----------------------------
(***************************************************************************)
(* Event loops, their threads and the tasks other threads give them        *)
(* (network/net/EventLoop.cpp, EventLoopThread.cpp, PipeEvent.cpp).        *)
(*                                                                         *)
(* An owner starts a loop's thread with EventLoopThread::Run and ends it   *)
(* with the destructor.  RunInLoop from a foreign thread queues a task     *)
(* under the loop's lock_ and writes to a pipe the loop polls, edge        *)
(* triggered.  The loop runs its tasks with lock_ held.  A task may itself *)
(* give a task to another loop, as a failed connect of a puller does when  *)
(* it closes the players of its session (TcpClient::ConnectInLoop,         *)
(* PullerRelay::OnPullClose, Session::Clear, TcpConnection::ForceClose).   *)
(*                                                                         *)
(* What the loop does for sockets and timers is left to other modules: here*)
(* epoll_wait returns for the pipe, or for any other reason.               *)
(***************************************************************************)
EXTENDS Naturals, Sequences

CONSTANTS
  Loops,          \* event loops, each with its thread and owner
  ForwardLoops,   \* loops with tasks that give tasks to other loops
  PipeSize,       \* writes the pipe of a loop can hold (8192: 64 KiB, 8 bytes each)
  MaxTasks,       \* bound: tasks posted
  Free            \* a lock nobody holds

ASSUME LoopAssumption ==
  /\ ForwardLoops \subseteq Loops
  /\ PipeSize \in Nat \ {0}
  /\ MaxTasks \in Nat
  /\ Free \notin Loops

VARIABLES
  \* EventLoopThread: the owner's place, running_, the promise, loop_ set.
  owner, running, promised, loop_set,
  \* EventLoop: the thread's place, looping_, lock_ and functions_.
  worker, looping, lock, functions,
  \* The pipe: writes not yet read, and an edge that epoll has not reported.
  pipe, edge,
  \* How many tasks were posted so far, and history: the tasks that ran.
  posted, ran

threadVars == <<owner, running, promised, loop_set>>
loopVars == <<worker, looping, lock, functions>>
pipeVars == <<pipe, edge>>
vars == <<threadVars, loopVars, pipeVars, posted, ran>>

\* A task is its number and the loop it forwards to, itself when to none.
Task == [id : 1 .. MaxTasks, next : Loops]

TypeOK ==
  /\ owner \in [Loops -> {"new", "waiting", "started", "joining", "joined"}]
  /\ running \in [Loops -> BOOLEAN]
  /\ promised \in [Loops -> BOOLEAN]
  /\ loop_set \in [Loops -> BOOLEAN]
  /\ worker \in [Loops -> {"created", "announce", "enter", "test", "epoll", "functions",
                           "running", "exited"}]
  /\ looping \in [Loops -> BOOLEAN]
  /\ lock \in [Loops -> Loops \cup {Free}]
  /\ functions \in [Loops -> Seq(Task)]
  /\ pipe \in [Loops -> 0 .. PipeSize]
  /\ edge \in [Loops -> BOOLEAN]
  /\ posted \in 0 .. MaxTasks
  /\ ran \in SUBSET (1 .. MaxTasks)

Init ==
  /\ owner = [l \in Loops |-> "new"]
  /\ running = [l \in Loops |-> FALSE]
  /\ promised = [l \in Loops |-> FALSE]
  /\ loop_set = [l \in Loops |-> FALSE]
  /\ worker = [l \in Loops |-> "created"]
  /\ looping = [l \in Loops |-> FALSE]
  /\ lock = [l \in Loops |-> Free]
  /\ functions = [l \in Loops |-> <<>>]
  /\ pipe = [l \in Loops |-> 0]
  /\ edge = [l \in Loops |-> FALSE]
  /\ posted = 0
  /\ ran = {}

-----------------------------------------------------------------------------
(* The owner's thread.                                                     *)

\* Run sets running_ and notifies, then waits for the promise.
Run(l) ==
  /\ owner[l] = "new"
  /\ running' = [running EXCEPT ![l] = TRUE]
  /\ owner' = [owner EXCEPT ![l] = "waiting"]
  /\ UNCHANGED <<promised, loop_set, loopVars, pipeVars, posted, ran>>

RunReturns(l) ==
  /\ owner[l] = "waiting" /\ promised[l]
  /\ owner' = [owner EXCEPT ![l] = "started"]
  /\ UNCHANGED <<running, promised, loop_set, loopVars, pipeVars, posted, ran>>

\* The destructor, for a thread that was started: Quit, then join.
\* Mutant of Quit: the flag is not cleared.
NoQuit(l) == UNCHANGED looping
Quit(l) == looping' = [looping EXCEPT ![l] = FALSE]
Destroy(l) ==
  /\ owner[l] = "started"
  /\ IF loop_set[l] THEN Quit(l) ELSE UNCHANGED looping
  /\ owner' = [owner EXCEPT ![l] = "joining"]
  /\ UNCHANGED <<running, promised, loop_set, worker, lock, functions, pipeVars, posted, ran>>

Join(l) ==
  /\ owner[l] = "joining" /\ worker[l] = "exited"
  /\ owner' = [owner EXCEPT ![l] = "joined"]
  /\ UNCHANGED <<running, promised, loop_set, loopVars, pipeVars, posted, ran>>

-----------------------------------------------------------------------------
(* Posting a task.                                                         *)

\* The loop's thread is told: the write is lost when the pipe is full, and every
\* write that is not raises an edge.
\* Mutant of WakeUp: a loop that is not waiting is not woken.
WakeUpWaiting(l) ==
  IF worker[l] = "epoll" /\ pipe[l] < PipeSize
    THEN /\ pipe' = [pipe EXCEPT ![l] = @ + 1]
         /\ edge' = [edge EXCEPT ![l] = TRUE]
    ELSE UNCHANGED pipeVars
WakeUp(l) ==
  IF pipe[l] < PipeSize
    THEN /\ pipe' = [pipe EXCEPT ![l] = @ + 1]
         /\ edge' = [edge EXCEPT ![l] = TRUE]
    ELSE UNCHANGED pipeVars

\* RunInLoop from a thread that is no loop's.  A loop is used from when Run
\* returned until its owner destroys it.
RunInLoop(l, next) ==
  /\ owner[l] = "started" /\ lock[l] = Free
  /\ posted < MaxTasks
  /\ posted' = posted + 1
  /\ functions' = [functions EXCEPT ![l] = Append(@, [id |-> posted + 1, next |-> next])]
  /\ WakeUp(l)
  /\ UNCHANGED <<threadVars, worker, looping, lock, ran>>

-----------------------------------------------------------------------------
(* The loop's thread.                                                      *)

\* StartEventLoop: the wait ends, loop_ is set ...
Announce(l) == loop_set' = [loop_set EXCEPT ![l] = TRUE]
StartEventLoop(l) ==
  /\ worker[l] = "created" /\ running[l]
  /\ Announce(l)
  /\ worker' = [worker EXCEPT ![l] = "announce"]
  /\ UNCHANGED <<owner, running, promised, looping, lock, functions, pipeVars, posted, ran>>

\* ... the promise is kept ...
SetPromise(l) ==
  /\ worker[l] = "announce"
  /\ promised' = [promised EXCEPT ![l] = TRUE]
  /\ worker' = [worker EXCEPT ![l] = "enter"]
  /\ UNCHANGED <<owner, running, loop_set, looping, lock, functions, pipeVars, posted, ran>>

\* ... and Loop sets looping_ once more.
Loop(l) ==
  /\ worker[l] = "enter"
  /\ looping' = [looping EXCEPT ![l] = TRUE]
  /\ worker' = [worker EXCEPT ![l] = "test"]
  /\ UNCHANGED <<threadVars, lock, functions, pipeVars, posted, ran>>

LoopAgain(l) ==
  /\ worker[l] = "test" /\ looping[l]
  /\ worker' = [worker EXCEPT ![l] = "epoll"]
  /\ UNCHANGED <<threadVars, looping, lock, functions, pipeVars, posted, ran>>

LoopEnds(l) ==
  /\ worker[l] = "test" /\ ~looping[l]
  /\ loop_set' = [loop_set EXCEPT ![l] = FALSE]
  /\ worker' = [worker EXCEPT ![l] = "exited"]
  /\ UNCHANGED <<owner, running, promised, looping, lock, functions, pipeVars, posted, ran>>

\* epoll_wait reports the edge, and PipeEvent::OnRead reads one write.
OnRead(l) == pipe' = [pipe EXCEPT ![l] = @ - 1]
PipeRead(l) ==
  /\ worker[l] = "epoll" /\ edge[l]
  /\ edge' = [edge EXCEPT ![l] = FALSE]
  /\ OnRead(l)
  /\ worker' = [worker EXCEPT ![l] = "functions"]
  /\ UNCHANGED <<threadVars, looping, lock, functions, posted, ran>>

\* epoll_wait returns after a second at the latest, or for another event.
EpollOther(l) ==
  /\ worker[l] = "epoll" /\ ~edge[l]
  /\ worker' = [worker EXCEPT ![l] = "functions"]
  /\ UNCHANGED <<threadVars, looping, lock, functions, pipeVars, posted, ran>>

\* RunFunctions takes lock_ and keeps it until the queue is empty.
TakeFunctions(l) ==
  /\ worker[l] = "functions" /\ lock[l] = Free
  /\ lock' = [lock EXCEPT ![l] = l]
  /\ worker' = [worker EXCEPT ![l] = "running"]
  /\ UNCHANGED <<threadVars, looping, functions, pipeVars, posted, ran>>

\* A task is popped after it ran.
\* Mutant of Popped: the whole queue goes with it.
AllPopped(q) == <<>>
Popped(q) == Tail(q)

\* A task that touches no other loop.
RunTask(l) ==
  /\ worker[l] = "running" /\ functions[l] # <<>>
  /\ Head(functions[l]).next = l
  /\ ran' = ran \cup {Head(functions[l]).id}
  /\ functions' = [functions EXCEPT ![l] = Popped(@)]
  /\ UNCHANGED <<threadVars, worker, looping, lock, pipeVars, posted>>

\* A task that gives the next loop a task under that loop's lock_, or finds that
\* the loop is no longer there.
RunForward(l) ==
  LET f == Head(functions[l])
      m == f.next
      again == [id |-> posted + 1, next |-> m]
      gives == owner[m] = "started" /\ posted < MaxTasks
  IN  /\ worker[l] = "running" /\ functions[l] # <<>>
      /\ m # l /\ lock[m] = Free
      /\ ran' = ran \cup {f.id}
      /\ functions' = [functions EXCEPT ![l] = Popped(@),
                                        ![m] = IF gives THEN Append(@, again) ELSE @]
      /\ IF gives THEN posted' = posted + 1 /\ WakeUp(m) ELSE UNCHANGED <<posted, pipeVars>>
      /\ UNCHANGED <<threadVars, worker, looping, lock>>

FunctionsDone(l) ==
  /\ worker[l] = "running" /\ functions[l] = <<>>
  /\ lock' = [lock EXCEPT ![l] = Free]
  /\ worker' = [worker EXCEPT ![l] = "test"]
  /\ UNCHANGED <<threadVars, looping, functions, pipeVars, posted, ran>>

-----------------------------------------------------------------------------
WorkerStep(l) ==
  \/ StartEventLoop(l) \/ SetPromise(l) \/ Loop(l) \/ LoopAgain(l) \/ LoopEnds(l)
  \/ PipeRead(l) \/ EpollOther(l) \/ TakeFunctions(l) \/ RunTask(l) \/ RunForward(l)
  \/ FunctionsDone(l)

Next ==
  \E l \in Loops :
    \/ Run(l) \/ RunReturns(l) \/ Destroy(l) \/ Join(l)
    \/ \E m \in IF l \in ForwardLoops THEN Loops ELSE {l} : RunInLoop(l, m)
    \/ WorkerStep(l)

Spec == Init /\ [][Next]_vars

\* Every thread runs on.  A thread that waits for a lock gets it when the lock is
\* free time and again: a loop lets go of lock_ for each epoll_wait.
Fairness ==
  \A l \in Loops : /\ WF_vars(RunReturns(l)) /\ WF_vars(Join(l))
                   /\ WF_vars(WorkerStep(l))
                   /\ SF_vars(TakeFunctions(l)) /\ SF_vars(RunForward(l))

FairSpec == Spec /\ Fairness

-----------------------------------------------------------------------------
(* Properties.                                                             *)

Queued(l) == {functions[l][i].id : i \in 1 .. Len(functions[l])}

\* Two loops that each hold their lock_ and wait for the other's.
LoopsDeadlocked ==
  \E l, m \in Loops :
    /\ l # m /\ worker[l] = "running" /\ worker[m] = "running"
    /\ functions[l] # <<>> /\ functions[m] # <<>>
    /\ Head(functions[l]).next = m /\ Head(functions[m]).next = l

\* A loop never sleeps on a task: when it waits in epoll_wait with tasks queued,
\* an edge is on its way, wherever the task came between the loop's last look at
\* the queue and its wait (RunInLoop, EventLoop.cpp:243-245).  The exception is a
\* full pipe, whose writes are lost until a second's timeout: every edge reads
\* one write, and several writes may share an edge (PipeEvent.cpp:39, 68).
NoSleepOnTask ==
  \A l \in Loops : worker[l] = "epoll" /\ functions[l] # <<>> => edge[l] \/ pipe[l] = PipeSize

\* When Run returns, Loop() is the loop until the owner destroys it
\* (EventLoopThread.cpp:76-79).
LoopAfterRun ==
  \A l \in Loops : owner[l] = "started" => loop_set[l]

\* A task is queued on one loop, once, and not after it ran; lock_ is held by its
\* own loop's thread exactly while that runs tasks.
TasksRunOnce ==
  /\ \A l \in Loops : /\ lock[l] = l <=> worker[l] = "running"
                      /\ Queued(l) \cap ran = {}
                      /\ \A i, j \in 1 .. Len(functions[l]) :
                           i < j => functions[l][i].id < functions[l][j].id
  /\ \A l, m \in Loops : l # m => Queued(l) \cap Queued(m) = {}

\* What holds of a loop at every moment: no sleep on a task (RunInLoop, WakeUp and
\* OnRead), a loop for whoever asks (Run), and each task once (RunFunctions).
TasksSafe == TypeOK /\ NoSleepOnTask /\ LoopAfterRun /\ TasksRunOnce

\* A task that is queued runs, unless the loop is being destroyed, or two loops
\* forward to each other at the same moment: tasks run with lock_ held, so each
\* waits for the other (RunFunctions, EventLoop.cpp:265).
TaskRuns ==
  \A l \in Loops : \A k \in 1 .. MaxTasks :
    (k \in Queued(l)) ~> (k \in ran \/ owner[l] # "started" \/ LoopsDeadlocked)

\* A loop that has begun to loop before it is told to quit ends, and the
\* destructor returns (Quit, EventLoop.cpp:122-125, looping_ read at 43), unless
\* the loop is in a deadlock with another one.
QuitEndsLoop ==
  \A l \in Loops :
    [](owner[l] = "started" /\ looping[l] =>
         []((owner[l] = "joining") => <>(owner[l] = "joined" \/ LoopsDeadlocked)))

=============================================================================
