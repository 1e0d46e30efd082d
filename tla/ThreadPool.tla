------------------------------ MODULE ThreadPool ------------------------------
(***************************************************************************)
(* quick::thread::ThreadPool (include/quick/thread/ThreadPool.hpp): worker *)
(* threads that take tasks from a queue behind a mutex, one semaphore      *)
(* token per task, a constructor that starts them one by one and a         *)
(* destructor that stops and joins them.                                   *)
(*                                                                         *)
(* Tasks are numbered in the order of the calls of enqueue.  A task may    *)
(* call enqueue itself, also while the pool is being destroyed, and is     *)
(* assumed to end.  The mutex and the semaphore are destroyed before the workers   *)
(* are joined (reverse order of declaration); they are modelled as still   *)
(* working then, as trivially destructible ones do.                        *)
(***************************************************************************)
EXTENDS Integers, Sequences, FiniteSets

CONSTANTS
  NumThreads,  \* num_threads
  Clients,     \* the threads that call enqueue from outside the pool
  Free,        \* the owner of an unlocked mutex
  MaxTasks     \* bound: how many tasks are enqueued

Workers == 1..NumThreads
Tasks == 1..MaxTasks
NoTask == 0

\* Who calls enqueue: clients, and workers from inside a task.
Callers == Clients \cup Workers

ASSUME ConstantsAssumption ==
  /\ NumThreads \in Nat \ {0}
  /\ MaxTasks \in Nat
  /\ IsFiniteSet(Clients)
  /\ Free \notin Clients \cup Workers
  /\ Clients \cap Workers = {}

VARIABLES
  m_tasks,      \* the queue of task numbers
  m_mutex,      \* who holds the mutex, or Free
  m_semaphore,  \* the tokens
  m_stopping,
  stopRequested,\* stopRequested[w]: w's stop token
  wpc, task,    \* each worker's place, and the task it took
  cpc, arg,     \* each caller's place in enqueue, and its task
  future,       \* future[k]: what the future of task k holds
  issued,       \* calls of enqueue so far
  dpc, next,    \* the place of the constructor or the destructor, and the worker
                \* its loop is at
  late          \* late[w]: the tasks w took since m_stopping was set

workerVars == <<wpc, task, late>>
clientVars == <<cpc, arg, issued>>
stopVars   == <<m_stopping, stopRequested, dpc, next>>
vars == <<m_tasks, m_mutex, m_semaphore, future, workerVars, clientVars, stopVars>>

Init ==
  /\ m_tasks = <<>> /\ m_mutex = Free /\ m_semaphore = 0
  /\ m_stopping = FALSE /\ stopRequested = [w \in Workers |-> FALSE]
  /\ wpc = [w \in Workers |-> "unborn"] /\ task = [w \in Workers |-> NoTask]
  /\ cpc = [c \in Callers |-> "idle"] /\ arg = [c \in Callers |-> NoTask]
  /\ future = [k \in Tasks |-> "none"] /\ issued = 0
  /\ dpc = "ctor" /\ next = 1
  /\ late = [w \in Workers |-> 0]

-----------------------------------------------------------------------------
Goto(w, label) == wpc' = [wpc EXCEPT ![w] = label]

\* The constructor starts the workers: the first run before the last exist.
CtorStart ==
  /\ dpc = "ctor"
  /\ Goto(next, "loop")
  /\ dpc' = IF next < NumThreads THEN "ctor" ELSE "alive"
  /\ next' = IF next < NumThreads THEN next + 1 ELSE 1
  /\ UNCHANGED <<m_tasks, m_mutex, m_semaphore, future, task, late, clientVars,
                 m_stopping, stopRequested>>

-----------------------------------------------------------------------------
(* A worker's loop.                                                        *)

\* while (!stop_requested() and !m_stopping)
WorkerLoop_mut(w) ==
  /\ wpc[w] = "loop"
  /\ Goto(w, IF stopRequested[w] THEN "exited" ELSE "acquire")
  /\ UNCHANGED <<m_tasks, m_mutex, m_semaphore, future, task, late, clientVars, stopVars>>
WorkerLoop(w) ==
  /\ wpc[w] = "loop"
  /\ Goto(w, IF stopRequested[w] \/ m_stopping THEN "exited" ELSE "acquire")
  /\ UNCHANGED <<m_tasks, m_mutex, m_semaphore, future, task, late, clientVars, stopVars>>

WorkerAcquire(w) ==
  /\ wpc[w] = "acquire" /\ m_semaphore > 0
  /\ m_semaphore' = m_semaphore - 1
  /\ Goto(w, "check")
  /\ UNCHANGED <<m_tasks, m_mutex, future, task, late, clientVars, stopVars>>

\* m_tasks.empty() without the mutex: anything, while another thread changes
\* the queue.
MayReadEmpty  == m_tasks = <<>> \/ m_mutex # Free
MayReadFilled == m_tasks # <<>> \/ m_mutex # Free

WorkerBreak(w) ==
  /\ wpc[w] = "check"
  /\ stopRequested[w] /\ MayReadEmpty
  /\ Goto(w, "exited")
  /\ UNCHANGED <<m_tasks, m_mutex, m_semaphore, future, task, late, clientVars, stopVars>>

WorkerProceed(w) ==
  /\ wpc[w] = "check"
  /\ ~stopRequested[w] \/ MayReadFilled
  /\ Goto(w, "lock")
  /\ UNCHANGED <<m_tasks, m_mutex, m_semaphore, future, task, late, clientVars, stopVars>>

WorkerLock(w) ==
  /\ wpc[w] = "lock" /\ m_mutex = Free
  /\ m_mutex' = w
  /\ Goto(w, "locked")
  /\ UNCHANGED <<m_tasks, m_semaphore, future, task, late, clientVars, stopVars>>

\* if (m_tasks.empty()) continue;
WorkerContinue(w) ==
  /\ wpc[w] = "locked" /\ m_tasks = <<>>
  /\ m_mutex' = Free
  /\ Goto(w, "loop")
  /\ UNCHANGED <<m_tasks, m_semaphore, future, task, late, clientVars, stopVars>>

WorkerTake_mut(w) ==
  /\ wpc[w] = "locked" /\ m_tasks # <<>>
  /\ task' = [task EXCEPT ![w] = Head(m_tasks)]
  /\ late' = [late EXCEPT ![w] = IF m_stopping THEN @ + 1 ELSE @]
  /\ m_mutex' = Free
  /\ Goto(w, "run")
  /\ UNCHANGED <<m_tasks, m_semaphore, future, clientVars, stopVars>>
WorkerTake(w) ==
  /\ wpc[w] = "locked" /\ m_tasks # <<>>
  /\ task' = [task EXCEPT ![w] = Head(m_tasks)]
  /\ m_tasks' = Tail(m_tasks)
  /\ late' = [late EXCEPT ![w] = IF m_stopping THEN @ + 1 ELSE @]
  /\ m_mutex' = Free
  /\ Goto(w, "run")
  /\ UNCHANGED <<m_semaphore, future, clientVars, stopVars>>

\* task(): the packaged_task stores its result, or its exception.
WorkerRun(w) ==
  /\ wpc[w] = "run" /\ cpc[w] = "idle"
  /\ future' = [future EXCEPT ![task[w]] = "ready"]
  /\ Goto(w, "loop")
  /\ UNCHANGED <<m_tasks, m_mutex, m_semaphore, task, late, clientVars, stopVars>>

-----------------------------------------------------------------------------
(* enqueue                                                                 *)

MayCall(c) == IF c \in Workers THEN wpc[c] = "run" ELSE dpc = "alive"

EnqueueLock(c) ==
  /\ MayCall(c) /\ cpc[c] = "idle" /\ m_mutex = Free
  /\ issued < MaxTasks
  /\ issued' = issued + 1
  /\ arg' = [arg EXCEPT ![c] = issued + 1]
  /\ future' = [future EXCEPT ![issued + 1] = "pending"]
  /\ m_mutex' = c
  /\ cpc' = [cpc EXCEPT ![c] = "emplace"]
  /\ UNCHANGED <<m_tasks, m_semaphore, workerVars, stopVars>>

EnqueueEmplace_mut(c) ==
  /\ cpc[c] = "emplace"
  /\ m_tasks' = Append(m_tasks, arg[c])
  /\ m_mutex' = Free
  /\ cpc' = [cpc EXCEPT ![c] = IF m_tasks = <<>> THEN "release" ELSE "idle"]
  /\ UNCHANGED <<m_semaphore, future, arg, issued, workerVars, stopVars>>
EnqueueEmplace(c) ==
  /\ cpc[c] = "emplace"
  /\ m_tasks' = Append(m_tasks, arg[c])
  /\ m_mutex' = Free
  /\ cpc' = [cpc EXCEPT ![c] = "release"]
  /\ UNCHANGED <<m_semaphore, future, arg, issued, workerVars, stopVars>>

\* emplace throws: the packaged_task dies with its promise unfulfilled.
EnqueueThrow(c) ==
  /\ cpc[c] = "emplace"
  /\ future' = [future EXCEPT ![arg[c]] = "broken"]
  /\ m_mutex' = Free
  /\ cpc' = [cpc EXCEPT ![c] = "idle"]
  /\ UNCHANGED <<m_tasks, m_semaphore, arg, issued, workerVars, stopVars>>

EnqueueRelease(c) ==
  /\ cpc[c] = "release"
  /\ m_semaphore' = m_semaphore + 1
  /\ cpc' = [cpc EXCEPT ![c] = "idle"]
  /\ UNCHANGED <<m_tasks, m_mutex, future, arg, issued, workerVars, stopVars>>

-----------------------------------------------------------------------------
(* ~ThreadPool.  As for any object, no call from outside may be under way; *)
(* a task's own may.                                                       *)

DtorStop ==
  /\ dpc = "alive" /\ \A c \in Clients : cpc[c] = "idle"
  /\ m_stopping' = TRUE
  /\ dpc' = "release"
  /\ UNCHANGED <<m_tasks, m_mutex, m_semaphore, future, workerVars, clientVars,
                 stopRequested, next>>

DtorRelease_mut ==
  /\ dpc = "release"
  /\ m_semaphore' = IF m_semaphore = 0 THEN 1 ELSE m_semaphore
  /\ dpc' = "request"
  /\ UNCHANGED <<m_tasks, m_mutex, future, workerVars, clientVars, m_stopping,
                 stopRequested, next>>
DtorRelease ==
  /\ dpc = "release"
  /\ m_semaphore' = m_semaphore + 1
  /\ dpc' = "request"
  /\ UNCHANGED <<m_tasks, m_mutex, future, workerVars, clientVars, m_stopping,
                 stopRequested, next>>

DtorRequestStop ==
  /\ dpc = "request"
  /\ stopRequested' = [stopRequested EXCEPT ![next] = TRUE]
  /\ dpc' = IF next < NumThreads THEN "release" ELSE "join"
  /\ next' = IF next < NumThreads THEN next + 1 ELSE 1
  /\ UNCHANGED <<m_tasks, m_mutex, m_semaphore, future, workerVars, clientVars, m_stopping>>

\* m_workers is destroyed: each std::jthread joins.
DtorJoin ==
  /\ dpc = "join" /\ wpc[next] = "exited"
  /\ dpc' = IF next < NumThreads THEN "join" ELSE "drop"
  /\ next' = IF next < NumThreads THEN next + 1 ELSE 1
  /\ UNCHANGED <<m_tasks, m_mutex, m_semaphore, future, workerVars, clientVars,
                 m_stopping, stopRequested>>

\* m_tasks is destroyed: a task nobody took breaks its promise.
DtorDrop_mut ==
  /\ dpc = "drop" /\ m_tasks # <<>>
  /\ m_tasks' = Tail(m_tasks)
  /\ UNCHANGED <<m_mutex, m_semaphore, future, workerVars, clientVars, stopVars>>
DtorDrop ==
  /\ dpc = "drop" /\ m_tasks # <<>>
  /\ future' = [future EXCEPT ![Head(m_tasks)] = "broken"]
  /\ m_tasks' = Tail(m_tasks)
  /\ UNCHANGED <<m_mutex, m_semaphore, workerVars, clientVars, stopVars>>

DtorEnd ==
  /\ dpc = "drop" /\ m_tasks = <<>>
  /\ dpc' = "gone"
  /\ UNCHANGED <<m_tasks, m_mutex, m_semaphore, future, workerVars, clientVars,
                 m_stopping, stopRequested, next>>

\* The pool is destroyed; this is the only place where everything may stop.
Gone == dpc = "gone" /\ UNCHANGED vars

-----------------------------------------------------------------------------
Worker(w) ==
  \/ WorkerLoop(w) \/ WorkerAcquire(w) \/ WorkerBreak(w) \/ WorkerProceed(w)
  \/ WorkerLock(w) \/ WorkerContinue(w) \/ WorkerTake(w) \/ WorkerRun(w)

Enqueue(c) ==
  \/ EnqueueLock(c) \/ EnqueueEmplace(c) \/ EnqueueThrow(c) \/ EnqueueRelease(c)

Destructor ==
  \/ DtorStop \/ DtorRelease \/ DtorRequestStop \/ DtorJoin \/ DtorDrop \/ DtorEnd

Next ==
  \/ \E w \in Workers : Worker(w)
  \/ \E c \in Callers : Enqueue(c)
  \/ CtorStart
  \/ Destructor
  \/ Gone

Spec == Init /\ [][Next]_vars

\* Threads that are inside the pool's code keep running, the mutex is not lost
\* to the others for ever, and a worker is woken while there are tokens.
\* Nobody has to call enqueue or the destructor.
Fairness ==
  /\ \A w \in Workers :
       /\ WF_vars(Worker(w))
       /\ SF_vars(WorkerLock(w))
  /\ \A c \in Callers : WF_vars(EnqueueEmplace(c) \/ EnqueueRelease(c))
  /\ WF_vars(CtorStart)
  /\ WF_vars(dpc # "alive" /\ Destructor)

FairSpec == Spec /\ Fairness

-----------------------------------------------------------------------------
(* Properties.                                                             *)

WorkersAt(labels) == {w \in Workers : wpc[w] \in labels}

\* A token for every task: before the destructor runs, the tasks in the queue
\* are the tokens, plus those workers took at line 63 and have not turned into
\* a task yet (64-77), plus those enqueue still owes (108 to 112).  So no task
\* is ever left in the queue with every worker asleep.
TokenPerTask ==
  dpc \in {"ctor", "alive"} =>
    Len(m_tasks) = m_semaphore + Cardinality(WorkersAt({"check", "lock", "locked"}))
                     + Cardinality({c \in Callers : cpc[c] = "release"})

\* The destructor's releases (119-120) are enough to wake every worker that
\* sleeps or will: leftover tokens and late tasks never use up another
\* worker's token.
WakeupsSuffice ==
  LET toRelease == CASE dpc = "release" -> NumThreads - (next - 1)
                     [] dpc = "request" -> NumThreads - next
                     [] OTHER -> 0
  IN  m_stopping =>
        Cardinality(WorkersAt({"acquire"})) <= m_semaphore + toRelease

\* After m_stopping is set a worker takes at most one more task: the destructor
\* waits for what is running and at most NumThreads tasks more, not for the
\* whole queue.
AtMostOneLateTask == \A w \in Workers : late[w] <= 1

\* When the pool is gone no future is left hanging: each task ran or its
\* promise was broken, whatever the unlocked read of m_tasks at line 67 saw.
NoFutureLeftHanging ==
  dpc = "gone" => \A k \in Tasks : future[k] # "pending"

\* The tasks are a FIFO queue until the destructor drops what is left: they
\* are started in the order in which enqueue put them in, each by one worker.
Queue == INSTANCE Fifo WITH
  Value <- Tasks, None <- NoTask, Consumers <- Workers, Capacity <- MaxTasks,
  q <- m_tasks, got <- task, open <- dpc \notin {"drop", "gone"}

\* No task is started twice, skipped, or started before an older one.
StartedInOrder == Queue!Spec

\* A future that enqueue returned becomes ready, or broken by the destructor.
EveryFutureResolves ==
  \A k \in Tasks : future[k] = "pending" ~> future[k] \in {"ready", "broken"}

\* The destructor returns: every worker leaves its loop and is joined.
DestructorReturns == dpc = "release" ~> dpc = "gone"

=============================================================================
