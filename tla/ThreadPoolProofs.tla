--------------------------- MODULE ThreadPoolProofs ---------------------------
(***************************************************************************)
(* Proofs about ThreadPool for any number of workers, clients and tasks.   *)
(***************************************************************************)
EXTENDS ThreadPool, SequenceTheorems, FiniteSetTheorems, TLAPS

WorkerLabels == {"unborn", "loop", "acquire", "check", "lock", "locked", "run", "exited"}
CallerLabels == {"idle", "emplace", "release"}
PoolLabels == {"ctor", "alive", "release", "request", "join", "drop", "gone"}

TypeOK ==
  /\ m_tasks \in Seq(Tasks)
  /\ m_mutex \in Callers \cup {Free}
  /\ m_semaphore \in Nat
  /\ m_stopping \in BOOLEAN /\ stopRequested \in [Workers -> BOOLEAN]
  /\ wpc \in [Workers -> WorkerLabels] /\ task \in [Workers -> Tasks \cup {NoTask}]
  /\ cpc \in [Callers -> CallerLabels] /\ arg \in [Callers -> Tasks \cup {NoTask}]
  /\ future \in [Tasks -> {"none", "pending", "ready", "broken"}]
  /\ issued \in Nat /\ issued <= MaxTasks
  /\ dpc \in PoolLabels /\ next \in Workers
  /\ late \in [Workers -> Nat]

\* The life of the pool: which workers have not been started, when they are
\* told to stop, which are known to have ended, and that no task is left then.
LifeOK ==
  /\ m_stopping <=> dpc \notin {"ctor", "alive"}
  /\ dpc \in {"ctor", "alive"} => \A w \in Workers : ~stopRequested[w]
  /\ dpc = "alive" => next = 1
  /\ dpc = "ctor" => \A w \in Workers : w >= next => wpc[w] = "unborn"
  /\ dpc = "join" => \A w \in Workers : w < next => wpc[w] = "exited"
  /\ dpc \in {"drop", "gone"} => \A w \in Workers : wpc[w] = "exited"
  /\ dpc = "gone" => m_tasks = <<>>

\* Who changes m_tasks holds the mutex.
LockOK ==
  /\ \A c \in Callers : cpc[c] = "emplace" => m_mutex = c
  /\ \A w \in Workers : wpc[w] = "locked" => m_mutex = w

\* A call of enqueue comes from a client of the living pool or from a task that
\* runs, and the task it is about to queue was counted.
CallsOK ==
  /\ \A w \in Workers : cpc[w] # "idle" => wpc[w] = "run"
  /\ \A c \in Clients : cpc[c] # "idle" => dpc = "alive"
  /\ Len(m_tasks) <= issued
  /\ \A c \in Callers : cpc[c] = "emplace" => arg[c] \in Tasks /\ Len(m_tasks) < issued
  /\ \A w \in Workers : wpc[w] = "run" => task[w] \in Tasks

\* A worker that took a task after m_stopping was set is on its way out.
LateOK ==
  \A w \in Workers :
    \/ late[w] = 0
    \/ late[w] = 1 /\ m_stopping /\ wpc[w] \in {"run", "loop", "exited"}

Structure == TypeOK /\ LifeOK /\ LockOK /\ CallsOK /\ LateOK

\* A promise that is not kept yet belongs to a task that is being queued, is
\* queued or runs.
PendingIsKept ==
  \A k \in Tasks : future[k] = "pending" =>
    \/ \E c \in Callers : cpc[c] = "emplace" /\ arg[c] = k
    \/ \E i \in 1..Len(m_tasks) : m_tasks[i] = k
    \/ \E w \in Workers : wpc[w] = "run" /\ task[w] = k

PoolInv == Structure /\ TokenPerTask /\ WakeupsSuffice /\ PendingIsKept

-----------------------------------------------------------------------------
(* Facts about the constants and the queue.                                *)

\* What ConstantsAssumption says of workers, clients and tasks.
LEMMA Constants ==
  /\ NumThreads \in Nat /\ NumThreads >= 1 /\ MaxTasks \in Nat
  /\ Free \notin Callers
  /\ Workers \subseteq Callers /\ Clients \subseteq Callers
  /\ \A c \in Callers : c \in Clients \/ c \in Workers
  /\ \A c \in Clients : c \notin Workers
  /\ 1 \in Workers /\ NumThreads \in Workers
  /\ \A w \in Workers : w \in Nat /\ 1 <= w /\ w <= NumThreads /\ (w < NumThreads => w + 1 \in Workers)
  /\ NoTask \notin Tasks
  BY ConstantsAssumption DEF Callers, Workers, Tasks, NoTask

\* The queue with one task less or more.
LEMMA QueueChanges ==
  ASSUME m_tasks \in Seq(Tasks)
  PROVE  /\ Len(m_tasks) \in Nat
         /\ \A k \in Tasks : /\ Append(m_tasks, k) \in Seq(Tasks)
                             /\ Len(Append(m_tasks, k)) = Len(m_tasks) + 1
         /\ m_tasks # <<>> => /\ Head(m_tasks) \in Tasks /\ Tail(m_tasks) \in Seq(Tasks)
                              /\ Len(Tail(m_tasks)) = Len(m_tasks) - 1 /\ Len(m_tasks) >= 1
         /\ m_tasks = <<>> => Len(m_tasks) = 0
  BY LenProperties, AppendProperties, HeadTailProperties, EmptySeq

-----------------------------------------------------------------------------
(* Locks, phases and calls.                                                *)

\* A pool whose constructor has not started a worker.
LEMMA InitStructure == Init => Structure
<1> SUFFICES ASSUME Init PROVE Structure
  OBVIOUS
<1>1. <<>> \in Seq(Tasks) /\ Len(<<>>) = 0
  BY EmptySeq
<1>2. TypeOK
  <2>1. stopRequested \in [Workers -> BOOLEAN] /\ m_stopping \in BOOLEAN
    BY DEF Init
  <2>2. /\ wpc \in [Workers -> WorkerLabels] /\ task \in [Workers -> Tasks \cup {NoTask}]
        /\ cpc \in [Callers -> CallerLabels] /\ arg \in [Callers -> Tasks \cup {NoTask}]
        /\ future \in [Tasks -> {"none", "pending", "ready", "broken"}]
        /\ late \in [Workers -> Nat] /\ dpc \in PoolLabels
    BY DEF Init, WorkerLabels, CallerLabels, PoolLabels
  <2>3. /\ m_tasks \in Seq(Tasks) /\ m_mutex \in Callers \cup {Free} /\ m_semaphore \in Nat
        /\ issued \in Nat /\ issued <= MaxTasks /\ next \in Workers
    BY <1>1, Constants DEF Init
  <2> QED BY <2>1, <2>2, <2>3 DEF TypeOK
<1>3. LifeOK /\ LockOK /\ CallsOK /\ LateOK
  BY <1>1, Constants DEF Init, LifeOK, LockOK, CallsOK, LateOK
<1> QED BY <1>2, <1>3 DEF Structure

\* Each step of a worker, of enqueue, of the constructor and of the destructor
\* keeps the mutex, the phases and the calls in order.
LEMMA StructureStep ==
  ASSUME Structure, [Next]_vars
  PROVE  Structure'
<1> USE DEF Structure, TypeOK, LifeOK, LockOK, CallsOK, LateOK, WorkerLabels, CallerLabels,
            PoolLabels, workerVars, clientVars, stopVars, Goto
<1>1. /\ NumThreads \in Nat /\ NumThreads >= 1 /\ MaxTasks \in Nat
      /\ Free \notin Callers
      /\ Workers \subseteq Callers /\ Clients \subseteq Callers
      /\ \A c \in Callers : c \in Clients \/ c \in Workers
      /\ \A c \in Clients : c \notin Workers
      /\ 1 \in Workers /\ NumThreads \in Workers
      /\ \A w \in Workers : w \in Nat /\ 1 <= w /\ w <= NumThreads /\ (w < NumThreads => w + 1 \in Workers)
  BY Constants
<1>2. Len(m_tasks) \in Nat
  BY QueueChanges
<1>3. CASE UNCHANGED vars
  BY <1>3 DEF vars
<1>4. ASSUME CtorStart PROVE Structure'
  <2>1. TypeOK'
    BY <1>1, <1>2, <1>4 DEF CtorStart
  <2>2. LifeOK'
    BY <1>1, <1>2, <1>4 DEF CtorStart
  <2>3. LockOK'
    BY <1>1, <1>2, <1>4 DEF CtorStart
  <2>4. CallsOK'
    BY <1>1, <1>2, <1>4 DEF CtorStart
  <2>5. LateOK'
    BY <1>1, <1>2, <1>4 DEF CtorStart
  <2> QED BY <2>1, <2>2, <2>3, <2>4, <2>5
<1>5. ASSUME NEW w \in Workers, WorkerLoop(w) PROVE Structure'
  <2>1. TypeOK'
    BY <1>1, <1>2, <1>5 DEF WorkerLoop
  <2>2. LifeOK'
    BY <1>1, <1>2, <1>5 DEF WorkerLoop
  <2>3. LockOK'
    BY <1>1, <1>2, <1>5 DEF WorkerLoop
  <2>4. CallsOK'
    BY <1>1, <1>2, <1>5 DEF WorkerLoop
  <2>5. LateOK'
    BY <1>1, <1>2, <1>5 DEF WorkerLoop
  <2> QED BY <2>1, <2>2, <2>3, <2>4, <2>5
<1>6. ASSUME NEW w \in Workers, WorkerAcquire(w) PROVE Structure'
  <2>1. TypeOK'
    BY <1>1, <1>2, <1>6 DEF WorkerAcquire
  <2>2. LifeOK'
    BY <1>1, <1>2, <1>6 DEF WorkerAcquire
  <2>3. LockOK'
    BY <1>1, <1>2, <1>6 DEF WorkerAcquire
  <2>4. CallsOK'
    BY <1>1, <1>2, <1>6 DEF WorkerAcquire
  <2>5. LateOK'
    BY <1>1, <1>2, <1>6 DEF WorkerAcquire
  <2> QED BY <2>1, <2>2, <2>3, <2>4, <2>5
<1>7. ASSUME NEW w \in Workers, WorkerBreak(w) \/ WorkerProceed(w) PROVE Structure'
  <2>1. /\ wpc[w] = "check"
        /\ wpc' = [wpc EXCEPT ![w] = IF WorkerBreak(w) THEN "exited" ELSE "lock"]
        /\ UNCHANGED <<m_tasks, m_mutex, m_semaphore, future, task, late, clientVars, stopVars>>
    BY <1>7 DEF WorkerBreak, WorkerProceed
  <2>2. PICK label \in {"exited", "lock"} : wpc' = [wpc EXCEPT ![w] = label]
    BY <2>1
  <2>3. TypeOK'
    BY <2>1, <2>2
  <2>4. LifeOK'
    BY <1>1, <2>1, <2>2
  <2>5. LockOK' /\ CallsOK'
    BY <1>1, <1>2, <2>1, <2>2
  <2>6. LateOK'
    BY <1>1, <1>2, <2>1, <2>2
  <2> QED BY <2>3, <2>4, <2>5, <2>6
<1>8. ASSUME NEW w \in Workers, WorkerLock(w) PROVE Structure'
  <2>1. TypeOK'
    BY <1>1, <1>2, <1>8 DEF WorkerLock
  <2>2. LifeOK'
    BY <1>1, <1>2, <1>8 DEF WorkerLock
  <2>3. LockOK'
    BY <1>1, <1>2, <1>8 DEF WorkerLock
  <2>4. CallsOK'
    BY <1>1, <1>2, <1>8 DEF WorkerLock
  <2>5. LateOK'
    BY <1>1, <1>2, <1>8 DEF WorkerLock
  <2> QED BY <2>1, <2>2, <2>3, <2>4, <2>5
<1>9. ASSUME NEW w \in Workers, WorkerContinue(w) PROVE Structure'
  <2>1. TypeOK'
    BY <1>1, <1>2, <1>9 DEF WorkerContinue
  <2>2. LifeOK'
    BY <1>1, <1>2, <1>9 DEF WorkerContinue
  <2>3. LockOK'
    BY <1>1, <1>2, <1>9 DEF WorkerContinue
  <2>4. CallsOK'
    BY <1>1, <1>2, <1>9 DEF WorkerContinue
  <2>5. LateOK'
    BY <1>1, <1>2, <1>9 DEF WorkerContinue
  <2> QED BY <2>1, <2>2, <2>3, <2>4, <2>5
<1>10. ASSUME NEW w \in Workers, WorkerTake(w) PROVE Structure'
  <2>1. TypeOK'
    <3>1. m_tasks' \in Seq(Tasks) /\ Head(m_tasks) \in Tasks
      BY <1>10, QueueChanges DEF WorkerTake
    <3>2. late' \in [Workers -> Nat]
      BY <1>10 DEF WorkerTake
    <3>3. /\ task' \in [Workers -> Tasks \cup {NoTask}] /\ wpc' \in [Workers -> WorkerLabels]
          /\ m_mutex' = Free
      BY <1>10, <3>1 DEF WorkerTake
    <3> QED BY <1>10, <3>1, <3>2, <3>3 DEF WorkerTake
  <2>2. LifeOK'
    BY <1>1, <1>2, <1>10, QueueChanges DEF WorkerTake
  <2>3. LockOK'
    <3>1. /\ m_mutex = w /\ cpc' = cpc /\ wpc[w] = "locked"
          /\ wpc' = [wpc EXCEPT ![w] = "run"]
      BY <1>10 DEF WorkerTake
    <3>2. \A c \in Callers : cpc[c] # "emplace"
      BY <1>1, <3>1
    <3> QED BY <1>1, <3>1, <3>2
  <2>4. CallsOK'
    BY <1>1, <1>2, <1>10, QueueChanges DEF WorkerTake
  <2>5. LateOK'
    BY <1>1, <1>2, <1>10, QueueChanges DEF WorkerTake
  <2> QED BY <2>1, <2>2, <2>3, <2>4, <2>5
<1>11. ASSUME NEW w \in Workers, WorkerRun(w) PROVE Structure'
  <2>1. TypeOK'
    BY <1>1, <1>2, <1>11 DEF WorkerRun
  <2>2. LifeOK'
    BY <1>1, <1>2, <1>11 DEF WorkerRun
  <2>3. LockOK'
    BY <1>1, <1>2, <1>11 DEF WorkerRun
  <2>4. CallsOK'
    BY <1>1, <1>2, <1>11 DEF WorkerRun
  <2>5. LateOK'
    BY <1>1, <1>2, <1>11 DEF WorkerRun
  <2> QED BY <2>1, <2>2, <2>3, <2>4, <2>5
<1>12. ASSUME NEW c \in Callers, EnqueueLock(c) PROVE Structure'
  <2>1. TypeOK'
    <3>1. issued + 1 \in Tasks /\ issued' \in Nat /\ issued' <= MaxTasks
      BY <1>1, <1>12 DEF EnqueueLock, Tasks
    <3>2. /\ arg' \in [Callers -> Tasks \cup {NoTask}] /\ cpc' \in [Callers -> CallerLabels]
          /\ future' \in [Tasks -> {"none", "pending", "ready", "broken"}]
      BY <1>12, <3>1 DEF EnqueueLock
    <3> QED BY <1>12, <3>1, <3>2 DEF EnqueueLock
  <2>2. LifeOK'
    BY <1>1, <1>2, <1>12 DEF EnqueueLock, MayCall, Tasks
  <2>3. LockOK'
    BY <1>1, <1>2, <1>12 DEF EnqueueLock, MayCall, Tasks
  <2>4. CallsOK'
    BY <1>1, <1>2, <1>12 DEF EnqueueLock, MayCall, Tasks
  <2>5. LateOK'
    BY <1>1, <1>2, <1>12 DEF EnqueueLock, MayCall, Tasks
  <2> QED BY <2>1, <2>2, <2>3, <2>4, <2>5
<1>13. ASSUME NEW c \in Callers, EnqueueEmplace(c) PROVE Structure'
  <2>1. TypeOK'
    BY <1>1, <1>2, <1>13, QueueChanges DEF EnqueueEmplace
  <2>2. LifeOK'
    BY <1>1, <1>2, <1>13, QueueChanges DEF EnqueueEmplace
  <2>3. LockOK'
    <3> HIDE DEF LifeOK, LateOK
    <3>1. \A d \in Callers : cpc'[d] # "emplace"
      BY <1>1, <1>13 DEF EnqueueEmplace
    <3>2. \A w \in Workers : wpc'[w] # "locked"
      BY <1>1, <1>13 DEF EnqueueEmplace
    <3> QED BY <3>1, <3>2
  <2>4. CallsOK'
    BY <1>1, <1>2, <1>13, QueueChanges DEF EnqueueEmplace
  <2>5. LateOK'
    BY <1>1, <1>13 DEF EnqueueEmplace
  <2> QED BY <2>1, <2>2, <2>3, <2>4, <2>5
<1>14. ASSUME NEW c \in Callers, EnqueueThrow(c) PROVE Structure'
  <2>1. TypeOK'
    BY <1>1, <1>2, <1>14 DEF EnqueueThrow
  <2>2. LifeOK'
    BY <1>1, <1>2, <1>14 DEF EnqueueThrow
  <2>3. LockOK'
    <3> HIDE DEF LifeOK, LateOK
    <3>1. \A d \in Callers : cpc'[d] # "emplace"
      BY <1>1, <1>14 DEF EnqueueThrow
    <3>2. \A w \in Workers : wpc'[w] # "locked"
      BY <1>1, <1>14 DEF EnqueueThrow
    <3> QED BY <3>1, <3>2
  <2>4. CallsOK'
    BY <1>1, <1>2, <1>14 DEF EnqueueThrow
  <2>5. LateOK'
    BY <1>1, <1>2, <1>14 DEF EnqueueThrow
  <2> QED BY <2>1, <2>2, <2>3, <2>4, <2>5
<1>15. ASSUME NEW c \in Callers, EnqueueRelease(c) PROVE Structure'
  <2>1. TypeOK'
    BY <1>1, <1>2, <1>15 DEF EnqueueRelease
  <2>2. LifeOK'
    BY <1>1, <1>2, <1>15 DEF EnqueueRelease
  <2>3. LockOK'
    BY <1>1, <1>2, <1>15 DEF EnqueueRelease
  <2>4. CallsOK'
    BY <1>1, <1>2, <1>15 DEF EnqueueRelease
  <2>5. LateOK'
    BY <1>1, <1>2, <1>15 DEF EnqueueRelease
  <2> QED BY <2>1, <2>2, <2>3, <2>4, <2>5
<1>16. ASSUME DtorStop PROVE Structure'
  <2>1. TypeOK'
    BY <1>1, <1>2, <1>16 DEF DtorStop
  <2>2. LifeOK'
    BY <1>1, <1>2, <1>16 DEF DtorStop
  <2>3. LockOK'
    BY <1>1, <1>2, <1>16 DEF DtorStop
  <2>4. CallsOK'
    BY <1>1, <1>2, <1>16 DEF DtorStop
  <2>5. LateOK'
    BY <1>1, <1>2, <1>16 DEF DtorStop
  <2> QED BY <2>1, <2>2, <2>3, <2>4, <2>5
<1>17. ASSUME DtorRelease PROVE Structure'
  <2>1. TypeOK'
    BY <1>1, <1>2, <1>17 DEF DtorRelease
  <2>2. LifeOK'
    BY <1>1, <1>2, <1>17 DEF DtorRelease
  <2>3. LockOK'
    BY <1>1, <1>2, <1>17 DEF DtorRelease
  <2>4. CallsOK'
    BY <1>1, <1>2, <1>17 DEF DtorRelease
  <2>5. LateOK'
    BY <1>1, <1>2, <1>17 DEF DtorRelease
  <2> QED BY <2>1, <2>2, <2>3, <2>4, <2>5
<1>18. ASSUME DtorRequestStop PROVE Structure'
  <2>1. TypeOK'
    BY <1>1, <1>2, <1>18 DEF DtorRequestStop
  <2>2. LifeOK'
    BY <1>1, <1>2, <1>18 DEF DtorRequestStop
  <2>3. LockOK'
    BY <1>1, <1>2, <1>18 DEF DtorRequestStop
  <2>4. CallsOK'
    BY <1>1, <1>2, <1>18 DEF DtorRequestStop
  <2>5. LateOK'
    BY <1>1, <1>2, <1>18 DEF DtorRequestStop
  <2> QED BY <2>1, <2>2, <2>3, <2>4, <2>5
<1>19. ASSUME DtorJoin PROVE Structure'
  <2>1. TypeOK'
    BY <1>1, <1>2, <1>19 DEF DtorJoin
  <2>2. LifeOK'
    BY <1>1, <1>2, <1>19 DEF DtorJoin
  <2>3. LockOK'
    BY <1>1, <1>2, <1>19 DEF DtorJoin
  <2>4. CallsOK'
    BY <1>1, <1>2, <1>19 DEF DtorJoin
  <2>5. LateOK'
    BY <1>1, <1>2, <1>19 DEF DtorJoin
  <2> QED BY <2>1, <2>2, <2>3, <2>4, <2>5
<1>20. ASSUME DtorDrop PROVE Structure'
  <2>1. TypeOK'
    BY <1>1, <1>2, <1>20, QueueChanges DEF DtorDrop
  <2>2. LifeOK'
    BY <1>1, <1>2, <1>20, QueueChanges DEF DtorDrop
  <2>3. LockOK'
    BY <1>1, <1>2, <1>20, QueueChanges DEF DtorDrop
  <2>4. CallsOK'
    BY <1>1, <1>2, <1>20, QueueChanges DEF DtorDrop
  <2>5. LateOK'
    BY <1>1, <1>2, <1>20, QueueChanges DEF DtorDrop
  <2> QED BY <2>1, <2>2, <2>3, <2>4, <2>5
<1>21. ASSUME DtorEnd PROVE Structure'
  <2>1. TypeOK'
    BY <1>1, <1>2, <1>21 DEF DtorEnd
  <2>2. LifeOK'
    BY <1>1, <1>2, <1>21 DEF DtorEnd
  <2>3. LockOK'
    BY <1>1, <1>2, <1>21 DEF DtorEnd
  <2>4. CallsOK'
    BY <1>1, <1>2, <1>21 DEF DtorEnd
  <2>5. LateOK'
    BY <1>1, <1>2, <1>21 DEF DtorEnd
  <2> QED BY <2>1, <2>2, <2>3, <2>4, <2>5
<1> QED BY <1>3, <1>4, <1>5, <1>6, <1>7, <1>8, <1>9, <1>10, <1>11, <1>12, <1>13, <1>14, <1>15, <1>16, <1>17, <1>18, <1>19, <1>20, <1>21 DEF Next, Worker, Enqueue, Destructor, Gone

-----------------------------------------------------------------------------
(* Counting workers and callers.                                           *)

\* The workers that hold a token they have not turned into a task, those that
\* sleep, and the callers that owe the semaphore a token.
Holders == WorkersAt({"check", "lock", "locked"})
Sleepers == WorkersAt({"acquire"})
Owing == {c \in Callers : cpc[c] = "release"}

\* Every set of callers can be counted, and one that joins it or leaves it
\* makes a difference of one.
LEMMA CallerSets ==
  ASSUME NEW S, S \subseteq Callers, NEW c \in Callers
  PROVE  /\ Cardinality(S) \in Nat
         /\ Cardinality(S \ {c}) = IF c \in S THEN Cardinality(S) - 1 ELSE Cardinality(S)
         /\ Cardinality(S \cup {c}) = IF c \in S THEN Cardinality(S) ELSE Cardinality(S) + 1
<1>1. IsFiniteSet(Workers)
  BY FS_Interval, ConstantsAssumption DEF Workers
<1>2. IsFiniteSet(Callers)
  BY <1>1, FS_Union, ConstantsAssumption DEF Callers
<1>3. IsFiniteSet(S)
  BY <1>2, FS_Subset
<1> QED BY <1>3, FS_CardinalityType, FS_AddElement, FS_RemoveElement

\* The counts are numbers, before and after a step.
LEMMA CountTypes ==
  /\ Cardinality(Holders) \in Nat /\ Cardinality(Sleepers) \in Nat /\ Cardinality(Owing) \in Nat
  /\ Cardinality(Holders') \in Nat /\ Cardinality(Sleepers') \in Nat /\ Cardinality(Owing') \in Nat
  /\ Cardinality(Sleepers) <= NumThreads
<1>1. /\ Holders \subseteq Callers /\ Sleepers \subseteq Workers /\ Owing \subseteq Callers
      /\ Holders' \subseteq Callers /\ Sleepers' \subseteq Workers /\ Owing' \subseteq Callers
      /\ Workers \subseteq Callers /\ 1 \in Callers
  BY Constants DEF Holders, Sleepers, Owing, WorkersAt
<1>2. IsFiniteSet(Workers) /\ Cardinality(Workers) = NumThreads
  BY FS_Interval, ConstantsAssumption DEF Workers
<1>3. Cardinality(Sleepers) <= NumThreads
  BY <1>1, <1>2, FS_Subset
<1>4. Sleepers \subseteq Callers /\ Sleepers' \subseteq Callers
  BY <1>1
<1> QED BY <1>1, <1>3, <1>4, CallerSets

\* A worker that moves changes the counts by what it leaves and enters.
LEMMA WorkerMoves ==
  ASSUME TypeOK, NEW w \in Workers, NEW label \in WorkerLabels, Goto(w, label)
  PROVE  /\ Cardinality(Holders') =
              IF label \in {"check", "lock", "locked"}
              THEN IF wpc[w] \in {"check", "lock", "locked"}
                   THEN Cardinality(Holders) ELSE Cardinality(Holders) + 1
              ELSE IF wpc[w] \in {"check", "lock", "locked"}
                   THEN Cardinality(Holders) - 1 ELSE Cardinality(Holders)
         /\ Cardinality(Sleepers') =
              IF label = "acquire"
              THEN IF wpc[w] = "acquire" THEN Cardinality(Sleepers) ELSE Cardinality(Sleepers) + 1
              ELSE IF wpc[w] = "acquire" THEN Cardinality(Sleepers) - 1 ELSE Cardinality(Sleepers)
<1>1. /\ wpc \in [Workers -> WorkerLabels] /\ wpc' = [wpc EXCEPT ![w] = label] /\ w \in Callers
      /\ Holders \subseteq Callers /\ Sleepers \subseteq Callers
  BY Constants DEF TypeOK, Goto, Holders, Sleepers, WorkersAt
<1>2. /\ Holders' = IF label \in {"check", "lock", "locked"} THEN Holders \cup {w} ELSE Holders \ {w}
      /\ w \in Holders <=> wpc[w] \in {"check", "lock", "locked"}
  BY <1>1 DEF Holders, WorkersAt
<1>3. /\ Sleepers' = IF label = "acquire" THEN Sleepers \cup {w} ELSE Sleepers \ {w}
      /\ w \in Sleepers <=> wpc[w] = "acquire"
  BY <1>1 DEF Sleepers, WorkersAt
<1>4. CASE label \in {"check", "lock", "locked"}
  <2>1. label # "acquire"
    BY <1>4
  <2> QED BY <1>1, <1>2, <1>3, <1>4, <2>1, CallerSets
<1>5. CASE label = "acquire"
  <2>1. label \notin {"check", "lock", "locked"}
    BY <1>5
  <2> QED BY <1>1, <1>2, <1>3, <1>5, <2>1, CallerSets
<1>6. CASE label \notin {"check", "lock", "locked"} /\ label # "acquire"
  BY <1>1, <1>2, <1>3, <1>6, CallerSets
<1> QED BY <1>4, <1>5, <1>6

\* A caller that moves owes a token from the emplace to the release.
LEMMA CallerMoves ==
  ASSUME TypeOK, NEW c \in Callers, NEW label \in CallerLabels, cpc' = [cpc EXCEPT ![c] = label]
  PROVE  Cardinality(Owing') =
           IF label = "release"
           THEN IF cpc[c] = "release" THEN Cardinality(Owing) ELSE Cardinality(Owing) + 1
           ELSE IF cpc[c] = "release" THEN Cardinality(Owing) - 1 ELSE Cardinality(Owing)
<1>1. /\ Owing' = IF label = "release" THEN Owing \cup {c} ELSE Owing \ {c}
      /\ c \in Owing <=> cpc[c] = "release"
      /\ Owing \subseteq Callers
  BY DEF TypeOK, Owing
<1>2. CASE label = "release"
  BY <1>1, <1>2, CallerSets
<1>3. CASE label # "release"
  BY <1>1, <1>3, CallerSets
<1> QED BY <1>2, <1>3

\* Who does not move is counted as before.
LEMMA NobodyMoves ==
  /\ UNCHANGED wpc => Holders' = Holders /\ Sleepers' = Sleepers
  /\ UNCHANGED cpc => Owing' = Owing
  BY DEF Holders, Sleepers, Owing, WorkersAt

-----------------------------------------------------------------------------
(* Tokens and tasks.                                                       *)

\* A token and a task come and go together as long as no worker is told to stop.
LEMMA TokenStep ==
  ASSUME PoolInv, Structure', [Next]_vars
  PROVE  TokenPerTask'
<1> USE DEF workerVars, clientVars, stopVars
<1> DEFINE h == Cardinality(Holders)  hh == Cardinality(Holders')
           o == Cardinality(Owing)    oo == Cardinality(Owing')
<1>1. SUFFICES ASSUME dpc' \in {"ctor", "alive"}
               PROVE  Len(m_tasks') = m_semaphore' + hh + oo
  BY DEF TokenPerTask, Holders, Owing
<1>2. dpc \in {"ctor", "alive"}
  BY <1>1 DEF Next, vars, Worker, Enqueue, Destructor, Gone, CtorStart, WorkerLoop,
     WorkerAcquire, WorkerBreak, WorkerProceed, WorkerLock, WorkerContinue, WorkerTake, WorkerRun,
     EnqueueLock, EnqueueEmplace, EnqueueThrow, EnqueueRelease,
     DtorStop, DtorRelease, DtorRequestStop, DtorJoin, DtorDrop, DtorEnd
<1>3. /\ TypeOK /\ TypeOK' /\ m_tasks \in Seq(Tasks)
      /\ Len(m_tasks) = m_semaphore + h + o
      /\ Len(m_tasks) \in Nat /\ m_semaphore \in Nat /\ h \in Nat /\ o \in Nat
      /\ hh \in Nat /\ oo \in Nat
  <2>1. h \in Nat /\ o \in Nat /\ hh \in Nat /\ oo \in Nat
    BY CountTypes
  <2>2. Len(m_tasks) = m_semaphore + h + o
    BY <1>2 DEF PoolInv, TokenPerTask, Holders, Owing
  <2> QED BY <2>1, <2>2, QueueChanges DEF PoolInv, Structure, TypeOK
<1>4. CASE UNCHANGED vars
  BY <1>3, <1>4, NobodyMoves DEF vars
<1>5. CASE CtorStart
  <2>1. next \in Workers /\ wpc[next] = "unborn" /\ Goto(next, "loop") /\ UNCHANGED cpc
    BY <1>5, Constants DEF CtorStart, PoolInv, Structure, TypeOK, LifeOK
  <2> QED BY <1>3, <1>5, <2>1, WorkerMoves, NobodyMoves DEF CtorStart, WorkerLabels
<1>6. ASSUME NEW w \in Workers, WorkerLoop(w) PROVE Len(m_tasks') = m_semaphore' + hh + oo
  BY <1>3, <1>6, WorkerMoves, NobodyMoves DEF WorkerLoop, WorkerLabels
<1>7. ASSUME NEW w \in Workers, WorkerAcquire(w) PROVE Len(m_tasks') = m_semaphore' + hh + oo
  BY <1>3, <1>7, WorkerMoves, NobodyMoves DEF WorkerAcquire, WorkerLabels
<1>8. ASSUME NEW w \in Workers, WorkerBreak(w) PROVE Len(m_tasks') = m_semaphore' + hh + oo
  BY <1>2, <1>8 DEF WorkerBreak, PoolInv, Structure, LifeOK
<1>9. ASSUME NEW w \in Workers, WorkerProceed(w) PROVE Len(m_tasks') = m_semaphore' + hh + oo
  BY <1>3, <1>9, WorkerMoves, NobodyMoves DEF WorkerProceed, WorkerLabels
<1>10. ASSUME NEW w \in Workers, WorkerLock(w) PROVE Len(m_tasks') = m_semaphore' + hh + oo
  BY <1>3, <1>10, WorkerMoves, NobodyMoves DEF WorkerLock, WorkerLabels
\* A worker that holds a token finds a task.
<1>11. ASSUME NEW w \in Workers, WorkerContinue(w) PROVE Len(m_tasks') = m_semaphore' + hh + oo
  <2>1. Len(m_tasks) = 0 /\ Goto(w, "loop") /\ wpc[w] = "locked"
    BY <1>3, <1>11, QueueChanges DEF WorkerContinue
  <2>2. hh = h - 1
    BY <1>3, <2>1, WorkerMoves DEF WorkerLabels
  <2> QED BY <1>3, <2>1, <2>2
<1>12. ASSUME NEW w \in Workers, WorkerTake(w) PROVE Len(m_tasks') = m_semaphore' + hh + oo
  <2>1. Len(m_tasks') = Len(m_tasks) - 1
    BY <1>3, <1>12, QueueChanges DEF WorkerTake
  <2>2. hh = h - 1 /\ oo = o
    BY <1>3, <1>12, WorkerMoves, NobodyMoves DEF WorkerTake, WorkerLabels
  <2> QED BY <1>3, <1>12, <2>1, <2>2 DEF WorkerTake
<1>13. ASSUME NEW w \in Workers, WorkerRun(w) PROVE Len(m_tasks') = m_semaphore' + hh + oo
  BY <1>3, <1>13, WorkerMoves, NobodyMoves DEF WorkerRun, WorkerLabels
<1>14. ASSUME NEW c \in Callers, EnqueueLock(c) PROVE Len(m_tasks') = m_semaphore' + hh + oo
  BY <1>3, <1>14, CallerMoves, NobodyMoves DEF EnqueueLock, CallerLabels
<1>15. ASSUME NEW c \in Callers, EnqueueEmplace(c) PROVE Len(m_tasks') = m_semaphore' + hh + oo
  <2>1. Len(m_tasks') = Len(m_tasks) + 1
    BY <1>3, <1>15, QueueChanges DEF EnqueueEmplace, PoolInv, Structure, CallsOK
  <2>2. hh = h /\ oo = o + 1
    BY <1>3, <1>15, CallerMoves, NobodyMoves DEF EnqueueEmplace, CallerLabels
  <2> QED BY <1>3, <1>15, <2>1, <2>2 DEF EnqueueEmplace
<1>16. ASSUME NEW c \in Callers, EnqueueThrow(c) PROVE Len(m_tasks') = m_semaphore' + hh + oo
  BY <1>3, <1>16, CallerMoves, NobodyMoves DEF EnqueueThrow, CallerLabels
<1>17. ASSUME NEW c \in Callers, EnqueueRelease(c) PROVE Len(m_tasks') = m_semaphore' + hh + oo
  <2>1. hh = h /\ oo = o - 1
    BY <1>3, <1>17, CallerMoves, NobodyMoves DEF EnqueueRelease, CallerLabels
  <2> QED BY <1>3, <1>17, <2>1 DEF EnqueueRelease
<1>18. ~Destructor /\ ~Gone
  BY <1>1, <1>2 DEF Destructor, Gone, DtorStop, DtorRelease, DtorRequestStop, DtorJoin, DtorDrop,
     DtorEnd
<1> QED BY <1>4, <1>5, <1>6, <1>7, <1>8, <1>9, <1>10, <1>11, <1>12, <1>13, <1>14, <1>15, <1>16,
           <1>17, <1>18 DEF Next, Worker, Enqueue

-----------------------------------------------------------------------------
(* The destructor's wake-ups.                                              *)

\* The tokens that the destructor has yet to release.
ToRelease ==
  IF dpc = "release" THEN NumThreads - (next - 1)
  ELSE IF dpc = "request" THEN NumThreads - next ELSE 0

EnoughTokens == m_stopping => Cardinality(Sleepers) <= m_semaphore + ToRelease

\* WakeupsSuffice in the terms of this module.
LEMMA WakeupsMeansEnough ==
  (WakeupsSuffice <=> EnoughTokens) /\ (WakeupsSuffice' <=> EnoughTokens')
<1>1. WakeupsSuffice <=> EnoughTokens
  BY DEF WakeupsSuffice, EnoughTokens, ToRelease, Sleepers
<1>2. WakeupsSuffice' <=> EnoughTokens'
  BY DEF WakeupsSuffice, EnoughTokens, ToRelease, Sleepers
<1> QED BY <1>1, <1>2

\* Nobody falls asleep once m_stopping is set, who wakes up takes one token, and
\* the destructor releases as many as there are workers.
LEMMA WakeupStep ==
  ASSUME PoolInv, Structure', [Next]_vars
  PROVE  WakeupsSuffice'
<1> USE DEF workerVars, clientVars, stopVars
<1> DEFINE a == Cardinality(Sleepers)  aa == Cardinality(Sleepers')
<1>1. SUFFICES ASSUME m_stopping' PROVE aa <= m_semaphore' + ToRelease'
  BY WakeupsMeansEnough DEF EnoughTokens
<1>2. /\ TypeOK /\ LifeOK /\ m_semaphore \in Nat /\ m_semaphore' \in Nat
      /\ a \in Nat /\ aa \in Nat /\ a <= NumThreads
      /\ NumThreads \in Nat /\ next \in Nat /\ 1 <= next /\ next <= NumThreads
      /\ m_stopping => a <= m_semaphore + ToRelease
      /\ ToRelease \in Nat
  <2>1. /\ TypeOK /\ LifeOK /\ m_semaphore \in Nat /\ m_semaphore' \in Nat
        /\ next \in Workers
    BY DEF PoolInv, Structure, TypeOK
  <2>2. NumThreads \in Nat /\ next \in Nat /\ 1 <= next /\ next <= NumThreads
    BY <2>1, Constants
  <2>3. ToRelease \in Nat
    BY <2>2 DEF ToRelease
  <2> QED BY <2>1, <2>2, <2>3, CountTypes, WakeupsMeansEnough DEF PoolInv, EnoughTokens
\* Steps that leave the sleepers, the destructor and the tokens alone, or only
\* add tokens.
<1>3. ASSUME m_stopping, ToRelease' = ToRelease, aa <= a, m_semaphore <= m_semaphore'
      PROVE  aa <= m_semaphore' + ToRelease'
  BY <1>2, <1>3
<1>4. ASSUME UNCHANGED <<dpc, next>> PROVE ToRelease' = ToRelease
  BY <1>4 DEF ToRelease
<1>5. CASE UNCHANGED vars
  BY <1>1, <1>2, <1>3, <1>4, <1>5, NobodyMoves DEF vars
<1>6. ASSUME CtorStart PROVE FALSE
  BY <1>1, <1>2, <1>6 DEF CtorStart, LifeOK
<1>7. ASSUME NEW w \in Workers, WorkerLoop(w) PROVE aa <= m_semaphore' + ToRelease'
  <2>1. m_stopping /\ Goto(w, "exited") /\ wpc[w] = "loop" /\ UNCHANGED <<dpc, next, m_semaphore>>
    BY <1>1, <1>7 DEF WorkerLoop
  <2>2. aa = a
    BY <1>2, <2>1, WorkerMoves DEF WorkerLabels
  <2> QED BY <1>2, <1>3, <1>4, <2>1, <2>2
<1>8. ASSUME NEW w \in Workers, WorkerAcquire(w) PROVE aa <= m_semaphore' + ToRelease'
  <2>1. aa = a - 1
    BY <1>2, <1>8, WorkerMoves DEF WorkerAcquire, WorkerLabels
  <2>2. m_stopping /\ m_semaphore' = m_semaphore - 1 /\ UNCHANGED <<dpc, next>>
    BY <1>1, <1>8 DEF WorkerAcquire
  <2> QED BY <1>2, <1>4, <2>1, <2>2
<1>9. ASSUME NEW w \in Workers,
             \/ WorkerBreak(w) \/ WorkerProceed(w) \/ WorkerLock(w) \/ WorkerContinue(w)
             \/ WorkerTake(w) \/ WorkerRun(w)
      PROVE  aa <= m_semaphore' + ToRelease'
  <2>1. /\ m_stopping /\ UNCHANGED <<dpc, next, m_semaphore>>
        /\ wpc[w] # "acquire"
        /\ \E label \in WorkerLabels \ {"acquire"} : Goto(w, label)
    BY <1>1, <1>9 DEF WorkerBreak, WorkerProceed, WorkerLock, WorkerContinue, WorkerTake, WorkerRun,
       WorkerLabels
  <2>2. aa = a
    BY <1>2, <2>1, WorkerMoves
  <2> QED BY <1>2, <1>3, <1>4, <2>1, <2>2
<1>10. ASSUME NEW c \in Callers, Enqueue(c) PROVE aa <= m_semaphore' + ToRelease'
  <2>1. m_stopping /\ UNCHANGED <<dpc, next, wpc>>
    BY <1>1, <1>10
       DEF Enqueue, EnqueueLock, EnqueueEmplace, EnqueueThrow, EnqueueRelease
  <2>2. m_semaphore' = m_semaphore \/ m_semaphore' = m_semaphore + 1
    BY <1>10 DEF Enqueue, EnqueueLock, EnqueueEmplace, EnqueueThrow, EnqueueRelease
  <2>3. m_semaphore <= m_semaphore'
    BY <1>2, <2>2
  <2>4. aa <= a
    BY <1>2, <2>1, NobodyMoves
  <2> QED BY <1>3, <1>4, <2>1, <2>3, <2>4
<1>11. CASE DtorStop
  <2>1. ToRelease' = NumThreads /\ UNCHANGED <<m_semaphore, wpc>>
    BY <1>2, <1>11 DEF DtorStop, ToRelease, LifeOK
  <2> QED BY <1>2, <2>1, NobodyMoves
<1>12. CASE DtorRelease
  <2>1. /\ ToRelease' = ToRelease - 1 /\ m_semaphore' = m_semaphore + 1 /\ UNCHANGED wpc
        /\ m_stopping
    BY <1>1, <1>2, <1>12 DEF DtorRelease, ToRelease
  <2> QED BY <1>2, <2>1, NobodyMoves
<1>13. CASE DtorRequestStop
  <2>1. ToRelease' = ToRelease /\ m_stopping /\ UNCHANGED <<m_semaphore, wpc>>
    BY <1>1, <1>2, <1>13 DEF DtorRequestStop, ToRelease
  <2> QED BY <1>2, <1>3, <2>1, NobodyMoves
<1>14. CASE DtorJoin \/ DtorDrop \/ DtorEnd
  <2>1. ToRelease' = ToRelease /\ m_stopping /\ UNCHANGED <<m_semaphore, wpc>>
    BY <1>1, <1>14 DEF DtorJoin, DtorDrop, DtorEnd, ToRelease
  <2> QED BY <1>2, <1>3, <2>1, NobodyMoves
<1> QED BY <1>5, <1>6, <1>7, <1>8, <1>9, <1>10, <1>11, <1>12, <1>13, <1>14
        DEF Next, Worker, Destructor, Gone

-----------------------------------------------------------------------------
(* Futures.                                                                *)

\* A task is handed from enqueue to the queue and from the queue to a worker,
\* and whoever drops it keeps or breaks its promise.
LEMMA PendingStep ==
  ASSUME PoolInv, Structure', [Next]_vars
  PROVE  PendingIsKept'
<1> USE DEF workerVars, clientVars, stopVars, Goto
<1>1. /\ Structure /\ PendingIsKept /\ m_tasks \in Seq(Tasks) /\ Len(m_tasks) \in Nat
      /\ wpc \in [Workers -> WorkerLabels] /\ cpc \in [Callers -> CallerLabels]
      /\ arg \in [Callers -> Tasks \cup {NoTask}] /\ task \in [Workers -> Tasks \cup {NoTask}]
      /\ future \in [Tasks -> {"none", "pending", "ready", "broken"}]
      /\ Workers \subseteq Callers
  BY QueueChanges, Constants DEF PoolInv, Structure, TypeOK
<1>2. SUFFICES ASSUME NEW k \in Tasks, future'[k] = "pending"
               PROVE  \/ \E c \in Callers : cpc'[c] = "emplace" /\ arg'[c] = k
                      \/ \E i \in 1..Len(m_tasks') : m_tasks'[i] = k
                      \/ \E w \in Workers : wpc'[w] = "run" /\ task'[w] = k
  BY DEF PendingIsKept
\* The place where the promise was kept before the step, if the task is not new.
<1>3. ASSUME future[k] = "pending"
      PROVE  \/ \E c \in Callers : cpc[c] = "emplace" /\ arg[c] = k
             \/ \E i \in 1..Len(m_tasks) : m_tasks[i] = k
             \/ \E w \in Workers : wpc[w] = "run" /\ task[w] = k
  BY <1>1, <1>3 DEF PendingIsKept
<1> DEFINE Goal == \/ \E c \in Callers : cpc'[c] = "emplace" /\ arg'[c] = k
                   \/ \E i \in 1..Len(m_tasks') : m_tasks'[i] = k
                   \/ \E w \in Workers : wpc'[w] = "run" /\ task'[w] = k
\* No place is left by a step that moves no caller and no worker in or out.
<1>4. ASSUME UNCHANGED <<future, m_tasks, cpc, arg, task>>,
             \A w \in Workers : wpc[w] = "run" => wpc'[w] = "run"
      PROVE  Goal
  BY <1>2, <1>3, <1>4
<1>5. CASE UNCHANGED vars
  BY <1>4, <1>5 DEF vars
<1>6. CASE CtorStart
  <2>1. wpc[next] = "unborn" /\ next \in Workers
    BY <1>6, <1>1, Constants DEF CtorStart, Structure, LifeOK, TypeOK
  <2>2. \A w \in Workers : wpc[w] = "run" => wpc'[w] = "run"
    BY <1>1, <1>6, <2>1 DEF CtorStart
  <2> QED BY <1>4, <1>6, <2>2 DEF CtorStart
<1>7. ASSUME NEW w \in Workers,
             \/ WorkerLoop(w) \/ WorkerAcquire(w) \/ WorkerBreak(w) \/ WorkerProceed(w)
             \/ WorkerLock(w) \/ WorkerContinue(w)
      PROVE  Goal
  <2>1. /\ wpc[w] # "run" /\ UNCHANGED <<future, m_tasks, cpc, arg, task>>
        /\ \E label : wpc' = [wpc EXCEPT ![w] = label]
    BY <1>7 DEF WorkerLoop, WorkerAcquire, WorkerBreak, WorkerProceed, WorkerLock, WorkerContinue
  <2> QED BY <1>1, <1>4, <2>1
<1>8. ASSUME NEW w \in Workers, WorkerTake(w) PROVE Goal
  <2>1. /\ m_tasks # <<>> /\ m_tasks' = Tail(m_tasks) /\ wpc[w] = "locked"
        /\ task' = [task EXCEPT ![w] = Head(m_tasks)] /\ wpc' = [wpc EXCEPT ![w] = "run"]
        /\ UNCHANGED <<future, cpc, arg>>
    BY <1>8 DEF WorkerTake
  <2>2. CASE \E i \in 1..Len(m_tasks) : m_tasks[i] = k
    <3>1. PICK i \in 1..Len(m_tasks) : m_tasks[i] = k
      BY <2>2
    <3>2. CASE i = 1
      <4>1. Head(m_tasks) = k
        BY <1>1, <2>1, <3>1, <3>2
      <4> QED BY <1>1, <2>1, <4>1
    <3>3. CASE i # 1
      <4>1. i - 1 \in 1..Len(m_tasks') /\ m_tasks'[i - 1] = k
        BY <1>1, <2>1, <3>1, <3>3, HeadTailProperties
      <4> QED BY <4>1
    <3> QED BY <3>2, <3>3
  <2>3. CASE \E c \in Callers : cpc[c] = "emplace" /\ arg[c] = k
    BY <2>1, <2>3
  <2>4. CASE \E u \in Workers : wpc[u] = "run" /\ task[u] = k
    <3>1. PICK u \in Workers : wpc[u] = "run" /\ task[u] = k
      BY <2>4
    <3>2. u # w
      BY <2>1, <3>1
    <3> QED BY <1>1, <2>1, <3>1, <3>2
  <2> QED BY <1>2, <1>3, <2>1, <2>2, <2>3, <2>4
<1>9. ASSUME NEW w \in Workers, WorkerRun(w) PROVE Goal
  <2>1. /\ task[w] \in Tasks /\ future' = [future EXCEPT ![task[w]] = "ready"]
        /\ wpc' = [wpc EXCEPT ![w] = "loop"] /\ UNCHANGED <<m_tasks, cpc, arg, task>>
    BY <1>1, <1>9 DEF WorkerRun, Structure, CallsOK
  <2>2. k # task[w] /\ future[k] = "pending"
    BY <1>1, <1>2, <2>1
  <2>3. \A u \in Workers : wpc[u] = "run" /\ task[u] = k => wpc'[u] = "run" /\ task'[u] = k
    BY <1>1, <2>1, <2>2
  <2> QED BY <1>3, <2>1, <2>2, <2>3
<1>10. ASSUME NEW c \in Callers, EnqueueLock(c) PROVE Goal
  <2>1. /\ issued + 1 \in Tasks /\ cpc[c] = "idle"
        /\ future' = [future EXCEPT ![issued + 1] = "pending"]
        /\ arg' = [arg EXCEPT ![c] = issued + 1] /\ cpc' = [cpc EXCEPT ![c] = "emplace"]
        /\ UNCHANGED <<m_tasks, wpc, task>>
    BY <1>1, <1>10, Constants DEF EnqueueLock, Structure, TypeOK, Tasks
  <2>2. CASE k = issued + 1
    BY <1>1, <2>1, <2>2
  <2>3. CASE k # issued + 1
    <3>1. future[k] = "pending"
      BY <1>1, <1>2, <2>1, <2>3
    <3>2. \A d \in Callers : cpc[d] = "emplace" => cpc'[d] = "emplace" /\ arg'[d] = arg[d]
      BY <1>1, <2>1
    <3> QED BY <1>3, <2>1, <3>1, <3>2
  <2> QED BY <2>2, <2>3
<1>11. ASSUME NEW c \in Callers, EnqueueEmplace(c) PROVE Goal
  <2>1. /\ arg[c] \in Tasks /\ m_tasks' = Append(m_tasks, arg[c])
        /\ cpc' = [cpc EXCEPT ![c] = "release"] /\ UNCHANGED <<future, arg, wpc, task>>
    BY <1>1, <1>11 DEF EnqueueEmplace, Structure, CallsOK
  <2>2. /\ Len(m_tasks') = Len(m_tasks) + 1 /\ m_tasks'[Len(m_tasks) + 1] = arg[c]
        /\ \A i \in 1..Len(m_tasks) : m_tasks'[i] = m_tasks[i]
    BY <1>1, <2>1, AppendProperties
  <2>3. CASE \E i \in 1..Len(m_tasks) : m_tasks[i] = k
    BY <1>1, <2>2, <2>3
  <2>4. CASE \E d \in Callers : cpc[d] = "emplace" /\ arg[d] = k
    <3>1. PICK d \in Callers : cpc[d] = "emplace" /\ arg[d] = k
      BY <2>4
    <3>2. CASE d = c
      <4>1. Len(m_tasks) + 1 \in 1..Len(m_tasks')
        BY <1>1, <2>2
      <4> QED BY <2>2, <3>1, <3>2, <4>1
    <3>3. CASE d # c
      BY <1>1, <2>1, <3>1, <3>3
    <3> QED BY <3>2, <3>3
  <2>5. CASE \E w \in Workers : wpc[w] = "run" /\ task[w] = k
    BY <2>1, <2>5
  <2> QED BY <1>2, <1>3, <2>1, <2>3, <2>4, <2>5
<1>12. ASSUME NEW c \in Callers, EnqueueThrow(c) PROVE Goal
  <2>1. /\ arg[c] \in Tasks /\ future' = [future EXCEPT ![arg[c]] = "broken"]
        /\ cpc' = [cpc EXCEPT ![c] = "idle"] /\ UNCHANGED <<m_tasks, arg, wpc, task>>
    BY <1>1, <1>12 DEF EnqueueThrow, Structure, CallsOK
  <2>2. k # arg[c] /\ future[k] = "pending"
    BY <1>1, <1>2, <2>1
  <2>3. \A d \in Callers : cpc[d] = "emplace" /\ arg[d] = k => cpc'[d] = "emplace" /\ arg'[d] = k
    BY <1>1, <2>1, <2>2
  <2> QED BY <1>3, <2>1, <2>2, <2>3
<1>13. ASSUME NEW c \in Callers, EnqueueRelease(c) PROVE Goal
  <2>1. /\ cpc[c] = "release" /\ cpc' = [cpc EXCEPT ![c] = "idle"]
        /\ UNCHANGED <<future, m_tasks, arg, wpc, task>>
    BY <1>13 DEF EnqueueRelease
  <2>2. \A d \in Callers : cpc[d] = "emplace" => cpc'[d] = "emplace"
    BY <1>1, <2>1
  <2> QED BY <1>2, <1>3, <2>1, <2>2
<1>14. CASE DtorStop \/ DtorRelease \/ DtorRequestStop \/ DtorJoin \/ DtorEnd
  BY <1>4, <1>14 DEF DtorStop, DtorRelease, DtorRequestStop, DtorJoin, DtorEnd
<1>15. CASE DtorDrop
  <2>1. /\ m_tasks # <<>> /\ m_tasks' = Tail(m_tasks) /\ UNCHANGED <<cpc, arg, wpc, task>>
        /\ future' = [future EXCEPT ![Head(m_tasks)] = "broken"]
    BY <1>15 DEF DtorDrop
  <2>2. Head(m_tasks) \in Tasks
    BY <1>1, <2>1, QueueChanges
  <2>3. k # Head(m_tasks) /\ future[k] = "pending"
    BY <1>1, <1>2, <2>1, <2>2
  <2>4. CASE \E i \in 1..Len(m_tasks) : m_tasks[i] = k
    <3>1. PICK i \in 1..Len(m_tasks) : m_tasks[i] = k
      BY <2>4
    <3>2. i # 1
      BY <1>1, <2>1, <2>3, <3>1
    <3>3. i - 1 \in 1..Len(m_tasks') /\ m_tasks'[i - 1] = k
      BY <1>1, <2>1, <3>1, <3>2, HeadTailProperties
    <3> QED BY <3>3
  <2> QED BY <1>3, <2>1, <2>3, <2>4
<1> QED BY <1>5, <1>6, <1>7, <1>8, <1>9, <1>10, <1>11, <1>12, <1>13, <1>14, <1>15
        DEF Next, Worker, Enqueue, Destructor, Gone

-----------------------------------------------------------------------------
(* The theorems.                                                           *)

\* A new pool has no task, no token, no sleeper and no promise.
LEMMA InitInv == Init => PoolInv
<1> SUFFICES ASSUME Init PROVE PoolInv
  OBVIOUS
<1>1. Structure
  BY InitStructure
<1>2. Holders = {} /\ Owing = {}
  BY DEF Init, Holders, Owing, WorkersAt
<1>3. TokenPerTask
  <2>1. Cardinality(Holders) = 0 /\ Cardinality(Owing) = 0 /\ Len(m_tasks) = 0 /\ m_semaphore = 0
    BY <1>2, FS_EmptySet, EmptySeq DEF Init
  <2> QED BY <2>1 DEF TokenPerTask, Holders, Owing
<1>4. WakeupsSuffice
  BY WakeupsMeansEnough DEF Init, EnoughTokens
<1>5. PendingIsKept
  BY DEF Init, PendingIsKept
<1> QED BY <1>1, <1>3, <1>4, <1>5 DEF PoolInv

\* Every step of the workers, of enqueue, and of the pool's constructor and
\* destructor keeps the invariant.
THEOREM PoolInvariant == Spec => []PoolInv
<1>1. PoolInv /\ [Next]_vars => PoolInv'
  <2> SUFFICES ASSUME PoolInv, [Next]_vars PROVE PoolInv'
    OBVIOUS
  <2>1. Structure'
    BY StructureStep DEF PoolInv
  <2>2. TokenPerTask'
    BY <2>1, TokenStep
  <2>3. WakeupsSuffice'
    BY <2>1, WakeupStep
  <2>4. PendingIsKept'
    BY <2>1, PendingStep
  <2> QED BY <2>1, <2>2, <2>3, <2>4 DEF PoolInv
<1> QED BY <1>1, InitInv, PTL DEF Spec

\* Until the destructor runs there is a token for every task: no task waits in
\* the queue while every worker sleeps at the semaphore.
THEOREM TokensMatchTasks == Spec => []TokenPerTask
<1>1. PoolInv => TokenPerTask
  BY DEF PoolInv
<1> QED BY <1>1, PoolInvariant, PTL

\* One release per worker (119-120) wakes every worker, whatever tokens and
\* tasks are left over and whatever tasks enqueue meanwhile.
THEOREM EverySleeperWoken == Spec => []WakeupsSuffice
<1>1. PoolInv => WakeupsSuffice
  BY DEF PoolInv
<1> QED BY <1>1, PoolInvariant, PTL

\* The destructor waits for at most one task per worker beyond those that run.
THEOREM FewLateTasks == Spec => []AtMostOneLateTask
<1>1. PoolInv => AtMostOneLateTask
  <2>1. PoolInv => \A w \in Workers : late[w] = 0 \/ late[w] = 1
    BY Zenon DEF PoolInv, Structure, LateOK
  <2> QED BY <2>1 DEF AtMostOneLateTask
<1> QED BY <1>1, PoolInvariant, PTL

\* A destroyed pool leaves no future hanging: a promise that is not kept belongs
\* to a call, the queue or a worker, and none of these is left.
THEOREM PromisesSettled == Spec => []NoFutureLeftHanging
<1>1. PoolInv => NoFutureLeftHanging
  <2> SUFFICES ASSUME PoolInv, dpc = "gone", NEW k \in Tasks, future[k] = "pending"
               PROVE  FALSE
    BY DEF NoFutureLeftHanging
  <2>1. /\ m_tasks = <<>> /\ \A w \in Workers : wpc[w] = "exited"
        /\ \A c \in Callers : cpc[c] = "idle"
    BY Constants DEF PoolInv, Structure, LifeOK, CallsOK
  <2>2. ~ \E i \in 1..Len(m_tasks) : m_tasks[i] = k
    BY <2>1, EmptySeq
  <2> QED BY <2>1, <2>2 DEF PoolInv, PendingIsKept
<1> QED BY <1>1, PoolInvariant, PTL

\* The pool starts the tasks of a FIFO queue: each once, in the order of the
\* emplaces, and only the destructor throws tasks away.
THEOREM Refinement == Spec => StartedInOrder
<1>1. Init => Queue!Init
  BY DEF Init, Queue!Init
<1>2. PoolInv /\ [Next]_vars => [Queue!Next]_(Queue!vars)
  <2> SUFFICES ASSUME PoolInv, [Next]_vars
               PROVE  Queue!Next \/ UNCHANGED Queue!vars
    OBVIOUS
  <2> USE DEF workerVars, clientVars, stopVars
  <2>1. ASSUME NEW c \in Callers, EnqueueEmplace(c) PROVE Queue!Next
    <3>1. /\ arg[c] \in Tasks /\ Len(m_tasks) < MaxTasks
      <4>1. arg[c] \in Tasks /\ Len(m_tasks) < issued
        BY <2>1 DEF EnqueueEmplace, PoolInv, Structure, CallsOK
      <4>2. issued \in Nat /\ issued <= MaxTasks /\ MaxTasks \in Nat /\ Len(m_tasks) \in Nat
        BY QueueChanges, Constants DEF PoolInv, Structure, TypeOK
      <4> QED BY <4>1, <4>2
    <3>2. dpc \notin {"drop", "gone"}
      BY <2>1, Constants DEF EnqueueEmplace, PoolInv, Structure, CallsOK, LifeOK
    <3>3. Queue!Push(arg[c])
      BY <2>1, <3>1, <3>2 DEF EnqueueEmplace, Queue!Push
    <3> QED BY <3>1, <3>3 DEF Queue!Next
  <2>2. ASSUME NEW w \in Workers, WorkerTake(w) PROVE Queue!Next
    <3>1. dpc \notin {"drop", "gone"}
      BY <2>2 DEF WorkerTake, PoolInv, Structure, LifeOK
    <3>2. Queue!Pop(w)
      BY <2>2, <3>1 DEF WorkerTake, Queue!Pop
    <3> QED BY <3>2 DEF Queue!Next
  <2>3. CASE DtorJoin
    BY <2>3 DEF DtorJoin, Queue!Next, Queue!Close, Queue!vars
  <2>4. CASE DtorDrop
    BY <2>4 DEF DtorDrop, Queue!Next, Queue!Discard
  <2>5. CASE DtorEnd
    BY <2>5 DEF DtorEnd, Queue!vars
  <2>6. CASE UNCHANGED <<m_tasks, task, dpc>>
    BY <2>6 DEF Queue!vars
  <2>7. CASE CtorStart \/ DtorStop \/ DtorRelease \/ DtorRequestStop
    <3>1. dpc \notin {"drop", "gone"} /\ dpc' \notin {"drop", "gone"} /\ UNCHANGED <<m_tasks, task>>
      BY <2>7 DEF CtorStart, DtorStop, DtorRelease, DtorRequestStop
    <3> QED BY <3>1 DEF Queue!vars
  <2>8. \/ \E c \in Callers : EnqueueEmplace(c)
        \/ \E w \in Workers : WorkerTake(w)
        \/ DtorJoin \/ DtorDrop \/ DtorEnd \/ CtorStart \/ DtorStop \/ DtorRelease
        \/ DtorRequestStop
        \/ UNCHANGED <<m_tasks, task, dpc>>
    BY DEF Next, vars, Worker, Enqueue, Destructor, Gone, WorkerLoop, WorkerAcquire, WorkerBreak,
       WorkerProceed, WorkerLock, WorkerContinue, WorkerRun, EnqueueLock, EnqueueThrow,
       EnqueueRelease
  <2> QED BY <2>1, <2>2, <2>3, <2>4, <2>5, <2>6, <2>7, <2>8
<1> QED BY <1>1, <1>2, PoolInvariant, PTL DEF Spec, StartedInOrder, Queue!Spec

=============================================================================
