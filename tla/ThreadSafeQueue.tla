--------------------------- MODULE ThreadSafeQueue ---------------------------
(***************************************************************************)
(* quick::structs::ThreadSafeQueue (include/quick/structs/                 *)
(* ThreadSafeQueue.hh): a std::queue, a std::mutex and a condition         *)
(* variable, shared by any number of threads.  wait() gives the mutex up   *)
(* and blocks in one step, notify_one() wakes one blocked thread if there  *)
(* is one, a blocked thread may also wake for no reason, and a woken       *)
(* thread must take the mutex again.                                       *)
(***************************************************************************)
EXTENDS Naturals, Sequences, FiniteSets

CONSTANTS
  Value, None,
  Producers,   \* threads that push
  Consumers,   \* threads that wait_and_pop
  Pollers,     \* threads that call empty()
  Free,        \* the owner of an unlocked mutex
  MaxPush,     \* bound: how many pushes a behaviour makes
  MaxThrow     \* bound: how often T's move throws in wait_and_pop

Threads == Producers \cup Consumers \cup Pollers

ASSUME ConstantsAssumption ==
  /\ None \notin Value
  /\ Free \notin Threads
  /\ IsFiniteSet(Threads)
  /\ Producers \cap Consumers = {} /\ Producers \cap Pollers = {} /\ Consumers \cap Pollers = {}
  /\ MaxPush \in Nat
  /\ MaxThrow \in Nat

VARIABLES
  _queue,
  _mutex,    \* the thread that holds the mutex, or Free
  pc,        \* where each thread is
  arg,       \* arg[p]: the argument of p's push
  got,       \* got[c]: what c's last wait_and_pop returned
  pushes,    \* how many pushes have begun
  throws     \* how many calls of wait_and_pop have thrown

vars == <<_queue, _mutex, pc, arg, got, pushes, throws>>

At(label) == {t \in Threads : pc[t] = label}

Waiters == At("blocked")

Init ==
  /\ _queue = <<>>
  /\ _mutex = Free
  /\ pc = [t \in Threads |-> "idle"]
  /\ arg = [p \in Producers |-> None]
  /\ got = [c \in Consumers |-> None]
  /\ pushes = 0 /\ throws = 0

Goto(t, label) == pc' = [pc EXCEPT ![t] = label]

-----------------------------------------------------------------------------
(* push                                                                    *)

PushLock(p, v) ==
  /\ pc[p] = "idle" /\ _mutex = Free
  /\ pushes < MaxPush
  /\ _mutex' = p
  /\ arg' = [arg EXCEPT ![p] = v]
  /\ pushes' = pushes + 1
  /\ Goto(p, "pushing")
  /\ UNCHANGED <<_queue, got, throws>>

\* _queue.push and the end of the lock_guard's scope.
PushUnlock_mut(p) ==
  /\ pc[p] = "pushing"
  /\ _queue' = Append(_queue, arg[p])
  /\ _mutex' = Free
  /\ Goto(p, IF _queue = <<>> THEN "notifying" ELSE "idle")
  /\ UNCHANGED <<arg, got, pushes, throws>>
PushUnlock(p) ==
  /\ pc[p] = "pushing"
  /\ _queue' = Append(_queue, arg[p])
  /\ _mutex' = Free
  /\ Goto(p, "notifying")
  /\ UNCHANGED <<arg, got, pushes, throws>>

\* The queue cannot grow: the lock_guard unlocks, nobody is notified.
PushThrow(p) ==
  /\ pc[p] = "pushing"
  /\ _mutex' = Free
  /\ Goto(p, "idle")
  /\ UNCHANGED <<_queue, arg, got, pushes, throws>>

\* notify_one after the mutex is released: it wakes c.
NotifyOne(p, c) ==
  /\ pc[p] = "notifying" /\ c \in Waiters
  /\ pc' = [pc EXCEPT ![p] = "idle", ![c] = "woken"]
  /\ UNCHANGED <<_queue, _mutex, arg, got, pushes, throws>>

NotifyNobody(p) ==
  /\ pc[p] = "notifying" /\ Waiters = {}
  /\ Goto(p, "idle")
  /\ UNCHANGED <<_queue, _mutex, arg, got, pushes, throws>>

-----------------------------------------------------------------------------
(* wait_and_pop                                                            *)

\* Taking the mutex, at the call or after a wake-up inside wait().
PopLock(c) ==
  /\ pc[c] \in {"idle", "woken"} /\ _mutex = Free
  /\ _mutex' = c
  /\ Goto(c, "checking")
  /\ UNCHANGED <<_queue, arg, got, pushes, throws>>

\* The predicate is false: release the mutex and block.
PopWait_mut(c) ==
  /\ pc[c] = "checking" /\ _queue = <<>>
  /\ _mutex' = Free
  /\ Goto(c, "idle")
  /\ got' = [got EXCEPT ![c] = None]
  /\ UNCHANGED <<_queue, arg, pushes, throws>>
PopWait(c) ==
  /\ pc[c] = "checking" /\ _queue = <<>>
  /\ _mutex' = Free
  /\ Goto(c, "blocked")
  /\ UNCHANGED <<_queue, arg, got, pushes, throws>>

SpuriousWakeup(c) ==
  /\ pc[c] = "blocked"
  /\ Goto(c, "woken")
  /\ UNCHANGED <<_queue, _mutex, arg, got, pushes, throws>>

PopTake(c) ==
  /\ pc[c] = "checking" /\ _queue # <<>>
  /\ got' = [got EXCEPT ![c] = Head(_queue)]
  /\ _queue' = Tail(_queue)
  /\ _mutex' = Free
  /\ Goto(c, "idle")
  /\ UNCHANGED <<arg, pushes, throws>>

\* T's move constructor throws: the element stays, the mutex is released.
PopThrow(c) ==
  /\ throws < MaxThrow
  /\ pc[c] = "checking" /\ _queue # <<>>
  /\ throws' = throws + 1
  /\ _mutex' = Free
  /\ Goto(c, "idle")
  /\ UNCHANGED <<_queue, arg, got, pushes>>

-----------------------------------------------------------------------------
(* empty(): reads the queue without the mutex.                             *)

EmptyBegin(t) ==
  /\ pc[t] = "idle"
  /\ Goto(t, "reading")
  /\ UNCHANGED <<_queue, _mutex, arg, got, pushes, throws>>

EmptyEnd(t) ==
  /\ pc[t] = "reading"
  /\ Goto(t, "idle")
  /\ UNCHANGED <<_queue, _mutex, arg, got, pushes, throws>>

-----------------------------------------------------------------------------
Next ==
  \/ \E p \in Producers, v \in Value : PushLock(p, v)
  \/ \E p \in Producers : PushUnlock(p)
  \/ \E p \in Producers : PushThrow(p)
  \/ \E p \in Producers, c \in Consumers : NotifyOne(p, c)
  \/ \E p \in Producers : NotifyNobody(p)
  \/ \E c \in Consumers : PopLock(c)
  \/ \E c \in Consumers : PopWait(c)
  \/ \E c \in Consumers : SpuriousWakeup(c)
  \/ \E c \in Consumers : PopTake(c)
  \/ \E c \in Consumers : PopThrow(c)
  \/ \E t \in Pollers : EmptyBegin(t)
  \/ \E t \in Pollers : EmptyEnd(t)

Spec == Init /\ [][Next]_vars

\* A thread inside push or wait_and_pop keeps running, and the scheduler does
\* not let a woken thread lose the race for the mutex for ever.  Nobody has to
\* call push, and no wake-up is owed but those of notify_one.
Fairness ==
  /\ \A p \in Producers :
       WF_vars(PushUnlock(p) \/ NotifyNobody(p) \/ \E c \in Consumers : NotifyOne(p, c))
  /\ \A c \in Consumers :
       /\ WF_vars(PopWait(c) \/ PopTake(c))
       /\ SF_vars(pc[c] = "woken" /\ PopLock(c))

FairSpec == Spec /\ Fairness

-----------------------------------------------------------------------------
(* Properties.                                                             *)

\* No lost wake-up: while a consumer is blocked, every element in the queue has
\* somebody on the way to it, a producer about to notify (30) or a consumer
\* awake inside wait_and_pop (41), except for one element per call that woke up
\* and then threw (42).
NoLostWakeup ==
  Waiters # {} =>
    Len(_queue) <= Cardinality(At("notifying")) + Cardinality(At("woken") \cup At("checking"))
                     + throws

\* The queue is a FIFO: a push takes effect under the lock of push, a pop under
\* that of wait_and_pop, and an exception in either changes nothing.
Queue == INSTANCE Fifo WITH
  q <- _queue, open <- TRUE, Capacity <- MaxPush

\* Values come out in the order in which they went in, each to one consumer,
\* and wait_and_pop never returns without one.
ImplementsFifo == Queue!Spec

\* As long as T's move does not throw, no consumer sleeps beside a filled queue
\* for ever: notify_one after the unlock (30) is not too late.
BlockedAreServed ==
  (_queue # <<>> /\ Waiters # {}) ~> (_queue = <<>> \/ Waiters = {} \/ throws > 0)

\* No thread reads or changes _queue while another one changes it.
RaceFree ==
  At("reading") # {} =>
    At("pushing") = {} /\ (At("checking") = {} \/ _queue = <<>>)

=============================================================================
