------------------------ MODULE ThreadSafeQueueProofs ------------------------
(***************************************************************************)
(* Proofs about ThreadSafeQueue for any number of threads of each kind,    *)
(* any set of values, and any number of pushes and of throwing pops.       *)
(***************************************************************************)
EXTENDS ThreadSafeQueue, SequenceTheorems, FiniteSetTheorems, TLAPS

Labels == {"idle", "pushing", "notifying", "checking", "blocked", "woken", "reading"}

TypeOK ==
  /\ _queue \in Seq(Value)
  /\ _mutex \in Threads \cup {Free}
  /\ pc \in [Threads -> Labels]
  /\ arg \in [Producers -> Value \cup {None}]
  /\ got \in [Consumers -> Value \cup {None}]
  /\ pushes \in Nat /\ pushes <= MaxPush
  /\ throws \in Nat

\* Who is inside the critical section of push or of wait_and_pop holds the mutex.
Locked == \A t \in Threads : pc[t] \in {"pushing", "checking"} => _mutex = t

\* There is one call of push for every element, and one more for the element
\* that a producer is about to add.
PushesCounted ==
  /\ Len(_queue) <= pushes
  /\ \A p \in Producers : pc[p] = "pushing" => Len(_queue) < pushes /\ arg[p] \in Value

QueueInv == TypeOK /\ Locked /\ PushesCounted /\ NoLostWakeup

-----------------------------------------------------------------------------
(* Where the threads are.                                                  *)

\* Every set of threads can be counted, and a thread that joins it or leaves it
\* makes a difference of one.
LEMMA ThreadSets ==
  ASSUME NEW S, S \subseteq Threads, NEW t \in Threads
  PROVE  /\ Cardinality(S) \in Nat
         /\ Cardinality(S \ {t}) = IF t \in S THEN Cardinality(S) - 1 ELSE Cardinality(S)
         /\ Cardinality(S \cup {t}) = IF t \in S THEN Cardinality(S) ELSE Cardinality(S) + 1
<1>1. IsFiniteSet(S)
  BY FS_Subset, ConstantsAssumption
<1> QED BY <1>1, FS_CardinalityType, FS_AddElement, FS_RemoveElement

\* A thread that moves on leaves one label for another.
LEMMA GotoMoves ==
  ASSUME pc \in [Threads -> Labels], NEW t \in Threads, NEW label \in Labels,
         pc' = [pc EXCEPT ![t] = label]
  PROVE  /\ pc' \in [Threads -> Labels] /\ pc'[t] = label
         /\ \A u \in Threads : u # t => pc'[u] = pc[u]
         /\ \A m : At(m) \subseteq Threads /\ (t \in At(m) <=> pc[t] = m)
         /\ \A m : At(m)' = IF m = label THEN At(m) \cup {t} ELSE At(m) \ {t}
<1>1. /\ pc' \in [Threads -> Labels] /\ pc'[t] = label
      /\ \A u \in Threads : u # t => pc'[u] = pc[u]
  OBVIOUS
<1>2. ASSUME NEW m
      PROVE  At(m)' = IF m = label THEN At(m) \cup {t} ELSE At(m) \ {t}
  BY <1>1 DEF At
<1> QED BY <1>1, <1>2 DEF At

\* The queue with one element less or more.
LEMMA QueueChanges ==
  ASSUME _queue \in Seq(Value)
  PROVE  /\ Len(_queue) \in Nat
         /\ \A v \in Value : /\ Append(_queue, v) \in Seq(Value)
                             /\ Len(Append(_queue, v)) = Len(_queue) + 1
         /\ _queue # <<>> => /\ Head(_queue) \in Value /\ Tail(_queue) \in Seq(Value)
                             /\ Len(Tail(_queue)) = Len(_queue) - 1
         /\ _queue = <<>> => Len(_queue) = 0
  BY LenProperties, AppendProperties, HeadTailProperties, EmptySeq

-----------------------------------------------------------------------------
(* Mutual exclusion and the count of the pushes.                           *)

LEMMA InitInv == Init => QueueInv
<1> SUFFICES ASSUME Init PROVE QueueInv
  OBVIOUS
<1>1. <<>> \in Seq(Value) /\ Len(<<>>) = 0 /\ Waiters = {}
  BY EmptySeq DEF Init, Waiters, At
<1> QED BY <1>1, ConstantsAssumption
        DEF Init, Threads, QueueInv, TypeOK, Labels, Locked, PushesCounted, NoLostWakeup


\* Each critical section is left by who entered it, and what is added to the
\* queue was counted by PushLock.
LEMMA LockStep ==
  ASSUME QueueInv, [Next]_vars
  PROVE  (TypeOK /\ Locked /\ PushesCounted)'
<1> USE DEF QueueInv, TypeOK, Locked, PushesCounted
<1>1. /\ Free \notin Threads /\ MaxPush \in Nat
      /\ Producers \subseteq Threads /\ Consumers \subseteq Threads /\ Pollers \subseteq Threads
  BY ConstantsAssumption DEF Threads
<1>2. CASE UNCHANGED vars
  BY <1>2 DEF vars
<1>3. ASSUME NEW p \in Producers, NEW v \in Value, PushLock(p, v)
      PROVE  (TypeOK /\ Locked /\ PushesCounted)'
  BY <1>1, <1>3, QueueChanges DEF PushLock, Goto, Labels
<1>4. ASSUME NEW p \in Producers, PushUnlock(p)
      PROVE  (TypeOK /\ Locked /\ PushesCounted)'
  BY <1>1, <1>4, QueueChanges DEF PushUnlock, Goto, Labels
<1>5. ASSUME NEW p \in Producers, PushThrow(p)
      PROVE  (TypeOK /\ Locked /\ PushesCounted)'
  BY <1>1, <1>5, QueueChanges DEF PushThrow, Goto, Labels
<1>6. ASSUME NEW p \in Producers, NEW c \in Consumers, NotifyOne(p, c)
      PROVE  (TypeOK /\ Locked /\ PushesCounted)'
  BY <1>1, <1>6 DEF NotifyOne, Labels
<1>7. ASSUME NEW p \in Producers, NotifyNobody(p)
      PROVE  (TypeOK /\ Locked /\ PushesCounted)'
  BY <1>1, <1>7 DEF NotifyNobody, Goto, Labels
<1>8. ASSUME NEW c \in Consumers, PopLock(c)
      PROVE  (TypeOK /\ Locked /\ PushesCounted)'
  BY <1>1, <1>8 DEF PopLock, Goto, Labels
<1>9. ASSUME NEW c \in Consumers, PopWait(c) \/ SpuriousWakeup(c)
      PROVE  (TypeOK /\ Locked /\ PushesCounted)'
  BY <1>1, <1>9 DEF PopWait, SpuriousWakeup, Goto, Labels
<1>10. ASSUME NEW c \in Consumers, PopTake(c)
       PROVE  (TypeOK /\ Locked /\ PushesCounted)'
  BY <1>1, <1>10, QueueChanges DEF PopTake, Goto, Labels
<1>11. ASSUME NEW c \in Consumers, PopThrow(c)
       PROVE  (TypeOK /\ Locked /\ PushesCounted)'
  BY <1>1, <1>11 DEF PopThrow, Goto, Labels
<1>12. ASSUME NEW t \in Pollers, EmptyBegin(t) \/ EmptyEnd(t)
       PROVE  (TypeOK /\ Locked /\ PushesCounted)'
  BY <1>1, <1>12 DEF EmptyBegin, EmptyEnd, Goto, Labels
<1> QED BY <1>2, <1>3, <1>4, <1>5, <1>6, <1>7, <1>8, <1>9, <1>10, <1>11, <1>12 DEF Next


-----------------------------------------------------------------------------
(* Wake-ups.                                                               *)

Notifiers == At("notifying")

\* The consumers that are awake inside wait_and_pop.
Awake == At("woken") \cup At("checking")

\* A step keeps NoLostWakeup if it blocks nobody and the notifiers and the
\* awake grow with the queue.
LEMMA BalanceKept ==
  ASSUME QueueInv, Waiters' \subseteq Waiters,
         Len(_queue') \in Nat, throws' \in Nat,
         Cardinality(Notifiers) \in Nat, Cardinality(Awake) \in Nat,
         Cardinality(Notifiers') \in Nat, Cardinality(Awake') \in Nat,
         Len(_queue') + Cardinality(Notifiers) + Cardinality(Awake) + throws
           <= Len(_queue) + Cardinality(Notifiers') + Cardinality(Awake') + throws'
  PROVE  NoLostWakeup'
<1>1. Len(_queue) \in Nat /\ throws \in Nat
  BY QueueChanges DEF QueueInv, TypeOK
<1>2. Waiters # {} => Len(_queue) <= Cardinality(Notifiers) + Cardinality(Awake) + throws
  BY DEF QueueInv, NoLostWakeup, Notifiers, Awake
<1>3. Waiters' # {} => Len(_queue') <= Cardinality(Notifiers') + Cardinality(Awake') + throws'
  <2> DEFINE n == Cardinality(Notifiers) + Cardinality(Awake) + throws
             nn == Cardinality(Notifiers') + Cardinality(Awake') + throws'
  <2>1. n \in Nat /\ nn \in Nat
    <3>1. \A x, y, z \in Nat : x + y + z \in Nat
      OBVIOUS
    <3> QED BY <1>1, <3>1
  <2>2. Len(_queue') + n <= Len(_queue) + nn
    BY <1>1
  <2>3. Waiters' # {} => Len(_queue) <= n
    BY <1>2
  <2> HIDE DEF n, nn
  <2>4. Waiters' # {} => Len(_queue') <= nn
    BY <1>1, <2>1, <2>2, <2>3
  <2> QED BY <2>4 DEF nn
<1> QED BY <1>3 DEF NoLostWakeup, Notifiers, Awake

\* A step that moves one thread moves it from one count to another.
LEMMA CountsMove ==
  ASSUME TypeOK, NEW t \in Threads, NEW label \in Labels, Goto(t, label)
  PROVE  /\ Waiters' = IF label = "blocked" THEN Waiters \cup {t} ELSE Waiters \ {t}
         /\ Cardinality(Notifiers) \in Nat /\ Cardinality(Awake) \in Nat
         /\ Cardinality(Notifiers') =
              IF label = "notifying"
              THEN IF pc[t] = "notifying" THEN Cardinality(Notifiers) ELSE Cardinality(Notifiers) + 1
              ELSE IF pc[t] = "notifying" THEN Cardinality(Notifiers) - 1 ELSE Cardinality(Notifiers)
         /\ Cardinality(Awake') =
              IF label \in {"woken", "checking"}
              THEN IF pc[t] \in {"woken", "checking"} THEN Cardinality(Awake) ELSE Cardinality(Awake) + 1
              ELSE IF pc[t] \in {"woken", "checking"} THEN Cardinality(Awake) - 1 ELSE Cardinality(Awake)
         /\ Cardinality(Notifiers') \in Nat /\ Cardinality(Awake') \in Nat
<1>1. /\ \A m : At(m) \subseteq Threads /\ (t \in At(m) <=> pc[t] = m)
      /\ \A m : At(m)' = IF m = label THEN At(m) \cup {t} ELSE At(m) \ {t}
  BY GotoMoves DEF TypeOK, Goto
<1>2. /\ At("blocked")' = IF "blocked" = label THEN At("blocked") \cup {t} ELSE At("blocked") \ {t}
      /\ At("notifying")' = IF "notifying" = label THEN At("notifying") \cup {t} ELSE At("notifying") \ {t}
      /\ At("woken")' = IF "woken" = label THEN At("woken") \cup {t} ELSE At("woken") \ {t}
      /\ At("checking")' = IF "checking" = label THEN At("checking") \cup {t} ELSE At("checking") \ {t}
  BY <1>1
<1>3. /\ Waiters' = IF label = "blocked" THEN Waiters \cup {t} ELSE Waiters \ {t}
      /\ Notifiers' = IF label = "notifying" THEN Notifiers \cup {t} ELSE Notifiers \ {t}
      /\ Awake' = IF label \in {"woken", "checking"} THEN Awake \cup {t} ELSE Awake \ {t}
      /\ t \in Notifiers <=> pc[t] = "notifying"
      /\ t \in Awake <=> pc[t] \in {"woken", "checking"}
      /\ Notifiers \subseteq Threads /\ Awake \subseteq Threads
      /\ Notifiers' \subseteq Threads /\ Awake' \subseteq Threads
  BY <1>1, <1>2 DEF Waiters, Notifiers, Awake
<1>4. /\ Cardinality(Notifiers) \in Nat /\ Cardinality(Awake) \in Nat
      /\ Cardinality(Notifiers') \in Nat /\ Cardinality(Awake') \in Nat
  BY <1>3, ThreadSets
<1>5. Cardinality(Notifiers') =
        IF label = "notifying"
        THEN IF pc[t] = "notifying" THEN Cardinality(Notifiers) ELSE Cardinality(Notifiers) + 1
        ELSE IF pc[t] = "notifying" THEN Cardinality(Notifiers) - 1 ELSE Cardinality(Notifiers)
  <2>1. CASE label = "notifying"
    BY <1>3, <2>1, ThreadSets
  <2>2. CASE label # "notifying"
    BY <1>3, <2>2, ThreadSets
  <2> QED BY <2>1, <2>2
<1>6. Cardinality(Awake') =
        IF label \in {"woken", "checking"}
        THEN IF pc[t] \in {"woken", "checking"} THEN Cardinality(Awake) ELSE Cardinality(Awake) + 1
        ELSE IF pc[t] \in {"woken", "checking"} THEN Cardinality(Awake) - 1 ELSE Cardinality(Awake)
  <2>1. CASE label \in {"woken", "checking"}
    BY <1>3, <2>1, ThreadSets
  <2>2. CASE label \notin {"woken", "checking"}
    BY <1>3, <2>2, ThreadSets
  <2> QED BY <2>1, <2>2
<1> QED BY <1>3, <1>4, <1>5, <1>6

\* What a thread at a label is worth: one element of the queue, if it is on its
\* way to it.
Worth(label) == IF label \in {"notifying", "woken", "checking"} THEN 1 ELSE 0

\* So a thread may move if what it is worth changes with the queue.
LEMMA MoveKept ==
  ASSUME QueueInv, TypeOK', NEW t \in Threads, NEW label \in Labels \ {"blocked"},
         Goto(t, label),
         Len(_queue') + Worth(pc[t]) + throws <= Len(_queue) + Worth(label) + throws'
  PROVE  NoLostWakeup'
<1> DEFINE n == Cardinality(Notifiers)  nn == Cardinality(Notifiers')
           a == Cardinality(Awake)      aa == Cardinality(Awake')
           from == pc[t]
<1>1. /\ Waiters' \subseteq Waiters
      /\ n \in Nat /\ a \in Nat /\ nn \in Nat /\ aa \in Nat
      /\ nn = IF label = "notifying"
              THEN IF from = "notifying" THEN n ELSE n + 1
              ELSE IF from = "notifying" THEN n - 1 ELSE n
      /\ aa = IF label \in {"woken", "checking"}
              THEN IF from \in {"woken", "checking"} THEN a ELSE a + 1
              ELSE IF from \in {"woken", "checking"} THEN a - 1 ELSE a
  BY CountsMove DEF QueueInv
<1>2. /\ Len(_queue) \in Nat /\ throws \in Nat /\ Len(_queue') \in Nat /\ throws' \in Nat
  BY LenProperties DEF QueueInv, TypeOK
<1>3. Len(_queue') + Worth(from) + throws <= Len(_queue) + Worth(label) + throws'
  OBVIOUS
<1> HIDE DEF n, nn, a, aa, from
<1>4. nn + aa + Worth(from) = n + a + Worth(label)
  BY <1>1 DEF Worth
<1>5. Worth(from) \in Nat /\ Worth(label) \in Nat
  BY DEF Worth
<1>6. Len(_queue') + n + a + throws <= Len(_queue) + nn + aa + throws'
  <2>1. n \in Nat /\ a \in Nat /\ nn \in Nat /\ aa \in Nat
    BY <1>1
  <2>2. \A l, ll, x, xx, w, v, r, rr \in Nat :
          ll + w + r <= l + v + rr /\ xx + w = x + v => ll + x + r <= l + xx + rr
    OBVIOUS
  <2>3. (nn + aa) + Worth(from) = (n + a) + Worth(label)
    BY <1>4, <1>5, <2>1
  <2>4. Len(_queue') + (n + a) + throws <= Len(_queue) + (nn + aa) + throws'
    <3> DEFINE x == n + a
               xx == nn + aa
    <3>1. x \in Nat /\ xx \in Nat
      BY <2>1
    <3>2. xx + Worth(from) = x + Worth(label)
      BY <2>3
    <3> HIDE DEF x, xx
    <3>3. Len(_queue') + x + throws <= Len(_queue) + xx + throws'
      BY <1>2, <1>3, <1>5, <2>2, <3>1, <3>2
    <3> QED BY <3>3 DEF x, xx
  <2> QED BY <1>2, <2>1, <2>4
<1> QED BY <1>1, <1>2, <1>6, BalanceKept DEF n, nn, a, aa

\* Each element that comes or goes takes a notifier or an awake consumer with
\* it, or is paid for by an exception.
LEMMA WakeupStep ==
  ASSUME QueueInv, TypeOK', [Next]_vars
  PROVE  NoLostWakeup'
<1>1. /\ TypeOK /\ _queue \in Seq(Value) /\ throws \in Nat /\ throws' \in Nat
      /\ Len(_queue) \in Nat /\ Len(_queue') \in Nat
      /\ Producers \subseteq Threads /\ Consumers \subseteq Threads /\ Pollers \subseteq Threads
  BY QueueChanges, LenProperties DEF QueueInv, TypeOK, Threads
<1>2. CASE UNCHANGED vars
  BY <1>2 DEF vars, QueueInv, NoLostWakeup, Waiters, At
<1>3. ASSUME NEW p \in Producers, NEW v \in Value, PushLock(p, v) PROVE NoLostWakeup'
  BY <1>1, <1>3, MoveKept DEF Worth, PushLock, Labels
<1>4. ASSUME NEW p \in Producers, PushUnlock(p) PROVE NoLostWakeup'
  <2>1. Len(_queue') = Len(_queue) + 1
    BY <1>1, <1>4, QueueChanges DEF PushUnlock, QueueInv, PushesCounted
  <2> QED BY <1>1, <1>4, <2>1, MoveKept DEF Worth, PushUnlock, Labels
<1>5. ASSUME NEW p \in Producers, PushThrow(p) PROVE NoLostWakeup'
  BY <1>1, <1>5, MoveKept DEF Worth, PushThrow, Labels
<1>6. ASSUME NEW p \in Producers, NEW c \in Consumers, NotifyOne(p, c) PROVE NoLostWakeup'
  <2>1. /\ pc[p] = "notifying" /\ pc[c] = "blocked" /\ p \in Threads /\ c \in Threads
        /\ pc \in [Threads -> Labels]
        /\ pc' = [pc EXCEPT ![p] = "idle", ![c] = "woken"]
        /\ UNCHANGED <<_queue, throws>>
    BY <1>1, <1>6 DEF NotifyOne, Waiters, At, TypeOK
  <2>2. /\ Waiters' \subseteq Waiters
        /\ Notifiers' = Notifiers \ {p} /\ p \in Notifiers /\ Notifiers \subseteq Threads
        /\ Awake' = Awake \cup {c} /\ c \notin Awake /\ Awake \subseteq Threads
    BY <2>1 DEF Waiters, Notifiers, Awake, At
  <2>3. /\ Cardinality(Notifiers) \in Nat /\ Cardinality(Awake) \in Nat
        /\ Cardinality(Notifiers') = Cardinality(Notifiers) - 1
        /\ Cardinality(Awake') = Cardinality(Awake) + 1
    BY <2>1, <2>2, ThreadSets
  <2>4. Notifiers' \subseteq Threads
    BY <2>2
  <2>5. Cardinality(Notifiers') \in Nat
    BY <2>1, <2>4, ThreadSets
  <2> QED BY <1>1, <2>1, <2>2, <2>3, <2>5, BalanceKept
<1>7. ASSUME NEW p \in Producers, NotifyNobody(p) PROVE NoLostWakeup'
  <2>1. Waiters' = Waiters \ {p}
    BY <1>1, <1>7, CountsMove DEF NotifyNobody, Labels
  <2> QED BY <1>7, <2>1 DEF NotifyNobody, NoLostWakeup
<1>8. ASSUME NEW c \in Consumers, PopLock(c) PROVE NoLostWakeup'
  BY <1>1, <1>8, MoveKept DEF Worth, PopLock, Labels
<1>9. ASSUME NEW c \in Consumers, PopWait(c) PROVE NoLostWakeup'
  <2>1. Len(_queue') = 0
    BY <1>1, <1>9, QueueChanges DEF PopWait
  <2>2. /\ Cardinality(Notifiers') \in Nat /\ Cardinality(Awake') \in Nat
    BY <1>1, <1>9, CountsMove DEF PopWait, Labels
  <2> QED BY <1>1, <2>1, <2>2 DEF NoLostWakeup, Notifiers, Awake
<1>10. ASSUME NEW c \in Consumers, SpuriousWakeup(c) PROVE NoLostWakeup'
  BY <1>1, <1>10, MoveKept DEF Worth, SpuriousWakeup, Labels
<1>11. ASSUME NEW c \in Consumers, PopTake(c) PROVE NoLostWakeup'
  <2>1. Len(_queue') = Len(_queue) - 1
    BY <1>1, <1>11, QueueChanges DEF PopTake
  <2> QED BY <1>1, <1>11, <2>1, MoveKept DEF Worth, PopTake, Labels
<1>12. ASSUME NEW c \in Consumers, PopThrow(c) PROVE NoLostWakeup'
  <2>1. /\ Goto(c, "idle") /\ c \in Threads /\ Worth(pc[c]) = 1 /\ Worth("idle") = 0
        /\ Len(_queue') = Len(_queue) /\ throws' = throws + 1
    BY <1>1, <1>12 DEF PopThrow, Worth
  <2> QED BY <1>1, <2>1, MoveKept DEF Labels
<1>13. ASSUME NEW t \in Pollers, EmptyBegin(t) \/ EmptyEnd(t) PROVE NoLostWakeup'
  <2>1. PICK label \in {"reading", "idle"} : Goto(t, label) /\ Worth(pc[t]) = 0
    BY <1>1, <1>13 DEF EmptyBegin, EmptyEnd, Worth
  <2>2. Worth(label) = 0 /\ t \in Threads /\ UNCHANGED <<_queue, throws>>
    BY <1>1, <1>13 DEF EmptyBegin, EmptyEnd, Worth
  <2> QED BY <1>1, <2>1, <2>2, MoveKept DEF Labels
<1> QED BY <1>2, <1>3, <1>4, <1>5, <1>6, <1>7, <1>8, <1>9, <1>10, <1>11, <1>12, <1>13 DEF Next

-----------------------------------------------------------------------------
(* The theorems.                                                           *)

\* Every step of push, wait_and_pop and empty() keeps the invariant.
THEOREM QueueInvariant == Spec => []QueueInv
<1>1. QueueInv /\ [Next]_vars => QueueInv'
  BY LockStep, WakeupStep DEF QueueInv
<1> QED BY <1>1, InitInv, PTL DEF Spec

\* The variables keep their types.
THEOREM TypeCorrect == Spec => []TypeOK
<1>1. QueueInv => TypeOK
  BY DEF QueueInv
<1> QED BY <1>1, QueueInvariant, PTL

\* No wake-up is lost, with any number of producers, consumers and spurious
\* wake-ups: notify_one after the unlock (30) is enough for every element that
\* no throwing move (42) left behind.
THEOREM WakeupsKept == Spec => []NoLostWakeup
<1>1. QueueInv => NoLostWakeup
  BY DEF QueueInv
<1> QED BY <1>1, QueueInvariant, PTL

\* While a thread is inside push or past the predicate of wait_and_pop no other
\* one is in either: _queue is changed by one thread at a time, whatever the
\* unlocked empty() does.
OneInside ==
  \A t, u \in At("pushing") \cup At("checking") : t = u

\* The mutex keeps the critical sections of push and wait_and_pop apart.
THEOREM Exclusion == Spec => []OneInside
<1>1. QueueInv => OneInside
  BY DEF QueueInv, Locked, OneInside, At
<1> QED BY <1>1, QueueInvariant, PTL

\* The std::queue behind the mutex implements a FIFO queue: each element goes
\* to one consumer, in order, and a call that throws changes nothing.
THEOREM Refinement == Spec => ImplementsFifo
<1>1. Init => Queue!Init
  BY DEF Init, Queue!Init
<1>2. QueueInv /\ [Next]_vars => [Queue!Next]_(Queue!vars)
  <2> SUFFICES ASSUME QueueInv, [Next]_vars
               PROVE  Queue!Next \/ UNCHANGED Queue!vars
    OBVIOUS
  <2>1. ASSUME NEW p \in Producers, PushUnlock(p) PROVE Queue!Next
    <3>1. Len(_queue) < MaxPush /\ arg[p] \in Value
      BY <2>1, QueueChanges, ConstantsAssumption
         DEF PushUnlock, QueueInv, TypeOK, PushesCounted
    <3>2. Queue!Push(arg[p])
      BY <2>1, <3>1 DEF PushUnlock, Queue!Push
    <3> QED BY <3>1, <3>2 DEF Queue!Next
  <2>2. ASSUME NEW c \in Consumers, PopTake(c) PROVE Queue!Next
    <3>1. Queue!Pop(c)
      BY <2>2 DEF PopTake, Queue!Pop
    <3> QED BY <3>1 DEF Queue!Next
  <2>3. CASE UNCHANGED <<_queue, got>>
    BY <2>3 DEF Queue!vars
  <2>4. \/ \E p \in Producers : PushUnlock(p)
        \/ \E c \in Consumers : PopTake(c)
        \/ UNCHANGED <<_queue, got>>
    BY DEF Next, vars, PushLock, PushThrow, NotifyOne, NotifyNobody, PopLock, PopWait,
           SpuriousWakeup, PopThrow, EmptyBegin, EmptyEnd
  <2> QED BY <2>1, <2>2, <2>3, <2>4
<1> QED BY <1>1, <1>2, QueueInvariant, PTL DEF Spec, ImplementsFifo, Queue!Spec

=============================================================================
