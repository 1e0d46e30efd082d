------------------------------ MODULE SpinMutex ------------------------------
(***************************************************************************)
(* Mutex (include/quick/thread/SpinMutex.hpp): a test-and-test-and-set     *)
(* lock on one std::atomic_flag.  A read-modify-write of the flag acts on  *)
(* its latest value; the relaxed test of the spin loop may return an older *)
(* one.  The flag carries what its last clear released, so the lock's      *)
(* second duty, that a critical section sees all the ones before it, can   *)
(* be stated too.                                                          *)
(***************************************************************************)
EXTENDS Naturals

CONSTANTS
  Thread,
  SpinLimit,      \* tests of the flag between two yields, 64 in the code
  MaxSections,    \* bound: lock and try_lock are called only until so many
                  \* critical sections are over
  TryLockOwnsOn   \* the result of try_lock its caller takes for "locked"

ASSUME LockAssumption ==
  /\ SpinLimit \in Nat \ {0}
  /\ MaxSections \in Nat
  /\ TryLockOwnsOn \in BOOLEAN

VARIABLES
  flag,      \* [set, sync]: its value, and the sections its last clear released
  pc,        \* where each thread is
  spins,     \* the loop counter i of the spin phase
  seen,      \* seen[t]: how many critical sections happen before t
  sections   \* how many critical sections are over

lockVars == <<flag, pc, spins, seen, sections>>

LockInit ==
  /\ flag = [set |-> FALSE, sync |-> 0]
  /\ pc = [t \in Thread |-> "idle"]
  /\ spins = [t \in Thread |-> 0]
  /\ seen = [t \in Thread |-> 0]
  /\ sections = 0

Later(a, b) == IF a > b THEN a ELSE b

\* flag.test_and_set(acquire) by t, which then goes to `free` if the flag was
\* clear and to `busy` if it was set.  The flag keeps what the last clear
\* released (a read-modify-write continues the release sequence).
TestAndSet_mut(t, free, busy) ==
  /\ flag' = [flag EXCEPT !.set = TRUE]
  /\ pc' = [pc EXCEPT ![t] = IF flag.set THEN busy ELSE free]
  /\ UNCHANGED <<seen, sections>>
TestAndSet(t, free, busy) ==
  /\ flag' = [flag EXCEPT !.set = TRUE]
  /\ seen' = [seen EXCEPT ![t] = Later(@, flag.sync)]
  /\ pc' = [pc EXCEPT ![t] = IF flag.set THEN busy ELSE free]
  /\ UNCHANGED sections

-----------------------------------------------------------------------------
\* lock(): the fast path.
Lock(t) ==
  /\ pc[t] = "idle"
  /\ sections < MaxSections
  /\ TestAndSet(t, "section", "test")
  /\ spins' = [spins EXCEPT ![t] = 0]

\* The loop's relaxed test reads the flag clear, rightly or from an old value.
SpinSeesClear(t) ==
  /\ pc[t] = "test"
  /\ pc' = [pc EXCEPT ![t] = "exchange"]
  /\ UNCHANGED <<flag, spins, seen, sections>>

\* End of an iteration: after SpinLimit of them the thread yields.
NextSpin(t) ==
  /\ spins' = [spins EXCEPT ![t] = @ + 1]
  /\ pc' = [pc EXCEPT ![t] = IF spins[t] + 1 < SpinLimit THEN "test" ELSE "yield"]
  /\ UNCHANGED <<flag, seen, sections>>

SpinSeesSet(t) ==
  /\ pc[t] = "test"
  /\ NextSpin(t)

\* The exchange inside the loop: one iteration is over if it fails.
SpinExchange_mut(t) ==
  /\ pc[t] = "exchange"
  /\ TestAndSet(t, "section", "section")
  /\ UNCHANGED spins
SpinExchange(t) ==
  /\ pc[t] = "exchange"
  /\ TestAndSet(t, "section", IF spins[t] + 1 < SpinLimit THEN "test" ELSE "yield")
  /\ spins' = [spins EXCEPT ![t] = IF flag.set THEN @ + 1 ELSE @]

Yield(t) ==
  /\ pc[t] = "yield"
  /\ pc' = [pc EXCEPT ![t] = "test"]
  /\ spins' = [spins EXCEPT ![t] = 0]
  /\ UNCHANGED <<flag, seen, sections>>

\* try_lock() returns what test_and_set returned; the caller believes it holds
\* the lock if that is TryLockOwnsOn.
TryLock(t) ==
  /\ pc[t] = "idle"
  /\ sections < MaxSections
  /\ TestAndSet(t, IF TryLockOwnsOn THEN "idle" ELSE "section",
                   IF TryLockOwnsOn THEN "section" ELSE "idle")
  /\ UNCHANGED spins

\* The critical section's work, then unlock(): the clear releases it and all
\* that happened before it.
Unlock_mut(t) ==
  /\ pc[t] = "section"
  /\ seen' = [seen EXCEPT ![t] = @ + 1]
  /\ sections' = sections + 1
  /\ pc' = [pc EXCEPT ![t] = "idle"]
  /\ UNCHANGED <<flag, spins>>
Unlock(t) ==
  /\ pc[t] = "section"
  /\ seen' = [seen EXCEPT ![t] = @ + 1]
  /\ sections' = sections + 1
  /\ flag' = [set |-> FALSE, sync |-> seen[t] + 1]
  /\ pc' = [pc EXCEPT ![t] = "idle"]
  /\ UNCHANGED spins

Step(t) ==
  \/ Lock(t) \/ TryLock(t) \/ Unlock(t)
  \/ SpinSeesClear(t) \/ SpinSeesSet(t) \/ SpinExchange(t) \/ Yield(t)

LockNext == \E t \in Thread : Step(t)

LockSpec == LockInit /\ [][LockNext]_lockVars

\* A thread in lock() or in its critical section keeps running, and a thread
\* that tests the flag again and again while it is clear eventually reads it
\* clear: a store becomes visible in finite time.  Nothing makes a thread
\* call lock().
Fairness ==
  \A t \in Thread :
    /\ WF_lockVars(SpinSeesClear(t) \/ SpinSeesSet(t) \/ SpinExchange(t) \/ Yield(t) \/ Unlock(t))
    /\ SF_lockVars(SpinSeesClear(t) /\ ~flag.set)

FairLockSpec == LockSpec /\ Fairness

-----------------------------------------------------------------------------
(* Properties.                                                             *)

TypeOK ==
  /\ flag \in [set : BOOLEAN, sync : Nat]
  /\ pc \in [Thread -> {"idle", "test", "exchange", "yield", "section"}]
  /\ spins \in [Thread -> 0..SpinLimit]
  /\ seen \in [Thread -> Nat]
  /\ sections \in Nat

\* At most one thread believes it holds the lock, whichever of lock (10-43)
\* and try_lock (45-49) it called and however stale its tests of the flag.
MutualExclusion ==
  \A s, t \in Thread : pc[s] = "section" /\ pc[t] = "section" => s = t

\* Whoever holds the lock sees the effects of every critical section before
\* its own: the acquire of test_and_set (13, 24, 47) pairs with the release of
\* clear (53).
Synchronised ==
  \A t \in Thread : pc[t] = "section" => seen[t] = sections

\* What makes both inductive: the flag is set exactly while someone is inside,
\* and a clear flag carries every section there was.
LockInv ==
  /\ TypeOK
  /\ MutualExclusion
  /\ Synchronised
  /\ flag.set <=> \E t \in Thread : pc[t] = "section"
  /\ ~flag.set => flag.sync = sections
  /\ flag.sync <= sections
  /\ \A t \in Thread : seen[t] <= sections
  /\ \A t \in Thread : pc[t] \in {"test", "exchange"} => spins[t] < SpinLimit

\* A waiter does not wait for nothing: whenever a thread spins in lock(), some
\* thread gets the lock, now or after the holder's unlock (which one is left
\* to the scheduler).
SomeoneEnters ==
  (\E t \in Thread : pc[t] \in {"test", "exchange", "yield"})
    ~> (\E t \in Thread : pc[t] = "section")

=============================================================================
