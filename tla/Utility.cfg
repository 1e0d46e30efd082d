\* SpinMutex: three threads, two tests per spin phase; try_lock's callers read its
\* result the way test_and_set means it.
\* UniquePtr: two variables, two list nodes and a plain object, and a deleter with
\* two states.
SPECIFICATION UtilitySpec
CONSTANTS
  Thread = {t1, t2, t3}
  SpinLimit = 2
  MaxSections = 3
  TryLockOwnsOn = FALSE
  Root = {r1, r2}
  Object = {n1, n2, o}
  Node = {n1, n2}
  Deleter = {d1, d2}
  OneDeleter = d1
  Garbage = Garbage
  Null = Null
INVARIANTS
  LockInv
  MutualExclusion
  Synchronised
  OneOwner
  RightDeleter
PROPERTY SomeoneEnters
\* Threads stop calling lock() after MaxSections.
CHECK_DEADLOCK FALSE
