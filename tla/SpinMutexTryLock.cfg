\* try_lock's callers read its result as the standard library's Lockable does:
\* true means locked.
SPECIFICATION LockSpec
CONSTANTS
  Thread = {t1, t2}
  SpinLimit = 2
  MaxSections = 3
  TryLockOwnsOn = TRUE
INVARIANT MutualExclusion
CHECK_DEADLOCK FALSE
