\* Two slots, indices that wrap around at 4, so nine pushes wrap twice;
\* both threads read stale indices and T's operations may throw.
SPECIFICATION FairSpec
CONSTANTS
  Value = {v1, v2}
  None = None
  kCapacity = 2
  Word = 4
  MaxPush = 9
  MayThrow = TRUE
INVARIANTS
  NoDataRace
  SlotLifetime
  NoLeak
  QueryPromise
  SizeInRange
  RingInv
PROPERTIES
  ImplementsFifo
  Delivered
\* A destroyed queue does nothing more.
CHECK_DEADLOCK FALSE
