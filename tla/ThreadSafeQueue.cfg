\* Two producers, two consumers and a thread polling empty(); the allocation
\* may throw, and T's move once.
SPECIFICATION FairSpec
CONSTANTS
  Value = {v1, v2}
  None = None
  Producers = {p1, p2}
  Consumers = {c1, c2}
  Pollers = {o}
  Free = Free
  MaxPush = 3
  MaxThrow = 1
INVARIANTS
  NoLostWakeup
PROPERTIES
  ImplementsFifo
  BlockedAreServed
CHECK_DEADLOCK FALSE
