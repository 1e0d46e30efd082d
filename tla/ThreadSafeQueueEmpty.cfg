\* One thread calls empty() while the others push and pop.
SPECIFICATION Spec
CONSTANTS
  Value = {v1}
  None = None
  Producers = {p1}
  Consumers = {c1}
  Pollers = {o}
  Free = Free
  MaxPush = 2
  MaxThrow = 0
INVARIANT RaceFree
CHECK_DEADLOCK FALSE
