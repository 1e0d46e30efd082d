\* Two workers, a client and three tasks: more tasks than workers, so that tasks
\* are left when the destructor runs; the client and the tasks that run call
\* enqueue at the same time.
SPECIFICATION FairSpec
CONSTANTS
  NumThreads = 2
  Clients = {c1}
  Free = Free
  MaxTasks = 3
INVARIANTS
  TokenPerTask
  WakeupsSuffice
  AtMostOneLateTask
  NoFutureLeftHanging
PROPERTIES
  StartedInOrder
  EveryFutureResolves
  DestructorReturns
