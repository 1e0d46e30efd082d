# A TLA+ verification of QuickLib

QuickLib (`src/`) is a header-only C++ library for low-latency programs:
lock-free and locking queues, a spin lock, a thread pool, smart pointers, a
vector, a limit order book, TCP endpoints and a few utilities. This directory
holds TLA+ models of its stateful parts, the TLC configurations that check
them, and TLAPS proofs that remove the bounds of the runs: every safety property
that a passing run checks is also a theorem. Line
numbers in comments refer to the source file named at the head of the module.

## The system

The components do not call each other, with two exceptions: `TcpServer` and
`TcpClient` are built on `Tcp` and `SocketRAII`, and `Config` on `TomlParser`.
What connects them is the program that uses them, above all threads sharing an
object.

| component | state | operations | hard behaviour |
| --- | --- | --- | --- |
| `SPSCQueue` | two free-running 64-bit atomic indices, raw storage | `push`/`emplace` (producer), `pop` (consumer), `size`, `empty`, `full` (either), destructor | stale index reads, release/acquire pairing, wrap-around, throwing elements |
| `SpinMutex` | one `atomic_flag` | `lock`, `try_lock`, `unlock` | stale relaxed test, visibility, progress |
| `ThreadSafeQueue` | `std::queue`, mutex, condition variable | `push`, `wait_and_pop`, `empty` | lost and spurious wake-ups, an unlocked read, exceptions |
| `ThreadPool` | task queue, mutex, semaphore, stop flag, workers | constructor, `enqueue` (also from inside a task), worker loop, destructor | one token per task, shutdown, dropped tasks, an unlocked read |
| `Orderbook` | two sorted vectors | `AddOrder`, `insert_order`, `CancelOrder` | price-time priority over long sequences, partial fills, reused ids |
| `shared_ptr` | object pointer and control block with an atomic count | constructors, assignments, `reset`, destructor | concurrent release and copy, a `reset` that fails halfway |
| `UniquePtr` | pointer and deleter | constructors, moves, `release`, `reset`, `swap`, destructor | re-entrance through a node's destructor, order of pointer and deleter |
| `Vector` | size, capacity, raw array | constructors, `push_back`, `emplace_back`, `pop_back`, `shrink_to_fit`, `resize`, destructor | exceptions in the middle of a growth, claimed versus allocated capacity, arguments inside the vector |
| `SocketRAII`, `Tcp`, `TcpServer`, `TcpClient` | a file descriptor, a running flag | `start`, `accept_client`, `connect_to_server`, moves, `reset` | error paths, descriptor numbers reused by other threads |
| `TomlParser`, `Config` | sections and keys | `load`/`parse_config`, getters | reload of a changed file, partial parse, unnoticed read error, 16-bit port |
| `Memcpy`, `Memmove`, `Strcpy` | the caller's memory | the copy loops | overlap, the ends of the ranges |
| `XorBitant` | a 64-bit word | `operator()` | the fixed point 0 |
| `Any`, loggers, `Timer`, `Error`, `Cassandra`, `JSONReader` | - | - | unfinished, or pure I/O |

`PROJECT.json` lists the components with what is left out of each, the hazards
with the line at which each bites, and for every definition the lines it
translates.

## The modules

Abstract specifications:

- `Fifo`: a bounded FIFO queue that can be closed and then drained; the promise
  of `SPSCQueue`, `ThreadSafeQueue` and `ThreadPool`'s task queue.
- `Stack`: a sequence that grows and shrinks at its end; the promise of
  `Vector`.
- `PriceTimeMatching`: order matching over a plain set of resting orders; the
  promise of `Orderbook`.

Detailed specifications, one per component:

- `SPSCQueue`. The indices are modification orders, the sequences of all values
  stored so far, each with what its store releases. A thread reads its own
  index exactly and of the other one ANY store that is not older than the last
  it read. Slots remember the last access of each thread as an epoch, and a
  thread's `psync`/`csync` say up to which epoch the other thread's accesses
  happen before it: an access that is not covered is a data race. `Word` is
  2^64 in the code. `emplace` and `pop` are three steps each (loads and test,
  element, release store); a throwing element ends them after the second.
  Queries are remembered as promises (`proom`, `cavail`).
- `SpinMutex`. A read-modify-write acts on the latest value of the flag, the
  relaxed test of the spin loop on any. `seen` counts the critical sections
  that happen before a thread. The body of a critical section is the step that
  `Unlock` ends. `TryLockOwnsOn` is the result that a caller of `try_lock` takes
  for success.
- `ThreadSafeQueue`. `wait` releases and blocks in one step, `notify_one` wakes
  any one waiter, waiters may wake for no reason. `EmptyBegin`/`EmptyEnd` give
  the unlocked read of `empty()` a duration.
- `ThreadPool`. One step per thread the constructor starts, per line of the
  worker's loop, of `enqueue` and of the destructor; `m_tasks.empty()` without the
  mutex may answer anything while the mutex is held. A worker whose task runs
  may call `enqueue` like a client, also during the destruction. After the destructor's body the workers are joined and
  `m_tasks` is destroyed, which breaks the promises of the tasks in it.
- `Orderbook`. Each iteration of `AddOrder`'s loop is a step, and so is its end by
  `bad_alloc` (`AddOrderThrow`), with a part of the matches made. `at` (arrival) and
  `direct` in an order, `asked` and `traded` are there for the properties.
- `SharedPtr`. A member function is the sequence of its atomic steps:
  `fetch_sub`, deletion, pointer writes, `fetch_add`. A `reset(pointer, d)` that
  throws leaves its handle in `broken`: using it is undefined from then on, so
  the model follows the other handles. `MCSharedPtr` adds the symmetry.
- `UniquePtr`. `stack` is what the running member function has left to do; the
  deleter of a node pushes the destruction of the node's own `UniquePtr`. What an
  object owns through its nodes is a set that is `Closed`; `NoCycle` forbids a
  caller to give an object to a member of what it owns.
- `Vector`. One step per member function and outcome; `_grow_capacity` is an
  operator on the vector's state. `arrays` and `objects` count what is allocated
  and constructed. `PushBackOwn` pushes an element of the vector itself, which
  `push_back` moves from. Callers may make every call in every state, as no
  member function checks anything: a call whose behaviour is undefined sets `fault`
  and ends the behaviour, and `misused` remembers the unchecked calls that a vector
  has seen. `copyable` says which way `move_if_noexcept` goes for elements whose move
  may throw: they are copied, or, without a copy constructor, moved all the same, so
  that a growth that throws leaves emptied elements behind (`GoneSets`).
- `Tcp`. One system call per step; the kernel hands out the lowest free number.
- `TomlParser`, and `Config` on top of it. A line is a sequence of tokens (the
  characters the parser looks for, blanks, words), and `extract_keys` takes one
  line per step. Reading may fail at any line. Between two loads somebody may
  change a line or remove the file; `got` is what the last load read of it.
  `Meaning` says what each line is to mean, so that the properties do not repeat the parser; `MCConfig` lists the lines and
  their meanings, and TLC finds in `MeaningAssumption` that the operators on tokens
  give each line its meaning.
- `Memory`. One step per byte, in one memory with all ranges.
- `XorBitant`. The state as 64 bits, with the shifts and xors of one call.

A definition `X_mut` is `X` with a plausible bug; `PROJECT.json` says which
property notices it.

Proofs: `SPSCQueueProofs`, `ThreadSafeQueueProofs`, `ThreadPoolProofs`,
`SharedPtrProofs`, `OrderbookProofs`, `VectorProofs`, `NetworkProofs` for `Tcp`,
`TomlParser` and `Config`, and `UtilityProofs` for `SpinMutex`, `UniquePtr`, `Memory`
and `XorBitant`.

## The runs

| run | configuration | what it shows |
| --- | --- | --- |
| `spsc` | 2 slots, words modulo 4, 9 pushes, 2 values, throwing elements | no data race, object lifetimes, no leak, promises of the queries, FIFO (refinement of `Fifo`), delivery |
| `utility` | `SpinMutex`: 3 threads, 2 tests per spin phase, 3 sections; `UniquePtr`: 2 variables, 2 nodes, a plain object, 2 deleter states | mutual exclusion, visibility, progress of the lock; one owner each, the right deleter |
| `spin_try_lock` | 2 threads | **violated**: `try_lock` answers true when it failed |
| `tsq` | 2 producers, 2 consumers, a poller, 3 pushes, one throwing pop | refinement of `Fifo`, no lost wake-up, blocked consumers are served |
| `tsq_empty` | one of each | **violated**: `empty()` reads the queue unlocked |
| `pool` | 2 workers, a client, 3 tasks | tokens match tasks, order of starts, destructor returns, futures resolve, no deadlock |
| `book` | 3 ids, 2 prices, quantities 0 to 2, 3 orders | priority, uncrossed book, unique ids, conservation, refinement of `PriceTimeMatching`, calls that throw included |
| `book_aggressor` | 2 orders | **violated**: `OrderIdB` is not the aggressor's id when the aggressor buys |
| `shared` | 2 threads, 4 handles, 3 blocks, up to symmetry | exact count, no use after free, no leak |
| `vector` | up to 6 elements, capacities up to 10, elements that can be copied and elements that can only be moved | only three kinds of call lead out of the array; constructed prefix, no leak, strong exception guarantee (refinement of `Stack`) |
| `network` | `Tcp`: 2 threads, 2 servers, a client, an accepted socket, 3 descriptors, up to symmetry; `Config`: files of up to 3 of 17 lines, one change, 2 loads | one owner per descriptor, nobody else closes it; what a load adds and answers, failed ones included, the address that is read |
| `config_read_error` | a file of 2 lines, one load | **violated**: `load` returns true after a read error |

`utility` and `network` each check two components that share no state: a step of one
is taken only while the other is as it was in the beginning (`MCUtility`,
`MCNetwork`), so the states of such a run are those of the one component and those
of the other, and nothing is lost by it.

Bounds. In `spsc` nine pushes go round the ring more than four times and wrap
the index twice; a capacity of 2 is the smallest at which full, empty and
neither differ; the proofs remove all these bounds. In `utility` three threads are
needed for a waiter to lose to another waiter. In `tsq` two elements can be in
the queue with two consumers blocked, which is when a wake-up could get lost.
In `pool` there are more tasks than workers, so that tasks are left at
destruction, and workers reach every place of their loop before it; the client
and two running tasks can be in `enqueue` together. In `book`
two resting orders at one price and an aggressor are three orders. In `shared`
two threads can work on two handles of a block while a third keeps it alive and
the fourth, left unusable by a failed `reset`, still names it. In `vector` six
elements pass the growths from 1 to 3 and from 3 to 9, and `resize` sets capacities
below and above what is allocated and used, the largest, 10, above every array. A
growth may fail after any number of copies or moves. In `network` three descriptors
for four objects make the numbers run out; three lines are a section and two
entries that may repeat a key, and the second load meets keys of the first.

Fairness. `SPSCQueue`: the consumer keeps popping, a store becomes visible in
finite time, and an element's move does not throw every time. `SpinMutex`: a
thread in `lock()` or in its section runs on, and one that tests a clear flag
again and again reads it clear some day; individual threads may starve, and the
property does not say otherwise. `ThreadSafeQueue` and `ThreadPool`: threads
inside the code run on, and a thread does not lose every race for a
`std::mutex`; nobody has to call anything, and spurious wake-ups are not owed.
Tasks end.

What the models show:

- `SpinMutex`: `try_lock` returns what `test_and_set` does, so a caller that takes true
  for success enters beside the owner (`spin_try_lock`).
- `Vector`: exactly three kinds of call can make a vector leave its array
  (`InBounds`): `shrink_to_fit` of an empty vector, after which the capacity is 0 and
  tripling never changes that, so that the next `push_back` writes through a null
  pointer (with the invariant `~fault` TLC shows it); `resize` to a capacity that is not
  allocated or whose triple has no room (`Fits`), as it only overwrites `m_cap`; and
  the push of an element of the vector itself when the array has to grow, which
  frees the element first. `push_back` moves from an lvalue argument
  (`std::forward<Element>`), so `push_back(v[i])` may leave `v[i]` empty. The strong
  guarantee holds for elements that can be copied; a growth of elements that can only
  be moved may empty some of them when it throws. `Vector(size)` leaks if an
  element's constructor throws (`lost`).
- `TomlParser`: a read error is taken for the end of the file, and `load` returns
  true (`config_read_error`), where its comment promises false. A second `load` never
  changes a value, and a failed one keeps what it read before the error.
  Against TOML, a `#` in quotes starts a comment and a `[` anywhere makes a line a
  section. `Config` cuts a port of more than 16 bits to another port. `get_string`,
  and with it `get_int`, unquotes a value for the second time: a port in two pairs
  of quotes is a number for `get_int` and none for `get_market_port`.
- `Orderbook`: a trade's `OrderIdB` is the ask's id, as a comment in `AddOrder` says,
  also when the aggressor buys, where the comment in `struct Trade` calls it the
  aggressor's (`book_aggressor`). `insert_order` is public and can cross the book; the
  matching still follows price-time priority then. A call of `AddOrder` that throws
  takes the trades it made with it: the book is in order, but nobody is told of them.
- `ThreadSafeQueue`: `empty()` reads the queue without the mutex (`tsq_empty`). A
  `wait_and_pop` whose element's move throws uses up one
  notification, so another consumer may sleep beside the element; `NoLostWakeup`
  counts exactly these.
- `UniquePtr`: `p = std::move(p->next)` reads the deleter of a destroyed handle
  (`Garbage`). It is harmless for an empty deleter class, as for the standard's
  `unique_ptr`. An object that owns itself can be deleted with another one's
  deleter; callers are assumed not to build cycles (`NoCycle`).
- `SharedPtr`: a `reset(pointer, d)` that throws leaves a handle whose destructor
  would release a block for the second time; the constructors that throw leave
  the object to their caller.
- `XorBitant`: a seed of 0 gives zeros for ever.

## The proofs

`SPSCQueueProofs` proves, for every capacity, every word size that the capacity
divides, every set of values and any number of pushes:

| theorem | says |
| --- | --- |
| `RingInvariant` | `Spec => []RingInv` |
| `TypeCorrect` | `Spec => []TypeOK` |
| `RaceFree` | `Spec => []NoDataRace` |
| `LifetimesRespected` | `Spec => []SlotLifetime` |
| `LeakFree` | `Spec => []NoLeak` |
| `PromisesKept` | `Spec => []QueryPromise` |
| `SizesInRange` | `Spec => []SizeInRange` |
| `Refinement` | `Spec => ImplementsFifo` |

None of the safety properties is inductive: they speak of the slot at hand, and
that it is free, or filled, follows from the whole history of the indices.
`RingInv` adds what the code relies on: the k-th store of an index holds k - 1
modulo the word and releases k - 1 epochs (`OrdersOK`); each thread's stale view
of the other errs on the safe side and bounds its promises (`ViewsOK`); a slot
was last touched for an index that belongs to it and that is less than a ring
away (`StampsOK`); exactly the slots between the two indices hold objects
(`StorageOK`); the destructor's count (`LifeOK`). The arithmetic core is that
equal residues less than a ring apart are equal, and that the difference of
two words is the true distance as long as that is at most the capacity. The
assumptions are those of `ConstantsAssumption`: the capacity is positive, smaller
than the word and divides it, which the code's `static_assert` on powers of two
gives.

`ThreadSafeQueueProofs` proves, for any number of threads of each kind:

| theorem | says |
| --- | --- |
| `QueueInvariant` | `Spec => []QueueInv` |
| `WakeupsKept` | `Spec => []NoLostWakeup` |
| `Exclusion` | `Spec => []OneInside`: one thread at a time between lock and unlock |
| `Refinement` | `Spec => ImplementsFifo` |

`NoLostWakeup` is a balance of elements against notifications, and a step moves one
thread from one side to the other: it is preserved because whoever is inside a critical section holds the mutex (`Locked`),
so that no consumer falls asleep between a producer's push and its notify. The
refinement also needs that there are never more elements than pushes
(`PushesCounted`). The assumption is that the threads are a finite set.

`ThreadPoolProofs` proves, for any number of workers, clients and tasks:

| theorem | says |
| --- | --- |
| `PoolInvariant` | `Spec => []PoolInv` |
| `TokensMatchTasks` | `Spec => []TokenPerTask` |
| `EverySleeperWoken` | `Spec => []WakeupsSuffice` |
| `FewLateTasks` | `Spec => []AtMostOneLateTask` |
| `PromisesSettled` | `Spec => []NoFutureLeftHanging` |
| `Refinement` | `Spec => StartedInOrder` |

`PoolInv` says who holds the mutex at which line (`LockOK`), which workers may be
where in which phase of the pool's life (`LifeOK`), what a running call of
`enqueue` owes (`CallsOK`), that a worker that took a task after the stop is at its
last one (`LateOK`), and that a pending future belongs to a task that is being
enqueued, queued or run (`PendingIsKept`); without the last, nothing follows about
futures when the queue is dropped. The counts of workers at a place are
cardinalities, so each step is shown to move one worker from one set to another.

`SharedPtrProofs` proves, for any number of threads, handles and blocks:

| theorem | says |
| --- | --- |
| `PtrInvariant` | `Spec => []PtrInv` |
| `CountsAreExact` | `Spec => []CountExact` |
| `AccessIsSafe` | `Spec => []NoUseAfterFree` |
| `NothingLeaks` | `Spec => []NoLeak` |

An exact count alone does not say that a block still exists. `PtrInv` adds that
two threads never change one handle (`Apart`), that whoever counts as an owner
names a living block (`PointsToLiving`), that the thread that brought the count to
zero is the only one left with the block (`DeletesAlone`), and that a living block is
needed by somebody (`Needed`).

`OrderbookProofs` proves, for any ids, prices, quantities and number of orders:

| theorem | says |
| --- | --- |
| `BookInvariant` | `Spec => []BookInv` |
| `PriorityKept` | `Spec => []BookSorted` |
| `NeverCrossed` | `Spec => []BookUncrossed` |
| `IdsNameOrders` | `Spec => []IdsUnique` |
| `NothingLost` | `Spec => []QuantitiesConserved` |
| `Refinement` | `Spec => ImplementsMatching` |

The properties hold together or not at all: `lower_bound` finds the place that
keeps a side sorted only if it is sorted, and the end of a sorted side is the best
order of it. `BookInv` adds that arrival times grow (`ArrivalsOK`) and extends
"not crossed" to the moments inside `AddOrder`: the resting orders do not cross
while the incoming one, not in the book yet, is being matched (`Uncrossed`), so
that a call that throws there leaves a book that is in order.

`VectorProofs` proves, for any elements and sizes, any sequence of calls, and elements
that can be copied or not:

| theorem | says |
| --- | --- |
| `VectorInvariant` | `Spec => []VectorInv` |
| `NeverOutside` | `Spec => []InBounds` |
| `NothingLeaks` | `Spec => []NoLeak` |
| `Refinement` | `Spec => ImplementsStack` |

`VectorInv` holds in two parts. Whatever the callers do, up to an undefined call the
elements are the first `m_size` slots (`Filled`) and the memory is what the vector has
and what constructors lost (`Balanced`); every operator on the vector is shown to keep
these or to set `fault` (`Result`). Until one of the three unchecked calls was made, the
capacity is allocated and the next growth has room (`Roomy`), and this is why no
`fault` can be reached. `Roomy` is not just `InBounds` because of `resize`, after which
there may be more elements than the capacity says: three times the capacity still
holds them, with one to spare unless the capacity is 1, which `push_back` triples
twice. The core is `TakenBack`, that a growth that throws gives back what it took,
whichever element threw, `GrownResult` for one that succeeds, and `FailedFrom` for
what a failed growth leaves of the elements.

`NetworkProofs` proves of `Tcp`, for any number of threads, objects and descriptors:

| theorem | says |
| --- | --- |
| `SocketInvariant` | `Spec => []SockInv` |
| `OneCloser` | `Spec => []OneOwner` |
| `ServersUndisturbed` | `Spec => NobodyElseCloses`, an action property |

`SockInv` replaces the count of owners by the two ways to own a descriptor: an
object has it (`Holds`), or a call is carrying it from the kernel to its object
(`Carries`). Somebody owns it exactly if it is open (`Owned`), and only one does
(`Once`). That nobody owns it between the `close` of the old descriptor and the store
of the new one, when the object still names it, rests on `Apart`: the object that a
call changes is used by no other call.

It proves of `TomlParser` and `Config`, for files of any length, any number of loads
and any changes to the file between them:

| theorem | says |
| --- | --- |
| `TomlInvariant` | `TomlSpec => []TomlInv` |
| `LoadsMerge` | `TomlSpec => []LoadMerges` |
| `VerdictIsRight` | `TomlSpec => LoadVerdict`, an action property |
| `AddressMeant` | `TomlSpec => []AddressIsMeant` |

`LoadMerges` speaks of the keys alone, and whether the next line keeps it depends on
the section that the parser is in. `TomlInv` therefore says (`ReadOK`) that half-way
through a load `current_section` is the name in the nearest header above the next
line, the lines read are sound, and `m_keys` is what was there before with what these
lines say; and that once `load` returned, with whatever result, the same is true of the
lines that it read (`got`). What a
file says is defined on the file as a whole, with a largest header and a least entry
per key. `NextSection` and `NextSays` give what one more line adds, and rest on
lemmas about the largest and the least of a finite set of numbers. What a single line
says is taken from `MeaningAssumption`: the theorems are about files of lines that
have these meanings, and that the token operators compute them is checked by TLC,
line by line.

`UtilityProofs` proves of `SpinMutex` the theorems `LockInvariant`, `Exclusion` and
`Visibility` (`LockInv`, `MutualExclusion` and `Synchronised` always hold) for any set of
threads and any spin limit, provided that `try_lock` is read the way
`test_and_set` answers (`TryLockOwnsOn = FALSE`). `LockInv` adds that the flag is
set exactly while somebody is in its section and that a clear flag carries
every section there was.

It proves of `UniquePtr`, for any number of handles, objects, nodes and deleters:

| theorem | says |
| --- | --- |
| `HandleInvariant` | `Spec => []HandleInv` |
| `OneOwnerHolds` | `Spec => []OneOwner` |
| `RightDeleterHolds` | `Spec => []RightDeleter` |

Both properties look at the stack of pending steps, of any depth, and neither says
what may be on it. `HandleInv` does: only the next step can be the call of a deleter;
what is yet to be freed no longer lives, and a handle that is yet to end owns nothing
(`PendingOK`). So the living objects are shared out between handles, the caller and at
most one pending deleter (`Shared`), a living node's member is a living handle
(`MembersLive`), and no object owns itself (`Acyclic`). `PairsOK` covers the moment
between the exchange of the pointers and that of the deleters: a handle whose deleter
does not fit its object is the target of the one pending assignment, the source's
deleter fits, and the target is no member of what is being deleted, which is where
`NoCycle` is needed. The owners are then counted with the library's theorems on finite
sets.

It proves of `Memory`, for a memory of any size and any sequence of
calls:

| theorem | says |
| --- | --- |
| `CopyInvariant` | `Spec => []CopyInv` |
| `CopiesCorrectly` | `Spec => []CopyCorrect`: the destination has what the source had at the call, nothing else changed |
| `CopiesInRange` | `Spec => []StaysInRange`: no byte outside the two ranges is touched |

What a finished copy holds is not inductive: `CopyInv` says how far each loop is
(`LoopOK`, `StringOK`) and that the bytes not copied yet are as they were at the
call, which rests on the direction of the loop (`ArgsOK`). `Memcpy` and `Strcpy`
are proved for more than the C standard's disjoint ranges: for all that a copy
from the low end gets right. The one hypothesis is that the size is a natural
number. There is no run of `Memory`; its invariants were tried with TLC on a
memory of 12 bytes before they were proved.

It proves of `XorBitant` that the generator's step is one-to-one
(`NoTwoStatesMerge`) and that it comes to 0 only from 0 (`NeverStuck`). Each shift
and xor is inverted in portions: the bits that the shift leaves alone are known,
each portion gives the next (`LeftChunk`, `RightChunk`).

Every inductive invariant was tried with TLC on the constants of the component's
run before it was proved. Apart from the hypotheses named above, the theorems
assume only the `ConstantsAssumption` of the component's module (`LockAssumption` in
`SpinMutex`, `TomlAssumption` and `MeaningAssumption` in `TomlParser`), which the runs
evaluate.

Only model-checked: liveness, which needs fairness and ENABLED (`Delivered`,
`SomeoneEnters`, `BlockedAreServed`, `EveryFutureResolves`, `DestructorReturns`), and
what the token operators of `TomlParser` make of a line, an induction over data that
the provers cannot do.

## Not modelled, and why

`Any.cc` and `Cassandra.hh` do not compile, and the driver `Cassandra.hh` calls is
not here; the loggers and `Timer` only write output, each message by one call;
`Error` and `JSONReader` have no behaviour. In `ThreadPool`, the members that are
destroyed before the workers are joined are taken to go on working, every
thread can be started, and there is at least one worker. In `SharedPtr` handles
do not live inside the objects they own (`p = p->next` would read the source
after its destruction). The implicit copy of a `Vector`, after which two vectors
own one array, is left out, as is every use of a handle that a failed `reset`
broke: all of it is undefined. Bytes sent over TCP are left out, and so are
`TomlParser::get_double`, which is `get_int` for doubles, and the numbers that
`XorBitant` returns.

## Plan

1. Done: models of all components that compile and keep state; the proofs above.
2. Done: all safety properties of the passing runs, among them the refinements of the
   queues, the pool, the order book and `Vector`, proved for every value of
   the constants.
3. Left: liveness, which stays with TLC.
