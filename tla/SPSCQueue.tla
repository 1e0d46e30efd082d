------------------------------ MODULE SPSCQueue ------------------------------
(***************************************************************************)
(* quick::structs::SPSCQueue (include/quick/structs/SPSCQueue.hh): a ring  *)
(* of kCapacity slots between one producer thread and one consumer thread, *)
(* with two free-running 64-bit indices and no lock.                       *)
(*                                                                         *)
(* The C++ memory model is part of the model.  m_head and m_tail are       *)
(* modification orders: the sequence of all values ever stored, each with  *)
(* what its store releases.  A thread loading the other thread's index may *)
(* read ANY store not older than the last one it read (coherence); an      *)
(* acquire load of a release store makes the stores' owner's earlier slot  *)
(* accesses happen before what the loader does next, a relaxed one does    *)
(* not.  Every slot remembers the last access of each thread, so a data    *)
(* race is a state that an invariant can exclude.                          *)
(***************************************************************************)
EXTENDS Integers, Sequences

CONSTANTS
  Value,      \* the values of T
  None,       \* raw storage, and the consumer's variable before its first pop
  kCapacity,  \* CapacityPow2
  Word,       \* the range of std::uint64_t, 2^64 in the code
  MaxPush,    \* bound: how many pushes a behaviour makes
  MayThrow    \* may T's constructor and move assignment throw?

\* A power of two below 2^64 divides 2^64: all the code needs of both.
ASSUME ConstantsAssumption ==
  /\ None \notin Value
  /\ kCapacity \in Nat \ {0}
  /\ Word \in Nat
  /\ kCapacity < Word
  /\ Word % kCapacity = 0
  /\ MaxPush \in Nat
  /\ MayThrow \in BOOLEAN

VARIABLES
  m_head,     \* modification order of m_head, written by the producer
  m_tail,     \* modification order of m_tail, written by the consumer
  m_storage,  \* the object living in each slot, or None
  lastPut,    \* lastPut[i]: epoch of the producer's last access to slot i
  lastTake,   \* lastTake[i]: epoch of the consumer's last access to slot i
  ppc,        \* where the producer is in emplace
  item,       \* the argument of emplace
  pseen,      \* the newest store of m_tail the producer has read
  psync,      \* the consumer epochs that happen before the producer
  proom,      \* how many pushes the last query promised the producer
  cpc,        \* where the consumer is in pop
  out,        \* the argument of pop, the variable elements are moved into
  cseen,      \* the newest store of m_head the consumer has read
  csync,      \* the producer epochs that happen before the consumer
  cavail,     \* how many pops the last query promised the consumer
  qpc,        \* "live", "draining" in the destructor, "gone"
  drained     \* how many elements the destructor has destroyed

ring     == <<m_storage, lastPut, lastTake>>
producer == <<ppc, item, pseen, psync, proom>>
consumer == <<cpc, out, cseen, csync, cavail>>
life     == <<qpc, drained>>
vars     == <<m_head, m_tail, ring, producer, consumer, life>>

-----------------------------------------------------------------------------
(* Index arithmetic.                                                       *)

Slots == 0..(kCapacity - 1)

\* idx & kMask.  A definition named X_mut is X with a plausible bug, used to
\* show that the properties notice it.
slot_ptr_mut(idx) == (idx + (idx \div kCapacity)) % kCapacity
slot_ptr(idx) == idx % kCapacity

\* h - t in std::uint64_t
Distance_mut(h, t) == h - t
Distance(h, t) == (h - t) % Word

\* ++idx in std::uint64_t
Inc(idx) == (idx + 1) % Word

IsFull_mut(h, t) == Distance(h, t) = kCapacity + 1
IsFull(h, t) == Distance(h, t) = kCapacity

IsEmpty_mut(h, t) == slot_ptr(h) = slot_ptr(t)
IsEmpty(h, t) == h = t

-----------------------------------------------------------------------------
(* Atomics.                                                                *)

\* The value a thread reads back from the index it owns.
Own(order) == order[Len(order)].val

\* What happens before a thread after an acquire load of store msg.
Acquire_mut(sync, msg) == sync
Acquire(sync, msg) == IF msg.sync > sync THEN msg.sync ELSE sync

\* store(val, release): publishes every slot access of the epochs up to now.
Release(order, val) == Append(order, [val |-> val, sync |-> Len(order)])

head == Own(m_head)
tail == Own(m_tail)

Init ==
  /\ m_head = <<[val |-> 0, sync |-> 0]>>
  /\ m_tail = <<[val |-> 0, sync |-> 0]>>
  /\ m_storage = [i \in Slots |-> None]
  /\ lastPut = [i \in Slots |-> 0]
  /\ lastTake = [i \in Slots |-> 0]
  /\ ppc = "idle" /\ item = None /\ pseen = 1 /\ psync = 0 /\ proom = 0
  /\ cpc = "idle" /\ out = None /\ cseen = 1 /\ csync = 0 /\ cavail = 0
  /\ qpc = "live" /\ drained = 0

-----------------------------------------------------------------------------
(* The producer thread: emplace, which push(const T&) and push(T&&) call.  *)

\* The stores of m_tail a load by the producer may read.
ProducerLoads == pseen..Len(m_tail)

EmplaceFull(j) ==
  /\ qpc = "live" /\ ppc = "idle"
  /\ IsFull(head, m_tail[j].val)
  /\ pseen' = j
  /\ psync' = Acquire(psync, m_tail[j])
  /\ UNCHANGED <<m_head, m_tail, ring, ppc, item, proom, consumer, life>>

EmplaceRoom(v, j) ==
  /\ qpc = "live" /\ ppc = "idle"
  /\ Len(m_head) <= MaxPush
  /\ ~IsFull(head, m_tail[j].val)
  /\ ppc' = "construct"
  /\ item' = v
  /\ pseen' = j
  /\ psync' = Acquire(psync, m_tail[j])
  /\ UNCHANGED <<m_head, m_tail, ring, proom, consumer, life>>

EmplaceConstruct ==
  /\ ppc = "construct"
  /\ m_storage' = [m_storage EXCEPT ![slot_ptr(head)] = item]
  /\ lastPut' = [lastPut EXCEPT ![slot_ptr(head)] = Len(m_head)]
  /\ ppc' = "publish"
  /\ UNCHANGED <<m_head, m_tail, lastTake, item, pseen, psync, proom,
                 consumer, life>>

\* The constructor throws: the slot was touched and holds no object.
EmplaceThrow ==
  /\ MayThrow
  /\ ppc = "construct"
  /\ lastPut' = [lastPut EXCEPT ![slot_ptr(head)] = Len(m_head)]
  /\ ppc' = "idle"
  /\ item' = None
  /\ UNCHANGED <<m_head, m_tail, m_storage, lastTake, pseen, psync, proom,
                 consumer, life>>

EmplacePublish ==
  /\ ppc = "publish"
  /\ m_head' = Release(m_head, Inc(head))
  /\ ppc' = "idle"
  /\ item' = None
  /\ proom' = IF proom > 0 THEN proom - 1 ELSE 0
  /\ UNCHANGED <<m_tail, ring, pseen, psync, consumer, life>>

\* size() and empty() load the other index relaxed on the producer's side,
\* full() loads it with acquire.
ProducerSize(j) ==
  /\ qpc = "live" /\ ppc = "idle"
  /\ pseen' = j
  /\ proom' = kCapacity - Distance(head, m_tail[j].val)
  /\ UNCHANGED <<m_head, m_tail, ring, ppc, item, psync, consumer, life>>

ProducerEmpty(j) ==
  /\ qpc = "live" /\ ppc = "idle"
  /\ IsEmpty(head, m_tail[j].val)
  /\ pseen' = j
  /\ proom' = kCapacity
  /\ UNCHANGED <<m_head, m_tail, ring, ppc, item, psync, consumer, life>>

ProducerFull(j) ==
  /\ qpc = "live" /\ ppc = "idle"
  /\ pseen' = j
  /\ psync' = Acquire(psync, m_tail[j])
  /\ proom' = IF IsFull(head, m_tail[j].val) THEN 0 ELSE 1
  /\ UNCHANGED <<m_head, m_tail, ring, ppc, item, consumer, life>>

-----------------------------------------------------------------------------
(* The consumer thread: pop.                                               *)

ConsumerLoads == cseen..Len(m_head)

PopEmpty(j) ==
  /\ qpc = "live" /\ cpc = "idle"
  /\ IsEmpty(m_head[j].val, tail)
  /\ cseen' = j
  /\ csync' = Acquire(csync, m_head[j])
  /\ UNCHANGED <<m_head, m_tail, ring, producer, cpc, out, cavail, life>>

PopSome(j) ==
  /\ qpc = "live" /\ cpc = "idle"
  /\ ~IsEmpty(m_head[j].val, tail)
  /\ cpc' = "take"
  /\ cseen' = j
  /\ csync' = Acquire(csync, m_head[j])
  /\ UNCHANGED <<m_head, m_tail, ring, producer, out, cavail, life>>

\* out = std::move(*p); std::destroy_at(p)
PopTake ==
  /\ cpc = "take"
  /\ out' = m_storage[slot_ptr(tail)]
  /\ m_storage' = [m_storage EXCEPT ![slot_ptr(tail)] = None]
  /\ lastTake' = [lastTake EXCEPT ![slot_ptr(tail)] = Len(m_tail)]
  /\ cpc' = "retire"
  /\ UNCHANGED <<m_head, m_tail, lastPut, producer, cseen, csync, cavail, life>>

\* The move assignment throws: the element stays where it is.
PopThrow ==
  /\ MayThrow
  /\ cpc = "take"
  /\ lastTake' = [lastTake EXCEPT ![slot_ptr(tail)] = Len(m_tail)]
  /\ cpc' = "idle"
  /\ UNCHANGED <<m_head, m_tail, m_storage, lastPut, producer, out, cseen,
                 csync, cavail, life>>

PopRetire ==
  /\ cpc = "retire"
  /\ m_tail' = Release(m_tail, Inc(tail))
  /\ cpc' = "idle"
  /\ cavail' = IF cavail > 0 THEN cavail - 1 ELSE 0
  /\ UNCHANGED <<m_head, ring, producer, out, cseen, csync, life>>

\* On the consumer's side size() and empty() load m_head with acquire and
\* full() loads it relaxed.
ConsumerSize(j) ==
  /\ qpc = "live" /\ cpc = "idle"
  /\ cseen' = j
  /\ csync' = Acquire(csync, m_head[j])
  /\ cavail' = Distance(m_head[j].val, tail)
  /\ UNCHANGED <<m_head, m_tail, ring, producer, cpc, out, life>>

ConsumerEmpty(j) ==
  /\ qpc = "live" /\ cpc = "idle"
  /\ cseen' = j
  /\ csync' = Acquire(csync, m_head[j])
  /\ cavail' = IF IsEmpty(m_head[j].val, tail) THEN 0 ELSE 1
  /\ UNCHANGED <<m_head, m_tail, ring, producer, cpc, out, life>>

ConsumerFull(j) ==
  /\ qpc = "live" /\ cpc = "idle"
  /\ IsFull(m_head[j].val, tail)
  /\ cseen' = j
  /\ cavail' = kCapacity
  /\ UNCHANGED <<m_head, m_tail, ring, producer, cpc, out, csync, life>>

-----------------------------------------------------------------------------
(* The destructor.  Its caller must have synchronised with both threads    *)
(* (the NOTE in the code), so both are outside the queue and its loads     *)
(* read the last stores.                                                   *)

\* The destructor's own copy of tail.
DrainIndex == (tail + drained) % Word

DtorBegin ==
  /\ qpc = "live" /\ ppc = "idle" /\ cpc = "idle"
  /\ qpc' = "draining"
  /\ UNCHANGED <<m_head, m_tail, ring, producer, consumer, drained>>

DtorDestroy ==
  /\ qpc = "draining"
  /\ DrainIndex # head
  /\ m_storage' = [m_storage EXCEPT ![slot_ptr(DrainIndex)] = None]
  /\ drained' = drained + 1
  /\ UNCHANGED <<m_head, m_tail, lastPut, lastTake, producer, consumer, qpc>>

DtorEnd_mut ==
  /\ qpc = "draining"
  /\ DrainIndex = head \/ drained > 0
  /\ qpc' = "gone"
  /\ UNCHANGED <<m_head, m_tail, ring, producer, consumer, drained>>
DtorEnd ==
  /\ qpc = "draining"
  /\ DrainIndex = head
  /\ qpc' = "gone"
  /\ UNCHANGED <<m_head, m_tail, ring, producer, consumer, drained>>

-----------------------------------------------------------------------------
Producer ==
  \/ \E j \in ProducerLoads : EmplaceFull(j)
  \/ \E j \in ProducerLoads, v \in Value : EmplaceRoom(v, j)
  \/ EmplaceConstruct
  \/ EmplaceThrow
  \/ EmplacePublish
  \/ \E j \in ProducerLoads : ProducerSize(j)
  \/ \E j \in ProducerLoads : ProducerEmpty(j)
  \/ \E j \in ProducerLoads : ProducerFull(j)

Consumer ==
  \/ \E j \in ConsumerLoads : PopEmpty(j)
  \/ \E j \in ConsumerLoads : PopSome(j)
  \/ PopTake
  \/ PopThrow
  \/ PopRetire
  \/ \E j \in ConsumerLoads : ConsumerSize(j)
  \/ \E j \in ConsumerLoads : ConsumerEmpty(j)
  \/ \E j \in ConsumerLoads : ConsumerFull(j)

Destructor == DtorBegin \/ DtorDestroy \/ DtorEnd

Next == Producer \/ Consumer \/ Destructor

Spec == Init /\ [][Next]_vars

\* The consumer keeps popping, and a store becomes visible to it in finite
\* time: a pop that can find an element is not postponed for ever.  An element
\* whose move assignment throws is not one that throws every time.
PopProgress == PopTake \/ PopRetire \/ \E j \in ConsumerLoads : PopSome(j)

FairSpec == Spec /\ WF_vars(PopProgress) /\ SF_vars(PopTake)

-----------------------------------------------------------------------------
(* Properties.                                                             *)

Message == [val : 0..(Word - 1), sync : Nat]

\* The types of the state: both indices are 64-bit words, a slot holds one
\* object or none.
TypeOK ==
  /\ m_head \in Seq(Message) /\ Len(m_head) > 0
  /\ m_tail \in Seq(Message) /\ Len(m_tail) > 0
  /\ m_storage \in [Slots -> Value \cup {None}]
  /\ lastPut \in [Slots -> Nat] /\ lastTake \in [Slots -> Nat]
  /\ ppc \in {"idle", "construct", "publish"}
  /\ item \in Value \cup {None}
  /\ pseen \in 1..Len(m_tail) /\ psync \in Nat /\ proom \in 0..kCapacity
  /\ cpc \in {"idle", "take", "retire"}
  /\ out \in Value \cup {None}
  /\ cseen \in 1..Len(m_head) /\ csync \in Nat /\ cavail \in 0..kCapacity
  /\ qpc \in {"live", "draining", "gone"}
  /\ drained \in Nat

\* No data race on a slot: when emplace constructs into a slot, the consumer's
\* last access to it happens before (the acquire of m_tail at line 112 pairs
\* with the release at 142), and when pop moves out of a slot the producer's
\* construction happens before (132 pairs with 122), however stale the index
\* either thread read.
NoDataRace ==
  /\ ppc = "construct" => lastTake[slot_ptr(head)] <= psync
  /\ cpc = "take" => lastPut[slot_ptr(tail)] <= csync

\* Object lifetimes: emplace never constructs over a live object, and pop and
\* the destructor never touch a slot without one, although the full and empty
\* tests (115, 134) use a stale index that wraps around at 2^64.
SlotLifetime ==
  /\ ppc = "construct" => m_storage[slot_ptr(head)] = None
  /\ cpc = "take" => m_storage[slot_ptr(tail)] # None
  /\ qpc = "draining" /\ DrainIndex # head =>
       m_storage[slot_ptr(DrainIndex)] # None

\* The destructor (66-80) destroys every element that was pushed and not
\* popped, those left behind by a throwing pop included.
NoLeak == qpc = "gone" => \A i \in Slots : m_storage[i] = None

\* A query is a promise to the thread that owns one end: if the producer saw
\* size() = s (or full() = false, or empty() = true), its next kCapacity - s
\* (or 1, or kCapacity) pushes succeed whichever m_tail they read; if the
\* consumer saw size() = s, its next s pops succeed.
QueryPromise ==
  /\ qpc = "live" /\ ppc = "idle" /\ proom > 0 =>
       \A j \in ProducerLoads : ~IsFull(head, m_tail[j].val)
  /\ qpc = "live" /\ cpc = "idle" /\ cavail > 0 =>
       \A j \in ConsumerLoads : ~IsEmpty(m_head[j].val, tail)

\* size() (162-167), called from either end, is never more than capacity():
\* a stale index never makes the unsigned difference wrap.
SizeInRange ==
  /\ \A j \in ProducerLoads : Distance(head, m_tail[j].val) <= kCapacity
  /\ \A j \in ConsumerLoads : Distance(m_head[j].val, tail) <= kCapacity

\* What both counts have been: pushes and pops completed so far.
Pushed == Len(m_head) - 1
Popped == Len(m_tail) - 1

\* The first element not popped, and the first index not constructed.
FirstIndex == Popped + drained + (IF cpc = "retire" THEN 1 ELSE 0)
LastIndex  == Pushed + (IF ppc = "publish" THEN 1 ELSE 0)

\* The k-th store of an index holds k - 1 and releases the k - 1 accesses
\* before it.
OrdersOK ==
  /\ \A k \in 1..Len(m_head) : m_head[k].val = (k - 1) % Word /\ m_head[k].sync = k - 1
  /\ \A k \in 1..Len(m_tail) : m_tail[k].val = (k - 1) % Word /\ m_tail[k].sync = k - 1

\* Each thread's stale view of the other is on the safe side.
ViewsOK ==
  /\ Popped <= cseen - 1
  /\ Pushed - (pseen - 1) <= kCapacity
  /\ ppc # "idle" => Pushed - (pseen - 1) < kCapacity /\ psync >= pseen - 1
  /\ cpc # "idle" => Popped < cseen - 1 /\ csync >= cseen - 1
  /\ Pushed + proom <= (pseen - 1) + kCapacity
  /\ Popped + cavail <= cseen - 1

\* A slot was last touched for an index that belongs to it, and not too late.
StampsOK ==
  \A i \in Slots :
    /\ lastTake[i] > 0 => (lastTake[i] - 1) % kCapacity = i /\ lastTake[i] - 1 < Pushed
    /\ lastPut[i] > 0 => (lastPut[i] - 1) % kCapacity = i /\ lastPut[i] - 1 < Popped + kCapacity

\* Live objects are exactly those of the indices between the two.
StorageOK ==
  /\ \A n \in FirstIndex..(LastIndex - 1) : m_storage[n % kCapacity] # None
  /\ \A n \in LastIndex..(FirstIndex + kCapacity - 1) : m_storage[n % kCapacity] = None
  /\ ppc = "construct" => item \in Value

LifeOK ==
  /\ drained \in 0..(Pushed - Popped)
  /\ qpc = "live" => drained = 0
  /\ qpc # "live" => ppc = "idle" /\ cpc = "idle"
  /\ qpc = "gone" => drained = Pushed - Popped

\* The inductive invariant behind the theorems of SPSCQueueProofs: why the
\* two threads can agree without ever reading each other's current index.
RingInv == TypeOK /\ OrdersOK /\ ViewsOK /\ StampsOK /\ StorageOK /\ LifeOK

\* The ring is a FIFO queue: a push takes effect at its release store of
\* m_head, a pop when it moves the element out.
Contents ==
  [k \in 1..(Pushed - FirstIndex) |-> m_storage[((FirstIndex + k) - 1) % kCapacity]]

Queue == INSTANCE Fifo WITH
  Consumers <- {"consumer"}, Capacity <- kCapacity,
  q <- Contents, got <- [c \in {"consumer"} |-> out], open <- qpc = "live"

\* Every behaviour of the two threads, on weakly ordered memory, is one of a
\* bounded FIFO: nothing is lost, duplicated, reordered or torn.
ImplementsFifo == Queue!Spec

\* A published element does not stay in the queue: if the consumer keeps
\* popping, it is popped (or the queue is destroyed), however many stale
\* empty answers pop gives first.
Delivered ==
  \A k \in 1..MaxPush :
    Len(m_head) > k ~> (Len(m_tail) > k \/ qpc # "live")

=============================================================================
