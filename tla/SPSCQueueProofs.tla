--------------------------- MODULE SPSCQueueProofs ---------------------------
(***************************************************************************)
(* Proofs about SPSCQueue for every capacity, every word size it divides,  *)
(* every number of pushes and every value type.                            *)
(***************************************************************************)
EXTENDS SPSCQueue, SequenceTheorems, TLAPS

-----------------------------------------------------------------------------
(* Facts about % and \div that reasoning on a ring of slots needs.  The    *)
(* provers know division only as quotient and remainder, so each fact is   *)
(* reduced to the uniqueness of the remainder.                             *)

\* An integer is its quotient times the divisor plus its remainder.
LEMMA DivMod ==
  ASSUME NEW a \in Int, NEW c \in Nat \ {0}
  PROVE  /\ a \div c \in Int
         /\ a % c \in 0..(c - 1)
         /\ a = (c * (a \div c)) + (a % c)
  OBVIOUS

\* Remainders are unique.
LEMMA ModUnique ==
  ASSUME NEW c \in Nat \ {0}, NEW d \in Int, NEW r \in 0..(c - 1)
  PROVE  ((c * d) + r) % c = r
  OBVIOUS

\* A multiple of c strictly between -c and c is zero.
LEMMA SmallMultiple ==
  ASSUME NEW c \in Nat \ {0}, NEW m \in Int, c * m < c, c * m > -c
  PROVE  m = 0
<1>1. m >= 1 => c * m >= c
  OBVIOUS
<1>2. m <= -1 => c * m <= -c
  OBVIOUS
<1> QED BY <1>1, <1>2

\* Two indices less than one lap apart share a slot only if they are equal.
LEMMA ModInjective ==
  ASSUME NEW c \in Nat \ {0}, NEW a \in Int, NEW b \in Int,
         a % c = b % c, a - b < c, b - a < c
  PROVE  a = b
<1> DEFINE m == (a \div c) - (b \div c)
<1>1. /\ a = (c * (a \div c)) + (a % c) /\ a \div c \in Int /\ a % c \in Int
      /\ b = (c * (b \div c)) + (b % c) /\ b \div c \in Int
  BY DivMod
<1>2. c * m = (c * (a \div c)) - (c * (b \div c)) /\ m \in Int
  BY <1>1
<1>3. a - b = c * m
  BY <1>1, <1>2
<1>4. c * m < c /\ c * m > -c
  BY <1>3
<1>5. m = 0
  BY <1>2, <1>4, SmallMultiple
<1> QED BY <1>3, <1>5

\* Adding a multiple of the divisor changes nothing.
LEMMA ModPlusMultiple ==
  ASSUME NEW c \in Nat \ {0}, NEW a \in Int, NEW m \in Int
  PROVE  (a + (c * m)) % c = a % c
<1>1. a = (c * (a \div c)) + (a % c) /\ a \div c \in Int /\ a % c \in 0..(c - 1)
  BY DivMod
<1>2. c * ((a \div c) + m) = (c * (a \div c)) + (c * m)
  BY <1>1
<1>3. a + (c * m) = (c * ((a \div c) + m)) + (a % c)
  BY <1>1, <1>2
<1>4. ((c * ((a \div c) + m)) + (a % c)) % c = a % c
  <2> DEFINE d == (a \div c) + m
  <2> DEFINE r == a % c
  <2>1. d \in Int /\ r \in 0..(c - 1)
    BY <1>1
  <2> HIDE DEF d, r
  <2>2. ((c * d) + r) % c = r
    BY <2>1, ModUnique
  <2> QED BY <2>2 DEF d, r
<1> QED BY <1>3, <1>4

\* One lap further is the same slot.
LEMMA ModLap ==
  ASSUME NEW c \in Nat \ {0}, NEW a \in Int
  PROVE  (a + c) % c = a % c
<1> DEFINE m == 1
<1>1. m \in Int /\ c * m = c
  OBVIOUS
<1> HIDE DEF m
<1>2. (a + (c * m)) % c = a % c
  BY <1>1, ModPlusMultiple
<1> QED BY <1>1, <1>2

\* Reducing a summand first changes nothing.
LEMMA ModAdd ==
  ASSUME NEW c \in Nat \ {0}, NEW a \in Int, NEW d \in Int
  PROVE  ((a % c) + d) % c = (a + d) % c
<1> DEFINE s == (a % c) + d
<1> DEFINE m == a \div c
<1>1. a = (c * m) + (a % c) /\ m \in Int /\ s \in Int
  BY DivMod
<1>2. a + d = s + (c * m)
  BY <1>1
<1> HIDE DEF s, m
<1>3. (s + (c * m)) % c = s % c
  BY <1>1, ModPlusMultiple
<1> QED BY <1>2, <1>3 DEF s

\* A number below the divisor is its own remainder.
LEMMA ModSmall ==
  ASSUME NEW c \in Nat \ {0}, NEW r \in 0..(c - 1)
  PROVE  r % c = r
<1>1. ((c * 0) + r) % c = r
  BY ModUnique
<1> QED BY <1>1

\* The unsigned difference of two reduced indices is their true distance.
LEMMA ModDistance ==
  ASSUME NEW c \in Nat \ {0}, NEW a \in Int, NEW b \in Int, a - b \in 0..(c - 1)
  PROVE  ((a % c) - (b % c)) % c = a - b
<1> DEFINE e == a \div c
<1> DEFINE f == b \div c
<1> DEFINE m == f - e
<1> DEFINE s == a - b
<1>1. /\ a = (c * e) + (a % c) /\ e \in Int /\ a % c \in Int
      /\ b = (c * f) + (b % c) /\ f \in Int /\ b % c \in Int
  BY DivMod
<1> HIDE DEF e, f
<1>2. c * m = (c * f) - (c * e) /\ m \in Int
  BY <1>1
<1> HIDE DEF m
<1>3. (a % c) - (b % c) = s + (c * m) /\ s \in 0..(c - 1) /\ s \in Int
  BY <1>1, <1>2
<1> HIDE DEF s
<1>4. (s + (c * m)) % c = s % c
  BY <1>2, <1>3, ModPlusMultiple
<1>5. s % c = s
  BY <1>3, ModSmall
<1> QED BY <1>3, <1>4, <1>5 DEF s

\* Reducing by a multiple of c first changes nothing: masking a 64-bit index
\* gives the slot of the index before it wrapped.
LEMMA ModMod ==
  ASSUME NEW c \in Nat \ {0}, NEW w \in Nat \ {0}, w % c = 0, NEW a \in Int
  PROVE  (a % w) % c = a % c
<1> DEFINE e == w \div c
<1> DEFINE f == a \div w
<1>1. w = c * e /\ e \in Int
  <2>1. w = (c * (w \div c)) + (w % c) /\ w \div c \in Int
    BY DivMod
  <2> QED BY <2>1
<1>2. a = (w * f) + (a % w) /\ f \in Int /\ a % w \in Int
  BY DivMod
<1> HIDE DEF e, f
<1>3. w * f = c * (e * f) /\ e * f \in Int
  BY <1>1, <1>2
<1>4. a = (a % w) + (c * (e * f))
  BY <1>2, <1>3
<1>5. ((a % w) + (c * (e * f))) % c = (a % w) % c
  BY <1>2, <1>3, ModPlusMultiple
<1> QED BY <1>4, <1>5

\* Every slot belongs to one of any kCapacity successive indices.
LEMMA ModSurjective ==
  ASSUME NEW c \in Nat \ {0}, NEW a \in Int, NEW i \in 0..(c - 1)
  PROVE  \E n \in a..((a + c) - 1) : n % c = i
<1> DEFINE r == (i - a) % c
<1> DEFINE d == (i - a) \div c
<1>1. i - a = (c * d) + r /\ d \in Int /\ r \in 0..(c - 1)
  BY DivMod
<1> HIDE DEF r, d
<1> DEFINE m == -d
<1>2. c * m = -(c * d) /\ m \in Int
  BY <1>1
<1> HIDE DEF m
<1>3. a + r = i + (c * m)
  BY <1>1, <1>2
<1>4. (a + r) % c = i
  <2>1. i \in Int
    OBVIOUS
  <2>2. (i + (c * m)) % c = i % c
    BY <1>2, <2>1, ModPlusMultiple
  <2>3. i % c = i
    BY ModSmall
  <2> QED BY <1>3, <2>2, <2>3
<1>5. a + r \in a..((a + c) - 1)
  BY <1>1
<1> QED BY <1>4, <1>5

-----------------------------------------------------------------------------
(* What the code's index arithmetic computes in a state of RingInv.        *)

\* The constants, in the form the arithmetic lemmas take them.
LEMMA Constants ==
  /\ kCapacity \in Nat \ {0}
  /\ Word \in Nat \ {0}
  /\ kCapacity < Word
  /\ Word % kCapacity = 0
  BY ConstantsAssumption

\* Ranges of the two counts.
LEMMA Counts ==
  ASSUME RingInv
  PROVE  /\ Pushed \in Nat /\ Popped \in Nat
         /\ Popped <= Pushed /\ Pushed - Popped <= kCapacity
         /\ pseen - 1 <= Popped /\ cseen - 1 <= Pushed
         /\ pseen \in Nat /\ cseen \in Nat
  BY Constants DEF RingInv, TypeOK, ViewsOK, Pushed, Popped

\* The words stored in m_head and m_tail, and the slots they select.
LEMMA Words ==
  ASSUME RingInv
  PROVE  /\ head = Pushed % Word /\ tail = Popped % Word
         /\ slot_ptr(head) = Pushed % kCapacity
         /\ slot_ptr(tail) = Popped % kCapacity
         /\ Pushed % kCapacity \in Slots /\ Popped % kCapacity \in Slots
<1>1. Pushed \in Int /\ Popped \in Int
  BY Counts
<1>2. head = Pushed % Word /\ tail = Popped % Word
  BY DEF RingInv, TypeOK, OrdersOK, head, tail, Own, Pushed, Popped
<1>3. slot_ptr(head) = Pushed % kCapacity /\ slot_ptr(tail) = Popped % kCapacity
  BY <1>1, <1>2, Constants, ModMod DEF slot_ptr
<1>4. Pushed % kCapacity \in Slots /\ Popped % kCapacity \in Slots
  BY <1>1, Constants, DivMod DEF Slots
<1> QED BY <1>2, <1>3, <1>4

\* What a load by the producer tells it: the number of elements as of then.
LEMMA ProducerDistance ==
  ASSUME RingInv, NEW j \in ProducerLoads
  PROVE  /\ Distance(head, m_tail[j].val) = Pushed - (j - 1)
         /\ Pushed - (j - 1) \in 0..kCapacity
         /\ Acquire(psync, m_tail[j]) \in Nat /\ Acquire(psync, m_tail[j]) >= j - 1
         /\ j \in 1..Len(m_tail) /\ j \in Nat /\ j >= pseen /\ j - 1 <= Popped
<1> DEFINE b == j - 1
<1>1. /\ j \in 1..Len(m_tail) /\ j >= pseen /\ j \in Int /\ b \in Int
      /\ b <= Popped /\ b >= pseen - 1
  BY DEF ProducerLoads, RingInv, TypeOK, Popped
<1>2. m_tail[j].val = b % Word /\ m_tail[j].sync = j - 1
  BY <1>1 DEF RingInv, OrdersOK
<1>3. Pushed - b \in 0..kCapacity /\ Pushed - b \in 0..(Word - 1) /\ Pushed \in Int
  <2>1. Pushed \in Int /\ Popped \in Int /\ Popped <= Pushed
    BY Counts
  <2>2. pseen \in Int /\ Pushed - (pseen - 1) <= kCapacity
    BY Counts DEF RingInv, TypeOK, ViewsOK
  <2>3. kCapacity \in Nat /\ Word \in Nat /\ kCapacity <= Word - 1
    BY Constants
  <2> HIDE DEF b
  <2> QED BY <1>1, <2>1, <2>2, <2>3
<1> HIDE DEF b
<1>4. ((Pushed % Word) - (b % Word)) % Word = Pushed - b
  BY <1>1, <1>3, Constants, ModDistance
<1>5. Distance(head, m_tail[j].val) = Pushed - b
  BY <1>2, <1>4, Words DEF Distance
<1>6. Acquire(psync, m_tail[j]) \in Nat /\ Acquire(psync, m_tail[j]) >= j - 1
  BY <1>1, <1>2 DEF Acquire, RingInv, TypeOK, b
<1> QED BY <1>1, <1>3, <1>5, <1>6 DEF b

\* What a load by the consumer tells it.
LEMMA ConsumerDistance ==
  ASSUME RingInv, NEW j \in ConsumerLoads
  PROVE  /\ Distance(m_head[j].val, tail) = (j - 1) - Popped
         /\ (j - 1) - Popped \in 0..kCapacity
         /\ Acquire(csync, m_head[j]) \in Nat /\ Acquire(csync, m_head[j]) >= j - 1
         /\ j \in 1..Len(m_head) /\ j \in Nat /\ j >= cseen /\ j - 1 <= Pushed
         /\ IsEmpty(m_head[j].val, tail) <=> j - 1 = Popped
<1> DEFINE b == j - 1
<1>1. /\ j \in 1..Len(m_head) /\ j >= cseen /\ j \in Int /\ b \in Int
      /\ b <= Pushed /\ b >= cseen - 1
  BY DEF ConsumerLoads, RingInv, TypeOK, Pushed
<1>2. m_head[j].val = b % Word /\ m_head[j].sync = j - 1
  BY <1>1 DEF RingInv, OrdersOK
<1>3. b - Popped \in 0..kCapacity /\ b - Popped \in 0..(Word - 1) /\ Popped \in Int
  <2>1. Pushed \in Int /\ Popped \in Int /\ Pushed - Popped <= kCapacity
    BY Counts
  <2>2. cseen \in Int /\ Popped <= cseen - 1
    BY Counts DEF RingInv, ViewsOK
  <2>3. kCapacity \in Nat /\ Word \in Nat /\ kCapacity <= Word - 1
    BY Constants
  <2> HIDE DEF b
  <2> QED BY <1>1, <2>1, <2>2, <2>3
<1> HIDE DEF b
<1>4. ((b % Word) - (Popped % Word)) % Word = b - Popped
  BY <1>1, <1>3, Constants, ModDistance
<1>5. Distance(m_head[j].val, tail) = b - Popped
  BY <1>2, <1>4, Words DEF Distance
<1>6. b % Word = Popped % Word <=> b = Popped
  <2>1. b - Popped < Word /\ Popped - b < Word
    BY <1>1, <1>3, Constants
  <2> QED BY <1>1, <1>3, <2>1, Constants, ModInjective
<1>7. IsEmpty(m_head[j].val, tail) <=> b = Popped
  BY <1>2, <1>6, Words DEF IsEmpty
<1>8. Acquire(csync, m_head[j]) \in Nat /\ Acquire(csync, m_head[j]) >= j - 1
  BY <1>1, <1>2 DEF Acquire, RingInv, TypeOK, b
<1> QED BY <1>1, <1>3, <1>5, <1>7, <1>8 DEF b

\* The destructor's index, and when its loop ends.
LEMMA DrainWords ==
  ASSUME RingInv
  PROVE  /\ slot_ptr(DrainIndex) = (Popped + drained) % kCapacity
         /\ (Popped + drained) % kCapacity \in Slots
         /\ DrainIndex = head <=> drained = Pushed - Popped
         /\ drained \in 0..(Pushed - Popped)
<1> DEFINE n == Popped + drained
<1>1. drained \in 0..(Pushed - Popped)
  BY DEF RingInv, LifeOK
<1>2. n \in Int /\ Popped \in Int /\ Pushed \in Int /\ drained \in Int
      /\ n - Pushed < Word /\ Pushed - n < Word
  BY <1>1, Counts, Constants
<1>3. DrainIndex = n % Word
  <2>1. ((Popped % Word) + drained) % Word = (Popped + drained) % Word
    BY <1>2, Constants, ModAdd
  <2> QED BY <2>1, Words DEF DrainIndex
<1> HIDE DEF n
<1>4. (n % Word) % kCapacity = n % kCapacity /\ n % kCapacity \in Slots
  BY <1>2, Constants, ModMod, DivMod DEF Slots
<1>5. n % Word = Pushed % Word <=> n = Pushed
  BY <1>2, Constants, ModInjective
<1>6. n = Pushed <=> drained = Pushed - Popped
  BY <1>2 DEF n
<1>7. slot_ptr(DrainIndex) = n % kCapacity
  BY <1>3, <1>4 DEF slot_ptr
<1>8. DrainIndex = head <=> drained = Pushed - Popped
  BY <1>3, <1>5, <1>6, Words
<1> QED BY <1>1, <1>4, <1>7, <1>8 DEF n

-----------------------------------------------------------------------------
(* Every step keeps RingInv.                                               *)

\* The constructed queue (indices zero, no slot alive) satisfies RingInv.
LEMMA InitInv == Init => RingInv
<1> SUFFICES ASSUME Init PROVE RingInv
  OBVIOUS
<1>1. 0 % Word = 0
  BY Constants, ModSmall
<1>2. TypeOK
  BY Constants DEF Init, TypeOK, Message
<1>3. OrdersOK
  BY <1>1 DEF Init, OrdersOK
<1>4. Pushed = 0 /\ Popped = 0 /\ FirstIndex = 0 /\ LastIndex = 0
  BY DEF Init, Pushed, Popped, FirstIndex, LastIndex
<1>5. ViewsOK /\ StampsOK /\ LifeOK
  BY <1>4, Constants DEF Init, ViewsOK, StampsOK, LifeOK
<1>6. StorageOK
  <2>1. \A n \in Nat : n % kCapacity \in Slots
    BY Constants, DivMod DEF Slots
  <2> QED BY <1>4, <2>1, Constants DEF Init, StorageOK
<1> QED BY <1>2, <1>3, <1>5, <1>6 DEF RingInv

\* Loads, queries and exceptions leave the ring's contents and both counts
\* alone.
LEMMA QuietFrame ==
  ASSUME RingInv, UNCHANGED <<m_head, m_tail, m_storage, drained>>,
         ppc' = "publish" <=> ppc = "publish", cpc' = "retire" <=> cpc = "retire"
  PROVE  /\ Pushed' = Pushed /\ Popped' = Popped
         /\ FirstIndex' = FirstIndex /\ LastIndex' = LastIndex
         /\ OrdersOK'
         /\ (ppc' = "construct" => item' \in Value) => StorageOK'
<1>1. Pushed' = Pushed /\ Popped' = Popped
  BY DEF Pushed, Popped
<1>2. FirstIndex' = FirstIndex /\ LastIndex' = LastIndex
  BY <1>1 DEF FirstIndex, LastIndex
<1>3. OrdersOK'
  BY DEF RingInv, OrdersOK
<1>4. (ppc' = "construct" => item' \in Value) => StorageOK'
  BY <1>2 DEF RingInv, StorageOK
<1> QED BY <1>1, <1>2, <1>3, <1>4

\* A step of the producer that only loads m_tail.
LEMMA ProducerLoadInv ==
  ASSUME RingInv, NEW j \in ProducerLoads,
         UNCHANGED <<m_head, m_tail, ring, consumer, life>>,
         qpc = "live", ppc = "idle", ppc' \in {"idle", "construct"},
         pseen' = j, psync' \in Nat, item' \in Value \cup {None},
         proom' \in 0..kCapacity, Pushed + proom' <= (j - 1) + kCapacity,
         ppc' = "construct" =>
           item' \in Value /\ Pushed - (j - 1) < kCapacity /\ psync' >= j - 1
  PROVE  RingInv'
<1> USE DEF ring, consumer, life
<1>1. Pushed' = Pushed /\ Popped' = Popped /\ OrdersOK' /\ StorageOK'
  BY QuietFrame DEF RingInv, StorageOK
<1>2. /\ j \in 1..Len(m_tail) /\ j \in Nat /\ j >= pseen
      /\ Pushed - (j - 1) \in 0..kCapacity
  BY ProducerDistance
<1>3. TypeOK'
  BY <1>2 DEF RingInv, TypeOK
<1>4. ViewsOK'
  <2>1. Popped <= cseen - 1 /\ Popped + cavail <= cseen - 1
    BY DEF RingInv, ViewsOK
  <2>2. cpc # "idle" => Popped < cseen - 1 /\ csync >= cseen - 1
    BY DEF RingInv, ViewsOK
  <2>3. Pushed - (j - 1) <= kCapacity
    BY <1>2, Constants
  <2> QED BY <1>1, <2>1, <2>2, <2>3 DEF ViewsOK
<1>5. StampsOK' /\ LifeOK'
  BY <1>1 DEF RingInv, StampsOK, LifeOK
<1> QED BY <1>1, <1>3, <1>4, <1>5 DEF RingInv

\* A step of the consumer that only loads m_head.
LEMMA ConsumerLoadInv ==
  ASSUME RingInv, NEW j \in ConsumerLoads,
         UNCHANGED <<m_head, m_tail, ring, producer, out, life>>,
         qpc = "live", cpc = "idle", cpc' \in {"idle", "take"},
         cseen' = j, csync' \in Nat,
         cavail' \in 0..kCapacity, Popped + cavail' <= j - 1,
         cpc' = "take" => Popped < j - 1 /\ csync' >= j - 1
  PROVE  RingInv'
<1> USE DEF ring, producer, life
<1>1. Pushed' = Pushed /\ Popped' = Popped /\ OrdersOK' /\ StorageOK'
  BY QuietFrame DEF RingInv, StorageOK
<1>2. j \in 1..Len(m_head) /\ j \in Nat /\ Popped <= j - 1
  BY ConsumerDistance, Counts
<1>3. TypeOK'
  BY <1>2 DEF RingInv, TypeOK
<1>4. ViewsOK'
  BY <1>1, <1>2 DEF RingInv, ViewsOK
<1>5. StampsOK' /\ LifeOK'
  BY <1>1 DEF RingInv, StampsOK, LifeOK
<1> QED BY <1>1, <1>3, <1>4, <1>5 DEF RingInv

\* push and emplace up to the check of the ring (89-95, 107-114), for every
\* head of the ring the producer may read, keep RingInv.
LEMMA ProducerLoadsInv ==
  ASSUME RingInv, NEW j \in ProducerLoads,
         \/ EmplaceFull(j) \/ \E v \in Value : EmplaceRoom(v, j)
         \/ ProducerSize(j) \/ ProducerEmpty(j) \/ ProducerFull(j)
  PROVE  RingInv'
<1>1. /\ Distance(head, m_tail[j].val) = Pushed - (j - 1)
      /\ Pushed - (j - 1) \in 0..kCapacity /\ j \in Nat /\ j >= pseen
      /\ Acquire(psync, m_tail[j]) \in Nat /\ Acquire(psync, m_tail[j]) >= j - 1
  BY ProducerDistance
<1>2. /\ Pushed \in Nat /\ pseen \in Nat /\ psync \in Nat
      /\ proom \in 0..kCapacity /\ kCapacity \in Nat \ {0}
      /\ item \in Value \cup {None}
      /\ Pushed + proom <= (pseen - 1) + kCapacity
  BY Counts, Constants DEF RingInv, TypeOK, ViewsOK
<1>3. Pushed + proom <= (j - 1) + kCapacity
  BY <1>1, <1>2
<1>4. CASE EmplaceFull(j)
  BY <1>1, <1>2, <1>3, <1>4, ProducerLoadInv DEF EmplaceFull
<1>5. CASE \E v \in Value : EmplaceRoom(v, j)
  <2>1. PICK v \in Value : EmplaceRoom(v, j)
    BY <1>5
  <2>2. Pushed - (j - 1) < kCapacity
    BY <1>1, <1>2, <2>1 DEF EmplaceRoom, IsFull
  <2> QED BY <1>1, <1>2, <1>3, <2>1, <2>2, ProducerLoadInv DEF EmplaceRoom
<1>6. CASE ProducerSize(j)
  <2>1. /\ proom' = kCapacity - (Pushed - (j - 1))
        /\ proom' \in 0..kCapacity /\ Pushed + proom' <= (j - 1) + kCapacity
    BY <1>1, <1>2, <1>6 DEF ProducerSize
  <2> QED BY <1>2, <1>6, <2>1, ProducerLoadInv DEF ProducerSize
<1>7. CASE ProducerEmpty(j)
  <2>1. (head - m_tail[j].val) % Word = 0
    <3>1. head - m_tail[j].val = 0
      <4>1. head \in Int
        BY <1>2, Words, Constants, DivMod
      <4> QED BY <1>7, <4>1 DEF ProducerEmpty, IsEmpty
    <3> QED BY <3>1, Constants, ModSmall
  <2>2. Pushed - (j - 1) = 0
    BY <1>1, <2>1 DEF Distance
  <2>3. proom' \in 0..kCapacity /\ Pushed + proom' <= (j - 1) + kCapacity
    BY <1>1, <1>2, <1>7, <2>2 DEF ProducerEmpty
  <2> QED BY <1>2, <1>7, <2>3, ProducerLoadInv DEF ProducerEmpty
<1>8. CASE ProducerFull(j)
  <2>1. proom' \in 0..kCapacity /\ Pushed + proom' <= (j - 1) + kCapacity
    BY <1>1, <1>2, <1>8 DEF ProducerFull, IsFull
  <2> QED BY <1>1, <1>2, <1>8, <2>1, ProducerLoadInv DEF ProducerFull
<1> QED BY <1>4, <1>5, <1>6, <1>7, <1>8

\* pop up to the check of the ring (127-134), for every value of the other
\* index the consumer may read, keeps RingInv.
LEMMA ConsumerLoadsInv ==
  ASSUME RingInv, NEW j \in ConsumerLoads,
         \/ PopEmpty(j) \/ PopSome(j)
         \/ ConsumerSize(j) \/ ConsumerEmpty(j) \/ ConsumerFull(j)
  PROVE  RingInv'
<1>1. /\ Distance(m_head[j].val, tail) = (j - 1) - Popped
      /\ (j - 1) - Popped \in 0..kCapacity /\ j \in Nat /\ j >= cseen
      /\ Acquire(csync, m_head[j]) \in Nat /\ Acquire(csync, m_head[j]) >= j - 1
      /\ IsEmpty(m_head[j].val, tail) <=> j - 1 = Popped
  BY ConsumerDistance
<1>2. /\ Popped \in Nat /\ cseen \in Nat /\ csync \in Nat
      /\ cavail \in 0..kCapacity /\ kCapacity \in Nat \ {0}
      /\ Popped + cavail <= cseen - 1
  BY Counts, Constants DEF RingInv, TypeOK, ViewsOK
<1>3. Popped + cavail <= j - 1
  BY <1>1, <1>2
<1>4. CASE PopEmpty(j)
  BY <1>1, <1>2, <1>3, <1>4, ConsumerLoadInv DEF PopEmpty
<1>5. CASE PopSome(j)
  <2>1. Popped < j - 1
    BY <1>1, <1>2, <1>5 DEF PopSome
  <2> QED BY <1>1, <1>2, <1>3, <1>5, <2>1, ConsumerLoadInv DEF PopSome
<1>6. CASE ConsumerSize(j)
  <2>1. cavail' \in 0..kCapacity /\ Popped + cavail' <= j - 1
    BY <1>1, <1>2, <1>6 DEF ConsumerSize
  <2> QED BY <1>1, <1>6, <2>1, ConsumerLoadInv DEF ConsumerSize
<1>7. CASE ConsumerEmpty(j)
  <2>1. cavail' \in 0..kCapacity /\ Popped + cavail' <= j - 1
    BY <1>1, <1>2, <1>7 DEF ConsumerEmpty
  <2> QED BY <1>1, <1>7, <2>1, ConsumerLoadInv DEF ConsumerEmpty
<1>8. CASE ConsumerFull(j)
  <2>1. cavail' \in 0..kCapacity /\ Popped + cavail' <= j - 1
    BY <1>1, <1>2, <1>8 DEF ConsumerFull, IsFull
  <2> QED BY <1>1, <1>2, <1>8, <2>1, ConsumerLoadInv DEF ConsumerFull
<1> QED BY <1>4, <1>5, <1>6, <1>7, <1>8

\* The live indices are at most one lap apart.
LEMMA Window ==
  ASSUME RingInv
  PROVE  /\ FirstIndex \in Nat /\ LastIndex \in Nat
         /\ Popped <= FirstIndex /\ FirstIndex <= Pushed
         /\ Pushed <= LastIndex /\ LastIndex <= Popped + kCapacity
<1>1. /\ Pushed \in Nat /\ Popped \in Nat /\ kCapacity \in Nat /\ drained \in Nat
      /\ Popped + drained <= Pushed /\ Pushed <= Popped + kCapacity
      /\ pseen - 1 <= Popped /\ cseen - 1 <= Pushed /\ pseen \in Nat /\ cseen \in Nat
  BY Counts, Constants DEF RingInv, LifeOK
<1>2. cpc = "retire" => drained = 0 /\ Popped < cseen - 1
  BY DEF RingInv, TypeOK, LifeOK, ViewsOK
<1>3. ppc = "publish" => Pushed - (pseen - 1) < kCapacity
  BY DEF RingInv, ViewsOK
<1>4. FirstIndex \in Nat /\ Popped <= FirstIndex /\ FirstIndex <= Pushed
  BY <1>1, <1>2 DEF FirstIndex
<1>5. LastIndex \in Nat /\ Pushed <= LastIndex /\ LastIndex <= Popped + kCapacity
  BY <1>1, <1>3 DEF LastIndex
<1> QED BY <1>4, <1>5

\* Any index selects an existing slot.
LEMMA SlotInRange ==
  ASSUME NEW n \in Int PROVE n % kCapacity \in Slots
  BY Constants, DivMod DEF Slots

\* emplace constructs its argument in the slot of index Pushed.
LEMMA EmplaceConstructInv ==
  ASSUME RingInv, EmplaceConstruct PROVE RingInv'
<1> USE DEF EmplaceConstruct, consumer, life
<1> DEFINE i == Pushed % kCapacity
<1>1. slot_ptr(head) = i /\ i \in Slots
  BY Words
<1>2. item \in Value /\ item # None
  BY ConstantsAssumption DEF RingInv, StorageOK
<1>3. /\ Pushed' = Pushed /\ Popped' = Popped /\ FirstIndex' = FirstIndex
      /\ LastIndex = Pushed /\ LastIndex' = Pushed + 1
  BY Counts DEF Pushed, Popped, FirstIndex, LastIndex
<1>4. Pushed - Popped < kCapacity /\ Pushed \in Nat /\ Popped \in Nat
      /\ kCapacity \in Nat \ {0}
  BY Counts, Constants DEF RingInv, ViewsOK
<1>5. FirstIndex \in Nat /\ Popped <= FirstIndex /\ FirstIndex <= Pushed
  BY Window
<1>6. TypeOK'
  BY <1>1, <1>2 DEF RingInv, TypeOK, Pushed
<1>7. OrdersOK' /\ LifeOK'
  BY <1>3 DEF RingInv, OrdersOK, LifeOK
<1>8. ViewsOK'
  BY <1>3 DEF RingInv, ViewsOK
<1>9. StampsOK'
  <2>1. lastPut \in [Slots -> Nat] /\ lastTake' = lastTake
    BY DEF RingInv, TypeOK
  <2>2. lastPut'[i] - 1 = Pushed
    BY <1>1, <1>4, <2>1 DEF Pushed
  <2>3. \A k \in Slots : k # i => lastPut'[k] = lastPut[k]
    BY <1>1, <2>1
  <2> QED BY <1>1, <1>3, <1>4, <2>1, <2>2, <2>3 DEF RingInv, StampsOK
<1>10. StorageOK'
  <2>1. m_storage \in [Slots -> Value \cup {None}]
    BY DEF RingInv, TypeOK
  <2>2. m_storage'[i] = item
    BY <1>1, <2>1
  <2>3. ASSUME NEW n \in Int, n # Pushed, n - Pushed < kCapacity, Pushed - n < kCapacity
        PROVE  m_storage'[n % kCapacity] = m_storage[n % kCapacity]
    <3>1. Pushed \in Int
      BY <1>4
    <3>2. n % kCapacity # Pushed % kCapacity
      BY <1>4, <2>3, <3>1, ModInjective
    <3> QED BY <1>1, <2>1, <3>2, SlotInRange
  <2>4. \A n \in FirstIndex..Pushed : m_storage'[n % kCapacity] # None
    <3> TAKE n \in FirstIndex..Pushed
    <3>1. CASE n = Pushed
      BY <1>2, <2>2, <3>1
    <3>2. CASE n # Pushed
      <4>1. n \in FirstIndex..(LastIndex - 1) /\ n \in Int
            /\ n - Pushed < kCapacity /\ Pushed - n < kCapacity
        BY <1>3, <1>4, <1>5, <3>2
      <4>2. m_storage[n % kCapacity] # None
        BY <4>1 DEF RingInv, StorageOK
      <4> QED BY <2>3, <3>2, <4>1, <4>2
    <3> QED BY <3>1, <3>2
  <2>5. \A n \in (Pushed + 1)..(FirstIndex + kCapacity - 1) : m_storage'[n % kCapacity] = None
    <3> TAKE n \in (Pushed + 1)..(FirstIndex + kCapacity - 1)
    <3>1. n \in LastIndex..(FirstIndex + kCapacity - 1) /\ n \in Int /\ n # Pushed
          /\ n - Pushed < kCapacity /\ Pushed - n < kCapacity
      BY <1>3, <1>4, <1>5
    <3>2. m_storage[n % kCapacity] = None
      BY <3>1 DEF RingInv, StorageOK
    <3> QED BY <2>3, <3>1, <3>2
  <2>6. (LastIndex - 1)' = Pushed
    BY <1>3, <1>4
  <2> QED BY <1>3, <2>4, <2>5, <2>6 DEF StorageOK
<1> QED BY <1>6, <1>7, <1>8, <1>9, <1>10 DEF RingInv

\* A constructor that throws leaves only its stamp on the slot.
LEMMA EmplaceThrowInv ==
  ASSUME RingInv, EmplaceThrow PROVE RingInv'
<1> USE DEF EmplaceThrow, consumer, life
<1> DEFINE i == Pushed % kCapacity
<1>1. slot_ptr(head) = i /\ i \in Slots
  BY Words
<1>2. Pushed' = Pushed /\ Popped' = Popped /\ OrdersOK' /\ StorageOK'
  BY QuietFrame
<1>3. Pushed - Popped < kCapacity /\ Pushed \in Nat /\ Popped \in Nat
      /\ kCapacity \in Nat \ {0}
  BY Counts, Constants DEF RingInv, ViewsOK
<1>4. TypeOK'
  BY <1>1 DEF RingInv, TypeOK
<1>5. ViewsOK' /\ LifeOK'
  BY <1>2 DEF RingInv, ViewsOK, LifeOK
<1>6. StampsOK'
  <2>1. lastPut \in [Slots -> Nat] /\ lastTake' = lastTake
    BY DEF RingInv, TypeOK
  <2>2. lastPut'[i] - 1 = Pushed
    BY <1>1, <1>3, <2>1 DEF Pushed
  <2>3. \A k \in Slots : k # i => lastPut'[k] = lastPut[k]
    BY <1>1, <2>1
  <2> QED BY <1>1, <1>2, <1>3, <2>1, <2>2, <2>3 DEF RingInv, StampsOK
<1> QED BY <1>2, <1>4, <1>5, <1>6 DEF RingInv

\* The k-th store of an index, whichever thread appends it.
LEMMA ReleaseOrder ==
  ASSUME NEW order \in Seq(Message), Len(order) > 0,
         \A k \in 1..Len(order) : order[k].val = (k - 1) % Word /\ order[k].sync = k - 1
  PROVE  LET new == Release(order, Inc(Own(order)))
         IN  /\ new \in Seq(Message) /\ Len(new) = Len(order) + 1
             /\ \A k \in 1..Len(new) : new[k].val = (k - 1) % Word /\ new[k].sync = k - 1
<1> DEFINE n == Len(order)
<1> DEFINE a == n - 1
<1> DEFINE msg == [val |-> Inc(Own(order)), sync |-> n]
<1>1. n \in Nat /\ n \in Int /\ n > 0 /\ a \in Int /\ a + 1 = n
  OBVIOUS
<1>2. Own(order) = a % Word
  BY <1>1 DEF Own
<1> HIDE DEF n, a
<1>3. Inc(Own(order)) = n % Word
  <2> DEFINE one == 1
  <2>1. one \in Int
    OBVIOUS
  <2> HIDE DEF one
  <2>2. ((a % Word) + one) % Word = (a + one) % Word
    BY <1>1, <2>1, Constants, ModAdd
  <2> QED BY <1>1, <1>2, <2>2 DEF Inc, one
<1>4. msg \in Message
  <2>1. n % Word \in 0..(Word - 1)
    BY <1>1, Constants, DivMod
  <2> QED BY <1>1, <1>3, <2>1 DEF Message
<1>5. msg.val = n % Word /\ msg.sync = n
  BY <1>3
<1> HIDE DEF msg
<1>6. Release(order, Inc(Own(order))) = Append(order, msg)
  BY DEF Release, msg, n
<1>7. /\ Append(order, msg) \in Seq(Message) /\ Len(Append(order, msg)) = n + 1
      /\ \A k \in 1..(n + 1) : Append(order, msg)[k] = IF k = n + 1 THEN msg ELSE order[k]
  BY <1>1, <1>4 DEF n
<1>8. \A k \in 1..(n + 1) : /\ Append(order, msg)[k].val = (k - 1) % Word
                            /\ Append(order, msg)[k].sync = k - 1
  <2> TAKE k \in 1..(n + 1)
  <2>1. CASE k = n + 1
    BY <1>1, <1>5, <1>7, <2>1
  <2>2. CASE k # n + 1
    <3>1. k \in 1..n
      BY <1>1, <2>2
    <3> QED BY <1>7, <2>2, <3>1 DEF n
  <2> QED BY <2>1, <2>2
<1> QED BY <1>6, <1>7, <1>8 DEF n

\* emplace's release store makes the constructed element the newest one.
LEMMA EmplacePublishInv ==
  ASSUME RingInv, EmplacePublish PROVE RingInv'
<1> USE DEF EmplacePublish, ring, consumer, life
<1>1. /\ m_head' \in Seq(Message) /\ Len(m_head') = Len(m_head) + 1
      /\ \A k \in 1..Len(m_head') : m_head'[k].val = (k - 1) % Word /\ m_head'[k].sync = k - 1
  BY ReleaseOrder DEF RingInv, TypeOK, OrdersOK, head
<1>2. /\ Pushed' = Pushed + 1 /\ Popped' = Popped
      /\ LastIndex' = LastIndex /\ FirstIndex' = FirstIndex
  BY <1>1, Counts DEF Pushed, Popped, LastIndex, FirstIndex, RingInv, TypeOK
<1>3. Pushed \in Nat /\ Popped \in Nat /\ pseen \in Nat /\ kCapacity \in Nat
      /\ proom \in 0..kCapacity /\ Len(m_head) \in Nat
  BY Counts, Constants DEF RingInv, TypeOK
<1>4. proom' \in 0..kCapacity
  BY <1>3
<1>5. TypeOK'
  BY <1>1, <1>3, <1>4 DEF RingInv, TypeOK
<1>6. OrdersOK'
  BY <1>1 DEF RingInv, OrdersOK
<1>7. ViewsOK'
  <2>1. Pushed - (pseen - 1) < kCapacity /\ Pushed + proom <= (pseen - 1) + kCapacity
    BY DEF RingInv, ViewsOK
  <2>2. /\ (Pushed + 1) - (pseen - 1) <= kCapacity
        /\ (Pushed + 1) + proom' <= (pseen - 1) + kCapacity
    BY <1>3, <2>1
  <2> QED BY <1>2, <2>2 DEF RingInv, ViewsOK
<1>8. StampsOK'
  BY <1>2, <1>3 DEF RingInv, TypeOK, StampsOK
<1>9. StorageOK'
  BY <1>2 DEF RingInv, StorageOK
<1>10. LifeOK'
  BY <1>2, <1>3 DEF RingInv, TypeOK, LifeOK
<1> QED BY <1>5, <1>6, <1>7, <1>8, <1>9, <1>10 DEF RingInv

\* Destroying the oldest element empties exactly its slot.
LEMMA RemoveFirst ==
  ASSUME RingInv, FirstIndex < LastIndex,
         m_storage' = [m_storage EXCEPT ![FirstIndex % kCapacity] = None]
  PROVE  /\ \A n \in (FirstIndex + 1)..(LastIndex - 1) : m_storage'[n % kCapacity] # None
         /\ \A n \in LastIndex..(FirstIndex + kCapacity) : m_storage'[n % kCapacity] = None
<1>1. /\ FirstIndex \in Nat /\ FirstIndex \in Int /\ LastIndex \in Nat
      /\ kCapacity \in Nat \ {0} /\ LastIndex <= FirstIndex + kCapacity
  BY Window, Counts, Constants
<1>2. m_storage \in [Slots -> Value \cup {None}]
  BY DEF RingInv, TypeOK
<1>3. m_storage'[FirstIndex % kCapacity] = None
  BY <1>1, <1>2, SlotInRange
<1>4. ASSUME NEW n \in Int, n # FirstIndex, n - FirstIndex < kCapacity, FirstIndex - n < kCapacity
      PROVE  m_storage'[n % kCapacity] = m_storage[n % kCapacity]
  <2>1. n % kCapacity # FirstIndex % kCapacity
    BY <1>1, <1>4, ModInjective
  <2> QED BY <1>1, <1>2, <2>1, SlotInRange
<1>5. \A n \in (FirstIndex + 1)..(LastIndex - 1) : m_storage'[n % kCapacity] # None
  <2> TAKE n \in (FirstIndex + 1)..(LastIndex - 1)
  <2>1. n \in FirstIndex..(LastIndex - 1) /\ n \in Int /\ n # FirstIndex
        /\ n - FirstIndex < kCapacity /\ FirstIndex - n < kCapacity
    BY <1>1
  <2>2. m_storage[n % kCapacity] # None
    BY <2>1 DEF RingInv, StorageOK
  <2> QED BY <1>4, <2>1, <2>2
<1>6. \A n \in LastIndex..(FirstIndex + kCapacity) : m_storage'[n % kCapacity] = None
  <2> TAKE n \in LastIndex..(FirstIndex + kCapacity)
  <2>1. CASE n = FirstIndex + kCapacity
    <3>1. n % kCapacity = FirstIndex % kCapacity
      BY <1>1, <2>1, ModLap
    <3> QED BY <1>3, <3>1
  <2>2. CASE n # FirstIndex + kCapacity
    <3>1. n \in LastIndex..(FirstIndex + kCapacity - 1) /\ n \in Int /\ n # FirstIndex
          /\ n - FirstIndex < kCapacity /\ FirstIndex - n < kCapacity
      BY <1>1, <2>2
    <3>2. m_storage[n % kCapacity] = None
      BY <3>1 DEF RingInv, StorageOK
    <3> QED BY <1>4, <3>1, <3>2
  <2> QED BY <2>1, <2>2
<1> QED BY <1>5, <1>6

\* pop moves the oldest element out of its slot and destroys what is left.
LEMMA PopTakeInv ==
  ASSUME RingInv, PopTake PROVE RingInv'
<1> USE DEF PopTake, producer, life
<1> DEFINE i == Popped % kCapacity
<1>1. slot_ptr(tail) = i /\ i \in Slots
  BY Words
<1>2. /\ Pushed' = Pushed /\ Popped' = Popped /\ LastIndex' = LastIndex
      /\ FirstIndex = Popped /\ FirstIndex' = FirstIndex + 1
  BY Counts DEF Pushed, Popped, FirstIndex, LastIndex, RingInv, LifeOK
<1>3. /\ Popped < Pushed /\ Popped \in Nat /\ Pushed \in Nat /\ kCapacity \in Nat
      /\ FirstIndex < LastIndex /\ FirstIndex \in Nat /\ LastIndex \in Nat
  BY <1>2, Counts, Window, Constants DEF RingInv, ViewsOK
<1>4. TypeOK'
  BY <1>1, <1>3 DEF RingInv, TypeOK, Popped
<1>5. OrdersOK' /\ LifeOK'
  BY <1>2 DEF RingInv, OrdersOK, LifeOK
<1>6. ViewsOK'
  BY <1>2 DEF RingInv, ViewsOK
<1>7. StampsOK'
  <2>1. lastTake \in [Slots -> Nat] /\ lastPut' = lastPut
    BY DEF RingInv, TypeOK
  <2>2. lastTake'[i] - 1 = Popped
    BY <1>1, <1>3, <2>1 DEF Popped
  <2>3. \A k \in Slots : k # i => lastTake'[k] = lastTake[k]
    BY <1>1, <2>1
  <2> QED BY <1>1, <1>2, <1>3, <2>1, <2>2, <2>3 DEF RingInv, StampsOK
<1>8. StorageOK'
  <2>1. (FirstIndex + kCapacity - 1)' = FirstIndex + kCapacity
    BY <1>2, <1>3
  <2> QED BY <1>1, <1>2, <1>3, <2>1, RemoveFirst DEF RingInv, StorageOK
<1> QED BY <1>4, <1>5, <1>6, <1>7, <1>8 DEF RingInv

\* A move assignment that throws leaves only its stamp on the slot.
LEMMA PopThrowInv ==
  ASSUME RingInv, PopThrow PROVE RingInv'
<1> USE DEF PopThrow, producer, life
<1> DEFINE i == Popped % kCapacity
<1>1. slot_ptr(tail) = i /\ i \in Slots
  BY Words
<1>2. Pushed' = Pushed /\ Popped' = Popped /\ OrdersOK' /\ StorageOK'
  BY QuietFrame DEF RingInv, StorageOK
<1>3. Popped < Pushed /\ Popped \in Nat /\ Pushed \in Nat /\ kCapacity \in Nat
  BY Counts, Constants DEF RingInv, ViewsOK
<1>4. TypeOK'
  BY <1>1 DEF RingInv, TypeOK
<1>5. ViewsOK' /\ LifeOK'
  BY <1>2 DEF RingInv, ViewsOK, LifeOK
<1>6. StampsOK'
  <2>1. lastTake \in [Slots -> Nat] /\ lastPut' = lastPut
    BY DEF RingInv, TypeOK
  <2>2. lastTake'[i] - 1 = Popped
    BY <1>1, <1>3, <2>1 DEF Popped
  <2>3. \A k \in Slots : k # i => lastTake'[k] = lastTake[k]
    BY <1>1, <2>1
  <2> QED BY <1>1, <1>2, <1>3, <2>1, <2>2, <2>3 DEF RingInv, StampsOK
<1> QED BY <1>2, <1>4, <1>5, <1>6 DEF RingInv

\* pop's release store gives the slot back.
LEMMA PopRetireInv ==
  ASSUME RingInv, PopRetire PROVE RingInv'
<1> USE DEF PopRetire, ring, producer, life
<1>1. /\ m_tail' \in Seq(Message) /\ Len(m_tail') = Len(m_tail) + 1
      /\ \A k \in 1..Len(m_tail') : m_tail'[k].val = (k - 1) % Word /\ m_tail'[k].sync = k - 1
  BY ReleaseOrder DEF RingInv, TypeOK, OrdersOK, tail
<1>2. qpc = "live" /\ drained = 0
  BY DEF RingInv, TypeOK, LifeOK
<1>3. /\ Popped' = Popped + 1 /\ Pushed' = Pushed
      /\ LastIndex' = LastIndex /\ FirstIndex' = FirstIndex
  BY <1>1, <1>2, Counts DEF Pushed, Popped, LastIndex, FirstIndex, RingInv, TypeOK
<1>4. Pushed \in Nat /\ Popped \in Nat /\ cseen \in Nat /\ kCapacity \in Nat
      /\ cavail \in 0..kCapacity /\ Len(m_tail) \in Nat /\ cseen - 1 <= Pushed
  BY Counts, Constants DEF RingInv, TypeOK
<1>5. cavail' \in 0..kCapacity
  BY <1>4
<1>6. TypeOK'
  BY <1>1, <1>4, <1>5 DEF RingInv, TypeOK
<1>7. OrdersOK'
  BY <1>1 DEF RingInv, OrdersOK
<1>8. Popped < cseen - 1 /\ Popped + cavail <= cseen - 1
  BY DEF RingInv, ViewsOK
<1>9. ViewsOK'
  <2>1. Popped + 1 <= cseen - 1 /\ (Popped + 1) + cavail' <= cseen - 1
    BY <1>4, <1>8
  <2> QED BY <1>3, <2>1 DEF RingInv, ViewsOK
<1>10. StampsOK'
  BY <1>3, <1>4 DEF RingInv, TypeOK, StampsOK
<1>11. StorageOK'
  BY <1>3 DEF RingInv, StorageOK
<1>12. LifeOK'
  BY <1>2, <1>3, <1>4, <1>8 DEF RingInv, LifeOK
<1> QED BY <1>6, <1>7, <1>9, <1>10, <1>11, <1>12 DEF RingInv

\* The destructor's loop.
LEMMA DestructorInv ==
  ASSUME RingInv, Destructor PROVE RingInv'
<1> USE DEF ring, producer, consumer
<1>1. CASE DtorBegin
  <2> USE <1>1 DEF DtorBegin
  <2>1. Pushed' = Pushed /\ Popped' = Popped /\ OrdersOK' /\ StorageOK'
    BY QuietFrame DEF RingInv, StorageOK
  <2> QED BY <2>1 DEF RingInv, TypeOK, ViewsOK, StampsOK, LifeOK
<1>2. CASE DtorDestroy
  <2> USE <1>2 DEF DtorDestroy
  <2>1. /\ slot_ptr(DrainIndex) = (Popped + drained) % kCapacity
        /\ (Popped + drained) % kCapacity \in Slots
        /\ drained # Pushed - Popped /\ drained \in 0..(Pushed - Popped)
        /\ Popped \in Nat /\ Pushed \in Nat /\ kCapacity \in Nat
    BY DrainWords, Counts, Constants
  <2>2. ppc = "idle" /\ cpc = "idle"
    BY DEF RingInv, LifeOK
  <2>3. /\ Pushed' = Pushed /\ Popped' = Popped /\ LastIndex' = LastIndex
        /\ FirstIndex = Popped + drained /\ FirstIndex' = FirstIndex + 1
        /\ LastIndex = Pushed
    BY <2>1, <2>2 DEF Pushed, Popped, FirstIndex, LastIndex
  <2>4. StorageOK'
    <3>1. (FirstIndex + kCapacity - 1)' = FirstIndex + kCapacity
      BY <2>1, <2>3
    <3>2. FirstIndex < LastIndex
      BY <2>1, <2>3
    <3> QED BY <2>1, <2>2, <2>3, <3>1, <3>2, RemoveFirst DEF StorageOK
  <2>5. TypeOK'
    BY <2>1 DEF RingInv, TypeOK
  <2>6. OrdersOK' /\ ViewsOK' /\ StampsOK'
    BY <2>3 DEF RingInv, OrdersOK, ViewsOK, StampsOK
  <2>7. LifeOK'
    BY <2>1, <2>2, <2>3 DEF RingInv, LifeOK
  <2> QED BY <2>4, <2>5, <2>6, <2>7 DEF RingInv
<1>3. CASE DtorEnd
  <2> USE <1>3 DEF DtorEnd
  <2>1. Pushed' = Pushed /\ Popped' = Popped /\ OrdersOK' /\ StorageOK'
    BY QuietFrame DEF RingInv, StorageOK
  <2>2. drained = Pushed - Popped
    BY DrainWords
  <2> QED BY <2>1, <2>2 DEF RingInv, TypeOK, ViewsOK, StampsOK, LifeOK
<1> QED BY <1>1, <1>2, <1>3 DEF Destructor

-----------------------------------------------------------------------------
(* The safety theorems.                                                    *)

\* RingInv holds of the empty ring and every step of either thread, and of
\* the destructor, keeps it.
THEOREM RingInvariant == Spec => []RingInv
<1>1. RingInv /\ [Next]_vars => RingInv'
  <2> SUFFICES ASSUME RingInv, [Next]_vars PROVE RingInv'
    OBVIOUS
  <2>1. CASE UNCHANGED vars
    BY <2>1 DEF vars, ring, producer, consumer, life, RingInv, TypeOK, OrdersOK,
       ViewsOK, StampsOK, StorageOK, LifeOK, Pushed, Popped, FirstIndex, LastIndex
  <2>2. CASE Producer
    BY <2>2, ProducerLoadsInv, EmplaceConstructInv, EmplaceThrowInv, EmplacePublishInv
       DEF Producer
  <2>3. CASE Consumer
    BY <2>3, ConsumerLoadsInv, PopTakeInv, PopThrowInv, PopRetireInv DEF Consumer
  <2>4. CASE Destructor
    BY <2>4, DestructorInv
  <2> QED BY <2>1, <2>2, <2>3, <2>4 DEF Next
<1> QED BY <1>1, InitInv, PTL DEF Spec

\* Both indices stay 64-bit words and a slot holds one object or none.
THEOREM TypeCorrect == Spec => []TypeOK
<1>1. RingInv => TypeOK
  BY DEF RingInv
<1> QED BY <1>1, RingInvariant, PTL

\* No data race on a slot, for every capacity and every stale load: the last
\* access of the other thread was made for an index at least one lap back,
\* and the store that handed the slot over released it.
THEOREM RaceFree == Spec => []NoDataRace
<1>1. RingInv => NoDataRace
  <2> SUFFICES ASSUME RingInv PROVE NoDataRace
    OBVIOUS
  <2>0. /\ Pushed \in Nat /\ Popped \in Nat /\ kCapacity \in Nat \ {0}
        /\ pseen \in Nat /\ cseen \in Nat /\ psync \in Nat /\ csync \in Nat
    BY Counts, Constants DEF RingInv, TypeOK
  <2>1. ppc = "construct" => lastTake[slot_ptr(head)] <= psync
    <3> SUFFICES ASSUME ppc = "construct" PROVE lastTake[slot_ptr(head)] <= psync
      OBVIOUS
    <3> DEFINE t == lastTake[Pushed % kCapacity]
    <3>1. slot_ptr(head) = Pushed % kCapacity /\ Pushed % kCapacity \in Slots
      BY Words
    <3>2. t \in Nat
      BY <3>1 DEF RingInv, TypeOK
    <3>3. t > 0 => (t - 1) % kCapacity = Pushed % kCapacity /\ t - 1 < Pushed
      BY <3>1 DEF RingInv, StampsOK
    <3>4. Pushed - (pseen - 1) < kCapacity /\ psync >= pseen - 1
      BY DEF RingInv, ViewsOK
    <3> HIDE DEF t
    <3>5. ASSUME t > psync PROVE FALSE
      <4> DEFINE a == t - 1
      <4>1. a \in Int /\ Pushed \in Int /\ a # Pushed /\ a % kCapacity = Pushed % kCapacity
        BY <2>0, <3>2, <3>3, <3>5
      <4>2. Pushed - a < kCapacity /\ a - Pushed < kCapacity
        BY <2>0, <3>2, <3>3, <3>4, <3>5
      <4> HIDE DEF a
      <4> QED BY <2>0, <4>1, <4>2, ModInjective
    <3> QED BY <2>0, <3>1, <3>2, <3>5 DEF t
  <2>2. cpc = "take" => lastPut[slot_ptr(tail)] <= csync
    <3> SUFFICES ASSUME cpc = "take" PROVE lastPut[slot_ptr(tail)] <= csync
      OBVIOUS
    <3> DEFINE t == lastPut[Popped % kCapacity]
    <3>1. slot_ptr(tail) = Popped % kCapacity /\ Popped % kCapacity \in Slots
      BY Words
    <3>2. t \in Nat
      BY <3>1 DEF RingInv, TypeOK
    <3>3. t > 0 => (t - 1) % kCapacity = Popped % kCapacity /\ t - 1 < Popped + kCapacity
      BY <3>1 DEF RingInv, StampsOK
    <3>4. Popped < cseen - 1 /\ csync >= cseen - 1
      BY DEF RingInv, ViewsOK
    <3> HIDE DEF t
    <3>5. ASSUME t > csync PROVE FALSE
      <4> DEFINE a == t - 1
      <4>1. a \in Int /\ Popped \in Int /\ a # Popped /\ a % kCapacity = Popped % kCapacity
        BY <2>0, <3>2, <3>3, <3>4, <3>5
      <4>2. Popped - a < kCapacity /\ a - Popped < kCapacity
        BY <2>0, <3>2, <3>3, <3>4, <3>5
      <4> HIDE DEF a
      <4> QED BY <2>0, <4>1, <4>2, ModInjective
    <3> QED BY <2>0, <3>1, <3>2, <3>5 DEF t
  <2> QED BY <2>1, <2>2 DEF NoDataRace
<1> QED BY <1>1, RingInvariant, PTL

\* No object is constructed over a live one, and none that is not alive is
\* moved from or destroyed.
THEOREM LifetimesRespected == Spec => []SlotLifetime
<1>1. RingInv => SlotLifetime
  <2> SUFFICES ASSUME RingInv PROVE SlotLifetime
    OBVIOUS
  <2>1. /\ FirstIndex \in Nat /\ LastIndex \in Nat /\ FirstIndex <= Pushed
        /\ Pushed <= LastIndex /\ Popped <= FirstIndex /\ Pushed \in Nat
        /\ Popped \in Nat /\ kCapacity \in Nat \ {0} /\ pseen - 1 <= Popped
        /\ cseen - 1 <= Pushed /\ pseen \in Nat /\ cseen \in Nat
    BY Window, Counts, Constants
  <2>2. ppc = "construct" => m_storage[slot_ptr(head)] = None
    <3> SUFFICES ASSUME ppc = "construct" PROVE m_storage[slot_ptr(head)] = None
      OBVIOUS
    <3>1. LastIndex = Pushed /\ Pushed - (pseen - 1) < kCapacity
      BY <2>1 DEF LastIndex, RingInv, ViewsOK
    <3>2. Pushed \in LastIndex..(FirstIndex + kCapacity - 1)
      BY <2>1, <3>1
    <3> QED BY <3>2, Words DEF RingInv, StorageOK
  <2>3. cpc = "take" => m_storage[slot_ptr(tail)] # None
    <3> SUFFICES ASSUME cpc = "take" PROVE m_storage[slot_ptr(tail)] # None
      OBVIOUS
    <3>1. FirstIndex = Popped /\ Popped < cseen - 1
      BY <2>1 DEF FirstIndex, RingInv, TypeOK, ViewsOK, LifeOK
    <3>2. Popped \in FirstIndex..(LastIndex - 1)
      BY <2>1, <3>1
    <3> QED BY <3>2, Words DEF RingInv, StorageOK
  <2>4. qpc = "draining" /\ DrainIndex # head => m_storage[slot_ptr(DrainIndex)] # None
    <3> SUFFICES ASSUME qpc = "draining", DrainIndex # head
                 PROVE  m_storage[slot_ptr(DrainIndex)] # None
      OBVIOUS
    <3>1. /\ slot_ptr(DrainIndex) = (Popped + drained) % kCapacity
          /\ drained # Pushed - Popped /\ drained \in 0..(Pushed - Popped)
      BY DrainWords
    <3>2. FirstIndex = Popped + drained
      BY <2>1, <3>1 DEF FirstIndex, RingInv, LifeOK
    <3>3. Popped + drained \in FirstIndex..(LastIndex - 1)
      BY <2>1, <3>1, <3>2
    <3> QED BY <3>1, <3>3 DEF RingInv, StorageOK
  <2> QED BY <2>2, <2>3, <2>4 DEF SlotLifetime
<1> QED BY <1>1, RingInvariant, PTL

\* The destructor leaves no object behind.
THEOREM LeakFree == Spec => []NoLeak
<1>1. RingInv => NoLeak
  <2> SUFFICES ASSUME RingInv, qpc = "gone", NEW i \in Slots PROVE m_storage[i] = None
    BY DEF NoLeak
  <2>1. /\ Popped \in Nat /\ Pushed \in Nat /\ Pushed \in Int
        /\ kCapacity \in Nat \ {0} /\ i \in 0..(kCapacity - 1)
    BY Counts, Constants DEF Slots
  <2>2. FirstIndex = Pushed /\ LastIndex = Pushed
    BY <2>1 DEF RingInv, LifeOK, FirstIndex, LastIndex
  <2>3. PICK n \in Pushed..((Pushed + kCapacity) - 1) : n % kCapacity = i
    BY <2>1, ModSurjective
  <2>4. n \in LastIndex..(FirstIndex + kCapacity - 1)
    BY <2>1, <2>2, <2>3
  <2>5. m_storage[n % kCapacity] = None
    BY <2>4 DEF RingInv, StorageOK
  <2> QED BY <2>3, <2>5
<1> QED BY <1>1, RingInvariant, PTL

\* Every value that size(), empty() and full() may return is one of the queue.
LEMMA QueriesSound ==
  ASSUME RingInv
  PROVE  QueryPromise /\ SizeInRange
<1>1. /\ kCapacity \in Nat \ {0} /\ Pushed \in Nat /\ Popped \in Nat
      /\ pseen \in Nat /\ cseen \in Nat /\ proom \in Nat /\ cavail \in Nat
      /\ Pushed + proom <= (pseen - 1) + kCapacity
      /\ Popped + cavail <= cseen - 1
  BY Counts, Constants DEF RingInv, TypeOK, ViewsOK
<1>2. ASSUME NEW j \in ProducerLoads
      PROVE  /\ Distance(head, m_tail[j].val) <= kCapacity
             /\ proom > 0 => ~IsFull(head, m_tail[j].val)
  <2>1. /\ Distance(head, m_tail[j].val) = Pushed - (j - 1)
        /\ Pushed - (j - 1) \in 0..kCapacity /\ j \in Nat /\ j >= pseen
    BY ProducerDistance
  <2> QED BY <1>1, <2>1 DEF IsFull
<1>3. ASSUME NEW j \in ConsumerLoads
      PROVE  /\ Distance(m_head[j].val, tail) <= kCapacity
             /\ cavail > 0 => ~IsEmpty(m_head[j].val, tail)
  <2>1. /\ Distance(m_head[j].val, tail) = (j - 1) - Popped
        /\ (j - 1) - Popped \in 0..kCapacity /\ j \in Nat /\ j >= cseen
        /\ IsEmpty(m_head[j].val, tail) <=> j - 1 = Popped
    BY ConsumerDistance
  <2> QED BY <1>1, <2>1
<1> QED BY <1>2, <1>3 DEF QueryPromise, SizeInRange

\* size(), full() and empty() never lie to the thread that acts on them.
THEOREM PromisesKept == Spec => []QueryPromise
<1>1. RingInv => QueryPromise
  BY QueriesSound
<1> QED BY <1>1, RingInvariant, PTL

\* size() (162-167) never underflows or exceeds the capacity, in either thread
\* and with whatever stale value of the other one's index.
THEOREM SizesInRange == Spec => []SizeInRange
<1>1. RingInv => SizeInRange
  BY QueriesSound
<1> QED BY <1>1, RingInvariant, PTL

-----------------------------------------------------------------------------
(* Refinement.                                                             *)

\* The abstract queue is a sequence of values, no longer than the capacity.
LEMMA ContentsSeq ==
  ASSUME RingInv
  PROVE  /\ Pushed - FirstIndex \in 0..kCapacity
         /\ Contents \in Seq(Value)
         /\ Len(Contents) = Pushed - FirstIndex
<1>1. /\ FirstIndex \in Nat /\ Pushed \in Nat /\ Popped \in Nat /\ kCapacity \in Nat \ {0}
      /\ FirstIndex <= Pushed /\ Popped <= FirstIndex /\ Pushed - Popped <= kCapacity
      /\ Pushed <= LastIndex /\ LastIndex \in Nat
  BY Window, Counts, Constants
<1>2. Pushed - FirstIndex \in 0..kCapacity
  BY <1>1
<1>3. ASSUME NEW k \in 1..(Pushed - FirstIndex)
      PROVE  m_storage[((FirstIndex + k) - 1) % kCapacity] \in Value
  <2> DEFINE n == (FirstIndex + k) - 1
  <2>1. n \in FirstIndex..(LastIndex - 1) /\ n \in Int
    BY <1>1
  <2> HIDE DEF n
  <2>2. n % kCapacity \in Slots
    BY <2>1, SlotInRange
  <2>3. m_storage[n % kCapacity] # None /\ m_storage[n % kCapacity] \in Value \cup {None}
    BY <2>1, <2>2 DEF RingInv, TypeOK, StorageOK
  <2> QED BY <2>3 DEF n
<1>4. Contents \in [1..(Pushed - FirstIndex) -> Value]
  BY <1>3 DEF Contents
<1> QED BY <1>2, <1>4

\* A step that changes neither the counts nor a slot in use leaves the
\* abstract queue alone.
LEMMA ContentsSame ==
  ASSUME RingInv, Pushed' = Pushed, FirstIndex' = FirstIndex,
         \A n \in FirstIndex..(Pushed - 1) : m_storage'[n % kCapacity] = m_storage[n % kCapacity]
  PROVE  Contents' = Contents
<1>1. FirstIndex \in Nat /\ Pushed \in Nat
  BY Window, Counts
<1>2. ASSUME NEW k \in 1..(Pushed - FirstIndex)
      PROVE  m_storage'[((FirstIndex + k) - 1) % kCapacity]
               = m_storage[((FirstIndex + k) - 1) % kCapacity]
  <2> DEFINE n == (FirstIndex + k) - 1
  <2>1. n \in FirstIndex..(Pushed - 1)
    BY <1>1
  <2> HIDE DEF n
  <2>2. m_storage'[n % kCapacity] = m_storage[n % kCapacity]
    BY <2>1
  <2> QED BY <2>2 DEF n
<1> QED BY <1>2 DEF Contents

\* Loads, queries, exceptions and the end of the destructor.
LEMMA QuietStep ==
  ASSUME RingInv, UNCHANGED <<m_head, m_tail, m_storage, out, drained>>,
         qpc' = "live" <=> qpc = "live",
         cpc' = "retire" <=> cpc = "retire"
  PROVE  UNCHANGED Queue!vars
<1>1. Pushed' = Pushed /\ Popped' = Popped
  BY DEF Pushed, Popped
<1>2. FirstIndex' = FirstIndex
  BY <1>1 DEF FirstIndex
<1>3. Contents' = Contents
  BY <1>1, <1>2, ContentsSame
<1> QED BY <1>3 DEF Queue!vars

\* The release store of m_head is the push.
LEMMA PublishIsPush ==
  ASSUME RingInv, RingInv', EmplacePublish PROVE \E v \in Value : Queue!Push(v)
<1> USE DEF EmplacePublish, ring, consumer, life
<1> DEFINE v == m_storage[Pushed % kCapacity]
<1>1. Pushed' = Pushed + 1 /\ FirstIndex' = FirstIndex /\ LastIndex = Pushed + 1
      /\ Popped' = Popped
  <2>1. Len(m_head') = Len(m_head) + 1
    BY ReleaseOrder DEF RingInv, TypeOK, OrdersOK, head
  <2> QED BY <2>1, Counts DEF Pushed, Popped, FirstIndex, LastIndex, RingInv, TypeOK
<1>2. FirstIndex \in Nat /\ Pushed \in Nat /\ FirstIndex <= Pushed
      /\ kCapacity \in Nat \ {0} /\ Popped <= FirstIndex /\ Popped \in Nat
  BY Window, Counts, Constants
<1>3. v \in Value
  <2>1. Pushed \in FirstIndex..(LastIndex - 1) /\ Pushed \in Int
    BY <1>1, <1>2
  <2> QED BY <2>1, SlotInRange DEF RingInv, TypeOK, StorageOK
<1>4. qpc = "live"
  BY DEF RingInv, TypeOK, LifeOK
<1>5. Len(Contents) < kCapacity
  <2>1. Len(Contents') = (Pushed + 1) - FirstIndex /\ (Pushed + 1) - FirstIndex \in 0..kCapacity
    <3>1. RingInv'
      OBVIOUS
    <3>2. Pushed' - FirstIndex' \in 0..kCapacity
      <4>1. Popped' <= FirstIndex' /\ Pushed' - Popped' <= kCapacity /\ FirstIndex' <= Pushed'
        <5>1. Pushed + 1 <= Popped + kCapacity
          BY <1>1, Window
        <5> QED BY <1>1, <1>2, <5>1
      <4> QED BY <1>1, <1>2, <4>1
    <3> QED BY <1>1, <1>2, <3>2 DEF Contents
  <2> QED BY <1>2, <2>1, ContentsSeq
<1>6. Contents' = Append(Contents, v)
  <2> DEFINE n == Pushed - FirstIndex
  <2>1. n \in Nat /\ Pushed' - FirstIndex' = n + 1 /\ (FirstIndex + (n + 1)) - 1 = Pushed
    BY <1>1, <1>2
  <2>2. Contents' = [k \in 1..(n + 1) |-> m_storage[((FirstIndex + k) - 1) % kCapacity]]
    BY <1>1, <2>1 DEF Contents
  <2>3. Contents = [k \in 1..n |-> m_storage[((FirstIndex + k) - 1) % kCapacity]]
        /\ Contents \in Seq(Value) /\ Len(Contents) = n
    BY ContentsSeq DEF Contents
  <2>4. Append(Contents, v) = [k \in 1..(n + 1) |-> IF k = n + 1 THEN v ELSE Contents[k]]
    BY <1>3, <2>1, <2>3
  <2>5. ASSUME NEW k \in 1..(n + 1)
        PROVE  m_storage[((FirstIndex + k) - 1) % kCapacity] = IF k = n + 1 THEN v ELSE Contents[k]
    <3>1. CASE k = n + 1
      BY <2>1, <3>1
    <3>2. CASE k # n + 1
      <4>1. k \in 1..n
        BY <2>1, <3>2
      <4> QED BY <2>3, <3>2, <4>1
    <3> QED BY <3>1, <3>2
  <2> QED BY <2>2, <2>4, <2>5
<1>7. Queue!Push(v)
  BY <1>4, <1>5, <1>6 DEF Queue!Push
<1> QED BY <1>3, <1>7

\* Removing the oldest live element is Tail.
LEMMA RemoveIsTail ==
  ASSUME RingInv, FirstIndex < Pushed, Pushed' = Pushed, FirstIndex' = FirstIndex + 1,
         m_storage' = [m_storage EXCEPT ![FirstIndex % kCapacity] = None]
  PROVE  /\ Contents # <<>>
         /\ Head(Contents) = m_storage[FirstIndex % kCapacity]
         /\ Contents' = Tail(Contents)
<1> DEFINE n == Pushed - FirstIndex
<1>1. /\ FirstIndex \in Nat /\ FirstIndex \in Int /\ Pushed \in Nat /\ n \in Nat /\ n > 0
      /\ kCapacity \in Nat \ {0} /\ Pushed - FirstIndex <= kCapacity
      /\ Pushed' - FirstIndex' = n - 1
  BY Window, Counts, Constants
<1>2. Contents = [k \in 1..n |-> m_storage[((FirstIndex + k) - 1) % kCapacity]]
      /\ Contents \in Seq(Value) /\ Len(Contents) = n
  BY ContentsSeq DEF Contents
<1>3. /\ Contents # <<>> /\ Head(Contents) = Contents[1]
      /\ Tail(Contents) = [k \in 1..(n - 1) |-> Contents[k + 1]]
  <2>1. Contents \in Seq(Value) /\ Len(Contents) = n /\ n > 0 /\ n \in Nat
    BY <1>1, <1>2
  <2>2. ASSUME NEW sq \in Seq(Value), Len(sq) > 0
        PROVE  /\ sq # <<>> /\ Head(sq) = sq[1]
               /\ Tail(sq) = [k \in 1..(Len(sq) - 1) |-> sq[k + 1]]
    <3>1. sq # <<>>
      BY <2>2
    <3>2. Head(sq) = sq[1]
      BY <2>2
    <3>3. /\ Tail(sq) \in Seq(Value) /\ Len(Tail(sq)) = Len(sq) - 1
          /\ \A k \in 1..Len(Tail(sq)) : Tail(sq)[k] = sq[k + 1]
      BY <3>1, HeadTailProperties
    <3>4. Tail(sq) = [k \in 1..(Len(sq) - 1) |-> sq[k + 1]]
      <4> DEFINE t == Tail(sq)
      <4> DEFINE u == [k \in 1..(Len(sq) - 1) |-> sq[k + 1]]
      <4> HIDE DEF t
      <4>1. t \in Seq(Value) /\ Len(t) = Len(sq) - 1 /\ \A k \in 1..Len(t) : t[k] = sq[k + 1]
        BY <3>3 DEF t
      <4>2. t = [k \in 1..Len(t) |-> t[k]]
        BY <4>1
      <4>3. [k \in 1..Len(t) |-> t[k]] = u
        BY <4>1
      <4> QED BY <4>2, <4>3 DEF t
    <3> QED BY <3>1, <3>2, <3>4
  <2> HIDE DEF n
  <2> QED BY <2>1, <2>2
<1>4. Contents[1] = m_storage[FirstIndex % kCapacity]
  <2>1. (FirstIndex + 1) - 1 = FirstIndex /\ 1 \in 1..n
    BY <1>1
  <2> QED BY <1>2, <2>1
<1>6. Contents' = [k \in 1..(n - 1) |-> m_storage'[(((FirstIndex + 1) + k) - 1) % kCapacity]]
  BY <1>1 DEF Contents
<1>7. ASSUME NEW k \in 1..(n - 1)
      PROVE  m_storage'[(((FirstIndex + 1) + k) - 1) % kCapacity] = Contents[k + 1]
  <2> DEFINE a == FirstIndex + k
  <2>1. /\ ((FirstIndex + 1) + k) - 1 = a /\ (FirstIndex + (k + 1)) - 1 = a
        /\ k + 1 \in 1..n /\ a \in Int /\ a # FirstIndex
        /\ a - FirstIndex < kCapacity /\ FirstIndex - a < kCapacity
    BY <1>1
  <2>2. Contents[k + 1] = m_storage[a % kCapacity]
    BY <1>2, <2>1
  <2> HIDE DEF a
  <2>3. a % kCapacity # FirstIndex % kCapacity
    BY <1>1, <2>1, ModInjective
  <2>4. a % kCapacity \in Slots /\ m_storage \in [Slots -> Value \cup {None}]
    BY <2>1, SlotInRange DEF RingInv, TypeOK
  <2>5. m_storage'[a % kCapacity] = m_storage[a % kCapacity]
    BY <2>3, <2>4
  <2> QED BY <2>1, <2>2, <2>5
<1> QED BY <1>3, <1>4, <1>6, <1>7

\* Moving the element out of its slot is the pop.
LEMMA TakeIsPop ==
  ASSUME RingInv, PopTake PROVE Queue!Pop("consumer")
<1> USE DEF PopTake, producer, life
<1>1. slot_ptr(tail) = Popped % kCapacity
  BY Words
<1>2. /\ Pushed' = Pushed /\ Popped' = Popped
      /\ FirstIndex = Popped /\ FirstIndex' = FirstIndex + 1
  BY Counts DEF Pushed, Popped, FirstIndex, RingInv, LifeOK
<1>3. FirstIndex < Pushed
  BY <1>2, Counts DEF RingInv, ViewsOK
<1>4. qpc = "live"
  BY DEF RingInv, TypeOK, LifeOK
<1>5. Contents # <<>> /\ out' = Head(Contents) /\ Contents' = Tail(Contents)
  BY <1>1, <1>2, <1>3, RemoveIsTail
<1>6. [c \in {"consumer"} |-> out'] = [[c \in {"consumer"} |-> out] EXCEPT !["consumer"] = Head(Contents)]
  BY <1>5
<1> QED BY <1>4, <1>5, <1>6 DEF Queue!Pop

\* An iteration of the destructor's loop discards the oldest element.
LEMMA DestroyIsDiscard ==
  ASSUME RingInv, DtorDestroy PROVE Queue!Discard
<1> USE DEF DtorDestroy, producer, consumer
<1>1. /\ slot_ptr(DrainIndex) = (Popped + drained) % kCapacity
      /\ drained # Pushed - Popped /\ drained \in 0..(Pushed - Popped)
      /\ Popped \in Nat /\ Pushed \in Nat
  BY DrainWords, Counts
<1>2. /\ Pushed' = Pushed /\ Popped' = Popped
      /\ FirstIndex = Popped + drained /\ FirstIndex' = FirstIndex + 1
  BY <1>1 DEF Pushed, Popped, FirstIndex, RingInv, LifeOK
<1>3. FirstIndex < Pushed
  BY <1>1, <1>2
<1>4. Contents # <<>> /\ Contents' = Tail(Contents)
  BY <1>1, <1>2, <1>3, RemoveIsTail
<1> QED BY <1>4 DEF Queue!Discard

\* Constructing in a slot outside the queue does not show.
LEMMA ConstructIsQuiet ==
  ASSUME RingInv, EmplaceConstruct PROVE UNCHANGED Queue!vars
<1> USE DEF EmplaceConstruct, consumer, life
<1>1. slot_ptr(head) = Pushed % kCapacity
  BY Words
<1>2. Pushed' = Pushed /\ Popped' = Popped /\ FirstIndex' = FirstIndex
  BY DEF Pushed, Popped, FirstIndex
<1>3. /\ FirstIndex \in Nat /\ Pushed \in Nat /\ Pushed \in Int /\ Popped \in Nat
      /\ kCapacity \in Nat \ {0} /\ Popped <= FirstIndex /\ Pushed - Popped < kCapacity
  BY Window, Counts, Constants DEF RingInv, ViewsOK
<1>4. ASSUME NEW n \in FirstIndex..(Pushed - 1)
      PROVE  m_storage'[n % kCapacity] = m_storage[n % kCapacity]
  <2>1. n \in Int /\ n # Pushed /\ n - Pushed < kCapacity /\ Pushed - n < kCapacity
    BY <1>3
  <2>2. n % kCapacity # Pushed % kCapacity
    BY <1>3, <2>1, ModInjective
  <2> QED BY <1>1, <2>1, <2>2, SlotInRange DEF RingInv, TypeOK
<1>5. Contents' = Contents
  BY <1>2, <1>4, ContentsSame
<1> QED BY <1>5 DEF Queue!vars

\* The ring between the two threads implements a bounded FIFO queue, for
\* every capacity and whatever stale indices the threads read: nothing is
\* lost, duplicated or reordered before the destructor runs.
THEOREM Refinement == Spec => ImplementsFifo
<1>1. Init => Queue!Init
  <2> SUFFICES ASSUME Init PROVE Queue!Init
    OBVIOUS
  <2>1. Pushed = 0 /\ FirstIndex = 0
    BY DEF Init, Pushed, Popped, FirstIndex
  <2>2. Contents = <<>>
    BY <2>1 DEF Contents
  <2> QED BY <2>2 DEF Init, Queue!Init
<1>2. RingInv /\ RingInv' /\ [Next]_vars => [Queue!Next]_(Queue!vars)
  <2> SUFFICES ASSUME RingInv, RingInv', [Next]_vars
               PROVE  Queue!Next \/ UNCHANGED Queue!vars
    OBVIOUS
  <2> USE DEF ring, producer, consumer, life
  <2>1. CASE UNCHANGED vars
    BY <2>1, QuietStep DEF vars
  <2>2. CASE Producer
    <3>1. CASE EmplacePublish
      BY <3>1, PublishIsPush DEF Queue!Next
    <3>2. CASE EmplaceConstruct
      BY <3>2, ConstructIsQuiet
    <3>3. CASE \/ EmplaceThrow
               \/ \E j \in ProducerLoads : EmplaceFull(j)
               \/ \E j \in ProducerLoads, v \in Value : EmplaceRoom(v, j)
               \/ \E j \in ProducerLoads : ProducerSize(j)
               \/ \E j \in ProducerLoads : ProducerEmpty(j)
               \/ \E j \in ProducerLoads : ProducerFull(j)
      <4>1. UNCHANGED <<m_head, m_tail, m_storage, out, drained, qpc, cpc>>
        BY <3>3 DEF EmplaceThrow, EmplaceFull, EmplaceRoom, ProducerSize, ProducerEmpty, ProducerFull
      <4> QED BY <4>1, QuietStep
    <3> QED BY <2>2, <3>1, <3>2, <3>3 DEF Producer
  <2>3. CASE Consumer
    <3>1. CASE PopTake
      BY <3>1, TakeIsPop DEF Queue!Next
    <3>2. CASE PopRetire
      <4>1. /\ Pushed' = Pushed /\ FirstIndex' = FirstIndex
        <5>1. Len(m_tail') = Len(m_tail) + 1
          BY <3>2, ReleaseOrder DEF PopRetire, RingInv, TypeOK, OrdersOK, tail
        <5> QED BY <3>2, <5>1, Counts
                DEF PopRetire, Pushed, Popped, FirstIndex, RingInv, TypeOK
      <4>2. Contents' = Contents
        BY <3>2, <4>1, ContentsSame DEF PopRetire
      <4> QED BY <3>2, <4>2 DEF PopRetire, Queue!vars
    <3>3. CASE \/ PopThrow
               \/ \E j \in ConsumerLoads : PopEmpty(j)
               \/ \E j \in ConsumerLoads : PopSome(j)
               \/ \E j \in ConsumerLoads : ConsumerSize(j)
               \/ \E j \in ConsumerLoads : ConsumerEmpty(j)
               \/ \E j \in ConsumerLoads : ConsumerFull(j)
      <4>1. /\ UNCHANGED <<m_head, m_tail, m_storage, out, drained, qpc>>
            /\ cpc' = "retire" <=> cpc = "retire"
        BY <3>3 DEF PopThrow, PopEmpty, PopSome, ConsumerSize, ConsumerEmpty, ConsumerFull
      <4> QED BY <4>1, QuietStep
    <3> QED BY <2>3, <3>1, <3>2, <3>3 DEF Consumer
  <2>4. CASE Destructor
    <3>1. CASE DtorBegin
      <4>1. Pushed' = Pushed /\ Popped' = Popped /\ FirstIndex' = FirstIndex
        BY <3>1 DEF DtorBegin, Pushed, Popped, FirstIndex
      <4>2. Contents' = Contents
        BY <3>1, <4>1, ContentsSame DEF DtorBegin
      <4>3. Queue!Close
        BY <3>1, <4>2 DEF DtorBegin, Queue!Close
      <4> QED BY <4>3 DEF Queue!Next
    <3>2. CASE DtorDestroy
      BY <3>2, DestroyIsDiscard DEF Queue!Next
    <3>3. CASE DtorEnd
      BY <3>3, QuietStep DEF DtorEnd
    <3> QED BY <2>4, <3>1, <3>2, <3>3 DEF Destructor
  <2> QED BY <2>1, <2>2, <2>3, <2>4 DEF Next
<1> QED BY <1>1, <1>2, RingInvariant, PTL DEF Spec, ImplementsFifo, Queue!Spec

=============================================================================
