--------------------------- MODULE OrderbookProofs ---------------------------
(***************************************************************************)
(* The order book keeps price-time priority, is never crossed by AddOrder  *)
(* and accounts for every unit, for any ids, prices and quantities and any *)
(* number of orders; its two sorted vectors implement PriceTimeMatching.   *)
(***************************************************************************)
EXTENDS Orderbook, SequenceTheorems, WellFoundedInduction, TLAPS

-----------------------------------------------------------------------------
(* The inductive invariant.                                                *)

Trade ==
  [OrderIdA : Id, OrderIdB : Id, AggressorOrderId : Id, AggressorIsBuy : BOOLEAN,
   Level : Price, Size : Int]

TypeOK ==
  /\ incoming \in Order \cup {NoOrder}
  /\ trades \in Seq(Trade)
  /\ arrivals \in Nat
  /\ asked \in [Id -> Int] /\ traded \in [Id -> Int]

\* o is matched after p, an order of the same side.
Behind(o, p) ==
  \/ (o.buy /\ o.level < p.level)
  \/ (~o.buy /\ o.level > p.level)
  \/ (o.level = p.level /\ o.at > p.at)

\* One of the two vectors: sorted, and no id twice.
SideOK(side) ==
  /\ side \in Seq(Order)
  /\ \A i, j \in 1..Len(side) : i < j => Behind(side[i], side[j])
  /\ \A i, j \in 1..Len(side) : side[i].id = side[j].id => i = j

SidesOK ==
  /\ SideOK(bids_) /\ \A o \in Range(bids_) : o.buy
  /\ SideOK(asks_) /\ \A o \in Range(asks_) : ~o.buy

\* Who rests came before who comes next, and has another id.
ArrivalsOK ==
  /\ \A o \in Resting : o.at < arrivals
  /\ incoming # NoOrder => /\ incoming.at < arrivals
                           /\ \A o \in Resting : o.at < incoming.at /\ o.id # incoming.id

IdsApart == \A b \in Range(bids_), a \in Range(asks_) : b.id # a.id

\* The book stays uncrossed in the middle of AddOrder too.
Uncrossed ==
  \A b \in Range(bids_), a \in Range(asks_) : can_match(b, a) => b.direct \/ a.direct

BookInv ==
  /\ TypeOK
  /\ SidesOK
  /\ ArrivalsOK
  /\ IdsApart
  /\ Uncrossed
  /\ QuantitiesConserved

-----------------------------------------------------------------------------
(* Sequences.                                                              *)

\* A nonempty set of naturals has a least element.
LEMMA Least ==
  ASSUME NEW T \in SUBSET Nat, T # {}
  PROVE  \E x \in T : \A y \in T : x <= y
<1>1. PICK x \in T : \A y \in T : <<y, x>> \notin OpToRel(<, Nat)
  BY WFMin, NatLessThanWellFounded, Zenon
<1>2. ASSUME NEW y \in T PROVE ~(y < x)
  BY <1>1, Zenon DEF OpToRel
<1> QED BY <1>2

\* InsertAt pushes what was at p and behind it one place back.
LEMMA InsertAtProperties ==
  ASSUME NEW S, NEW s \in Seq(S), NEW p \in 1..(Len(s) + 1), NEW e \in S
  PROVE  /\ InsertAt(s, p, e) \in Seq(S)
         /\ Len(InsertAt(s, p, e)) = Len(s) + 1
         /\ \A i \in 1..(Len(s) + 1) :
              InsertAt(s, p, e)[i] = IF i < p THEN s[i] ELSE IF i = p THEN e ELSE s[i - 1]
<1> DEFINE a == SubSeq(s, 1, p - 1)
<1> DEFINE b == SubSeq(s, p, Len(s))
<1>1. Len(s) \in Nat /\ \A i \in 1..Len(s) : s[i] \in S
  BY LenProperties, ElementOfSeq
<1>2. /\ a \in Seq(S) /\ Len(a) = p - 1
      /\ \A i \in 1..(p - 1) : a[i] = s[i]
  <2>1. \A i \in 1..(p - 1) : s[i] \in S
    BY <1>1
  <2>2. /\ a \in Seq(S) /\ Len(a) = IF 1 <= p - 1 THEN ((p - 1) - 1) + 1 ELSE 0
        /\ \A i \in 1..(((p - 1) - 1) + 1) : a[i] = s[(1 + i) - 1]
    BY <1>1, <2>1, SubSeqProperties
  <2> QED BY <1>1, <2>2
<1>3. /\ b \in Seq(S) /\ Len(b) = (Len(s) - p) + 1
      /\ \A i \in 1..((Len(s) - p) + 1) : b[i] = s[(p + i) - 1]
  <2>1. \A i \in p..Len(s) : s[i] \in S
    BY <1>1
  <2>2. /\ b \in Seq(S) /\ Len(b) = IF p <= Len(s) THEN (Len(s) - p) + 1 ELSE 0
        /\ \A i \in 1..((Len(s) - p) + 1) : b[i] = s[(p + i) - 1]
    BY <1>1, <2>1, SubSeqProperties
  <2> QED BY <1>1, <2>2
<1> HIDE DEF a, b
<1>4. /\ a \o <<e>> \in Seq(S) /\ Len(a \o <<e>>) = p
      /\ \A i \in 1..p : (a \o <<e>>)[i] = IF i < p THEN s[i] ELSE e
  <2>1. <<e>> \in Seq(S) /\ Len(<<e>>) = 1 /\ <<e>>[1] = e
    OBVIOUS
  <2>2. /\ a \o <<e>> \in Seq(S) /\ Len(a \o <<e>>) = (p - 1) + 1
        /\ \A i \in 1..((p - 1) + 1) :
             (a \o <<e>>)[i] = IF i <= p - 1 THEN a[i] ELSE <<e>>[i - (p - 1)]
    BY <1>2, <2>1, ConcatProperties
  <2> QED BY <1>1, <1>2, <2>1, <2>2
<1> DEFINE c == a \o <<e>>
<1>5. InsertAt(s, p, e) = c \o b
  BY DEF InsertAt, a, b
<1> HIDE DEF c
<1>6. /\ c \in Seq(S) /\ Len(c) = p
      /\ \A i \in 1..p : c[i] = IF i < p THEN s[i] ELSE e
  BY <1>4 DEF c
<1>7. /\ c \o b \in Seq(S) /\ Len(c \o b) = p + ((Len(s) - p) + 1)
      /\ \A i \in 1..(p + ((Len(s) - p) + 1)) :
           (c \o b)[i] = IF i <= p THEN c[i] ELSE b[i - p]
  <2>1. /\ c \o b \in Seq(S) /\ Len(c \o b) = Len(c) + Len(b)
        /\ \A i \in 1..(Len(c) + Len(b)) :
             (c \o b)[i] = IF i <= Len(c) THEN c[i] ELSE b[i - Len(c)]
    BY <1>3, <1>6, ConcatProperties
  <2> QED BY <1>3, <1>6, <2>1
<1> QED BY <1>1, <1>3, <1>5, <1>6, <1>7

\* RemoveAt closes the gap.
LEMMA RemoveAtProperties ==
  ASSUME NEW S, NEW s \in Seq(S), NEW p \in 1..Len(s)
  PROVE  /\ RemoveAt(s, p) \in Seq(S)
         /\ Len(RemoveAt(s, p)) = Len(s) - 1
         /\ \A i \in 1..(Len(s) - 1) :
              RemoveAt(s, p)[i] = IF i < p THEN s[i] ELSE s[i + 1]
<1> DEFINE a == SubSeq(s, 1, p - 1)
<1> DEFINE b == SubSeq(s, p + 1, Len(s))
<1>1. Len(s) \in Nat /\ \A i \in 1..Len(s) : s[i] \in S
  BY LenProperties, ElementOfSeq
<1>2. /\ a \in Seq(S) /\ Len(a) = p - 1
      /\ \A i \in 1..(p - 1) : a[i] = s[i]
  <2>1. \A i \in 1..(p - 1) : s[i] \in S
    BY <1>1
  <2>2. /\ a \in Seq(S) /\ Len(a) = IF 1 <= p - 1 THEN ((p - 1) - 1) + 1 ELSE 0
        /\ \A i \in 1..(((p - 1) - 1) + 1) : a[i] = s[(1 + i) - 1]
    BY <1>1, <2>1, SubSeqProperties
  <2> QED BY <1>1, <2>2
<1>3. /\ b \in Seq(S) /\ Len(b) = Len(s) - p
      /\ \A i \in 1..(Len(s) - p) : b[i] = s[p + i]
  <2>1. \A i \in (p + 1)..Len(s) : s[i] \in S
    BY <1>1
  <2>2. /\ b \in Seq(S) /\ Len(b) = IF p + 1 <= Len(s) THEN (Len(s) - (p + 1)) + 1 ELSE 0
        /\ \A i \in 1..((Len(s) - (p + 1)) + 1) : b[i] = s[((p + 1) + i) - 1]
    BY <1>1, <2>1, SubSeqProperties
  <2> QED BY <1>1, <2>2
<1>4. RemoveAt(s, p) = a \o b
  BY DEF RemoveAt
<1> HIDE DEF a, b
<1>5. /\ a \o b \in Seq(S) /\ Len(a \o b) = (p - 1) + (Len(s) - p)
      /\ \A i \in 1..((p - 1) + (Len(s) - p)) :
           (a \o b)[i] = IF i <= p - 1 THEN a[i] ELSE b[i - (p - 1)]
  <2>1. /\ a \o b \in Seq(S) /\ Len(a \o b) = Len(a) + Len(b)
        /\ \A i \in 1..(Len(a) + Len(b)) :
             (a \o b)[i] = IF i <= Len(a) THEN a[i] ELSE b[i - Len(a)]
    BY <1>2, <1>3, ConcatProperties
  <2> QED BY <1>2, <1>3, <2>1
<1> QED BY <1>1, <1>2, <1>3, <1>4, <1>5

\* The range of a sequence, by its indices.
LEMMA InRange ==
  ASSUME NEW S, NEW s \in Seq(S), NEW o
  PROVE  o \in Range(s) <=> \E i \in 1..Len(s) : s[i] = o
<1>1. Range(s) = {s[i] : i \in 1..Len(s)}
  BY RangeEquality
<1> QED BY <1>1

-----------------------------------------------------------------------------
(* What each operation makes of one side.                                  *)

\* The fields of an order.
LEMMA Fields ==
  ASSUME NEW o \in Order
  PROVE  /\ o.id \in Id /\ o.level \in Price /\ o.level \in Int /\ o.buy \in BOOLEAN
         /\ o.qty \in Int /\ o.at \in Nat /\ o.direct \in BOOLEAN
  BY ConstantsAssumption DEF Order

\* lower_bound finds a place: the first level that is not in front.
LEMMA LowerBoundProperties ==
  ASSUME NEW s \in Seq(Order), NEW front
  PROVE  /\ LowerBound(s, front) \in 1..(Len(s) + 1)
         /\ \A k \in 1..(LowerBound(s, front) - 1) : s[k].level \in front
         /\ LowerBound(s, front) <= Len(s) => s[LowerBound(s, front)].level \notin front
<1> DEFINE Found(i) ==
      /\ \A k \in 1..(i - 1) : s[k].level \in front
      /\ i <= Len(s) => s[i].level \notin front
<1> DEFINE T == {i \in 1..Len(s) : s[i].level \notin front}
<1>0. Len(s) \in Nat
  BY LenProperties
<1>1. \E i \in 1..(Len(s) + 1) : Found(i)
  <2>1. CASE T = {}
    <3>1. Len(s) + 1 \in 1..(Len(s) + 1) /\ Found(Len(s) + 1)
      BY <1>0, <2>1
    <3> QED BY <3>1
  <2>2. CASE T # {}
    <3>1. T \in SUBSET Nat
      BY <1>0
    <3>2. PICK x \in T : \A y \in T : x <= y
      BY <2>2, <3>1, Least
    <3>3. x \in 1..(Len(s) + 1) /\ Found(x)
      BY <1>0, <3>2
    <3> QED BY <3>3
  <2> QED BY <2>1, <2>2
<1>2. LowerBound(s, front) = CHOOSE i \in 1..(Len(s) + 1) : Found(i)
  BY DEF LowerBound
<1> HIDE DEF Found
<1>3. LowerBound(s, front) \in 1..(Len(s) + 1) /\ Found(LowerBound(s, front))
  BY <1>1, <1>2
<1> QED BY <1>3 DEF Found

\* A new order in its place keeps the side as it has to be.
LEMMA InsertSide ==
  ASSUME NEW s, SideOK(s), NEW o \in Order,
         \A r \in Range(s) : r.id # o.id,
         NEW p \in 1..(Len(s) + 1),
         \A k \in 1..(p - 1) : Behind(s[k], o),
         \A k \in p..Len(s) : Behind(o, s[k])
  PROVE  /\ SideOK(InsertAt(s, p, o))
         /\ Range(InsertAt(s, p, o)) = Range(s) \cup {o}
<1> DEFINE n == InsertAt(s, p, o)
<1>1. s \in Seq(Order) /\ Len(s) \in Nat
  BY LenProperties DEF SideOK
<1>2. /\ n \in Seq(Order) /\ Len(n) = Len(s) + 1
      /\ \A i \in 1..(Len(s) + 1) : n[i] = IF i < p THEN s[i] ELSE IF i = p THEN o ELSE s[i - 1]
  BY <1>1, InsertAtProperties
<1> HIDE DEF n
<1>3. \A i \in 1..Len(s) : s[i].id # o.id
  BY <1>1, InRange
<1>5. \A i \in 1..(p - 1) : Behind(s[i], o)
  OBVIOUS
<1>6. \A i \in p..Len(s) : Behind(o, s[i])
  OBVIOUS
<1>7. \A i, j \in 1..Len(n) : i < j => Behind(n[i], n[j])
  <2> SUFFICES ASSUME NEW i \in 1..Len(n), NEW j \in 1..Len(n), i < j
               PROVE  Behind(n[i], n[j])
    OBVIOUS
  <2>1. \A k, l \in 1..Len(s) : k < l => Behind(s[k], s[l])
    BY DEF SideOK
  <2>2. CASE j < p
    BY <1>1, <1>2, <2>1, <2>2
  <2>3. CASE j = p
    <3>1. i \in 1..(p - 1) /\ n[i] = s[i] /\ n[j] = o
      BY <1>1, <1>2, <2>3
    <3> QED BY <1>5, <3>1
  <2>4. CASE p < j /\ i < p
    <3>1. /\ i \in 1..Len(s) /\ j - 1 \in 1..Len(s) /\ i < j - 1
          /\ n[i] = s[i] /\ n[j] = s[j - 1]
      BY <1>1, <1>2, <2>4
    <3> QED BY <2>1, <3>1
  <2>5. CASE p < j /\ i = p
    <3>1. j - 1 \in p..Len(s) /\ n[i] = o /\ n[j] = s[j - 1]
      BY <1>1, <1>2, <2>5
    <3> QED BY <1>6, <3>1
  <2>6. CASE p < j /\ p < i
    <3>1. /\ i - 1 \in 1..Len(s) /\ j - 1 \in 1..Len(s) /\ i - 1 < j - 1
          /\ n[i] = s[i - 1] /\ n[j] = s[j - 1]
      BY <1>1, <1>2, <2>6
    <3> QED BY <2>1, <3>1
  <2> QED BY <1>1, <1>2, <2>2, <2>3, <2>4, <2>5, <2>6
<1>8. \A i, j \in 1..Len(n) : n[i].id = n[j].id => i = j
  <2>1. \A i, j \in 1..Len(s) : s[i].id = s[j].id => i = j
    BY DEF SideOK
  <2> SUFFICES ASSUME NEW i \in 1..Len(n), NEW j \in 1..Len(n), n[i].id = n[j].id
               PROVE  i = j
    OBVIOUS
  <2>2. ASSUME NEW k \in 1..Len(n), k # p
        PROVE  /\ k < p => k \in 1..Len(s) /\ n[k] = s[k]
               /\ ~(k < p) => k - 1 \in 1..Len(s) /\ n[k] = s[k - 1]
    BY <1>1, <1>2, <2>2
  <2>3. n[p] = o /\ p \in Int
    BY <1>1, <1>2
  <2>4. CASE i = p \/ j = p
    BY <1>3, <2>2, <2>3, <2>4
  <2>5. CASE i # p /\ j # p
    <3>1. CASE i < p /\ j < p
      BY <2>1, <2>2, <2>5, <3>1
    <3>2. CASE ~(i < p) /\ ~(j < p)
      <4>1. /\ i - 1 \in 1..Len(s) /\ j - 1 \in 1..Len(s)
            /\ n[i] = s[i - 1] /\ n[j] = s[j - 1]
        BY <2>2, <2>5, <3>2
      <4>2. i - 1 = j - 1
        BY <2>1, <4>1
      <4> QED BY <1>1, <1>2, <4>2
    <3>3. CASE i < p /\ ~(j < p)
      <4>1. i \in 1..Len(s) /\ j - 1 \in 1..Len(s) /\ n[i] = s[i] /\ n[j] = s[j - 1]
        BY <2>2, <2>5, <3>3
      <4>2. i = j - 1
        BY <2>1, <4>1
      <4> QED BY <1>1, <1>2, <2>3, <2>5, <3>3, <4>2
    <3>4. CASE ~(i < p) /\ j < p
      <4>1. i - 1 \in 1..Len(s) /\ j \in 1..Len(s) /\ n[i] = s[i - 1] /\ n[j] = s[j]
        BY <2>2, <2>5, <3>4
      <4>2. i - 1 = j
        BY <2>1, <4>1
      <4> QED BY <1>1, <1>2, <2>3, <2>5, <3>4, <4>2
    <3> QED BY <3>1, <3>2, <3>3, <3>4
  <2> QED BY <2>4, <2>5
<1>9. Range(n) = Range(s) \cup {o}
  <2>1. ASSUME NEW r, r \in Range(n) PROVE r \in Range(s) \cup {o}
    <3>1. PICK i \in 1..Len(n) : n[i] = r
      BY <1>2, <2>1, InRange
    <3>2. r = o \/ \E k \in 1..Len(s) : s[k] = r
      <4>1. CASE i < p
        BY <1>1, <1>2, <3>1, <4>1
      <4>2. CASE i > p
        <5>1. i - 1 \in 1..Len(s) /\ s[i - 1] = r
          BY <1>1, <1>2, <3>1, <4>2
        <5> QED BY <5>1
      <4> QED BY <1>1, <1>2, <3>1, <4>1, <4>2
    <3> QED BY <1>1, <3>2, InRange
  <2>2. ASSUME NEW r, r \in Range(s) PROVE r \in Range(n)
    <3>1. PICK i \in 1..Len(s) : s[i] = r
      BY <1>1, <2>2, InRange
    <3>2. \E k \in 1..Len(n) : n[k] = r
      <4>1. CASE i < p
        <5>1. i \in 1..Len(n) /\ n[i] = r
          BY <1>1, <1>2, <3>1, <4>1
        <5> QED BY <5>1
      <4>2. CASE ~(i < p)
        <5>1. i + 1 \in 1..Len(n) /\ n[i + 1] = r
          BY <1>1, <1>2, <3>1, <4>2
        <5> QED BY <5>1
      <4> QED BY <4>1, <4>2
    <3> QED BY <1>2, <3>2, InRange
  <2>3. o \in Range(n)
    <3>1. p \in 1..Len(n) /\ n[p] = o
      BY <1>1, <1>2
    <3> QED BY <1>2, <3>1, InRange
  <2> QED BY <2>1, <2>2, <2>3
<1> QED BY <1>2, <1>7, <1>8, <1>9 DEF SideOK, n

\* lower_bound finds it a place behind the worse bids and in front of the
\* others: of those at its own price it is matched last, as they came earlier.
LEMMA InsertBidSide ==
  ASSUME NEW s, SideOK(s), \A r \in Range(s) : r.buy, NEW o \in Order, o.buy,
         \A r \in Range(s) : r.id # o.id, \A r \in Range(s) : r.at < o.at
  PROVE  SideOK(InsertBid(s, o)) /\ Range(InsertBid(s, o)) = Range(s) \cup {o}
<1> DEFINE front == {l \in Price : l < o.level}
<1> DEFINE p == LowerBound(s, front)
<1>1. s \in Seq(Order) /\ Len(s) \in Nat
  BY LenProperties DEF SideOK
<1>2. /\ p \in 1..(Len(s) + 1)
      /\ \A k \in 1..(p - 1) : s[k].level \in front
      /\ p <= Len(s) => s[p].level \notin front
  BY <1>1, LowerBoundProperties
<1>3. InsertBid(s, o) = InsertAt(s, p, o)
  BY DEF InsertBid
<1>4. ASSUME NEW i \in 1..Len(s)
      PROVE  /\ s[i].level \in Price /\ s[i].level \in Int /\ s[i].at \in Nat
             /\ s[i].at < o.at /\ s[i].buy
  BY <1>1, ElementOfSeq, InRange, Fields
<1>5. o.level \in Int /\ o.at \in Nat
  BY Fields
<1> HIDE DEF p
<1>6. ASSUME NEW k \in 1..(p - 1) PROVE Behind(s[k], o)
  BY <1>1, <1>2, <1>4 DEF Behind
<1>7. ASSUME NEW k \in p..Len(s) PROVE Behind(o, s[k])
  <2>1. p \in 1..Len(s) /\ k \in 1..Len(s) /\ (k = p \/ p < k) /\ p <= Len(s)
    BY <1>1, <1>2
  <2>2. k = p \/ Behind(s[p], s[k])
    BY <2>1 DEF SideOK
  <2>3. s[p].level >= o.level
    BY <1>2, <1>4, <1>5, <2>1
  <2> QED BY <1>4, <1>5, <2>1, <2>2, <2>3 DEF Behind
<1> QED BY <1>2, <1>3, <1>6, <1>7, InsertSide

LEMMA InsertAskSide ==
  ASSUME NEW s, SideOK(s), \A r \in Range(s) : ~r.buy, NEW o \in Order, ~o.buy,
         \A r \in Range(s) : r.id # o.id, \A r \in Range(s) : r.at < o.at
  PROVE  SideOK(InsertAsk(s, o)) /\ Range(InsertAsk(s, o)) = Range(s) \cup {o}
<1> DEFINE front == {l \in Price : l > o.level}
<1> DEFINE p == LowerBound(s, front)
<1>1. s \in Seq(Order) /\ Len(s) \in Nat
  BY LenProperties DEF SideOK
<1>2. /\ p \in 1..(Len(s) + 1)
      /\ \A k \in 1..(p - 1) : s[k].level \in front
      /\ p <= Len(s) => s[p].level \notin front
  BY <1>1, LowerBoundProperties
<1>3. InsertAsk(s, o) = InsertAt(s, p, o)
  BY DEF InsertAsk
<1>4. ASSUME NEW i \in 1..Len(s)
      PROVE  /\ s[i].level \in Price /\ s[i].level \in Int /\ s[i].at \in Nat
             /\ s[i].at < o.at /\ ~s[i].buy
  BY <1>1, ElementOfSeq, InRange, Fields
<1>5. o.level \in Int /\ o.at \in Nat
  BY Fields
<1> HIDE DEF p
<1>6. ASSUME NEW k \in 1..(p - 1) PROVE Behind(s[k], o)
  BY <1>1, <1>2, <1>4 DEF Behind
<1>7. ASSUME NEW k \in p..Len(s) PROVE Behind(o, s[k])
  <2>1. p \in 1..Len(s) /\ k \in 1..Len(s) /\ (k = p \/ p < k) /\ p <= Len(s)
    BY <1>1, <1>2
  <2>2. k = p \/ Behind(s[p], s[k])
    BY <2>1 DEF SideOK
  <2>3. s[p].level <= o.level
    BY <1>2, <1>4, <1>5, <2>1
  <2> QED BY <1>4, <1>5, <2>1, <2>2, <2>3 DEF Behind
<1> QED BY <1>2, <1>3, <1>6, <1>7, InsertSide

\* Ids tell the orders of a side apart.
LEMMA SideIds ==
  ASSUME NEW s, SideOK(s), NEW o \in Range(s), NEW r \in Range(s), o.id = r.id
  PROVE  o = r
<1>1. s \in Seq(Order)
  BY DEF SideOK
<1>2. PICK i \in 1..Len(s), j \in 1..Len(s) : s[i] = o /\ s[j] = r
  BY <1>1, InRange
<1> QED BY <1>2 DEF SideOK

\* An order that leaves keeps the rest in order.
LEMMA RemoveSide ==
  ASSUME NEW s, SideOK(s), NEW p \in 1..Len(s)
  PROVE  SideOK(RemoveAt(s, p)) /\ Range(RemoveAt(s, p)) = Range(s) \ {s[p]}
<1> DEFINE n == RemoveAt(s, p)
<1>1. s \in Seq(Order) /\ Len(s) \in Nat
  BY LenProperties DEF SideOK
<1>2. /\ n \in Seq(Order) /\ Len(n) = Len(s) - 1
      /\ \A i \in 1..(Len(s) - 1) : n[i] = IF i < p THEN s[i] ELSE s[i + 1]
  BY <1>1, RemoveAtProperties
<1> HIDE DEF n
<1> DEFINE was(i) == IF i < p THEN i ELSE i + 1
<1>3. ASSUME NEW i \in 1..Len(n)
      PROVE  was(i) \in 1..Len(s) /\ n[i] = s[was(i)] /\ was(i) # p
  BY <1>1, <1>2
<1>4. ASSUME NEW i \in 1..Len(n), NEW j \in 1..Len(n)
      PROVE  (i < j => was(i) < was(j)) /\ (was(i) = was(j) => i = j)
  BY <1>1, <1>2
<1> HIDE DEF was
<1>5. \A i, j \in 1..Len(n) : i < j => Behind(n[i], n[j])
  BY <1>3, <1>4 DEF SideOK
<1>6. \A i, j \in 1..Len(n) : n[i].id = n[j].id => i = j
  BY <1>3, <1>4 DEF SideOK
<1>7. Range(n) = Range(s) \ {s[p]}
  <2>1. ASSUME NEW r, r \in Range(n) PROVE r \in Range(s) /\ r # s[p]
    <3>1. PICK i \in 1..Len(n) : n[i] = r
      BY <1>2, <2>1, InRange
    <3>2. was(i) \in 1..Len(s) /\ s[was(i)] = r /\ was(i) # p
      BY <1>3, <3>1
    <3>3. r \in Range(s)
      BY <1>1, <3>2, InRange
    <3> QED BY <3>2, <3>3 DEF SideOK
  <2>2. ASSUME NEW r, r \in Range(s), r # s[p] PROVE r \in Range(n)
    <3>1. PICK i \in 1..Len(s) : s[i] = r
      BY <1>1, <2>2, InRange
    <3>2. i < p \/ p < i
      BY <1>1, <2>2, <3>1
    <3>3. CASE i < p
      <4>1. i \in 1..Len(n) /\ n[i] = r
        BY <1>1, <1>2, <3>1, <3>3
      <4> QED BY <1>2, <4>1, InRange
    <3>4. CASE p < i
      <4>1. i - 1 \in 1..Len(n) /\ n[i - 1] = r
        BY <1>1, <1>2, <3>1, <3>4
      <4> QED BY <1>2, <4>1, InRange
    <3> QED BY <3>2, <3>3, <3>4
  <2> QED BY <2>1, <2>2
<1> QED BY <1>2, <1>5, <1>6, <1>7 DEF SideOK, n

\* What CancelOrder leaves of a side it finds the id on.
Without(s, id) == RemoveFirstMatch(s, LAMBDA o : o.id = id)

\* Its search finds the order with the id, if it is there.
LEMMA CancelSide ==
  ASSUME NEW s, SideOK(s), NEW id
  PROVE  SideOK(Without(s, id)) /\ Range(Without(s, id)) = {o \in Range(s) : o.id # id}
<1> DEFINE I == {i \in 1..Len(s) : s[i].id = id}
<1>1. s \in Seq(Order) /\ Len(s) \in Nat
  BY LenProperties DEF SideOK
<1>2. CASE I = {}
  <2>1. Without(s, id) = s
    BY <1>2 DEF Without, RemoveFirstMatch
  <2>2. \A o \in Range(s) : o.id # id
    BY <1>1, <1>2, InRange
  <2> QED BY <2>1, <2>2
<1>3. CASE I # {}
  <2>0. I \in SUBSET Nat
    BY <1>1
  <2>1. PICK p \in I : \A i \in I : p <= i
    BY <1>3, <2>0, Least
  <2>2. \A i \in I : i = p
    BY <2>1 DEF SideOK
  <2>3. Min(I) = p
    BY <2>1, <2>2 DEF Min
  <2>4. Without(s, id) = RemoveAt(s, p)
    BY <1>3, <2>3 DEF Without, RemoveFirstMatch, SelectInSeq
  <2>5. p \in 1..Len(s) /\ s[p].id = id
    BY <2>1
  <2>6. SideOK(RemoveAt(s, p)) /\ Range(RemoveAt(s, p)) = Range(s) \ {s[p]}
    BY <2>5, RemoveSide
  <2>7. \A o \in Range(s) : o.id = id <=> o = s[p]
    <3>1. s[p] \in Range(s)
      BY <1>1, <2>5, InRange
    <3> QED BY <2>5, <3>1, SideIds
  <2> QED BY <2>4, <2>6, <2>7
<1> QED BY <1>2, <1>3

\* The last order of a side goes before all others.
LEMMA LastIsBest ==
  ASSUME NEW s, SideOK(s), s # <<>>
  PROVE  /\ Last(s) \in Range(s) /\ Last(s) \in Order
         /\ \A r \in Range(s) : r = Last(s) \/ Behind(r, Last(s))
<1>1. s \in Seq(Order) /\ Len(s) \in Nat \ {0}
  BY LenProperties, EmptySeq DEF SideOK
<1>2. Len(s) \in 1..Len(s)
  BY <1>1
<1>3. Last(s) \in Range(s) /\ Last(s) \in Order
  BY <1>1, <1>2, InRange, ElementOfSeq DEF Last
<1>4. ASSUME NEW r \in Range(s) PROVE r = Last(s) \/ Behind(r, Last(s))
  <2>1. PICK i \in 1..Len(s) : s[i] = r
    BY <1>1, InRange
  <2>2. i = Len(s) \/ i < Len(s)
    BY <1>1
  <2> QED BY <1>2, <2>1, <2>2 DEF SideOK, Last
<1> QED BY <1>3, <1>4

\* A trade takes the last order away or makes it smaller.
LEMMA TradeSide ==
  ASSUME NEW s, SideOK(s), s # <<>>, NEW size \in Int
  PROVE  /\ SideOK(AfterTrade(s, size))
         /\ Range(AfterTrade(s, size)) = (Range(s) \ {Last(s)}) \cup
              (IF Last(s).qty = size THEN {} ELSE {[Last(s) EXCEPT !.qty = @ - size]})
<1> DEFINE m == Len(s)
<1> DEFINE b == [Last(s) EXCEPT !.qty = @ - size]
<1>1. s \in Seq(Order) /\ m \in Nat \ {0} /\ m \in 1..Len(s) /\ Last(s) = s[m]
  BY LenProperties, EmptySeq DEF SideOK, Last
<1>2. Last(s) \in Order
  BY LastIsBest
<1>3. CASE Last(s).qty = size
  <2>1. AfterTrade(s, size) = RemoveAt(s, m)
    <3>1. SubSeq(s, m + 1, m) = <<>>
      BY <1>1, SubSeqEmpty
    <3>2. SubSeq(s, 1, m - 1) \in Seq(Order)
      BY <1>1
    <3> QED BY <1>3, <3>1, <3>2 DEF AfterTrade, RemoveAt, Front
  <2>2. SideOK(RemoveAt(s, m)) /\ Range(RemoveAt(s, m)) = Range(s) \ {s[m]}
    BY <1>1, RemoveSide
  <2> QED BY <1>1, <1>3, <2>1, <2>2
<1>4. CASE Last(s).qty # size
  <2> DEFINE n == [s EXCEPT ![m] = b]
  <2>1. AfterTrade(s, size) = n
    BY <1>4 DEF AfterTrade, ReplaceAt
  <2>2. /\ b \in Order /\ b.id = Last(s).id /\ b.level = Last(s).level
        /\ b.buy = Last(s).buy /\ b.at = Last(s).at
    BY <1>2 DEF Order
  <2> HIDE DEF b
  <2>3. /\ n \in Seq(Order) /\ Len(n) = Len(s)
        /\ \A i \in 1..Len(s) : n[i] = IF i = m THEN b ELSE s[i]
    BY <1>1, <2>2, ExceptSeq
  <2> HIDE DEF n, m
  <2>4. \A i \in 1..Len(s) :
          /\ n[i].id = s[i].id /\ n[i].level = s[i].level
          /\ n[i].buy = s[i].buy /\ n[i].at = s[i].at
    BY <1>1, <2>2, <2>3
  <2>5. \A i, j \in 1..Len(n) : i < j => Behind(n[i], n[j])
    <3>1. \A i, j \in 1..Len(s) : i < j => Behind(s[i], s[j])
      BY DEF SideOK
    <3> QED BY <2>3, <2>4, <3>1 DEF Behind
  <2>6. \A i, j \in 1..Len(n) : n[i].id = n[j].id => i = j
    <3>1. \A i, j \in 1..Len(s) : s[i].id = s[j].id => i = j
      BY DEF SideOK
    <3> QED BY <2>3, <2>4, <3>1
  <2>7. SideOK(n)
    BY <2>3, <2>5, <2>6 DEF SideOK
  <2>8. Range(n) = (Range(s) \ {s[m]}) \cup {b}
    <3>1. ASSUME NEW r, r \in Range(n) PROVE r = b \/ (r \in Range(s) /\ r # s[m])
      <4>1. PICK i \in 1..Len(s) : n[i] = r
        BY <2>3, <3>1, InRange
      <4>2. CASE i # m
        <5>1. r = s[i] /\ r \in Range(s)
          BY <1>1, <2>3, <4>1, <4>2, InRange
        <5>2. r # s[m]
          BY <1>1, <4>1, <4>2, <5>1 DEF SideOK
        <5> QED BY <5>1, <5>2
      <4> QED BY <2>3, <4>1, <4>2
    <3>2. ASSUME NEW r, r = b \/ (r \in Range(s) /\ r # s[m]) PROVE r \in Range(n)
      <4>1. \E i \in 1..Len(n) : n[i] = r
        <5>1. CASE r = b
          BY <1>1, <2>3, <5>1
        <5>2. CASE r \in Range(s) /\ r # s[m]
          <6>1. PICK i \in 1..Len(s) : s[i] = r
            BY <1>1, <5>2, InRange
          <6> QED BY <2>3, <5>2, <6>1
        <5> QED BY <3>2, <5>1, <5>2
      <4> QED BY <2>3, <4>1, InRange
    <3> QED BY <3>1, <3>2
  <2> QED BY <1>1, <1>4, <2>1, <2>7, <2>8 DEF b
<1> QED BY <1>3, <1>4

-----------------------------------------------------------------------------
(* The book as a set of orders.                                            *)

\* What the invariant says of the resting orders.
LEMMA RestingFacts ==
  ASSUME BookInv
  PROVE  /\ bids_ \in Seq(Order) /\ asks_ \in Seq(Order)
         /\ Range(bids_) \subseteq Order /\ Range(asks_) \subseteq Order
         /\ Resting \subseteq Order
         /\ \A o \in Resting : o.buy <=> o \in Range(bids_)
         /\ \A o \in Resting : ~o.buy <=> o \in Range(asks_)
         /\ \A o, r \in Resting : o.id = r.id => o = r
<1>1. bids_ \in Seq(Order) /\ asks_ \in Seq(Order)
  BY DEF BookInv, SidesOK, SideOK
<1>2. Range(bids_) \subseteq Order /\ Range(asks_) \subseteq Order
  BY <1>1, RangeOfSeq
<1>3. \A o \in Resting : (o.buy <=> o \in Range(bids_)) /\ (~o.buy <=> o \in Range(asks_))
  BY DEF BookInv, SidesOK, Resting
<1>4. ASSUME NEW o \in Resting, NEW r \in Resting, o.id = r.id PROVE o = r
  <2>1. CASE o \in Range(bids_) /\ r \in Range(bids_)
    BY <1>4, <2>1, SideIds DEF BookInv, SidesOK
  <2>2. CASE o \in Range(asks_) /\ r \in Range(asks_)
    BY <1>4, <2>2, SideIds DEF BookInv, SidesOK
  <2>3. CASE o \in Range(bids_) /\ r \in Range(asks_)
    BY <1>4, <2>3 DEF BookInv, IdsApart
  <2>4. CASE o \in Range(asks_) /\ r \in Range(bids_)
    BY <1>4, <2>4 DEF BookInv, IdsApart
  <2> QED BY <2>1, <2>2, <2>3, <2>4 DEF Resting
<1> QED BY <1>1, <1>2, <1>3, <1>4 DEF Resting

\* An order is not NoOrder.
LEMMA IsOrder ==
  ASSUME NEW o \in Order
  PROVE  o # NoOrder
  BY ConstantsAssumption DEF Order

\* The orders that still have something to trade.
Live == Resting \cup (IF incoming # NoOrder /\ incoming.qty > 0 THEN {incoming} ELSE {})

\* The ledger is right for a set of orders.
Settled(live) ==
  /\ \A o \in live : traded[o.id] + o.qty = asked[o.id]
  /\ \A i \in Id : (\A o \in live : o.id # i) => traded[i] = asked[i]

LEMMA ConservedIsSettled == QuantitiesConserved <=> Settled(Live)
  BY DEF QuantitiesConserved, Settled, Live

\* insert_order puts a new order into its side.
LEMMA InsertOrder ==
  ASSUME BookInv, NEW o \in Order, \A r \in Resting : r.id # o.id,
         \A r \in Resting : r.at < o.at, insert_order(o)
  PROVE  /\ SidesOK'
         /\ o.buy => Range(bids_') = Range(bids_) \cup {o} /\ asks_' = asks_
         /\ ~o.buy => Range(asks_') = Range(asks_) \cup {o} /\ bids_' = bids_
<1>1. ~is_dupe(o)
  BY DEF is_dupe
<1>2. CASE o.buy
  <2>1. bids_' = InsertBid(bids_, o) /\ asks_' = asks_
    BY <1>1, <1>2 DEF insert_order
  <2>2. SideOK(InsertBid(bids_, o)) /\ Range(InsertBid(bids_, o)) = Range(bids_) \cup {o}
    BY <1>2, InsertBidSide DEF BookInv, SidesOK, Resting
  <2> QED BY <1>2, <2>1, <2>2 DEF BookInv, SidesOK
<1>3. CASE ~o.buy
  <2>1. asks_' = InsertAsk(asks_, o) /\ bids_' = bids_
    BY <1>1, <1>3 DEF insert_order
  <2>2. SideOK(InsertAsk(asks_, o)) /\ Range(InsertAsk(asks_, o)) = Range(asks_) \cup {o}
    BY <1>3, InsertAskSide DEF BookInv, SidesOK, Resting
  <2> QED BY <1>3, <2>1, <2>2 DEF BookInv, SidesOK
<1> QED BY <1>2, <1>3

\* The order that Matches looks at has priority over its side, and if it does
\* not cross, none does.
LEMMA BestOfOpposite ==
  ASSUME BookInv, incoming # NoOrder, OppositeSide # <<>>
  PROVE  /\ Last(OppositeSide) \in Resting
         /\ Last(OppositeSide).buy # incoming.buy
         /\ \A r \in Resting : r.buy # incoming.buy =>
              r = Last(OppositeSide) \/ Behind(r, Last(OppositeSide))
<1>1. incoming \in Order
  BY DEF BookInv, TypeOK
<1>2. incoming.buy \in BOOLEAN /\ \A r \in Resting : r.buy \in BOOLEAN
  BY <1>1, RestingFacts, Fields
<1>3. CASE incoming.buy
  <2>1. OppositeSide = asks_
    BY <1>3 DEF OppositeSide
  <2>2. /\ Last(asks_) \in Range(asks_)
        /\ \A r \in Range(asks_) : r = Last(asks_) \/ Behind(r, Last(asks_))
    BY <2>1, LastIsBest DEF BookInv, SidesOK
  <2> QED BY <1>2, <1>3, <2>1, <2>2, RestingFacts DEF Resting
<1>4. CASE ~incoming.buy
  <2>1. OppositeSide = bids_
    BY <1>4 DEF OppositeSide
  <2>2. /\ Last(bids_) \in Range(bids_)
        /\ \A r \in Range(bids_) : r = Last(bids_) \/ Behind(r, Last(bids_))
    BY <2>1, LastIsBest DEF BookInv, SidesOK
  <2> QED BY <1>2, <1>4, <2>1, <2>2, RestingFacts DEF Resting
<1> QED BY <1>3, <1>4

-----------------------------------------------------------------------------
(* Each action keeps the invariant.                                        *)

LEMMA InitInv == Init => BookInv
<1> SUFFICES ASSUME Init PROVE BookInv
  OBVIOUS
<1>1. Range(bids_) = {} /\ Range(asks_) = {} /\ Resting = {}
  BY DEF Init, Range, Resting
<1>2. TypeOK
  BY DEF Init, TypeOK
<1>3. SidesOK
  BY <1>1 DEF Init, SidesOK, SideOK
<1>4. ArrivalsOK /\ IdsApart /\ Uncrossed
  BY <1>1 DEF Init, ArrivalsOK, IdsApart, Uncrossed
<1>5. QuantitiesConserved
  BY <1>1 DEF Init, QuantitiesConserved
<1> QED BY <1>2, <1>3, <1>4, <1>5 DEF BookInv

LEMMA AddOrderInv ==
  ASSUME BookInv, NEW o \in Submissions(FALSE), AddOrder(o)
  PROVE  BookInv'
<1>1. o \in Order /\ o.at = arrivals /\ o.id \in Id /\ o.qty \in Int
  <2>1. PICK i \in Id, l \in Price, b \in BOOLEAN, q \in Quantity :
          o = [id |-> i, level |-> l, buy |-> b, qty |-> q, at |-> arrivals, direct |-> FALSE]
    BY DEF Submissions
  <2>2. q \in Int /\ arrivals \in Nat
    BY ConstantsAssumption DEF BookInv, TypeOK
  <2> QED BY <2>1, <2>2 DEF Order
<1>2. bids_' = bids_ /\ asks_' = asks_ /\ Resting' = Resting /\ incoming = NoOrder
      /\ trades' = <<>>
  BY DEF AddOrder, Resting
<1>3. SidesOK' /\ IdsApart' /\ Uncrossed'
  BY <1>2 DEF BookInv, SidesOK, IdsApart, Uncrossed
<1>4. CASE is_dupe(o)
  <2>1. UNCHANGED <<incoming, arrivals, asked, traded>>
    BY <1>4 DEF AddOrder, ledger
  <2>2. TypeOK'
    BY <1>2, <2>1 DEF BookInv, TypeOK
  <2>3. ArrivalsOK' /\ QuantitiesConserved'
    BY <1>2, <2>1 DEF BookInv, ArrivalsOK, QuantitiesConserved
  <2> QED BY <1>3, <2>2, <2>3 DEF BookInv
<1>5. CASE ~is_dupe(o)
  <2>1. /\ incoming' = o /\ arrivals' = arrivals + 1
        /\ asked' = [asked EXCEPT ![o.id] = IF o.qty > 0 THEN o.qty ELSE 0]
        /\ traded' = [traded EXCEPT ![o.id] = 0]
    BY <1>5 DEF AddOrder
  <2>2. \A r \in Resting : r.id # o.id
    BY <1>5 DEF is_dupe
  <2>3. TypeOK'
    BY <1>1, <1>2, <2>1 DEF BookInv, TypeOK
  <2>4. ArrivalsOK'
    BY <1>1, <1>2, <2>1, <2>2, RestingFacts, Fields DEF BookInv, ArrivalsOK, TypeOK
  <2>5. Settled(Live)'
    <3>1. asked \in [Id -> Int] /\ traded \in [Id -> Int]
      BY DEF BookInv, TypeOK
    <3>2. Live' = Resting \cup (IF o.qty > 0 THEN {o} ELSE {})
      BY <1>1, <1>2, <2>1, IsOrder DEF Live
    <3>3. Settled(Resting)
      BY <1>2, ConservedIsSettled DEF BookInv, Live
    <3>4. \A r \in Resting : r.id \in Id
      BY RestingFacts, Fields
    <3>5. ASSUME NEW r \in Live' PROVE traded'[r.id] + r.qty = asked'[r.id]
      BY <1>1, <2>1, <2>2, <3>1, <3>2, <3>3, <3>4 DEF Settled
    <3>6. ASSUME NEW i \in Id, \A r \in Live' : r.id # i PROVE traded'[i] = asked'[i]
      BY <1>1, <2>1, <2>2, <3>1, <3>2, <3>3, <3>6 DEF Settled
    <3> QED BY <3>5, <3>6 DEF Settled
  <2>6. QuantitiesConserved'
    BY <2>5, ConservedIsSettled DEF QuantitiesConserved, Settled, Live
  <2> QED BY <1>3, <2>3, <2>4, <2>6 DEF BookInv
<1> QED BY <1>4, <1>5

\* One iteration of the loop, with the book as a set of orders: the best
\* opposite order r trades `size` with the incoming one, and is gone or smaller.
LEMMA MatchFacts ==
  ASSUME BookInv, Match
  PROVE  \E r \in Resting, size \in Int :
           /\ incoming \in Order /\ incoming.qty > 0
           /\ r = Last(OppositeSide) /\ r.buy # incoming.buy
           /\ IF incoming.buy THEN incoming.level >= r.level ELSE r.level >= incoming.level
           /\ \A o \in Resting : o.buy # incoming.buy => o = r \/ Behind(o, r)
           /\ size = IF r.qty < incoming.qty THEN r.qty ELSE incoming.qty
           /\ trades' = Append(trades, TradeOf(r, size))
           /\ incoming' = [incoming EXCEPT !.qty = @ - size]
           /\ traded' = [traded EXCEPT ![r.id] = @ + size, ![incoming.id] = @ + size]
           /\ arrivals' = arrivals /\ asked' = asked
           /\ SidesOK'
           /\ LET left == IF r.qty = size THEN {} ELSE {[r EXCEPT !.qty = @ - size]}
              IN  \/ /\ incoming.buy /\ r \in Range(asks_)
                     /\ bids_' = bids_ /\ Range(asks_') = (Range(asks_) \ {r}) \cup left
                  \/ /\ ~incoming.buy /\ r \in Range(bids_)
                     /\ asks_' = asks_ /\ Range(bids_') = (Range(bids_) \ {r}) \cup left
<1> DEFINE r == Last(OppositeSide)
<1> DEFINE size == IF r.qty < incoming.qty THEN r.qty ELSE incoming.qty
<1> DEFINE left == IF r.qty = size THEN {} ELSE {[r EXCEPT !.qty = @ - size]}
<1>1. /\ incoming \in Order /\ incoming # NoOrder /\ OppositeSide # <<>> /\ incoming.qty > 0
      /\ IF incoming.buy THEN can_match(incoming, r) ELSE can_match(r, incoming)
  BY DEF Match, Matches, BookInv, TypeOK
<1>2. /\ r \in Resting /\ r.buy # incoming.buy
      /\ \A o \in Resting : o.buy # incoming.buy => o = r \/ Behind(o, r)
  BY <1>1, BestOfOpposite
<1>3. r \in Order /\ size \in Int
  BY <1>1, <1>2, RestingFacts, Fields
<1>4. /\ trades' = Append(trades, TradeOf(r, size))
      /\ incoming' = [incoming EXCEPT !.qty = @ - size]
      /\ traded' = [traded EXCEPT ![r.id] = @ + size, ![incoming.id] = @ + size]
      /\ arrivals' = arrivals /\ asked' = asked
      /\ IF incoming.buy THEN asks_' = AfterTrade(asks_, size) /\ UNCHANGED bids_
         ELSE bids_' = AfterTrade(bids_, size) /\ UNCHANGED asks_
  BY DEF Match
<1>5. /\ SidesOK'
      /\ \/ /\ incoming.buy /\ r \in Range(asks_)
            /\ bids_' = bids_ /\ Range(asks_') = (Range(asks_) \ {r}) \cup left
         \/ /\ ~incoming.buy /\ r \in Range(bids_)
            /\ asks_' = asks_ /\ Range(bids_') = (Range(bids_) \ {r}) \cup left
  <2>1. [r EXCEPT !.qty = @ - size].buy = r.buy
    BY <1>3 DEF Order
  <2>2. CASE incoming.buy
    <3>1. OppositeSide = asks_ /\ asks_' = AfterTrade(asks_, size) /\ bids_' = bids_
      BY <1>4, <2>2 DEF OppositeSide
    <3>2. SideOK(asks_') /\ Range(asks_') = (Range(asks_) \ {r}) \cup left
      BY <1>1, <1>3, <3>1, TradeSide DEF BookInv, SidesOK
    <3>3. ~r.buy /\ r \in Range(asks_)
      BY <1>1, <1>2, <1>3, <2>2, RestingFacts, Fields
    <3> HIDE DEF r, size
    <3>4. SidesOK'
      BY <2>1, <3>1, <3>2, <3>3 DEF BookInv, SidesOK
    <3> QED BY <2>2, <3>1, <3>2, <3>3, <3>4
  <2>3. CASE ~incoming.buy
    <3>1. OppositeSide = bids_ /\ bids_' = AfterTrade(bids_, size) /\ asks_' = asks_
      BY <1>4, <2>3 DEF OppositeSide
    <3>2. SideOK(bids_') /\ Range(bids_') = (Range(bids_) \ {r}) \cup left
      BY <1>1, <1>3, <3>1, TradeSide DEF BookInv, SidesOK
    <3>3. r.buy /\ r \in Range(bids_)
      BY <1>1, <1>2, <1>3, <2>3, RestingFacts, Fields
    <3> HIDE DEF r, size
    <3>4. SidesOK'
      BY <2>1, <3>1, <3>2, <3>3 DEF BookInv, SidesOK
    <3> QED BY <2>3, <3>1, <3>2, <3>3, <3>4
  <2> QED BY <2>2, <2>3
<1>6. IF incoming.buy THEN incoming.level >= r.level ELSE r.level >= incoming.level
  BY <1>1 DEF can_match
<1>7. size = IF r.qty < incoming.qty THEN r.qty ELSE incoming.qty
  OBVIOUS
<1>8. left = IF r.qty = size THEN {} ELSE {[r EXCEPT !.qty = @ - size]}
  OBVIOUS
<1>9. r = Last(OppositeSide)
  OBVIOUS
<1> HIDE DEF r, size, left
<1> QED BY <1>1, <1>2, <1>3, <1>4, <1>5, <1>6, <1>7, <1>8, <1>9

LEMMA MatchInv ==
  ASSUME BookInv, Match
  PROVE  BookInv'
<1>1. PICK r \in Resting, size \in Int :
        /\ incoming \in Order /\ incoming.qty > 0
        /\ r.buy # incoming.buy
        /\ size = IF r.qty < incoming.qty THEN r.qty ELSE incoming.qty
        /\ trades' = Append(trades, TradeOf(r, size))
        /\ incoming' = [incoming EXCEPT !.qty = @ - size]
        /\ traded' = [traded EXCEPT ![r.id] = @ + size, ![incoming.id] = @ + size]
        /\ arrivals' = arrivals /\ asked' = asked
        /\ SidesOK'
        /\ LET left == IF r.qty = size THEN {} ELSE {[r EXCEPT !.qty = @ - size]}
           IN  \/ /\ incoming.buy /\ r \in Range(asks_)
                  /\ bids_' = bids_ /\ Range(asks_') = (Range(asks_) \ {r}) \cup left
               \/ /\ ~incoming.buy /\ r \in Range(bids_)
                  /\ asks_' = asks_ /\ Range(bids_') = (Range(bids_) \ {r}) \cup left
  BY MatchFacts
<1> DEFINE q == [r EXCEPT !.qty = @ - size]
<1> DEFINE left == IF r.qty = size THEN {} ELSE {q}
<1>2. /\ r \in Order /\ r.id \in Id /\ r.qty \in Int /\ r.level \in Price
      /\ incoming.id \in Id /\ incoming.qty \in Int /\ incoming.level \in Price
      /\ incoming # NoOrder
  BY <1>1, RestingFacts, Fields, IsOrder
<1>3. /\ q \in Order /\ q.id = r.id /\ q.level = r.level /\ q.at = r.at
      /\ q.direct = r.direct /\ q.qty = r.qty - size
  BY <1>2 DEF Order
<1>4. /\ incoming' \in Order /\ incoming' # NoOrder /\ incoming'.id = incoming.id
      /\ incoming'.at = incoming.at /\ incoming'.qty = incoming.qty - size
  <2>1. /\ incoming \in Order /\ incoming.qty - size \in Int
        /\ incoming' = [incoming EXCEPT !.qty = @ - size]
    BY <1>1, <1>2
  <2>2. /\ incoming' \in Order /\ incoming'.id = incoming.id
        /\ incoming'.at = incoming.at /\ incoming'.qty = incoming.qty - size
    BY <2>1 DEF Order
  <2> QED BY <2>2, IsOrder
<1>5. Resting' = (Resting \ {r}) \cup left
  <2>1. CASE incoming.buy
    <3>1. r \notin Range(bids_)
      BY <1>1, <1>2, <2>1, RestingFacts, Fields
    <3> QED BY <1>1, <2>1, <3>1 DEF Resting
  <2>2. CASE ~incoming.buy
    <3>1. r \notin Range(asks_)
      BY <1>1, <1>2, <2>2, RestingFacts, Fields
    <3> QED BY <1>1, <2>2, <3>1 DEF Resting
  <2> QED BY <2>1, <2>2
<1> HIDE DEF q
<1>6. TypeOK'
  <2>1. TradeOf(r, size) \in Trade
    BY <1>1, <1>2, Fields DEF TradeOf, Trade
  <2>2. trades' \in Seq(Trade)
    BY <1>1, <2>1, AppendProperties DEF BookInv, TypeOK
  <2>3. traded' \in [Id -> Int]
    <3>1. traded \in [Id -> Int]
      BY DEF BookInv, TypeOK
    <3>2. traded' = [traded EXCEPT ![r.id] = @ + size, ![incoming.id] = @ + size]
      BY <1>1
    <3> QED BY <1>2, <3>1, <3>2
  <2> QED BY <1>1, <1>4, <2>2, <2>3 DEF BookInv, TypeOK
<1>7. ArrivalsOK'
  BY <1>1, <1>2, <1>3, <1>4, <1>5 DEF BookInv, ArrivalsOK
<1>8. IdsApart' /\ Uncrossed'
  <2>1. CASE incoming.buy
    <3>1. /\ bids_' = bids_ /\ r \in Range(asks_)
          /\ \A o \in Range(asks_') : o \in Range(asks_) \/ o = q
      BY <1>1, <2>1 DEF q
    <3>2. \A o \in Range(asks_') : \E a \in Range(asks_) :
            o.id = a.id /\ o.level = a.level /\ o.direct = a.direct
      BY <1>3, <3>1
    <3> QED BY <3>1, <3>2 DEF BookInv, IdsApart, Uncrossed, can_match
  <2>2. CASE ~incoming.buy
    <3>1. /\ asks_' = asks_ /\ r \in Range(bids_)
          /\ \A o \in Range(bids_') : o \in Range(bids_) \/ o = q
      BY <1>1, <2>2 DEF q
    <3>2. \A o \in Range(bids_') : \E b \in Range(bids_) :
            o.id = b.id /\ o.level = b.level /\ o.direct = b.direct
      BY <1>3, <3>1
    <3> QED BY <3>1, <3>2 DEF BookInv, IdsApart, Uncrossed, can_match
  <2> QED BY <2>1, <2>2
<1>9. Settled(Live)'
  <2>1. asked \in [Id -> Int] /\ traded \in [Id -> Int]
    BY DEF BookInv, TypeOK
  <2>2. Live' = ((Resting \ {r}) \cup left) \cup
                  (IF incoming.qty - size > 0 THEN {incoming'} ELSE {})
    BY <1>4, <1>5 DEF Live
  <2>3. Settled(Resting \cup {incoming})
    <3>1. Live = Resting \cup {incoming}
      BY <1>1, <1>2 DEF Live
    <3> QED BY <3>1, ConservedIsSettled DEF BookInv
  <2>4. \A o \in Resting : o.id \in Id /\ o.id # incoming.id /\ (o # r => o.id # r.id)
    BY <1>2, RestingFacts, Fields DEF BookInv, ArrivalsOK
  <2>5. /\ traded'[r.id] = traded[r.id] + size
        /\ traded'[incoming.id] = traded[incoming.id] + size
        /\ \A i \in Id : i # r.id /\ i # incoming.id => traded'[i] = traded[i]
    BY <1>1, <1>2, <2>1, <2>4
  <2>6. /\ traded[r.id] + r.qty = asked[r.id]
        /\ traded[incoming.id] + incoming.qty = asked[incoming.id]
    BY <2>3 DEF Settled
  <2>7. size <= incoming.qty
    BY <1>1, <1>2
  <2>8. ASSUME NEW o \in Live' PROVE traded'[o.id] + o.qty = asked'[o.id]
    <3>1. CASE o \in Resting /\ o # r
      BY <1>1, <2>3, <2>4, <2>5, <3>1 DEF Settled
    <3>2. CASE o = q
      BY <1>1, <1>2, <1>3, <2>1, <2>5, <2>6, <3>2
    <3>3. CASE o = incoming'
      BY <1>1, <1>2, <1>4, <2>1, <2>5, <2>6, <3>3
    <3> QED BY <2>2, <3>1, <3>2, <3>3
  <2>9. ASSUME NEW i \in Id, \A o \in Live' : o.id # i PROVE traded'[i] = asked'[i]
    <3>1. CASE i = r.id
      <4>1. r.qty = size
        BY <1>3, <2>2, <2>9, <3>1
      <4> QED BY <1>1, <2>5, <2>6, <3>1, <4>1
    <3>2. CASE i = incoming.id
      <4>1. incoming.qty - size = 0
        BY <1>2, <1>4, <2>2, <2>7, <2>9, <3>2
      <4> QED BY <1>1, <1>2, <2>1, <2>5, <2>6, <3>2, <4>1
    <3>3. CASE i # r.id /\ i # incoming.id
      <4>1. \A o \in Resting \cup {incoming} : o.id # i
        BY <2>2, <2>9, <3>3
      <4> QED BY <1>1, <2>3, <2>5, <3>3, <4>1 DEF Settled
    <3> QED BY <3>1, <3>2, <3>3
  <2> QED BY <2>8, <2>9 DEF Settled
<1>10. QuantitiesConserved'
  BY <1>9 DEF QuantitiesConserved, Settled, Live
<1> QED BY <1>1, <1>6, <1>7, <1>8, <1>10 DEF BookInv

\* The loop stops only when no order of the other side crosses.
LEMMA NothingCrosses ==
  ASSUME BookInv, incoming # NoOrder, ~Matches, incoming.qty > 0,
         NEW r \in Resting, r.buy # incoming.buy
  PROVE  ~(IF incoming.buy THEN incoming.level >= r.level ELSE r.level >= incoming.level)
<1> DEFINE best == Last(OppositeSide)
<1>1. incoming \in Order /\ r \in Order
  BY RestingFacts DEF BookInv, TypeOK
<1>2. incoming.buy \in BOOLEAN /\ r.buy \in BOOLEAN /\ incoming.level \in Int /\ r.level \in Int
  BY <1>1, Fields
<1>3. OppositeSide # <<>>
  <2>1. r \in Range(OppositeSide)
    BY <1>2, RestingFacts DEF OppositeSide
  <2> QED BY <2>1 DEF Range
<1>4. /\ best \in Resting /\ best.buy # incoming.buy
      /\ r = best \/ Behind(r, best)
  BY <1>3, BestOfOpposite
<1>5. best.level \in Int /\ best.buy \in BOOLEAN
  BY <1>4, RestingFacts, Fields
<1>6. ~(IF incoming.buy THEN incoming.level >= best.level ELSE best.level >= incoming.level)
  BY <1>3 DEF Matches, can_match
<1> HIDE DEF best
<1> QED BY <1>2, <1>4, <1>5, <1>6 DEF Behind

LEMMA FinishInv ==
  ASSUME BookInv, Finish
  PROVE  BookInv'
<1>1. /\ incoming \in Order /\ incoming # NoOrder /\ incoming' = NoOrder /\ ~Matches
      /\ UNCHANGED <<trades, arrivals, asked, traded>>
  BY DEF Finish, BookInv, TypeOK, ledger
<1>2. TypeOK'
  BY <1>1 DEF BookInv, TypeOK
<1>3. incoming.qty \in Int /\ incoming.at \in Nat /\ incoming.buy \in BOOLEAN
  BY <1>1, Fields
<1>4. CASE incoming.qty > 0
  <2>1. insert_order(incoming)
    BY <1>4 DEF Finish
  <2>2. /\ SidesOK'
        /\ incoming.buy => Range(bids_') = Range(bids_) \cup {incoming} /\ asks_' = asks_
        /\ ~incoming.buy => Range(asks_') = Range(asks_) \cup {incoming} /\ bids_' = bids_
    BY <1>1, <2>1, InsertOrder DEF BookInv, ArrivalsOK
  <2>3. Resting' = Resting \cup {incoming}
    BY <2>2 DEF Resting
  <2>4. ArrivalsOK'
    BY <1>1, <2>3 DEF BookInv, ArrivalsOK
  <2>5. IdsApart'
    BY <1>1, <2>2 DEF BookInv, IdsApart, ArrivalsOK, Resting
  <2>6. Uncrossed'
    <3>1. CASE incoming.buy
      <4>1. \A a \in Range(asks_) : ~can_match(incoming, a)
        <5>1. \A a \in Range(asks_) : a \in Resting /\ a.buy # incoming.buy
          BY <3>1 DEF BookInv, SidesOK, Resting
        <5> QED BY <1>1, <1>4, <3>1, <5>1, NothingCrosses DEF can_match
      <4> QED BY <2>2, <3>1, <4>1 DEF BookInv, Uncrossed, can_match
    <3>2. CASE ~incoming.buy
      <4>1. \A b \in Range(bids_) : ~can_match(b, incoming)
        <5>1. \A b \in Range(bids_) : b \in Resting /\ b.buy # incoming.buy
          BY <3>2 DEF BookInv, SidesOK, Resting
        <5> QED BY <1>1, <1>4, <3>2, <5>1, NothingCrosses DEF can_match
      <4> QED BY <2>2, <3>2, <4>1 DEF BookInv, Uncrossed, can_match
    <3> QED BY <3>1, <3>2
  <2>7. Live' = Live
    BY <1>1, <1>4, <2>3 DEF Live
  <2>8. QuantitiesConserved'
    BY <1>1, <2>7, ConservedIsSettled DEF BookInv, QuantitiesConserved, Settled, Live
  <2> QED BY <1>2, <2>2, <2>4, <2>5, <2>6, <2>8 DEF BookInv
<1>5. CASE ~(incoming.qty > 0)
  <2>1. bids_' = bids_ /\ asks_' = asks_ /\ Resting' = Resting
    BY <1>5 DEF Finish, Resting
  <2>2. SidesOK' /\ IdsApart' /\ Uncrossed'
    BY <2>1 DEF BookInv, SidesOK, IdsApart, Uncrossed
  <2>3. ArrivalsOK'
    BY <1>1, <2>1 DEF BookInv, ArrivalsOK
  <2>4. QuantitiesConserved'
    BY <1>1, <1>5, <2>1 DEF BookInv, QuantitiesConserved
  <2> QED BY <1>2, <2>2, <2>3, <2>4 DEF BookInv
<1> QED BY <1>4, <1>5

\* AddOrder throws: the rest of the order is nowhere.
LEMMA AddOrderThrowInv ==
  ASSUME BookInv, AddOrderThrow
  PROVE  BookInv'
<1>1. /\ incoming \in Order /\ incoming # NoOrder /\ incoming' = NoOrder /\ trades' = <<>>
      /\ incoming.qty > 0
      /\ UNCHANGED <<bids_, asks_, arrivals, traded>>
      /\ asked' = [asked EXCEPT ![incoming.id] = traded[incoming.id]]
  BY DEF AddOrderThrow, BookInv, TypeOK
<1>2. incoming.id \in Id /\ asked \in [Id -> Int] /\ traded \in [Id -> Int]
  BY <1>1, Fields DEF BookInv, TypeOK
<1>3. <<>> \in Seq(Trade)
  OBVIOUS
<1>4. TypeOK'
  BY <1>1, <1>2, <1>3 DEF BookInv, TypeOK
<1>5. Resting' = Resting
  BY <1>1 DEF Resting
<1>6. SidesOK' /\ IdsApart' /\ Uncrossed' /\ ArrivalsOK'
  BY <1>1, <1>5 DEF BookInv, SidesOK, IdsApart, Uncrossed, ArrivalsOK
<1>7. Settled(Live)'
  <2>1. Live = Resting \cup {incoming} /\ Live' = Resting
    BY <1>1, <1>5 DEF Live
  <2>2. Settled(Resting \cup {incoming})
    BY <2>1, ConservedIsSettled DEF BookInv
  <2>3. \A i \in Id : /\ traded'[i] = traded[i]
                     /\ asked'[i] = IF i = incoming.id THEN traded[i] ELSE asked[i]
    BY <1>1, <1>2
  <2>4. \A o \in Resting : o.id \in Id /\ o.id # incoming.id
    BY <1>1, RestingFacts, Fields DEF BookInv, ArrivalsOK
  <2> QED BY <2>1, <2>2, <2>3, <2>4 DEF Settled
<1>8. QuantitiesConserved'
  BY <1>7 DEF QuantitiesConserved, Settled, Live
<1> QED BY <1>4, <1>6, <1>8 DEF BookInv

\* A cancelled order leaves the side it is on.
LEMMA CancelFacts ==
  ASSUME BookInv, NEW id \in Id, CancelOrder(id)
  PROVE  /\ SidesOK'
         /\ Range(bids_') = {o \in Range(bids_) : o.id # id}
         /\ Range(asks_') = {o \in Range(asks_) : o.id # id}
         /\ Resting' = {o \in Resting : o.id # id}
<1>1. SideOK(bids_') /\ Range(bids_') = {o \in Range(bids_) : o.id # id}
  <2>1. bids_' = Without(bids_, id)
    BY DEF CancelOrder, Without
  <2> QED BY <2>1, CancelSide DEF BookInv, SidesOK
<1>2. SideOK(asks_') /\ Range(asks_') = {o \in Range(asks_) : o.id # id}
  <2>1. CASE \E o \in Range(bids_) : o.id = id
    <3>1. asks_' = asks_
      BY <2>1 DEF CancelOrder
    <3> QED BY <2>1, <3>1 DEF BookInv, SidesOK, IdsApart
  <2>2. CASE ~\E o \in Range(bids_) : o.id = id
    <3>1. asks_' = Without(asks_, id)
      BY <2>2 DEF CancelOrder, Without
    <3> QED BY <3>1, CancelSide DEF BookInv, SidesOK
  <2> QED BY <2>1, <2>2
<1> QED BY <1>1, <1>2 DEF BookInv, SidesOK, Resting

LEMMA CancelOrderInv ==
  ASSUME BookInv, NEW id \in Id, CancelOrder(id)
  PROVE  BookInv'
<1>1. /\ incoming = NoOrder /\ UNCHANGED <<incoming, trades, arrivals, traded>>
      /\ asked' = [asked EXCEPT ![id] = traded[id]]
  BY DEF CancelOrder
<1>2. /\ SidesOK'
      /\ Range(bids_') = {o \in Range(bids_) : o.id # id}
      /\ Range(asks_') = {o \in Range(asks_) : o.id # id}
      /\ Resting' = {o \in Resting : o.id # id}
  BY CancelFacts
<1>3. TypeOK'
  BY <1>1 DEF BookInv, TypeOK
<1>4. ArrivalsOK' /\ IdsApart' /\ Uncrossed'
  BY <1>1, <1>2 DEF BookInv, ArrivalsOK, IdsApart, Uncrossed, can_match
<1>5. Settled(Live)'
  <2>1. asked \in [Id -> Int] /\ traded \in [Id -> Int]
    BY DEF BookInv, TypeOK
  <2>2. Live = Resting /\ Live' = {o \in Resting : o.id # id}
    BY <1>1, <1>2 DEF Live
  <2>3. Settled(Resting)
    BY <2>2, ConservedIsSettled DEF BookInv
  <2>4. \A i \in Id : traded'[i] = traded[i] /\ asked'[i] = IF i = id THEN traded[i] ELSE asked[i]
    BY <1>1, <2>1
  <2>5. \A o \in Resting : o.id \in Id
    BY RestingFacts, Fields
  <2> QED BY <2>2, <2>3, <2>4, <2>5 DEF Settled
<1>6. QuantitiesConserved'
  BY <1>5 DEF QuantitiesConserved, Settled, Live
<1> QED BY <1>2, <1>3, <1>4, <1>6 DEF BookInv

LEMMA InsertDirectlyInv ==
  ASSUME BookInv, NEW o \in Submissions(TRUE), InsertDirectly(o)
  PROVE  BookInv'
<1>1. o \in Order /\ o.at = arrivals /\ o.id \in Id /\ o.qty \in Int /\ o.direct
  <2>1. PICK i \in Id, l \in Price, b \in BOOLEAN, q \in Quantity :
          o = [id |-> i, level |-> l, buy |-> b, qty |-> q, at |-> arrivals, direct |-> TRUE]
    BY DEF Submissions
  <2>2. q \in Int /\ arrivals \in Nat
    BY ConstantsAssumption DEF BookInv, TypeOK
  <2> QED BY <2>1, <2>2 DEF Order
<1>2. /\ incoming = NoOrder /\ insert_order(o) /\ arrivals' = arrivals + 1
      /\ UNCHANGED <<incoming, trades>> /\ arrivals \in Nat
      /\ asked \in [Id -> Int] /\ traded \in [Id -> Int]
  BY DEF InsertDirectly, BookInv, TypeOK
<1>3. CASE is_dupe(o)
  <2>1. bids_' = bids_ /\ asks_' = asks_ /\ Resting' = Resting
    BY <1>2, <1>3 DEF insert_order, Resting
  <2>2. asked' = asked /\ traded' = traded
    BY <1>1, <1>2, <1>3 DEF InsertDirectly
  <2>3. TypeOK'
    BY <1>2, <2>2 DEF BookInv, TypeOK
  <2>4. SidesOK' /\ IdsApart' /\ Uncrossed'
    BY <2>1 DEF BookInv, SidesOK, IdsApart, Uncrossed
  <2>5. ArrivalsOK'
    <3>1. \A r \in Resting : r.at \in Nat /\ r.at < arrivals
      BY RestingFacts, Fields DEF BookInv, ArrivalsOK
    <3> QED BY <1>2, <2>1, <3>1 DEF ArrivalsOK
  <2>6. QuantitiesConserved'
    BY <1>2, <2>1, <2>2 DEF BookInv, QuantitiesConserved
  <2> QED BY <2>3, <2>4, <2>5, <2>6 DEF BookInv
<1>4. CASE ~is_dupe(o)
  <2>1. \A r \in Resting : r.id # o.id /\ r.at < o.at /\ r.at \in Nat /\ r.id \in Id
    BY <1>1, <1>4, RestingFacts, Fields DEF is_dupe, BookInv, ArrivalsOK
  <2>2. /\ SidesOK'
        /\ o.buy => Range(bids_') = Range(bids_) \cup {o} /\ asks_' = asks_
        /\ ~o.buy => Range(asks_') = Range(asks_) \cup {o} /\ bids_' = bids_
    BY <1>1, <1>2, <2>1, InsertOrder
  <2>3. Resting' = Resting \cup {o}
    BY <2>2 DEF Resting
  <2>4. /\ asked' = [asked EXCEPT ![o.id] = o.qty]
        /\ traded' = [traded EXCEPT ![o.id] = 0]
    BY <1>4 DEF InsertDirectly
  <2>5. TypeOK'
    BY <1>1, <1>2, <2>4 DEF BookInv, TypeOK
  <2>6. ArrivalsOK'
    BY <1>1, <1>2, <2>1, <2>3 DEF ArrivalsOK
  <2>7. IdsApart' /\ Uncrossed'
    BY <1>1, <2>1, <2>2 DEF BookInv, IdsApart, Uncrossed, can_match, Resting
  <2>8. Settled(Live)'
    <3>1. Live = Resting /\ Live' = Resting \cup {o}
      BY <1>2, <2>3 DEF Live
    <3>2. Settled(Resting)
      BY <3>1, ConservedIsSettled DEF BookInv
    <3> QED BY <1>1, <1>2, <2>1, <2>4, <3>1, <3>2 DEF Settled
  <2>9. QuantitiesConserved'
    BY <2>8 DEF QuantitiesConserved, Settled, Live
  <2> QED BY <2>2, <2>5, <2>6, <2>7, <2>9 DEF BookInv
<1> QED BY <1>3, <1>4

-----------------------------------------------------------------------------
(* The theorems.                                                           *)

\* The strengthened invariant: each vector is sorted and holds one side, ids
\* and arrival times tell the orders apart, and the ledger is right.
THEOREM BookInvariant == Spec => []BookInv
<1>1. BookInv /\ [Next]_vars => BookInv'
  <2> SUFFICES ASSUME BookInv, [Next]_vars PROVE BookInv'
    OBVIOUS
  <2>1. CASE UNCHANGED vars
    <3>1. /\ UNCHANGED <<bids_, asks_, incoming, trades, arrivals, asked, traded>>
          /\ Resting' = Resting
      BY <2>1 DEF vars, ledger, Resting
    <3>2. TypeOK' /\ SidesOK' /\ ArrivalsOK' /\ IdsApart' /\ Uncrossed' /\ QuantitiesConserved'
      BY <3>1 DEF BookInv, TypeOK, SidesOK, ArrivalsOK, IdsApart, Uncrossed, QuantitiesConserved
    <3> QED BY <3>2 DEF BookInv
  <2>2. CASE \E o \in Submissions(FALSE) : AddOrder(o)
    BY <2>2, AddOrderInv
  <2>3. CASE Match
    BY <2>3, MatchInv
  <2>4. CASE Finish
    BY <2>4, FinishInv
  <2>5. CASE \E i \in Id : CancelOrder(i)
    BY <2>5, CancelOrderInv
  <2>6. CASE \E o \in Submissions(TRUE) : InsertDirectly(o)
    BY <2>6, InsertDirectlyInv
  <2>7. CASE AddOrderThrow
    BY <2>7, AddOrderThrowInv
  <2> QED BY <2>1, <2>2, <2>3, <2>4, <2>5, <2>6, <2>7 DEF Next
<1> QED BY <1>1, InitInv, PTL DEF Spec

\* Price-time priority: in each vector the orders are sorted by price and, at
\* one price, by arrival, whatever was inserted, filled in part and cancelled.
THEOREM PriorityKept == Spec => []BookSorted
<1>1. BookInv => BookSorted
  <2> SUFFICES ASSUME BookInv PROVE BookSorted
    OBVIOUS
  <2>1. /\ \A i \in 1..Len(bids_) : bids_[i].buy
        /\ \A i \in 1..Len(asks_) : ~asks_[i].buy
    BY RestingFacts, InRange DEF BookInv, SidesOK
  <2>2. /\ \A i, j \in 1..Len(bids_) : i < j => Behind(bids_[i], bids_[j])
        /\ \A i, j \in 1..Len(asks_) : i < j => Behind(asks_[i], asks_[j])
    BY DEF BookInv, SidesOK, SideOK
  <2> QED BY <2>1, <2>2 DEF BookSorted, Behind
<1> QED BY <1>1, BookInvariant, PTL

\* AddOrder never leaves a bid and an ask that could trade with each other.
THEOREM NeverCrossed == Spec => []BookUncrossed
<1>1. BookInv => BookUncrossed
  BY DEF BookInv, Uncrossed, BookUncrossed
<1> QED BY <1>1, BookInvariant, PTL

\* An id names at most one order, also one that is just being added.
THEOREM IdsNameOrders == Spec => []IdsUnique
<1>1. BookInv => IdsUnique
  <2> SUFFICES ASSUME BookInv PROVE IdsUnique
    OBVIOUS
  <2>1. incoming # NoOrder => ~is_dupe(incoming)
    BY DEF BookInv, ArrivalsOK, is_dupe
  <2> QED BY <2>1 DEF BookInv, SidesOK, SideOK, IdsApart, IdsUnique
<1> QED BY <1>1, BookInvariant, PTL

\* No unit is traded twice or lost, for any quantities, negative ones included.
THEOREM NothingLost == Spec => []QuantitiesConserved
<1>1. BookInv => QuantitiesConserved
  BY DEF BookInv
<1> QED BY <1>1, BookInvariant, PTL

-----------------------------------------------------------------------------
(* The refinement.                                                         *)

\* A trade as PriceTimeMatching shows it.
View(t) ==
  [bid |-> t.OrderIdA, ask |-> t.OrderIdB, aggressor |-> t.AggressorOrderId,
   level |-> t.Level, size |-> t.Size]

Views == [k \in 1..Len(trades) |-> View(trades[k])]

\* A new call shows no trades, and a trade is shown behind the earlier ones.
LEMMA ViewsChange ==
  ASSUME trades \in Seq(Trade)
  PROVE  /\ trades' = <<>> => Views' = <<>>
         /\ \A t \in Trade : trades' = Append(trades, t) => Views' = Append(Views, View(t))
<1>1. ASSUME trades' = <<>> PROVE Views' = <<>>
  BY <1>1 DEF Views
<1>2. ASSUME NEW t \in Trade, trades' = Append(trades, t)
      PROVE  Views' = Append(Views, View(t))
  <2> DEFINE n == Len(trades)
  <2> DEFINE V == {View(x) : x \in Trade}
  <2>1. n \in Nat /\ \A k \in 1..n : trades[k] \in Trade
    BY LenProperties, ElementOfSeq
  <2>2. /\ Len(trades') = n + 1 /\ trades'[n + 1] = t
        /\ \A k \in 1..n : trades'[k] = trades[k]
    BY <1>2, AppendProperties
  <2>3. Views \in Seq(V) /\ Len(Views) = n /\ \A k \in 1..n : Views[k] = View(trades[k])
    BY <2>1 DEF Views
  <2>4. View(t) \in V
    OBVIOUS
  <2>5. Views' \in Seq(V) /\ Len(Views') = n + 1
        /\ \A k \in 1..(n + 1) : Views'[k] = View(trades'[k])
    <3>1. Views' = [k \in 1..(n + 1) |-> View(trades'[k])]
      BY <2>2 DEF Views
    <3>2. \A k \in 1..(n + 1) : trades'[k] \in Trade
      BY <2>1, <2>2
    <3>3. \A k \in 1..(n + 1) : View(trades'[k]) \in V
      BY <3>2
    <3> QED BY <2>1, <3>1, <3>3
  <2>6. /\ Append(Views, View(t)) \in Seq(V) /\ Len(Append(Views, View(t))) = n + 1
        /\ Append(Views, View(t))[n + 1] = View(t)
        /\ \A k \in 1..n : Append(Views, View(t))[k] = View(trades[k])
    BY <2>3, <2>4, AppendProperties
  <2>7. \A k \in 1..(n + 1) : Views'[k] = Append(Views, View(t))[k]
    <3> SUFFICES ASSUME NEW k \in 1..(n + 1) PROVE Views'[k] = Append(Views, View(t))[k]
      OBVIOUS
    <3>1. CASE k = n + 1
      BY <2>2, <2>5, <2>6, <3>1
    <3>2. CASE k \in 1..n
      BY <2>2, <2>5, <2>6, <3>2
    <3>3. n \in Nat
      BY <2>1
    <3> HIDE DEF n
    <3>4. k = n + 1 \/ k \in 1..n
      BY <3>3
    <3> QED BY <3>1, <3>2, <3>4
  <2> HIDE DEF V
  <2> QED BY <2>5, <2>6, <2>7, SeqEqual
<1> QED BY <1>1, <1>2

\* What PriceTimeMatching does with a submitted order.
LEMMA SubmissionRefines ==
  ASSUME NEW i \in Id, NEW l \in Price, NEW b \in BOOLEAN, NEW q \in Quantity,
         NEW d \in BOOLEAN, NEW o,
         o = [id |-> i, level |-> l, buy |-> b, qty |-> q, at |-> arrivals, direct |-> d],
         d => Matching!Place(o) \/ Matching!PlaceRefused(o),
         ~d => Matching!Accept(o) \/ Matching!Refuse(o)
  PROVE  Matching!Next
<1>1. CASE d
  BY <1>1 DEF Matching!Next
<1>2. CASE ~d
  <2>1. Matching!Accept(o) \/ Matching!Refuse(o)
    BY <1>2
  <2> QED BY <1>2, <2>1 DEF Matching!Next, Matching!Accept, Matching!Refuse
<1> QED BY <1>1, <1>2

\* AddOrder begins as Accept or Refuse.
LEMMA AddOrderRefines ==
  ASSUME BookInv, NEW o \in Submissions(FALSE), AddOrder(o)
  PROVE  Matching!Next
<1>1. PICK i \in Id, l \in Price, b \in BOOLEAN, q \in Quantity :
        o = [id |-> i, level |-> l, buy |-> b, qty |-> q, at |-> arrivals, direct |-> FALSE]
  BY DEF Submissions
<1>2. Resting' = Resting /\ Views' = <<>> /\ incoming = NoOrder /\ o.at = arrivals
  BY <1>1, ViewsChange DEF AddOrder, Resting, BookInv, TypeOK
<1>3. Matching!Accept(o) \/ Matching!Refuse(o)
  <2>1. CASE is_dupe(o)
    <3>1. Matching!Known(o.id)
      BY <2>1 DEF is_dupe, Matching!Known
    <3>2. incoming' = incoming /\ arrivals' = arrivals
      BY <2>1 DEF AddOrder
    <3> QED BY <1>2, <3>1, <3>2 DEF Matching!Refuse, Views, View
  <2>2. CASE ~is_dupe(o)
    <3>1. ~Matching!Known(o.id)
      BY <2>2 DEF is_dupe, Matching!Known
    <3>2. incoming' = o /\ arrivals' = arrivals + 1
      BY <2>2 DEF AddOrder
    <3> QED BY <1>2, <3>1, <3>2 DEF Matching!Accept, Views, View
  <2> QED BY <2>1, <2>2
<1>4. o = [id |-> i, level |-> l, buy |-> b, qty |-> q, at |-> arrivals, direct |-> o.direct]
      /\ o.direct \in BOOLEAN /\ ~o.direct
  BY <1>1
<1> QED BY <1>3, <1>4, SubmissionRefines

\* One iteration is the trade with the order that has priority.
LEMMA MatchRefines ==
  ASSUME BookInv, Match
  PROVE  Matching!Next
<1>1. PICK r \in Resting, size \in Int :
        /\ incoming \in Order /\ incoming.qty > 0
        /\ r.buy # incoming.buy
        /\ IF incoming.buy THEN incoming.level >= r.level ELSE r.level >= incoming.level
        /\ \A o \in Resting : o.buy # incoming.buy => o = r \/ Behind(o, r)
        /\ size = IF r.qty < incoming.qty THEN r.qty ELSE incoming.qty
        /\ trades' = Append(trades, TradeOf(r, size))
        /\ incoming' = [incoming EXCEPT !.qty = @ - size]
        /\ arrivals' = arrivals
        /\ LET left == IF r.qty = size THEN {} ELSE {[r EXCEPT !.qty = @ - size]}
           IN  \/ /\ incoming.buy /\ r \in Range(asks_)
                  /\ bids_' = bids_ /\ Range(asks_') = (Range(asks_) \ {r}) \cup left
               \/ /\ ~incoming.buy /\ r \in Range(bids_)
                  /\ asks_' = asks_ /\ Range(bids_') = (Range(bids_) \ {r}) \cup left
  BY MatchFacts
<1> DEFINE left == IF r.qty = size THEN {} ELSE {[r EXCEPT !.qty = @ - size]}
<1>2. /\ r \in Order /\ r.id \in Id /\ r.qty \in Int /\ r.level \in Price
      /\ incoming.id \in Id /\ incoming.level \in Price /\ incoming.buy \in BOOLEAN
      /\ incoming # NoOrder /\ r.buy \in BOOLEAN
  BY <1>1, RestingFacts, Fields, IsOrder
<1>3. Resting' = (Resting \ {r}) \cup left
  <2>1. CASE incoming.buy
    <3>1. r \notin Range(bids_)
      BY <1>1, <1>2, <2>1, RestingFacts
    <3> QED BY <1>1, <2>1, <3>1 DEF Resting
  <2>2. CASE ~incoming.buy
    <3>1. r \notin Range(asks_)
      BY <1>1, <1>2, <2>2, RestingFacts
    <3> QED BY <1>1, <2>2, <3>1 DEF Resting
  <2> QED BY <2>1, <2>2
<1>4. Views' = Append(Views,
        [bid |-> IF incoming.buy THEN incoming.id ELSE r.id,
         ask |-> IF incoming.buy THEN r.id ELSE incoming.id,
         aggressor |-> incoming.id,
         level |-> IF incoming.buy THEN r.level ELSE incoming.level,
         size |-> size])
  <2>1. TradeOf(r, size) \in Trade
    BY <1>1, <1>2 DEF TradeOf, Trade
  <2>2. Views' = Append(Views, View(TradeOf(r, size)))
    BY <1>1, <2>1, ViewsChange DEF BookInv, TypeOK
  <2> QED BY <2>2 DEF View, TradeOf
<1>5. r \in Matching!Opposite(incoming) /\ Matching!Crosses(incoming, r)
  BY <1>1 DEF Matching!Opposite, Matching!Crosses
<1>6. \A o \in Matching!Opposite(incoming) : o = r \/ Matching!Before(r, o)
  <2> SUFFICES ASSUME NEW o \in Resting, o.buy # incoming.buy
               PROVE  o = r \/ Matching!Before(r, o)
    BY DEF Matching!Opposite
  <2>1. o = r \/ Behind(o, r)
    BY <1>1
  <2>2. /\ o.buy \in BOOLEAN /\ o.level \in Int /\ r.level \in Int
        /\ o.at \in Nat /\ r.at \in Nat
    BY <1>2, RestingFacts, Fields
  <2> QED BY <1>1, <1>2, <2>1, <2>2 DEF Behind, Matching!Before
<1>7. Matching!Execute(r)
  BY <1>1, <1>2, <1>3, <1>4, <1>5, <1>6 DEF Matching!Execute, Views, View
<1> QED BY <1>7 DEF Matching!Next

\* The loop ends when nothing crosses, and the rest of the order is put down.
LEMMA FinishRefines ==
  ASSUME BookInv, Finish
  PROVE  Matching!Next
<1>1. /\ incoming \in Order /\ incoming # NoOrder /\ incoming' = NoOrder /\ ~Matches
      /\ trades' = trades /\ arrivals' = arrivals /\ incoming.qty \in Int
  BY Fields DEF Finish, BookInv, TypeOK
<1>2. incoming.qty <= 0 \/ \A r \in Matching!Opposite(incoming) : ~Matching!Crosses(incoming, r)
  <2> SUFFICES ASSUME incoming.qty > 0, NEW r \in Resting, r.buy # incoming.buy
               PROVE  ~Matching!Crosses(incoming, r)
    BY <1>1 DEF Matching!Opposite
  <2> QED BY <1>1, NothingCrosses DEF Matching!Crosses
<1>3. Resting' = Resting \cup (IF incoming.qty > 0 THEN {incoming} ELSE {})
  <2>1. CASE incoming.qty > 0
    <3>1. insert_order(incoming)
      BY <2>1 DEF Finish
    <3>2. /\ incoming.buy => Range(bids_') = Range(bids_) \cup {incoming} /\ asks_' = asks_
          /\ ~incoming.buy => Range(asks_') = Range(asks_) \cup {incoming} /\ bids_' = bids_
      BY <1>1, <3>1, InsertOrder DEF BookInv, ArrivalsOK
    <3> QED BY <2>1, <3>2 DEF Resting
  <2>2. CASE ~(incoming.qty > 0)
    BY <2>2 DEF Finish, Resting
  <2> QED BY <2>1, <2>2
<1>4. Matching!Finish
  BY <1>1, <1>2, <1>3 DEF Matching!Finish
<1> QED BY <1>4 DEF Matching!Next

LEMMA AddOrderThrowRefines ==
  ASSUME AddOrderThrow
  PROVE  Matching!Next
<1>1. Matching!Abandon
  BY DEF AddOrderThrow, Matching!Abandon, Resting
<1> QED BY <1>1 DEF Matching!Next

LEMMA CancelOrderRefines ==
  ASSUME BookInv, NEW id \in Id, CancelOrder(id)
  PROVE  Matching!Next
<1>1. Matching!Cancel(id)
  BY CancelFacts DEF CancelOrder, Matching!Cancel
<1> QED BY <1>1 DEF Matching!Next

LEMMA InsertDirectlyRefines ==
  ASSUME BookInv, NEW o \in Submissions(TRUE), InsertDirectly(o)
  PROVE  Matching!Next
<1>1. PICK i \in Id, l \in Price, b \in BOOLEAN, q \in Quantity :
        o = [id |-> i, level |-> l, buy |-> b, qty |-> q, at |-> arrivals, direct |-> TRUE]
  BY DEF Submissions
<1>2. /\ incoming = NoOrder /\ incoming' = incoming /\ trades' = trades
      /\ arrivals' = arrivals + 1 /\ o.at = arrivals /\ insert_order(o)
  BY <1>1 DEF InsertDirectly
<1>3. Matching!Place(o) \/ Matching!PlaceRefused(o)
  <2>1. CASE is_dupe(o)
    <3>1. Matching!Known(o.id) /\ Resting' = Resting
      BY <1>2, <2>1 DEF is_dupe, Matching!Known, insert_order, Resting
    <3> QED BY <1>2, <3>1 DEF Matching!PlaceRefused
  <2>2. CASE ~is_dupe(o)
    <3>1. ~Matching!Known(o.id) /\ \A r \in Resting : r.id # o.id
      BY <2>2 DEF is_dupe, Matching!Known
    <3>2. o \in Order
      BY <1>1, ConstantsAssumption DEF Order, BookInv, TypeOK
    <3>3. \A r \in Resting : r.at < o.at
      BY <1>2 DEF BookInv, ArrivalsOK
    <3>4. Resting' = Resting \cup {o}
      BY <1>2, <3>1, <3>2, <3>3, InsertOrder DEF Resting
    <3> QED BY <1>2, <3>1, <3>4 DEF Matching!Place
  <2> QED BY <2>1, <2>2
<1> QED BY <1>1, <1>3 DEF Matching!Next

\* The two sorted vectors implement matching by price and time on a set of
\* orders, for any ids, prices and quantities and any number of orders.
THEOREM Refinement == Spec => ImplementsMatching
<1>1. Init => Matching!Init
  <2> SUFFICES ASSUME Init PROVE Matching!Init
    OBVIOUS
  <2>1. Resting = {}
    BY DEF Init, Resting, Range
  <2> QED BY <2>1 DEF Init, Matching!Init
<1>2. BookInv /\ [Next]_vars => [Matching!Next]_(Matching!vars)
  <2> SUFFICES ASSUME BookInv, [Next]_vars
               PROVE  Matching!Next \/ UNCHANGED Matching!vars
    OBVIOUS
  <2>1. CASE UNCHANGED vars
    BY <2>1 DEF vars, Matching!vars, Resting
  <2>2. CASE \E o \in Submissions(FALSE) : AddOrder(o)
    BY <2>2, AddOrderRefines
  <2>3. CASE Match
    BY <2>3, MatchRefines
  <2>4. CASE Finish
    BY <2>4, FinishRefines
  <2>5. CASE \E i \in Id : CancelOrder(i)
    BY <2>5, CancelOrderRefines
  <2>6. CASE \E o \in Submissions(TRUE) : InsertDirectly(o)
    BY <2>6, InsertDirectlyRefines
  <2>7. CASE AddOrderThrow
    BY <2>7, AddOrderThrowRefines
  <2> QED BY <2>1, <2>2, <2>3, <2>4, <2>5, <2>6, <2>7 DEF Next
<1> QED BY <1>1, <1>2, BookInvariant, PTL DEF Spec, ImplementsMatching, Matching!Spec

=============================================================================
