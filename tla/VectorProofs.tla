----------------------------- MODULE VectorProofs -----------------------------
(***************************************************************************)
(* Vector leaves its array only after one of three kinds of call, loses no *)
(* memory in a growth that throws and implements Stack, for any elements   *)
(* and any number of them, whatever its callers do and whether or not      *)
(* elements can be copied.                                                 *)
(***************************************************************************)
EXTENDS Vector, SequenceTheorems, TLAPS

-----------------------------------------------------------------------------
(* The inductive invariant.                                                *)

Slot == Value \cup {Default, Raw}

VecType ==
  [size : Nat, cap : Nat, arr : Seq(Slot), arrays : Int, objects : Int, fault : BOOLEAN]

\* The elements are the first s.size slots.
Filled(s) ==
  /\ s.size <= Len(s.arr)
  /\ \A i \in 1..Len(s.arr) : s.arr[i] = Raw <=> i > s.size

\* The memory is what the vector has and what constructors lost.
Balanced(s) ==
  /\ s.arrays = lost.arrays + IF s.arr = <<>> THEN 0 ELSE 1
  /\ s.objects = lost.objects + s.size

\* What a member function leaves, if it leaves anything defined.
Result(s) == s \in VecType /\ (s.fault = FALSE => Filled(s) /\ Balanced(s))

\* The capacity is allocated.  It may be smaller than the size, after a resize(),
\* but then three times the capacity, to which the array grows next, holds the
\* elements and, but for the capacity of 1, which grows twice, one more.
Roomy(s) ==
  /\ s.cap > 0 /\ s.cap <= Len(s.arr)
  /\ s.size <= 3 * s.cap /\ (s.size = 3 * s.cap => s.cap = 1)

\* Without a vector there is no array; m_size and m_cap have their initial values.
Bare(s) == s.fault = FALSE /\ s.size = 0 /\ s.cap = 1 /\ s.arr = <<>>

VectorInv ==
  /\ alive \in BOOLEAN
  /\ lost \in [arrays : Nat, objects : Nat]
  /\ vec \in VecType /\ Filled(vec) /\ Balanced(vec)
  /\ ~alive => Bare(vec) /\ misused = {}
  /\ alive /\ misused = {} => fault = FALSE /\ Roomy(vec)

-----------------------------------------------------------------------------
(* What the operations make of a vector.                                   *)

\* The elements.
View(s) == [i \in 1..s.size |-> s.arr[i]]

\* The elements c when those of gone were emptied.
Without(c, gone) == [k \in DOMAIN c |-> IF k \in gone THEN Default ELSE c[k]]

\* The fields of a vector's state.
LEMMA VecFields ==
  ASSUME NEW s \in VecType
  PROVE  /\ s.size \in Nat /\ s.cap \in Nat /\ s.arr \in Seq(Slot)
         /\ s.arrays \in Int /\ s.objects \in Int /\ s.fault \in BOOLEAN
         /\ Len(s.arr) \in Nat /\ DOMAIN s.arr = 1..Len(s.arr)
         /\ \A i \in 1..Len(s.arr) : s.arr[i] \in Slot
<1>1. s.size \in Nat /\ s.cap \in Nat /\ s.arr \in Seq(Slot)
      /\ s.arrays \in Int /\ s.objects \in Int /\ s.fault \in BOOLEAN
  BY DEF VecType
<1> QED BY <1>1, LenProperties, ElementOfSeq

\* A sequence given by its elements.
LEMMA MakeSeq ==
  ASSUME NEW n \in Nat, NEW f \in [1..n -> Slot]
  PROVE  f \in Seq(Slot) /\ Len(f) = n
  OBVIOUS

\* Giving back a new array with the elements made in it leaves nothing changed.
LEMMA TakenBack ==
  ASSUME NEW s \in VecType, NEW n \in Nat, NEW count \in Nat
  PROVE  Deallocate(Constructed(_allocate(s, n), count), n, count) = s
<1>1. s.arrays \in Int /\ s.objects \in Int
  BY DEF VecType
<1>2. PICK x \in Int, y \in Int :
        x = s.arrays + (IF n = 0 THEN 0 ELSE 1) /\ y = s.objects + count
  BY <1>1
<1>3. PICK a : a = [s EXCEPT !.arrays = x]
  OBVIOUS
<1>4. _allocate(s, n) = a
  BY <1>2, <1>3 DEF _allocate
<1>5. a \in VecType /\ a.objects = s.objects /\ a.arrays = x
  BY <1>3 DEF VecType
<1>6. PICK c : c = [a EXCEPT !.objects = y]
  OBVIOUS
<1>7. Constructed(a, count) = c
  BY <1>2, <1>5, <1>6 DEF Constructed
<1>8. c \in VecType /\ c.objects = y /\ c.arrays = x
  BY <1>5, <1>6 DEF VecType
<1>9. c.arrays - (IF n = 0 THEN 0 ELSE 1) = s.arrays /\ c.objects - count = s.objects
  BY <1>1, <1>2, <1>8
<1>10. Deallocate(c, n, count) = [c EXCEPT !.arrays = s.arrays, !.objects = s.objects]
  BY <1>9 DEF Deallocate
<1>11. [c EXCEPT !.arrays = s.arrays, !.objects = s.objects] = s
  BY <1>3, <1>6 DEF VecType
<1> QED BY <1>4, <1>7, <1>10, <1>11

\* A growth to n slots: the memory of the new array and the old one.
LEMMA GrownFields ==
  ASSUME NEW s \in VecType, NEW n \in Nat
  PROVE  LET g == Grown(s, n)
         IN  /\ g \in VecType /\ g.size = s.size /\ g.cap = n /\ g.objects = s.objects
             /\ g.arrays = s.arrays + (IF n = 0 THEN 0 ELSE 1)
                                    - (IF Len(s.arr) = 0 THEN 0 ELSE 1)
             /\ g.arr = [i \in 1..n |->
                           IF i <= s.size /\ i <= Len(s.arr) THEN s.arr[i] ELSE Raw]
             /\ g.fault = (s.fault \/ s.size > n \/ s.size > Len(s.arr))
             /\ Len(g.arr) = n
<1> DEFINE f == [i \in 1..n |-> IF i <= s.size /\ i <= Len(s.arr) THEN s.arr[i] ELSE Raw]
<1>1. /\ s.size \in Nat /\ s.cap \in Nat /\ s.arr \in Seq(Slot) /\ Len(s.arr) \in Nat
      /\ s.arrays \in Int /\ s.objects \in Int /\ s.fault \in BOOLEAN
      /\ \A i \in 1..Len(s.arr) : s.arr[i] \in Slot
  BY VecFields
<1>2. f \in [1..n -> Slot]
  BY <1>1 DEF Slot
<1>3. f \in Seq(Slot) /\ Len(f) = n
  BY <1>2, MakeSeq
<1>4. PICK x \in Int : x = s.arrays + IF n = 0 THEN 0 ELSE 1
  BY <1>1
<1>5. PICK o \in Int : o = s.objects + s.size
  BY <1>1
<1>6. PICK y \in Int : y = x - IF Len(s.arr) = 0 THEN 0 ELSE 1
  OBVIOUS
<1>7. PICK b \in BOOLEAN : b = (s.fault \/ s.size > n \/ s.size > Len(s.arr))
  BY <1>1
<1>8. PICK a : a = [s EXCEPT !.arrays = x]
  OBVIOUS
<1>9. _allocate(s, n) = a
  BY <1>4, <1>8 DEF _allocate
<1>10. /\ a \in VecType /\ a.arrays = x /\ a.objects = s.objects
       /\ a.size = s.size /\ a.cap = s.cap /\ a.arr = s.arr /\ a.fault = s.fault
  BY <1>8 DEF VecType
<1>11. PICK c : c = [a EXCEPT !.objects = o]
  OBVIOUS
<1>12. Constructed(a, s.size) = c
  BY <1>5, <1>10, <1>11 DEF Constructed
<1>13. /\ c \in VecType /\ c.arrays = x /\ c.objects = o
       /\ c.size = s.size /\ c.cap = s.cap /\ c.arr = s.arr /\ c.fault = s.fault
  BY <1>10, <1>11 DEF VecType
<1>14. PICK d : d = [c EXCEPT !.arrays = y, !.objects = s.objects]
  OBVIOUS
<1>15. Deallocate(c, Len(s.arr), s.size) = d
  <2>1. c.objects - s.size = s.objects
    BY <1>1, <1>5, <1>13
  <2>2. c.arrays - (IF Len(s.arr) = 0 THEN 0 ELSE 1) = y
    BY <1>6, <1>13
  <2> QED BY <1>14, <2>1, <2>2 DEF Deallocate
<1>16. /\ d \in VecType /\ d.arrays = y /\ d.objects = s.objects
       /\ d.size = s.size /\ d.cap = s.cap /\ d.arr = s.arr /\ d.fault = s.fault
  BY <1>1, <1>13, <1>14 DEF VecType
<1>17. PICK g : g = [d EXCEPT !.arr = f, !.cap = n, !.fault = b]
  OBVIOUS
<1>18. Grown(s, n) = g
  <2>1. (d.fault \/ s.size > n \/ s.size > Len(s.arr)) = b
    BY <1>7, <1>16
  <2> QED BY <1>9, <1>12, <1>15, <1>17, <2>1 DEF Grown
<1> HIDE DEF f
<1>19. /\ g \in VecType /\ g.arrays = y /\ g.objects = s.objects
       /\ g.size = s.size /\ g.cap = n /\ g.arr = f /\ g.fault = b
  BY <1>3, <1>16, <1>17 DEF VecType
<1> QED BY <1>1, <1>3, <1>4, <1>6, <1>7, <1>18, <1>19 DEF f

\* Growing or shrinking to n slots that hold the elements keeps them, and the
\* old array is given back for the new one.
GrownFrom(g, s, n) ==
  /\ Result(g) /\ g.size = s.size /\ g.cap = n /\ Len(g.arr) = n
  /\ g.fault = FALSE => s.fault = FALSE /\ View(g) = View(s)
  /\ s.fault = FALSE /\ s.size <= n => g.fault = FALSE

LEMMA GrownResult ==
  ASSUME lost \in [arrays : Nat, objects : Nat], NEW s, Result(s), NEW n, n \in Nat,
         NEW g, g = Grown(s, n)
  PROVE  GrownFrom(g, s, n)
<1>1. s \in VecType /\ (s.fault = FALSE => Filled(s) /\ Balanced(s))
  BY DEF Result
<1>2. /\ s.size \in Nat /\ s.arr \in Seq(Slot) /\ Len(s.arr) \in Nat
      /\ s.arrays \in Int /\ s.objects \in Int /\ s.fault \in BOOLEAN
  BY <1>1, VecFields
<1>3. /\ g \in VecType /\ g.size = s.size /\ g.cap = n /\ g.objects = s.objects
      /\ g.arrays = s.arrays + (IF n = 0 THEN 0 ELSE 1) - (IF Len(s.arr) = 0 THEN 0 ELSE 1)
      /\ g.arr = [i \in 1..n |-> IF i <= s.size /\ i <= Len(s.arr) THEN s.arr[i] ELSE Raw]
      /\ g.fault = (s.fault \/ s.size > n \/ s.size > Len(s.arr))
      /\ Len(g.arr) = n
  BY <1>1, GrownFields
<1>4. ASSUME g.fault = FALSE
      PROVE  s.fault = FALSE /\ Filled(g) /\ Balanced(g) /\ View(g) = View(s)
  <2>a. ~s.fault /\ ~(s.size > n) /\ ~(s.size > Len(s.arr))
    BY <1>3, <1>4, Zenon
  <2>1. s.fault = FALSE /\ s.size <= n /\ s.size <= Len(s.arr)
    BY <1>2, <2>a
  <2>2. Filled(s) /\ Balanced(s)
    BY <1>1, <2>1
  <2>3. \A i \in 1..n : g.arr[i] = IF i <= s.size THEN s.arr[i] ELSE Raw
    BY <1>2, <1>3, <2>1
  <2>4. \A i \in 1..s.size : s.arr[i] # Raw
    BY <1>2, <2>1, <2>2 DEF Filled
  <2>5. Filled(g)
    BY <1>2, <1>3, <2>1, <2>3, <2>4 DEF Filled
  <2>6. (s.arr = <<>> <=> Len(s.arr) = 0) /\ (g.arr = <<>> <=> n = 0)
    BY <1>2, <1>3, EmptySeq, VecFields
  <2>7. lost.arrays \in Nat /\ lost.objects \in Nat
    OBVIOUS
  <2>8. Balanced(g)
    BY <1>2, <1>3, <2>2, <2>6, <2>7 DEF Balanced
  <2>9. View(g) = View(s)
    BY <1>2, <1>3, <2>1, <2>3 DEF View
  <2> QED BY <2>1, <2>5, <2>8, <2>9
<1>5. ASSUME s.fault = FALSE, s.size <= n
      PROVE  g.fault = FALSE
  BY <1>1, <1>2, <1>3, <1>5 DEF Filled
<1> QED BY <1>3, <1>4, <1>5 DEF Result, GrownFrom

\* The two growths before an element is appended.  Where there was room to grow
\* there is then room for one more.
LEMMA Grow1Result ==
  ASSUME lost \in [arrays : Nat, objects : Nat], NEW s, Result(s), NEW g, g = Grow1(s)
  PROVE  /\ Result(g) /\ g.size = s.size
         /\ g.fault = FALSE => s.fault = FALSE /\ View(g) = View(s)
         /\ s.fault = FALSE /\ Roomy(s) => g.fault = FALSE /\ Roomy(g) /\ g.cap > 1
<1>1. s \in VecType /\ s.size \in Nat /\ s.cap \in Nat
  BY VecFields DEF Result
<1>2. CASE s.cap = 1
  <2>1. g = Grown(s, 3)
    BY <1>2 DEF Grow1
  <2>2. /\ Result(g) /\ g.size = s.size /\ g.cap = 3 /\ Len(g.arr) = 3
        /\ g.fault = FALSE => s.fault = FALSE /\ View(g) = View(s)
        /\ s.fault = FALSE /\ s.size <= 3 => g.fault = FALSE
    <3>1. GrownFrom(g, s, 3)
      BY <2>1, GrownResult
    <3> QED BY <3>1 DEF GrownFrom
  <2>3. Roomy(s) => s.size <= 3
    BY <1>1, <1>2 DEF Roomy
  <2>4. Roomy(s) => Roomy(g)
    BY <1>1, <2>2, <2>3 DEF Roomy
  <2> QED BY <2>2, <2>3, <2>4
<1>3. CASE s.cap # 1
  BY <1>1, <1>3 DEF Grow1, Roomy
<1> QED BY <1>2, <1>3

LEMMA Grow2Result ==
  ASSUME lost \in [arrays : Nat, objects : Nat], NEW s, Result(s), NEW g, g = Grow2(s)
  PROVE  /\ Result(g) /\ g.size = s.size
         /\ g.fault = FALSE => s.fault = FALSE /\ View(g) = View(s)
         /\ s.fault = FALSE /\ Roomy(s) /\ s.cap > 1 =>
              g.fault = FALSE /\ Roomy(g) /\ g.size < g.cap
<1>1. s \in VecType /\ s.size \in Nat /\ s.cap \in Nat
  BY VecFields DEF Result
<1>2. CASE s.size >= s.cap
  <2>1. PICK n \in Nat : n = s.cap * 3
    BY <1>1
  <2>2. g = Grown(s, n)
    BY <1>2, <2>1 DEF Grow2
  <2>3. /\ Result(g) /\ g.size = s.size /\ g.cap = n /\ Len(g.arr) = n
        /\ g.fault = FALSE => s.fault = FALSE /\ View(g) = View(s)
        /\ s.fault = FALSE /\ s.size <= n => g.fault = FALSE
    <3>1. GrownFrom(g, s, n)
      BY <2>2, GrownResult
    <3> QED BY <3>1 DEF GrownFrom
  <2>4. Roomy(s) /\ s.cap > 1 => s.size < n /\ n > 0
    BY <1>1, <2>1 DEF Roomy
  <2>5. Roomy(s) /\ s.cap > 1 => s.size <= n /\ Roomy(g) /\ g.size < g.cap
    BY <1>1, <2>3, <2>4 DEF Roomy
  <2> QED BY <2>3, <2>5
<1>3. CASE ~(s.size >= s.cap)
  BY <1>1, <1>3 DEF Grow2
<1> QED BY <1>2, <1>3

\* The slot of the new element is touched.
LEMMA ReachedResult ==
  ASSUME NEW s, Result(s), NEW t, t = Reached(s)
  PROVE  /\ Result(t) /\ t.size = s.size
         /\ t.fault = FALSE => s.fault = FALSE /\ t = s /\ s.size + 1 <= Len(s.arr)
         /\ s.fault = FALSE /\ s.size + 1 <= Len(s.arr) => t.fault = FALSE
<1>1. s \in VecType /\ s.size \in Nat /\ Len(s.arr) \in Nat /\ s.fault \in BOOLEAN
  BY VecFields DEF Result
<1>2. PICK b \in BOOLEAN : b = (s.fault \/ s.size + 1 > Len(s.arr))
  BY <1>1
<1>3. t = [s EXCEPT !.fault = b]
  BY <1>2 DEF Reached
<1>4. t \in VecType /\ t.fault = b /\ t.size = s.size
  BY <1>1, <1>3 DEF VecType
<1>5. ASSUME b = FALSE
      PROVE  s.fault = FALSE /\ t = s /\ s.size + 1 <= Len(s.arr)
  <2>1. ~s.fault /\ ~(s.size + 1 > Len(s.arr))
    BY <1>2, <1>5, Zenon
  <2>2. s.fault = FALSE /\ s.size + 1 <= Len(s.arr)
    BY <1>1, <2>1
  <2>3. t = [s EXCEPT !.fault = s.fault]
    BY <1>3, <1>5, <2>2
  <2>4. t = s
    BY <1>1, <2>3 DEF VecType
  <2> QED BY <2>2, <2>4
<1>6. ASSUME s.fault = FALSE, s.size + 1 <= Len(s.arr)
      PROVE  b = FALSE
  <2>1. ~(s.size + 1 > Len(s.arr))
    BY <1>1, <1>6
  <2> QED BY <1>2, <1>6, <2>1, Zenon
<1> QED BY <1>4, <1>5, <1>6 DEF Result

\* The new element is built.
LEMMA AppendedResult ==
  ASSUME lost \in [arrays : Nat, objects : Nat],
         NEW s, Result(s), NEW v \in Slot, v # Raw, NEW g, g = Appended(s, v)
  PROVE  /\ Result(g)
         /\ g.fault = FALSE => /\ s.fault = FALSE /\ s.size + 1 <= Len(s.arr)
                              /\ View(g) = Append(View(s), v)
         /\ s.fault = FALSE /\ Roomy(s) /\ s.size < s.cap => g.fault = FALSE /\ Roomy(g)
<1> DEFINE f == [i \in DOMAIN s.arr |-> IF i = s.size + 1 THEN v ELSE s.arr[i]]
<1>1. /\ s \in VecType /\ s.fault \in BOOLEAN
      /\ s.size \in Nat /\ s.cap \in Nat /\ s.arr \in Seq(Slot) /\ Len(s.arr) \in Nat
      /\ s.arrays \in Int /\ s.objects \in Int
      /\ DOMAIN s.arr = 1..Len(s.arr)
      /\ \A i \in 1..Len(s.arr) : s.arr[i] \in Slot
  BY VecFields DEF Result
<1>2. f \in [1..Len(s.arr) -> Slot]
  BY <1>1
<1>3. f \in Seq(Slot) /\ Len(f) = Len(s.arr)
  BY <1>1, <1>2, MakeSeq
<1>4. \A i \in 1..Len(s.arr) : f[i] = IF i = s.size + 1 THEN v ELSE s.arr[i]
  BY <1>1
<1>5. PICK n \in Nat, o \in Int : n = s.size + 1 /\ o = s.objects + 1
  BY <1>1
<1>6. PICK b \in BOOLEAN : b = (s.fault \/ s.size + 1 > Len(s.arr))
  BY <1>1
<1>7. PICK t : t = [s EXCEPT !.fault = b]
  OBVIOUS
<1>8. t = Reached(s)
  BY <1>6, <1>7 DEF Reached
<1>9. /\ t \in VecType /\ t.fault = b /\ t.arr = s.arr /\ t.size = s.size
      /\ t.objects = s.objects /\ t.cap = s.cap /\ t.arrays = s.arrays
  BY <1>1, <1>7 DEF VecType
<1>10. g = [t EXCEPT !.arr = f, !.size = n, !.objects = o]
  <2>1. g = [t EXCEPT !.arr = [i \in DOMAIN t.arr |-> IF i = s.size + 1 THEN v ELSE t.arr[i]],
                      !.size = t.size + 1, !.objects = t.objects + 1]
    BY <1>8 DEF Appended
  <2> QED BY <1>5, <1>9, <2>1
<1> HIDE DEF f
<1>11. /\ g \in VecType /\ g.arr = f /\ g.size = n /\ g.objects = o /\ g.fault = b
       /\ g.cap = s.cap /\ g.arrays = s.arrays
  BY <1>3, <1>9, <1>10 DEF VecType
<1>12. ASSUME b = FALSE
       PROVE  s.fault = FALSE /\ s.size + 1 <= Len(s.arr) /\ Filled(s) /\ Balanced(s)
  <2>1. ~s.fault /\ ~(s.size + 1 > Len(s.arr))
    BY <1>6, <1>12, Zenon
  <2> QED BY <1>1, <2>1 DEF Result
<1>13. ASSUME b = FALSE
       PROVE  Filled(g)
  <2>2. \A i \in 1..Len(s.arr) : f[i] = Raw <=> i > n
    <3> TAKE i \in 1..Len(s.arr)
    <3>1. CASE i = s.size + 1
      BY <1>1, <1>4, <1>5, <3>1
    <3>2. CASE i # s.size + 1
      <4>1. f[i] = s.arr[i]
        BY <1>4, <3>2
      <4>2. i > s.size <=> i > n
        BY <1>1, <1>5, <3>2
      <4> QED BY <1>12, <1>13, <4>1, <4>2 DEF Filled
    <3> QED BY <3>1, <3>2
  <2> QED BY <1>1, <1>3, <1>5, <1>11, <1>12, <1>13, <2>2 DEF Filled
<1>14. ASSUME b = FALSE
       PROVE  Balanced(g)
  <2>0. s.size + 1 <= Len(s.arr) /\ Balanced(s)
    BY <1>12, <1>14
  <2>a. Len(s.arr) # 0 /\ Len(f) # 0
    BY <1>1, <1>3, <2>0
  <2>1. s.arr # <<>> /\ f # <<>>
    BY <2>a, EmptySeq
  <2>2. lost.arrays \in Nat /\ lost.objects \in Nat
    OBVIOUS
  <2>3. s.arrays = lost.arrays + 1 /\ s.objects = lost.objects + s.size
    BY <2>0, <2>1 DEF Balanced
  <2>4. g.arrays = lost.arrays + 1 /\ g.objects = lost.objects + g.size
    BY <1>1, <1>5, <1>11, <2>2, <2>3
  <2> QED BY <1>11, <2>1, <2>4 DEF Balanced
<1>15. ASSUME b = FALSE
       PROVE  View(g) = Append(View(s), v)
  <2>0. s.size + 1 <= Len(s.arr)
    BY <1>12, <1>15
  <2>1. View(s) \in [1..s.size -> Slot]
    BY <1>1, <2>0 DEF View
  <2>2. View(s) \in Seq(Slot) /\ Len(View(s)) = s.size
    BY <1>1, <2>1, MakeSeq
  <2>3. /\ Append(View(s), v) \in Seq(Slot) /\ Len(Append(View(s), v)) = s.size + 1
        /\ Append(View(s), v)[s.size + 1] = v
        /\ \A i \in 1..s.size : Append(View(s), v)[i] = View(s)[i]
    BY <2>2, AppendProperties
  <2>4. View(g) = [i \in 1..(s.size + 1) |-> f[i]]
    BY <1>5, <1>11 DEF View
  <2>5. View(g) \in [1..(s.size + 1) -> Slot]
    <3>1. \A i \in 1..(s.size + 1) : i \in 1..Len(s.arr)
      BY <1>1, <2>0
    <3>2. \A i \in 1..(s.size + 1) : f[i] \in Slot
      BY <1>1, <1>4, <3>1
    <3> QED BY <2>4, <3>2
  <2>6. View(g) \in Seq(Slot) /\ Len(View(g)) = s.size + 1
    <3>1. s.size + 1 \in Nat
      BY <1>1
    <3> QED BY <2>5, <3>1, MakeSeq
  <2>7. \A i \in 1..(s.size + 1) : View(g)[i] = Append(View(s), v)[i]
    <3> TAKE i \in 1..(s.size + 1)
    <3>1. View(g)[i] = f[i] /\ i \in 1..Len(s.arr)
      BY <1>1, <2>0, <2>4
    <3>2. CASE i = s.size + 1
      BY <1>4, <2>3, <3>1, <3>2
    <3>3. CASE i # s.size + 1
      <4>1. i \in 1..s.size
        BY <1>1, <3>3
      <4> QED BY <1>4, <2>3, <3>1, <3>3, <4>1 DEF View
    <3> QED BY <3>2, <3>3
  <2> QED BY <2>3, <2>6, <2>7, SeqEqual
<1>16. ASSUME s.fault = FALSE, Roomy(s), s.size < s.cap
       PROVE  b = FALSE /\ Roomy(g)
  <2>1. s.cap <= Len(s.arr) /\ s.cap > 0
    BY <1>16 DEF Roomy
  <2>2. n <= s.cap
    BY <1>1, <1>5, <1>16
  <2>3. ~(s.size + 1 > Len(s.arr))
    BY <1>1, <1>5, <2>1, <2>2
  <2>4. n <= 3 * s.cap /\ n # 3 * s.cap
    BY <1>1, <1>5, <2>1, <2>2
  <2>5. Roomy(g)
    BY <1>3, <1>11, <2>1, <2>4 DEF Roomy
  <2>6. b = FALSE
    BY <1>6, <1>16, <2>3, Zenon
  <2> QED BY <2>5, <2>6
<1> QED BY <1>11, <1>12, <1>13, <1>14, <1>15, <1>16 DEF Result

\* Elements that were moved from are elements still.
LEMMA EmptiedResult ==
  ASSUME NEW s, Result(s), NEW gone \in SUBSET (1..s.size), NEW t, t = Emptied(s, gone)
  PROVE  /\ Result(t) /\ t.size = s.size /\ t.cap = s.cap /\ t.fault = s.fault
         /\ t.arrays = s.arrays /\ t.objects = s.objects /\ Len(t.arr) = Len(s.arr)
         /\ s.fault = FALSE =>
              View(t) = Without(View(s), gone)
<1> DEFINE f == [k \in DOMAIN s.arr |-> IF k \in gone THEN Default ELSE s.arr[k]]
<1>1. /\ s \in VecType /\ s.size \in Nat /\ s.arr \in Seq(Slot) /\ Len(s.arr) \in Nat
      /\ DOMAIN s.arr = 1..Len(s.arr)
      /\ \A i \in 1..Len(s.arr) : s.arr[i] \in Slot
  BY VecFields DEF Result
<1>2. f \in [1..Len(s.arr) -> Slot]
  BY <1>1 DEF Slot
<1>3. f \in Seq(Slot) /\ Len(f) = Len(s.arr)
  BY <1>1, <1>2, MakeSeq
<1>4. \A k \in 1..Len(s.arr) : f[k] = IF k \in gone THEN Default ELSE s.arr[k]
  BY <1>1
<1>5. t = [s EXCEPT !.arr = f]
  BY DEF Emptied
<1> HIDE DEF f
<1>6. /\ t \in VecType /\ t.size = s.size /\ t.cap = s.cap /\ t.fault = s.fault
      /\ t.arrays = s.arrays /\ t.objects = s.objects /\ t.arr = f
  BY <1>1, <1>3, <1>5 DEF VecType
<1>7. ASSUME s.fault = FALSE
      PROVE  /\ Filled(t) /\ Balanced(t)
             /\ View(t) = Without(View(s), gone)
  <2>1. Filled(s) /\ Balanced(s)
    BY <1>7 DEF Result
  <2>2. s.size <= Len(s.arr)
    BY <2>1 DEF Filled
  <2>3. \A k \in 1..Len(s.arr) : f[k] = Raw <=> k > s.size
    <3> TAKE k \in 1..Len(s.arr)
    <3>1. CASE k \in gone
      BY <1>1, <1>4, <2>2, <3>1, ConstantsAssumption
    <3>2. CASE k \notin gone
      BY <1>4, <2>1, <3>2 DEF Filled
    <3> QED BY <3>1, <3>2
  <2>4. Filled(t)
    BY <1>3, <1>6, <2>2, <2>3 DEF Filled
  <2>5. s.arr = <<>> <=> f = <<>>
    BY <1>1, <1>3, EmptySeq
  <2>6. Balanced(t)
    BY <1>6, <2>1, <2>5 DEF Balanced
  <2>7. \A k \in 1..s.size : k \in 1..Len(s.arr)
    BY <1>1, <2>2
  <2>8. DOMAIN View(s) = 1..s.size /\ \A k \in 1..s.size : View(s)[k] = s.arr[k]
    BY DEF View
  <2>9. View(t) = [k \in 1..s.size |-> f[k]]
    BY <1>6 DEF View
  <2>10. View(t) = Without(View(s), gone)
    BY <1>4, <2>7, <2>8, <2>9 DEF Without
  <2> QED BY <2>4, <2>6, <2>10
<1> QED BY <1>3, <1>6, <1>7 DEF Result

\* A growth of s to n slots that throws gives its array and its elements back.
FailedFrom(t, s, n, gone) ==
  /\ Result(t) /\ t.size = s.size /\ t.cap = s.cap /\ Len(t.arr) = Len(s.arr)
  /\ t.fault = FALSE => s.fault = FALSE /\ View(t) = Without(View(s), gone)
  /\ s.fault = FALSE /\ s.size <= n => t.fault = FALSE

LEMMA GrowFailedResult ==
  ASSUME NEW s, Result(s), NEW n, n \in Nat, NEW i \in 0..(s.size - 1),
         NEW gone \in SUBSET (1..(i + 1)), NEW t, t = GrowFailed(s, n, i, gone)
  PROVE  FailedFrom(t, s, n, gone)
<1>1. s \in VecType /\ s.size \in Nat /\ s.fault \in BOOLEAN /\ i \in Nat /\ i + 1 <= s.size
  BY VecFields DEF Result
<1>2. gone \in SUBSET (1..s.size)
  BY <1>1
<1>3. PICK e : e = Emptied(s, gone)
  OBVIOUS
<1>4. /\ Result(e) /\ e.size = s.size /\ e.cap = s.cap /\ e.fault = s.fault
      /\ Len(e.arr) = Len(s.arr)
      /\ s.fault = FALSE =>
           View(e) = Without(View(s), gone)
  BY <1>2, <1>3, EmptiedResult
<1>5. e \in VecType /\ e.arrays \in Int /\ e.objects \in Int
  BY <1>4, VecFields DEF Result
<1>6. Deallocate(Constructed(_allocate(e, n), i), n, i) = e
  BY <1>1, <1>5, TakenBack
<1>7. PICK b \in BOOLEAN : b = (s.fault \/ i >= n)
  BY <1>1
<1>8. t = [e EXCEPT !.fault = b]
  BY <1>3, <1>4, <1>6, <1>7 DEF GrowFailed
<1>9. /\ t \in VecType /\ t.size = e.size /\ t.cap = e.cap /\ t.arr = e.arr
      /\ t.arrays = e.arrays /\ t.objects = e.objects /\ t.fault = b
  BY <1>5, <1>8 DEF VecType
<1>10. ASSUME b = FALSE
       PROVE  s.fault = FALSE
  BY <1>1, <1>7, <1>10, Zenon
<1>11. ASSUME b = FALSE
       PROVE  Filled(t) /\ Balanced(t)
  <2>1. e.fault = FALSE
    BY <1>4, <1>10, <1>11
  <2>2. Filled(e) /\ Balanced(e)
    BY <1>4, <2>1 DEF Result
  <2> QED BY <1>9, <2>2 DEF Filled, Balanced
<1>12. View(t) = View(e)
  BY <1>9 DEF View
<1>13. ASSUME s.fault = FALSE, s.size <= n
       PROVE  b = FALSE
  <2>1. ~(i >= n)
    BY <1>1, <1>13
  <2> QED BY <1>7, <1>13, <2>1, Zenon
<1> QED BY <1>4, <1>9, <1>10, <1>11, <1>12, <1>13 DEF Result, FailedFrom

-----------------------------------------------------------------------------
(* A step of the vector.                                                   *)

\* Become(s) leaves the vector as s, with its elements, or as it was.
LEMMA Became ==
  ASSUME NEW s \in VecType, Become(s)
  PROVE  /\ s.fault = FALSE => vec' = s /\ fault' = FALSE /\ Contents' = View(s)
         /\ s.fault = TRUE => /\ fault' = TRUE /\ Contents' = Contents
                             /\ UNCHANGED <<m_size, m_cap, p_arr, arrays, objects>>
<1>1. ASSUME s.fault = FALSE
      PROVE  vec' = s /\ fault' = FALSE /\ Contents' = View(s)
  <2>1. /\ m_size' = s.size /\ m_cap' = s.cap /\ p_arr' = s.arr
        /\ arrays' = s.arrays /\ objects' = s.objects /\ fault' = s.fault
    BY <1>1 DEF Become
  <2>2. Contents' = View(s)
    BY <2>1 DEF View, Contents
  <2>3. vec' = [size |-> s.size, cap |-> s.cap, arr |-> s.arr,
                arrays |-> s.arrays, objects |-> s.objects, fault |-> s.fault]
    BY <2>1 DEF vec
  <2>4. vec' = s
    BY <2>3 DEF VecType
  <2> QED BY <1>1, <2>1, <2>2, <2>4
<1>2. ASSUME s.fault = TRUE
      PROVE  /\ fault' = TRUE /\ Contents' = Contents
             /\ UNCHANGED <<m_size, m_cap, p_arr, arrays, objects>>
  BY <1>2 DEF Become, Contents
<1> QED BY <1>1, <1>2

\* What a member function finds.
LEMMA Using ==
  ASSUME VectorInv, Usable
  PROVE  /\ Result(vec) /\ vec \in VecType /\ vec.fault = FALSE /\ Filled(vec) /\ Balanced(vec)
         /\ vec.size = m_size /\ vec.cap = m_cap /\ vec.arr = p_arr
         /\ vec.arrays = arrays /\ vec.objects = objects
         /\ m_size \in Nat /\ m_cap \in Nat
         /\ Contents = View(vec)
         /\ misused = {} => Roomy(vec)
         /\ lost \in [arrays : Nat, objects : Nat]
<1>1. /\ vec.size = m_size /\ vec.cap = m_cap /\ vec.arr = p_arr
      /\ vec.arrays = arrays /\ vec.objects = objects /\ vec.fault = fault
  BY DEF vec
<1>2. /\ vec \in VecType /\ Filled(vec) /\ Balanced(vec)
      /\ misused = {} => Roomy(vec)
      /\ lost \in [arrays : Nat, objects : Nat]
  BY DEF VectorInv, Usable
<1>3. vec.size \in Nat /\ vec.cap \in Nat /\ vec.fault \in BOOLEAN
  BY <1>2, VecFields
<1>4. vec.fault = FALSE
  BY <1>1, <1>3 DEF Usable
<1>5. Contents = View(vec)
  BY <1>1 DEF Contents, View
<1>6. Result(vec)
  BY <1>2 DEF Result
<1> QED BY <1>1, <1>2, <1>3, <1>4, <1>5, <1>6

\* A member function keeps the invariant if what it leaves is in order and, as
\* long as the vector was not misused, defined and with room to grow.
LEMMA Kept ==
  ASSUME VectorInv, Usable, NEW s, Result(s), Become(s), UNCHANGED <<alive, lost>>,
         misused' = {} => s.fault = FALSE /\ Roomy(s)
  PROVE  /\ VectorInv'
         /\ s.fault = FALSE => Contents' = View(s)
         /\ s.fault = TRUE => Contents' = Contents
<1>1. s \in VecType /\ s.fault \in BOOLEAN
  BY VecFields DEF Result
<1>2. alive' = TRUE /\ lost' = lost /\ lost' \in [arrays : Nat, objects : Nat]
  BY DEF Usable, VectorInv
<1>3. CASE s.fault = FALSE
  <2>1. vec' = s /\ fault' = FALSE /\ Contents' = View(s)
    BY <1>1, <1>3, Became
  <2>2. Filled(s) /\ Balanced(s)
    BY <1>3 DEF Result
  <2>3. vec' \in VecType /\ Filled(vec)'
    BY <1>1, <2>1, <2>2 DEF Filled
  <2>4. Balanced(vec)'
    BY <1>2, <2>1, <2>2 DEF Balanced
  <2>5. misused' = {} => Roomy(vec)'
    BY <2>1 DEF Roomy
  <2> QED BY <1>2, <1>3, <2>1, <2>3, <2>4, <2>5 DEF VectorInv
<1>4. CASE s.fault = TRUE
  <2>1. /\ fault' = TRUE /\ Contents' = Contents
        /\ UNCHANGED <<m_size, m_cap, p_arr, arrays, objects>>
    BY <1>1, <1>4, Became
  <2>2. misused' # {}
    BY <1>4
  <2>3. vec' = [size |-> m_size, cap |-> m_cap, arr |-> p_arr,
                arrays |-> arrays, objects |-> objects, fault |-> TRUE]
    BY <2>1 DEF vec
  <2>4. /\ vec' \in VecType /\ vec'.size = vec.size /\ vec'.arr = vec.arr
        /\ vec'.arrays = vec.arrays /\ vec'.objects = vec.objects
    BY <2>3, Using, VecFields DEF VecType
  <2>5. Filled(vec)' /\ Balanced(vec)'
    BY <1>2, <2>4, Using DEF Filled, Balanced
  <2> QED BY <1>2, <1>4, <2>1, <2>2, <2>4, <2>5 DEF VectorInv
<1> QED BY <1>1, <1>3, <1>4

\* push_back of a value.
LEMMA PushBackStep ==
  ASSUME VectorInv, NEW v \in Value, PushBack(v)
  PROVE  VectorInv' /\ Contents' \in {Contents, Append(Contents, v)}
<1>1. Usable /\ UNCHANGED <<alive, lost>> /\ misused' = misused
  BY DEF PushBack
<1>2. PICK r : r = vec
  OBVIOUS
<1>3. /\ Result(r) /\ r.fault = FALSE /\ Contents = View(r) /\ (misused = {} => Roomy(r))
      /\ lost \in [arrays : Nat, objects : Nat]
  BY <1>1, <1>2, Using
<1>4. PICK a : a = Grow1(r)
  OBVIOUS
<1>5. /\ Result(a) /\ a.size = r.size
      /\ a.fault = FALSE => View(a) = View(r)
      /\ Roomy(r) => a.fault = FALSE /\ Roomy(a) /\ a.cap > 1
  BY <1>3, <1>4, Grow1Result
<1>6. PICK b : b = Grow2(a)
  OBVIOUS
<1>7. /\ Result(b) /\ b.size = a.size
      /\ b.fault = FALSE => a.fault = FALSE /\ View(b) = View(a)
      /\ a.fault = FALSE /\ Roomy(a) /\ a.cap > 1 => b.fault = FALSE /\ Roomy(b) /\ b.size < b.cap
  BY <1>3, <1>5, <1>6, Grow2Result
<1>8. v \in Slot /\ v # Raw
  BY ConstantsAssumption DEF Slot
<1>9. PICK s : s = Appended(b, v)
  OBVIOUS
<1>10. /\ Result(s)
       /\ s.fault = FALSE => b.fault = FALSE /\ View(s) = Append(View(b), v)
       /\ b.fault = FALSE /\ Roomy(b) /\ b.size < b.cap => s.fault = FALSE /\ Roomy(s)
  BY <1>3, <1>7, <1>8, <1>9, AppendedResult
<1>11. Become(s)
  BY <1>2, <1>4, <1>6, <1>9 DEF PushBack
<1>12. misused' = {} => s.fault = FALSE /\ Roomy(s)
  BY <1>1, <1>3, <1>5, <1>7, <1>10
<1>13. /\ VectorInv' /\ (s.fault = FALSE => Contents' = View(s))
       /\ s.fault = TRUE => Contents' = Contents
  BY <1>1, <1>10, <1>11, <1>12, Kept
<1>14. s.fault \in BOOLEAN
  BY <1>10, VecFields DEF Result
<1> QED BY <1>3, <1>5, <1>7, <1>10, <1>13, <1>14

\* What a growth that throws leaves of s.
LEMMA GrowThrowsResult ==
  ASSUME NEW s, Result(s), NEW n, n \in Nat, GrowThrows(s, n)
  PROVE  \E t : \E gone \in SUBSET (1..s.size) :
           Become(t) /\ FailedFrom(t, s, n, gone) /\ (copyable => gone = {})
<1>1. CASE Become(s)
  <2>1. View(s) = Without(View(s), {})
    BY DEF View, Without
  <2>2. FailedFrom(s, s, n, {})
    BY <2>1 DEF FailedFrom
  <2> QED BY <1>1, <2>2
<1>2. CASE \E i \in 0..(s.size - 1) :
             \E gone \in GoneSets(s, i) : Become(GrowFailed(s, n, i, gone))
  <2>0. PICK i \in 0..(s.size - 1) :
          \E gone \in GoneSets(s, i) : Become(GrowFailed(s, n, i, gone))
    BY <1>2
  <2>1. PICK gone \in GoneSets(s, i) : Become(GrowFailed(s, n, i, gone))
    BY <2>0
  <2>2. s.size \in Nat
    BY VecFields DEF Result
  <2>3. gone \in SUBSET (1..(i + 1)) /\ (copyable => gone = {})
    BY <2>1 DEF GoneSets
  <2>4. gone \in SUBSET (1..s.size)
    BY <2>2, <2>3
  <2>5. PICK t : t = GrowFailed(s, n, i, gone)
    OBVIOUS
  <2>6. FailedFrom(t, s, n, gone)
    BY <2>3, <2>5, GrowFailedResult
  <2> QED BY <2>1, <2>3, <2>4, <2>5, <2>6
<1> QED BY <1>1, <1>2 DEF GrowThrows

\* push_back throws: the elements stay, or were emptied by moves.
LEMMA PushBackThrowStep ==
  ASSUME VectorInv, PushBackThrow
  PROVE  /\ VectorInv'
         /\ \E gone \in SUBSET (1..m_size) :
              (copyable => gone = {}) /\ Contents' = Without(Contents, gone)
<1>1. Usable /\ UNCHANGED <<alive, lost>> /\ misused' = misused
  BY DEF PushBackThrow
<1>2. PICK r : r = vec
  OBVIOUS
<1>3. /\ Result(r) /\ r.fault = FALSE /\ Contents = View(r) /\ (misused = {} => Roomy(r))
      /\ lost \in [arrays : Nat, objects : Nat] /\ r.size = m_size /\ r.cap = m_cap
      /\ m_size \in Nat /\ m_cap \in Nat
  BY <1>1, <1>2, Using
<1>4. PICK a : a = Grow1(r)
  OBVIOUS
<1>5. /\ Result(a) /\ a.size = r.size
      /\ a.fault = FALSE => View(a) = View(r)
      /\ Roomy(r) => a.fault = FALSE /\ Roomy(a) /\ a.cap > 1
  BY <1>3, <1>4, Grow1Result
<1>6. View(r) = Without(View(r), {})
  BY DEF View, Without
<1>7. ASSUME NEW s, Result(s), s.size = m_size, NEW n, n \in Nat, GrowThrows(s, n),
             s.fault = FALSE => View(s) = View(r),
             Roomy(r) => s.fault = FALSE /\ Roomy(s) /\ s.size <= n
      PROVE  /\ VectorInv'
             /\ \E gone \in SUBSET (1..m_size) :
                  (copyable => gone = {}) /\ Contents' = Without(Contents, gone)
  <2>0. Result(s) /\ GrowThrows(s, n) /\ n \in Nat
    BY <1>7
  <2>1. PICK t : \E gone \in SUBSET (1..s.size) :
          Become(t) /\ FailedFrom(t, s, n, gone) /\ (copyable => gone = {})
    BY <2>0, GrowThrowsResult
  <2>a. PICK gone \in SUBSET (1..s.size) :
          Become(t) /\ FailedFrom(t, s, n, gone) /\ (copyable => gone = {})
    BY <2>1
  <2>2. /\ Result(t) /\ t.size = s.size /\ t.cap = s.cap /\ Len(t.arr) = Len(s.arr)
        /\ t.fault = FALSE => s.fault = FALSE /\ View(t) = Without(View(s), gone)
        /\ s.fault = FALSE /\ s.size <= n => t.fault = FALSE
    BY <2>a DEF FailedFrom
  <2>3. Roomy(s) => Roomy(t)
    BY <2>2 DEF Roomy
  <2>4. misused' = {} => t.fault = FALSE /\ Roomy(t)
    BY <1>1, <1>3, <1>7, <2>2, <2>3
  <2>5. /\ VectorInv' /\ (t.fault = FALSE => Contents' = View(t))
        /\ t.fault = TRUE => Contents' = Contents
    BY <1>1, <2>a, <2>2, <2>4, Kept
  <2>6. t.fault \in BOOLEAN
    BY <2>2, VecFields DEF Result
  <2>7. CASE t.fault = FALSE
    BY <1>3, <1>7, <2>a, <2>2, <2>5, <2>7
  <2>8. CASE t.fault = TRUE
    BY <1>3, <1>6, <2>5, <2>8
  <2> QED BY <2>6, <2>7, <2>8
<1>8. CASE m_cap = 1 /\ GrowThrows(vec, m_cap * 3)
  <2>1. GrowThrows(r, 3)
    BY <1>2, <1>8
  <2>2. Roomy(r) => r.size <= 3
    BY <1>3, <1>8 DEF Roomy
  <2> QED BY <1>3, <1>7, <2>1, <2>2
<1>9. CASE Grow1(vec).size >= Grow1(vec).cap /\ GrowThrows(Grow1(vec), Grow1(vec).cap * 3)
  <2>1. a.cap \in Nat /\ a.size \in Nat
    BY <1>5, VecFields DEF Result
  <2>2. PICK n \in Nat : n = a.cap * 3
    BY <2>1
  <2>3. GrowThrows(a, n)
    BY <1>2, <1>4, <1>9, <2>2
  <2>4. Roomy(a) => a.size <= n
    BY <2>1, <2>2 DEF Roomy
  <2> QED BY <1>3, <1>5, <1>7, <2>3, <2>4
<1>10. CASE Become(Reached(Grow2(Grow1(vec))))
  <2>1. PICK b : b = Grow2(a)
    OBVIOUS
  <2>2. /\ Result(b) /\ b.size = a.size
        /\ b.fault = FALSE => a.fault = FALSE /\ View(b) = View(a)
        /\ a.fault = FALSE /\ Roomy(a) /\ a.cap > 1 =>
             b.fault = FALSE /\ Roomy(b) /\ b.size < b.cap
    BY <1>3, <1>5, <2>1, Grow2Result
  <2>3. PICK t : t = Reached(b)
    OBVIOUS
  <2>4. /\ Result(t) /\ (t.fault = FALSE => b.fault = FALSE /\ t = b)
        /\ b.fault = FALSE /\ b.size + 1 <= Len(b.arr) => t.fault = FALSE
    BY <2>2, <2>3, ReachedResult
  <2>5. b.size \in Nat /\ b.cap \in Nat /\ Len(b.arr) \in Nat
    BY <2>2, VecFields DEF Result
  <2>6. Roomy(b) /\ b.size < b.cap => b.size + 1 <= Len(b.arr)
    BY <2>5 DEF Roomy
  <2>7. misused' = {} => t.fault = FALSE /\ Roomy(t)
    BY <1>1, <1>3, <1>5, <2>2, <2>4, <2>6
  <2>8. Become(t)
    BY <1>2, <1>4, <1>10, <2>1, <2>3
  <2>9. /\ VectorInv' /\ (t.fault = FALSE => Contents' = View(t))
        /\ t.fault = TRUE => Contents' = Contents
    BY <1>1, <2>4, <2>7, <2>8, Kept
  <2>10. t.fault \in BOOLEAN
    BY <2>4, VecFields DEF Result
  <2>11. Contents' = Contents
    BY <1>3, <1>5, <2>2, <2>4, <2>9, <2>10
  <2> QED BY <1>3, <1>6, <2>9, <2>11
<1> QED BY <1>8, <1>9, <1>10 DEF PushBackThrow

\* An element is moved from, and may be left empty.
With(arr, i, left) == [k \in DOMAIN arr |-> IF k = i THEN left ELSE arr[k]]

MovedOut(t, s, i, left) ==
  /\ Result(t) /\ t.size = s.size /\ t.cap = s.cap /\ Len(t.arr) = Len(s.arr)
  /\ t.fault = FALSE /\ View(t) = [View(s) EXCEPT ![i] = left]
  /\ s.arr[i] \in Slot /\ s.arr[i] # Raw /\ View(s)[i] = s.arr[i]

LEMMA MovedFrom ==
  ASSUME NEW s, Result(s), s.fault = FALSE, NEW i, i \in 1..s.size,
         NEW left, left \in Slot, left # Raw, NEW f, f = With(s.arr, i, left),
         NEW t, t = [s EXCEPT !.arr = f]
  PROVE  MovedOut(t, s, i, left)
<1>1. /\ s \in VecType /\ s.size \in Nat /\ s.arr \in Seq(Slot) /\ Len(s.arr) \in Nat
      /\ DOMAIN s.arr = 1..Len(s.arr)
      /\ \A k \in 1..Len(s.arr) : s.arr[k] \in Slot
  BY VecFields DEF Result
<1>2. Filled(s) /\ Balanced(s)
  BY DEF Result
<1>3. s.size <= Len(s.arr) /\ \A k \in 1..Len(s.arr) : s.arr[k] = Raw <=> k > s.size
  BY <1>2 DEF Filled
<1>4. i \in 1..Len(s.arr) /\ i <= s.size
  BY <1>1, <1>3
<1>5. f \in [1..Len(s.arr) -> Slot]
  BY <1>1 DEF With
<1>6. \A k \in 1..Len(s.arr) : f[k] = IF k = i THEN left ELSE s.arr[k]
  BY <1>1 DEF With
<1>7. f \in Seq(Slot) /\ Len(f) = Len(s.arr)
  BY <1>1, <1>5, MakeSeq
<1>8. /\ t \in VecType /\ t.size = s.size /\ t.cap = s.cap /\ t.arr = f
      /\ t.arrays = s.arrays /\ t.objects = s.objects /\ t.fault = s.fault
  BY <1>1, <1>7 DEF VecType
<1>9. \A k \in 1..Len(f) : f[k] = Raw <=> k > s.size
  <2> TAKE k \in 1..Len(f)
  <2>1. CASE k = i
    BY <1>1, <1>4, <1>6, <1>7, <2>1
  <2>2. CASE k # i
    BY <1>3, <1>6, <1>7, <2>2
  <2> QED BY <2>1, <2>2
<1>10. Filled(t)
  BY <1>3, <1>7, <1>8, <1>9 DEF Filled
<1>11. f = <<>> <=> s.arr = <<>>
  BY <1>1, <1>7, EmptySeq
<1>12. Balanced(t)
  BY <1>2, <1>8, <1>11 DEF Balanced
<1>13. View(t) = [View(s) EXCEPT ![i] = left]
  <2>1. View(t) = [k \in 1..s.size |-> f[k]]
    BY <1>8 DEF View
  <2>2. \A k \in 1..s.size : f[k] = IF k = i THEN left ELSE s.arr[k]
    BY <1>1, <1>3, <1>6
  <2>3. [View(s) EXCEPT ![i] = left] = [k \in 1..s.size |-> IF k = i THEN left ELSE s.arr[k]]
    BY <1>4 DEF View
  <2> QED BY <2>1, <2>2, <2>3
<1>14. s.arr[i] \in Slot /\ s.arr[i] # Raw /\ View(s)[i] = s.arr[i]
  <2>1. ~(i > s.size)
    BY <1>1, <1>4
  <2> QED BY <1>1, <1>3, <1>4, <2>1 DEF View
<1> QED BY <1>7, <1>8, <1>10, <1>12, <1>13, <1>14 DEF Result, MovedOut

\* push_back of an element of the vector: undefined if it grows, and otherwise
\* the element's value is appended or, when its constructor throws, not.
LEMMA PushBackOwnStep ==
  ASSUME VectorInv, NEW i \in 1..MaxSize, NEW left \in Value \cup {Default},
         PushBackOwn(i, left)
  PROVE  /\ VectorInv'
         /\ i \in DOMAIN Contents /\ left \in {Contents[i], Default}
         /\ Contents' \in {Contents, [Contents EXCEPT ![i] = left],
                           Append([Contents EXCEPT ![i] = left], Contents[i])}
<1>1. /\ Usable /\ UNCHANGED <<alive, lost>> /\ i <= m_size /\ left \in {p_arr[i], Default}
      /\ misused' = misused \cup (IF Grows THEN {"alias"} ELSE {})
  BY DEF PushBackOwn
<1>2. PICK r : r = vec
  OBVIOUS
<1>3. /\ Result(r) /\ r.fault = FALSE /\ Contents = View(r) /\ (misused = {} => Roomy(r))
      /\ lost \in [arrays : Nat, objects : Nat] /\ r.size = m_size /\ r.cap = m_cap
      /\ m_size \in Nat /\ m_cap \in Nat /\ r.arr = p_arr
  BY <1>1, <1>2, Using
<1>4. i \in Nat /\ i \in 1..r.size
  <2>1. MaxSize \in Nat
    BY ConstantsAssumption
  <2> QED BY <1>1, <1>3, <2>1
<1>5. left \in Slot /\ left # Raw
  BY ConstantsAssumption DEF Slot
<1> DEFINE Own(q) == [q EXCEPT !.arr = With(q.arr, i, left), !.fault = q.fault \/ Grows]
<1>6. \/ Become(Appended(Own(Grow2(Grow1(vec))), p_arr[i]))
      \/ Become(Reached(Own(Grow2(Grow1(vec)))))
  BY DEF PushBackOwn, With
<1>7. PICK f : f = With(r.arr, i, left)
  OBVIOUS
<1>8. PICK t : t = [r EXCEPT !.arr = f]
  OBVIOUS
<1>9. /\ Result(t) /\ t.size = r.size /\ t.cap = r.cap /\ Len(t.arr) = Len(r.arr)
      /\ t.fault = FALSE /\ View(t) = [View(r) EXCEPT ![i] = left]
      /\ r.arr[i] \in Slot /\ r.arr[i] # Raw /\ View(r)[i] = r.arr[i]
  <2>1. Result(r) /\ r.fault = FALSE
    BY <1>3
  <2>2. MovedOut(t, r, i, left)
    BY <1>4, <1>5, <1>7, <1>8, <2>1, MovedFrom
  <2> QED BY <2>2 DEF MovedOut
<1>10. i \in DOMAIN Contents /\ Contents[i] = p_arr[i]
  BY <1>3, <1>4, <1>9 DEF View
<1>11. p_arr[i] \in Slot /\ p_arr[i] # Raw
  BY <1>3, <1>9
<1>12. CASE Grows
  <2>1. misused' # {}
    BY <1>1, <1>12
  <2>2. PICK q : q = Grow2(Grow1(vec))
    OBVIOUS
  <2>3. Result(q)
    BY <1>2, <1>3, <2>2, Grow1Result, Grow2Result
  <2>4. /\ q \in VecType /\ q.arr \in Seq(Slot) /\ Len(q.arr) \in Nat
        /\ DOMAIN q.arr = 1..Len(q.arr) /\ \A k \in 1..Len(q.arr) : q.arr[k] \in Slot
    BY <2>3, VecFields DEF Result
  <2>5. PICK h : h = With(q.arr, i, left)
    OBVIOUS
  <2>6. h \in [1..Len(q.arr) -> Slot]
    BY <1>5, <2>4, <2>5 DEF With
  <2>7. h \in Seq(Slot) /\ Len(h) = Len(q.arr)
    BY <2>4, <2>6, MakeSeq
  <2>8. PICK o : o = [q EXCEPT !.arr = h, !.fault = TRUE]
    OBVIOUS
  <2>9. Own(q) = o
    <3>1. (q.fault \/ Grows) = TRUE
      BY <1>12, Zenon
    <3> QED BY <2>5, <2>8, <3>1
  <2>10. o \in VecType /\ o.fault = TRUE
    BY <2>4, <2>7, <2>8 DEF VecType
  <2>11. Result(o)
    BY <2>10 DEF Result
  <2>12. PICK s : Become(s) /\ (s = Appended(o, p_arr[i]) \/ s = Reached(o))
    BY <1>6, <2>2, <2>9
  <2>13. Result(s) /\ s.fault \in BOOLEAN
    BY <1>3, <1>9, <2>11, <2>12, AppendedResult, ReachedResult, VecFields DEF Result
  <2>14. s.fault = TRUE
    <3>1. s.fault = FALSE => o.fault = FALSE
      <4>1. CASE s = Appended(o, p_arr[i])
        BY <1>3, <1>11, <2>11, <4>1, AppendedResult
      <4>2. CASE s = Reached(o)
        BY <2>11, <4>2, ReachedResult
      <4> QED BY <2>12, <4>1, <4>2
    <3> QED BY <2>10, <2>13, <3>1
  <2>15. VectorInv' /\ Contents' = Contents
    BY <1>1, <2>1, <2>12, <2>13, <2>14, Kept
  <2> QED BY <1>1, <1>10, <2>15
<1>13. CASE ~Grows
  <2>1. misused' = misused /\ m_cap # 1 /\ ~(m_size >= m_cap)
    BY <1>1, <1>13 DEF Grows
  <2>2. Grow2(Grow1(vec)) = r
    BY <1>2, <1>3, <2>1 DEF Grow1, Grow2
  <2>3. Own(r) = t
    <3>1. (r.fault \/ Grows) = r.fault
      BY <1>3, <1>13, Zenon
    <3>2. Own(r) = [r EXCEPT !.arr = f, !.fault = r.fault]
      BY <1>7, <3>1
    <3>3. r \in VecType
      BY <1>3 DEF Result
    <3> QED BY <1>8, <3>2, <3>3 DEF VecType
  <2>4. Become(Appended(t, p_arr[i])) \/ Become(Reached(t))
    BY <1>6, <2>2, <2>3
  <2>5. Roomy(r) => Roomy(t)
    BY <1>9 DEF Roomy
  <2>6. t.size < t.cap
    BY <1>3, <1>9, <2>1
  <2>7. CASE Become(Appended(t, p_arr[i]))
    <3>1. PICK s : s = Appended(t, p_arr[i])
      OBVIOUS
    <3>2. /\ Result(s) /\ (s.fault = FALSE => View(s) = Append(View(t), p_arr[i]))
          /\ t.fault = FALSE /\ Roomy(t) /\ t.size < t.cap => s.fault = FALSE /\ Roomy(s)
      <4>1. Result(t) /\ lost \in [arrays : Nat, objects : Nat]
        BY <1>3, <1>9
      <4> QED BY <1>11, <3>1, <4>1, AppendedResult
    <3>3. misused' = {} => s.fault = FALSE /\ Roomy(s)
      BY <1>3, <1>9, <2>1, <2>5, <2>6, <3>2
    <3>4. /\ VectorInv' /\ (s.fault = FALSE => Contents' = View(s))
          /\ s.fault = TRUE => Contents' = Contents
      BY <1>1, <2>7, <3>1, <3>2, <3>3, Kept
    <3>5. s.fault \in BOOLEAN
      BY <3>2, VecFields DEF Result
    <3> QED BY <1>1, <1>3, <1>9, <1>10, <3>2, <3>4, <3>5
  <2>8. CASE Become(Reached(t))
    <3>1. PICK s : s = Reached(t)
      OBVIOUS
    <3>2. /\ Result(s) /\ (s.fault = FALSE => s = t)
          /\ t.fault = FALSE /\ t.size + 1 <= Len(t.arr) => s.fault = FALSE
      BY <1>9, <3>1, ReachedResult
    <3>3. t.size \in Nat /\ t.cap \in Nat /\ Len(t.arr) \in Nat
      BY <1>9, VecFields DEF Result
    <3>4. Roomy(t) => t.size + 1 <= Len(t.arr)
      BY <2>6, <3>3 DEF Roomy
    <3>5. misused' = {} => s.fault = FALSE /\ Roomy(s)
      BY <1>3, <1>9, <2>1, <2>5, <3>2, <3>4
    <3>6. /\ VectorInv' /\ (s.fault = FALSE => Contents' = View(s))
          /\ s.fault = TRUE => Contents' = Contents
      BY <1>1, <2>8, <3>1, <3>2, <3>5, Kept
    <3>7. s.fault \in BOOLEAN
      BY <3>2, VecFields DEF Result
    <3> QED BY <1>1, <1>3, <1>9, <1>10, <3>2, <3>6, <3>7
  <2> QED BY <2>4, <2>7, <2>8
<1> QED BY <1>12, <1>13

\* pop_back.
LEMMA PopBackStep ==
  ASSUME VectorInv, PopBack
  PROVE  /\ VectorInv' /\ Contents # <<>>
         /\ Contents' = SubSeq(Contents, 1, Len(Contents) - 1)
<1>1. Usable /\ UNCHANGED <<alive, lost>> /\ misused' = misused /\ m_size > 0
  BY DEF PopBack
<1>2. PICK r : r = vec
  OBVIOUS
<1>3. /\ Result(r) /\ r.fault = FALSE /\ Contents = View(r) /\ (misused = {} => Roomy(r))
      /\ lost \in [arrays : Nat, objects : Nat] /\ r.size = m_size /\ r.arr = p_arr
      /\ r \in VecType /\ Filled(r) /\ Balanced(r)
  BY <1>1, <1>2, Using
<1>4. /\ r.size \in Nat /\ r.cap \in Nat /\ r.arr \in Seq(Slot) /\ Len(r.arr) \in Nat
      /\ r.arrays \in Int /\ r.objects \in Int /\ DOMAIN r.arr = 1..Len(r.arr)
      /\ \A k \in 1..Len(r.arr) : r.arr[k] \in Slot
  BY <1>3, VecFields
<1>5. r.size <= Len(r.arr) /\ \A k \in 1..Len(r.arr) : r.arr[k] = Raw <=> k > r.size
  BY <1>3 DEF Filled
<1> DEFINE f == [k \in DOMAIN r.arr |-> IF k = r.size THEN Raw ELSE r.arr[k]]
<1>6. /\ f \in [1..Len(r.arr) -> Slot]
      /\ \A k \in 1..Len(r.arr) : f[k] = IF k = r.size THEN Raw ELSE r.arr[k]
  BY <1>4 DEF Slot
<1>7. f \in Seq(Slot) /\ Len(f) = Len(r.arr)
  BY <1>4, <1>6, MakeSeq
<1>8. PICK n \in Nat, o \in Int : n = r.size - 1 /\ o = r.objects - 1
  BY <1>1, <1>3, <1>4
<1>9. PICK s : s = [r EXCEPT !.size = n, !.objects = o, !.arr = f]
  OBVIOUS
<1>10. Become(s)
  <2>1. Become([r EXCEPT !.size = @ - 1, !.objects = @ - 1,
                         !.arr = [k \in DOMAIN p_arr |-> IF k = m_size THEN Raw ELSE p_arr[k]]])
    BY <1>2 DEF PopBack
  <2>2. [r EXCEPT !.size = @ - 1, !.objects = @ - 1,
                  !.arr = [k \in DOMAIN p_arr |-> IF k = m_size THEN Raw ELSE p_arr[k]]]
        = [r EXCEPT !.size = r.size - 1, !.objects = r.objects - 1, !.arr = f]
    BY <1>3
  <2> QED BY <1>8, <1>9, <2>1, <2>2
<1> HIDE DEF f
<1>11. /\ s \in VecType /\ s.size = n /\ s.objects = o /\ s.arr = f
       /\ s.fault = FALSE /\ s.cap = r.cap /\ s.arrays = r.arrays
  BY <1>3, <1>7, <1>8, <1>9 DEF VecType
<1>12. \A k \in 1..Len(f) : f[k] = Raw <=> k > n
  BY <1>4, <1>5, <1>6, <1>7, <1>8
<1>13. Filled(s)
  BY <1>4, <1>5, <1>7, <1>8, <1>11, <1>12 DEF Filled
<1>14. f = <<>> <=> r.arr = <<>>
  BY <1>4, <1>7, EmptySeq
<1>15. lost.arrays \in Nat /\ lost.objects \in Nat
  BY <1>3
<1>16. Balanced(s)
  <2>1. r.objects = lost.objects + r.size
    BY <1>3 DEF Balanced
  <2>2. s.objects = lost.objects + s.size
    BY <1>4, <1>8, <1>11, <1>15, <2>1
  <2> QED BY <1>3, <1>11, <1>14, <2>2 DEF Balanced
<1>17. Roomy(r) => Roomy(s)
  BY <1>4, <1>7, <1>8, <1>11 DEF Roomy
<1>18. Result(s)
  BY <1>11, <1>13, <1>16 DEF Result
<1>19. misused' = {} => s.fault = FALSE /\ Roomy(s)
  BY <1>1, <1>3, <1>11, <1>17
<1>20. VectorInv' /\ Contents' = View(s)
  BY <1>1, <1>10, <1>11, <1>18, <1>19, Kept
<1>21. Contents \in [1..r.size -> Slot]
  BY <1>3, <1>4, <1>5 DEF View
<1>22. Contents \in Seq(Slot) /\ Len(Contents) = r.size
  BY <1>4, <1>21, MakeSeq
<1>23. SubSeq(Contents, 1, Len(Contents) - 1) = [k \in 1..n |-> Contents[k]]
  BY <1>8, <1>22
<1>24. \A k \in 1..n : Contents[k] = f[k]
  BY <1>3, <1>4, <1>5, <1>6, <1>8 DEF View
<1>25. View(s) = [k \in 1..n |-> f[k]]
  BY <1>11 DEF View
<1>26. Contents # <<>>
  BY <1>1, <1>3, <1>22
<1> QED BY <1>20, <1>23, <1>24, <1>25, <1>26

\* shrink_to_fit.
LEMMA ShrinkStep ==
  ASSUME VectorInv, ShrinkToFit
  PROVE  VectorInv' /\ Contents' = Contents
<1>1. /\ Usable /\ UNCHANGED <<alive, lost>>
      /\ misused' = misused \cup (IF m_size = 0 THEN {"shrink"} ELSE {})
  BY DEF ShrinkToFit
<1>2. PICK r : r = vec
  OBVIOUS
<1>3. /\ Result(r) /\ r.fault = FALSE /\ Contents = View(r)
      /\ lost \in [arrays : Nat, objects : Nat] /\ r.size = m_size /\ m_size \in Nat
  BY <1>1, <1>2, Using
<1>a. PICK n \in Nat : n = m_size
  BY <1>3
<1>4. PICK g : g = Grown(r, n)
  OBVIOUS
<1>5. /\ Result(g) /\ g.size = r.size /\ g.cap = n /\ Len(g.arr) = n
      /\ g.fault = FALSE => r.fault = FALSE /\ View(g) = View(r)
      /\ r.fault = FALSE /\ r.size <= n => g.fault = FALSE
  <2>1. Result(r) /\ lost \in [arrays : Nat, objects : Nat]
    BY <1>3
  <2>2. GrownFrom(g, r, n)
    BY <1>4, <2>1, GrownResult
  <2> QED BY <2>2 DEF GrownFrom
<1>6. g.fault = FALSE /\ View(g) = View(r)
  BY <1>3, <1>a, <1>5
<1>7. misused' = {} => m_size > 0
  BY <1>1, <1>3
<1>8. m_size > 0 => Roomy(g)
  BY <1>3, <1>a, <1>5 DEF Roomy
<1>9. Become(g)
  BY <1>2, <1>a, <1>4 DEF ShrinkToFit
<1> QED BY <1>1, <1>3, <1>5, <1>6, <1>7, <1>8, <1>9, Kept

\* shrink_to_fit throws.
LEMMA ShrinkThrowStep ==
  ASSUME VectorInv, ShrinkThrow
  PROVE  /\ VectorInv'
         /\ \E gone \in SUBSET (1..m_size) :
              (copyable => gone = {}) /\ Contents' = Without(Contents, gone)
<1>1. Usable /\ UNCHANGED <<alive, lost>> /\ misused' = misused
  BY DEF ShrinkThrow
<1>2. PICK r : r = vec
  OBVIOUS
<1>3. /\ Result(r) /\ r.fault = FALSE /\ Contents = View(r) /\ (misused = {} => Roomy(r))
      /\ r.size = m_size /\ m_size \in Nat
  BY <1>1, <1>2, Using
<1>4. GrowThrows(r, m_size)
  BY <1>2 DEF ShrinkThrow
<1>5. PICK t : \E gone \in SUBSET (1..r.size) :
        Become(t) /\ FailedFrom(t, r, m_size, gone) /\ (copyable => gone = {})
  <2>1. PICK n : n = m_size
    OBVIOUS
  <2>2. Result(r) /\ GrowThrows(r, n) /\ n \in Nat
    BY <1>3, <1>4, <2>1
  <2>3. \E t : \E gone \in SUBSET (1..r.size) :
          Become(t) /\ FailedFrom(t, r, n, gone) /\ (copyable => gone = {})
    BY <2>2, GrowThrowsResult
  <2> QED BY <2>1, <2>3
<1>6. PICK gone \in SUBSET (1..r.size) :
        Become(t) /\ FailedFrom(t, r, m_size, gone) /\ (copyable => gone = {})
  BY <1>5
<1>7. /\ Result(t) /\ t.size = r.size /\ t.cap = r.cap /\ Len(t.arr) = Len(r.arr)
      /\ t.fault = FALSE => View(t) = Without(View(r), gone)
      /\ r.fault = FALSE /\ r.size <= m_size => t.fault = FALSE
  BY <1>6 DEF FailedFrom
<1>8. t.fault = FALSE
  BY <1>3, <1>7
<1>9. Roomy(r) => Roomy(t)
  BY <1>7 DEF Roomy
<1>10. VectorInv' /\ Contents' = View(t)
  BY <1>1, <1>3, <1>6, <1>7, <1>8, <1>9, Kept
<1> QED BY <1>3, <1>6, <1>7, <1>8, <1>10

\* resize, which only changes the capacity.
LEMMA ResizeStep ==
  ASSUME VectorInv, NEW n \in 0..MaxCap, Resize(n)
  PROVE  VectorInv' /\ Contents' = Contents
<1>1. /\ Usable /\ UNCHANGED <<alive, lost>>
      /\ misused' = misused \cup (IF Fits(n) THEN {} ELSE {"resize"})
  BY DEF Resize
<1>2. PICK r : r = vec
  OBVIOUS
<1>3. /\ Result(r) /\ r \in VecType /\ r.fault = FALSE /\ Contents = View(r)
      /\ Filled(r) /\ Balanced(r) /\ r.size = m_size /\ r.arr = p_arr
  BY <1>1, <1>2, Using
<1>4. r.size \in Nat /\ Len(r.arr) \in Nat
  BY <1>3, VecFields
<1>5. n \in Nat
  BY ConstantsAssumption
<1>6. PICK s : s = [r EXCEPT !.cap = n]
  OBVIOUS
<1>7. Become(s)
  BY <1>2, <1>6 DEF Resize
<1>8. /\ s \in VecType /\ s.cap = n /\ s.size = r.size /\ s.arr = r.arr
      /\ s.arrays = r.arrays /\ s.objects = r.objects /\ s.fault = FALSE
  BY <1>3, <1>5, <1>6 DEF VecType
<1>9. Result(s)
  BY <1>3, <1>8 DEF Result, Filled, Balanced
<1>10. Fits(n) => Roomy(s)
  BY <1>3, <1>4, <1>5, <1>8 DEF Fits, Roomy
<1>11. misused' = {} => Fits(n)
  BY <1>1
<1>12. View(s) = View(r)
  BY <1>8 DEF View
<1> QED BY <1>1, <1>3, <1>7, <1>8, <1>9, <1>10, <1>11, <1>12, Kept

\* ~Vector gives back the array and the elements in it.
LEMMA DestroyStep ==
  ASSUME VectorInv, Destroy
  PROVE  VectorInv' /\ Contents' = <<>>
<1>1. Usable /\ alive' = FALSE /\ lost' = lost /\ misused' = {}
  BY DEF Destroy
<1>2. PICK r : r = vec
  OBVIOUS
<1>3. /\ r \in VecType /\ r.fault = FALSE /\ Balanced(r) /\ r.size = m_size /\ r.arr = p_arr
      /\ lost \in [arrays : Nat, objects : Nat]
  BY <1>1, <1>2, Using
<1>4. /\ r.size \in Nat /\ r.arrays \in Int /\ r.objects \in Int /\ Len(r.arr) \in Nat
      /\ r.arr \in Seq(Slot)
  BY <1>3, VecFields
<1>5. PICK x \in Int, y \in Int :
        x = r.arrays - (IF Len(r.arr) = 0 THEN 0 ELSE 1) /\ y = r.objects - r.size
  BY <1>4
<1>6. x = lost.arrays /\ y = lost.objects
  <2>1. r.arr = <<>> <=> Len(r.arr) = 0
    BY <1>4, EmptySeq
  <2>2. lost.arrays \in Nat /\ lost.objects \in Nat
    BY <1>3
  <2> QED BY <1>3, <1>4, <1>5, <2>1, <2>2 DEF Balanced
<1>7. PICK d : d = [r EXCEPT !.arrays = x, !.objects = y]
  OBVIOUS
<1>8. Deallocate(r, Len(r.arr), r.size) = d
  BY <1>5, <1>7 DEF Deallocate
<1>9. d \in VecType /\ d.arrays = x /\ d.objects = y /\ d.fault = FALSE
  BY <1>3, <1>7 DEF VecType
<1>10. PICK s : s = [d EXCEPT !.size = 0, !.cap = 1, !.arr = <<>>]
  OBVIOUS
<1>11. Become(s)
  BY <1>2, <1>3, <1>8, <1>10 DEF Destroy
<1>12. <<>> \in Seq(Slot)
  OBVIOUS
<1>13. /\ s \in VecType /\ s.size = 0 /\ s.cap = 1 /\ s.arr = <<>>
       /\ s.arrays = x /\ s.objects = y /\ s.fault = FALSE
  BY <1>9, <1>10, <1>12 DEF VecType
<1>14. vec' = s /\ Contents' = View(s)
  BY <1>11, <1>13, Became
<1>15. Bare(vec)' /\ vec' \in VecType
  BY <1>13, <1>14 DEF Bare
<1>16. Filled(vec)'
  BY <1>13, <1>14 DEF Filled
<1>17. Balanced(vec)'
  <2>1. lost.arrays \in Nat /\ lost.objects \in Nat
    BY <1>3
  <2> QED BY <1>1, <1>6, <1>13, <1>14, <2>1 DEF Balanced
<1>18. View(s) = <<>>
  BY <1>13 DEF View
<1> QED BY <1>1, <1>3, <1>14, <1>15, <1>16, <1>17, <1>18 DEF VectorInv

\* A constructor starts from nothing.
LEMMA Unborn ==
  ASSUME VectorInv, ~alive
  PROVE  /\ vec \in VecType /\ vec.fault = FALSE
         /\ vec.size = 0 /\ vec.cap = 1 /\ vec.arr = <<>>
         /\ vec.arrays = lost.arrays /\ vec.objects = lost.objects
         /\ lost.arrays \in Nat /\ lost.objects \in Nat /\ misused = {}
<1>1. lost.arrays \in Nat /\ lost.objects \in Nat
  BY DEF VectorInv
<1>2. /\ vec \in VecType /\ vec.fault = FALSE /\ Balanced(vec)
      /\ vec.size = 0 /\ vec.cap = 1 /\ vec.arr = <<>> /\ misused = {}
  BY DEF VectorInv, Bare
<1> QED BY <1>1, <1>2 DEF Balanced

\* The new array, and the elements built in it.
LEMMA NewArray ==
  ASSUME NEW r, r \in VecType, NEW n, n \in Nat, n > 0, NEW count, count \in Nat,
         NEW c, c = Constructed(_allocate(r, n), count)
  PROVE  /\ c \in VecType /\ c.arrays = r.arrays + 1 /\ c.objects = r.objects + count
         /\ c.size = r.size /\ c.cap = r.cap /\ c.arr = r.arr /\ c.fault = r.fault
<1>1. r.arrays \in Int /\ r.objects \in Int
  BY VecFields
<1>2. PICK a : a = _allocate(r, n)
  OBVIOUS
<1>3. /\ a \in VecType /\ a.arrays = r.arrays + 1 /\ a.objects = r.objects
      /\ a.size = r.size /\ a.cap = r.cap /\ a.arr = r.arr /\ a.fault = r.fault
  <2>1. a = [r EXCEPT !.arrays = r.arrays + 1]
    BY <1>2 DEF _allocate
  <2> QED BY <1>1, <2>1 DEF VecType
<1>4. c = [a EXCEPT !.objects = a.objects + count]
  BY <1>2 DEF Constructed
<1> QED BY <1>1, <1>3, <1>4 DEF VecType

\* Vector() and Vector(size).
LEMMA ConstructStep ==
  ASSUME VectorInv, NEW n \in 0..MaxSize, Construct(n)
  PROVE  VectorInv' /\ Contents' = [i \in 1..n |-> Default]
<1>1. ~alive /\ alive' = TRUE /\ lost' = lost
  BY DEF Construct
<1>2. n \in Nat
  BY ConstantsAssumption
<1>3. PICK cap \in Nat : cap = (IF n = 0 THEN 1 ELSE n) /\ cap > 0 /\ n <= cap
  BY <1>2
<1>4. PICK r : r = vec
  OBVIOUS
<1>5. /\ r \in VecType /\ r.fault = FALSE
      /\ r.arrays = lost.arrays /\ r.objects = lost.objects
      /\ lost.arrays \in Nat /\ lost.objects \in Nat
  BY <1>1, <1>4, Unborn
<1>6. PICK c : c = Constructed(_allocate(r, cap), n)
  OBVIOUS
<1>7. c \in VecType /\ c.arrays = r.arrays + 1 /\ c.objects = r.objects + n /\ c.fault = r.fault
  BY <1>2, <1>3, <1>5, <1>6, NewArray
<1> DEFINE f == [i \in 1..cap |-> IF i <= n THEN Default ELSE Raw]
<1>8. f \in [1..cap -> Slot]
  BY DEF Slot
<1>9. f \in Seq(Slot) /\ Len(f) = cap
  BY <1>3, <1>8, MakeSeq
<1>10. \A i \in 1..cap : f[i] = IF i <= n THEN Default ELSE Raw
  OBVIOUS
<1>11. PICK s : s = [c EXCEPT !.size = n, !.cap = cap, !.arr = f]
  OBVIOUS
<1>12. Become(s)
  BY <1>3, <1>4, <1>6, <1>11 DEF Construct
<1> HIDE DEF f
<1>13. /\ s \in VecType /\ s.size = n /\ s.cap = cap /\ s.arr = f
       /\ s.arrays = c.arrays /\ s.objects = c.objects /\ s.fault = FALSE
  BY <1>2, <1>3, <1>5, <1>7, <1>9, <1>11 DEF VecType
<1>14. \A i \in 1..Len(f) : f[i] = Raw <=> i > n
  BY <1>2, <1>3, <1>9, <1>10, ConstantsAssumption
<1>15. vec' = s /\ fault' = FALSE /\ Contents' = View(s)
  BY <1>12, <1>13, Became
<1>16. vec' \in VecType /\ Filled(vec)'
  BY <1>2, <1>3, <1>9, <1>13, <1>14, <1>15 DEF Filled
<1>17. Balanced(vec)'
  <2>1. f # <<>>
    BY <1>3, <1>9, EmptySeq
  <2> QED BY <1>1, <1>5, <1>7, <1>13, <1>15, <2>1 DEF Balanced
<1>18. Roomy(vec)'
  <2>1. n <= 3 * cap /\ n # 3 * cap
    BY <1>2, <1>3
  <2>a. s.cap = cap /\ Len(s.arr) = cap
    BY <1>9, <1>13
  <2>b. cap > 0 /\ cap <= cap
    BY <1>3
  <2>2. s.cap > 0 /\ s.cap <= Len(s.arr)
    BY <2>a, <2>b
  <2>3. s.size <= 3 * s.cap /\ s.size # 3 * s.cap
    BY <1>13, <2>1
  <2>4. Roomy(s)
    BY <2>2, <2>3 DEF Roomy
  <2> QED BY <1>15, <2>4 DEF Roomy
<1>19. lost' \in [arrays : Nat, objects : Nat]
  BY <1>1 DEF VectorInv
<1>20. VectorInv'
  BY <1>1, <1>15, <1>16, <1>17, <1>18, <1>19 DEF VectorInv
<1>21. View(s) = [i \in 1..n |-> Default]
  <2>1. \A i \in 1..n : f[i] = Default
    BY <1>2, <1>3, <1>10
  <2> QED BY <1>13, <2>1 DEF View
<1> QED BY <1>15, <1>20, <1>21

\* A constructor that throws leaves no vector, and what it loses is counted.
LEMMA ConstructThrowStep ==
  ASSUME VectorInv, NEW n \in 0..MaxSize, NEW i \in 0..MaxSize, ConstructThrow(n, i)
  PROVE  VectorInv' /\ Contents' = Contents
<1>1. /\ alive' = alive /\ ~alive /\ lost.arrays = 0 /\ lost.objects = 0
      /\ lost' = [arrays |-> 1, objects |-> i] /\ i < n /\ misused' = misused
  BY DEF ConstructThrow
<1>2. n \in Nat /\ i \in Nat /\ n > 0
  BY <1>1, ConstantsAssumption
<1>3. PICK r : r = vec
  OBVIOUS
<1>4. /\ r \in VecType /\ r.fault = FALSE /\ r.size = 0 /\ r.cap = 1 /\ r.arr = <<>>
      /\ r.arrays = 0 /\ r.objects = 0 /\ misused = {}
  BY <1>1, <1>3, Unborn
<1>5. PICK c : c = Constructed(_allocate(r, n), i)
  OBVIOUS
<1>6. /\ c \in VecType /\ c.arrays = 1 /\ c.objects = i
      /\ c.size = 0 /\ c.cap = 1 /\ c.arr = <<>> /\ c.fault = FALSE
  BY <1>2, <1>4, <1>5, NewArray
<1>7. Become(c)
  BY <1>3, <1>5 DEF ConstructThrow
<1>8. vec' = c /\ Contents' = View(c)
  BY <1>6, <1>7, Became
<1>9. Bare(vec)' /\ vec' \in VecType
  BY <1>6, <1>8 DEF Bare
<1>10. lost' \in [arrays : Nat, objects : Nat] /\ lost'.arrays = 1 /\ lost'.objects = i
  BY <1>1, <1>2
<1>11. Filled(vec)' /\ Balanced(vec)'
  BY <1>2, <1>6, <1>8, <1>10 DEF Filled, Balanced
<1>12. alive' \in BOOLEAN /\ ~alive'
  BY <1>1 DEF VectorInv
<1>13. VectorInv'
  BY <1>1, <1>4, <1>9, <1>10, <1>11, <1>12 DEF VectorInv
<1>14. Contents' = Contents
  <2>1. m_size = 0
    BY <1>3, <1>4 DEF vec
  <2>2. Contents = <<>> /\ View(c) = <<>>
    BY <1>6, <2>1 DEF Contents, View
  <2> QED BY <1>8, <2>2
<1> QED BY <1>13, <1>14

-----------------------------------------------------------------------------
(* The theorems.                                                           *)

\* The invariant holds of the initial state, and every step preserves it.
LEMMA InitInv ==
  ASSUME Init
  PROVE  VectorInv
<1>1. <<>> \in Seq(Slot)
  OBVIOUS
<1>2. vec = [size |-> 0, cap |-> 1, arr |-> <<>>, arrays |-> 0, objects |-> 0, fault |-> FALSE]
  BY DEF Init, vec
<1>3. vec \in VecType /\ Bare(vec)
  BY <1>1, <1>2 DEF VecType, Bare
<1>4. lost \in [arrays : Nat, objects : Nat] /\ lost.arrays = 0 /\ lost.objects = 0
  BY DEF Init
<1>5. Filled(vec) /\ Balanced(vec)
  BY <1>2, <1>4 DEF Filled, Balanced
<1> QED BY <1>3, <1>4, <1>5 DEF Init, VectorInv

\* A step that changes nothing.
LEMMA StutterStep ==
  ASSUME VectorInv, UNCHANGED vars
  PROVE  VectorInv' /\ Contents' = Contents
<1>1. vec' = vec /\ Contents' = Contents
  BY DEF vars, vec, Contents
<1>2. lost' = lost /\ alive' = alive /\ misused' = misused /\ fault' = fault
  BY DEF vars
<1>3. (Filled(vec) <=> Filled(vec)') /\ (Balanced(vec) <=> Balanced(vec)')
  BY <1>1, <1>2 DEF Filled, Balanced
<1>4. (Bare(vec) <=> Bare(vec)') /\ (Roomy(vec) <=> Roomy(vec)')
  BY <1>1 DEF Bare, Roomy
<1> QED BY <1>1, <1>2, <1>3, <1>4 DEF VectorInv

LEMMA NextInv ==
  ASSUME VectorInv, [Next]_vars
  PROVE  VectorInv'
<1>1. CASE \E n \in 0..MaxSize : Construct(n)
  BY <1>1, ConstructStep
<1>2. CASE \E n \in 0..MaxSize, i \in 0..MaxSize : ConstructThrow(n, i)
  BY <1>2, ConstructThrowStep
<1>3. CASE \E v \in Value : PushBack(v)
  BY <1>3, PushBackStep
<1>4. CASE \E i \in 1..MaxSize, left \in Value \cup {Default} : PushBackOwn(i, left)
  BY <1>4, PushBackOwnStep
<1>5. CASE PushBackThrow
  BY <1>5, PushBackThrowStep
<1>6. CASE PopBack
  BY <1>6, PopBackStep
<1>7. CASE ShrinkToFit
  BY <1>7, ShrinkStep
<1>8. CASE ShrinkThrow
  BY <1>8, ShrinkThrowStep
<1>9. CASE \E n \in 0..MaxCap : Resize(n)
  BY <1>9, ResizeStep
<1>10. CASE Destroy
  BY <1>10, DestroyStep
<1>11. CASE UNCHANGED vars
  BY <1>11, StutterStep
<1> QED BY <1>1, <1>2, <1>3, <1>4, <1>5, <1>6, <1>7, <1>8, <1>9, <1>10, <1>11 DEF Next

\* Whatever member functions are called in whatever order, and wherever they
\* throw, the array, the size and the counts of what is allocated agree, and as
\* long as the vector was not misused the next growth has room.
THEOREM VectorInvariant == Spec => []VectorInv
<1>1. Init => VectorInv
  BY InitInv
<1>2. VectorInv /\ [Next]_vars => VectorInv'
  BY NextInv
<1> QED BY <1>1, <1>2, PTL DEF Spec

\* Memory outside the array is touched only in a vector that was shrunk while
\* empty (136-140), resized to a capacity it cannot grow from or does not have
\* (142-145), or made to push its own element when it had to grow (85-104).  Any
\* other sequence of calls and exceptions stays inside the array, and in every
\* sequence the slots that hold an element are the first m_size ones.
THEOREM NeverOutside == Spec => []InBounds
<1>1. VectorInv => InBounds
  <2> SUFFICES ASSUME VectorInv PROVE InBounds
    OBVIOUS
  <2>1. /\ vec.size = m_size /\ vec.cap = m_cap /\ vec.arr = p_arr /\ vec.fault = fault
        /\ vec \in VecType /\ Filled(vec) /\ alive \in BOOLEAN
    BY DEF vec, VectorInv
  <2>2. fault => misused # {}
    BY <2>1 DEF VectorInv, Bare
  <2>3. m_cap \in Nat /\ Len(p_arr) \in Nat
    BY <2>1, VecFields
  <2>4. alive /\ misused = {} => m_cap \in 1..Len(p_arr)
    BY <2>1, <2>3 DEF VectorInv, Roomy
  <2> QED BY <2>1, <2>2, <2>4 DEF Filled, InBounds
<1> QED BY <1>1, VectorInvariant, PTL

\* A growth that throws halfway (33-41) gives back its array and what it built,
\* and the destructor the rest: only a constructor that throws leaks (64-72).
THEOREM NothingLeaks == Spec => []NoLeak
<1>1. VectorInv => NoLeak
  BY DEF VectorInv, Balanced, NoLeak, vec
<1> QED BY <1>1, VectorInvariant, PTL

\* A push_back appends, or throws and changes nothing but, where elements have no
\* copy constructor (34), which of them were moved from; growing, shrink_to_fit
\* and resize keep the elements.
THEOREM Refinement == Spec => ImplementsStack
<1>1. Init => Sequence!Init
  BY DEF Init, Sequence!Init, Contents
<1>2. VectorInv /\ [Next]_vars => [Sequence!Next]_<<Contents, copyable>>
  <2> SUFFICES ASSUME VectorInv, [Next]_vars PROVE [Sequence!Next]_<<Contents, copyable>>
    OBVIOUS
  <2>0. copyable' = copyable
    BY DEF Next, vars
  <2>1. CASE \E n \in 0..MaxSize : Construct(n)
    BY <2>0, <2>1, ConstructStep DEF Sequence!Next, Sequence!Create
  <2>2. CASE \E n \in 0..MaxSize, i \in 0..MaxSize : ConstructThrow(n, i)
    BY <2>0, <2>2, ConstructThrowStep
  <2>3. CASE \E v \in Value : PushBack(v)
    BY <2>0, <2>3, PushBackStep DEF Sequence!Next, Sequence!Push
  <2>4. CASE \E i \in 1..MaxSize, left \in Value \cup {Default} : PushBackOwn(i, left)
    <3>1. PICK i \in 1..MaxSize, left \in Value \cup {Default} : PushBackOwn(i, left)
      BY <2>4
    <3>2. /\ i \in DOMAIN Contents /\ left \in {Contents[i], Default}
          /\ Contents' \in {Contents, [Contents EXCEPT ![i] = left],
                            Append([Contents EXCEPT ![i] = left], Contents[i])}
      BY <3>1, PushBackOwnStep
    <3>3. Contents' = Contents \/ Sequence!PushOwn(i, left)
      BY <3>2 DEF Sequence!PushOwn
    <3> QED BY <2>0, <3>2, <3>3 DEF Sequence!Next
  <2>5. ASSUME NEW gone \in SUBSET (1..m_size), copyable => gone = {},
               Contents' = Without(Contents, gone)
        PROVE  [Sequence!Next]_<<Contents, copyable>>
    <3>1. DOMAIN Contents = 1..m_size
      BY DEF Contents
    <3>2. CASE copyable
      BY <2>0, <2>5, <3>2 DEF Without, Contents
    <3>3. CASE ~copyable
      <4>1. /\ DOMAIN Contents' = 1..m_size
            /\ \A i \in 1..m_size : Contents'[i] \in {Contents[i], Default}
        BY <2>5, <3>1 DEF Without
      <4>2. m_size \in Nat /\ Contents \in [1..m_size -> Slot] /\ Contents' \in [1..m_size -> Slot]
        <5>1. vec \in VecType /\ vec.size = m_size /\ vec.arr = p_arr /\ m_size <= Len(p_arr)
          BY DEF VectorInv, vec, Filled
        <5>2. m_size \in Nat /\ Contents \in [1..m_size -> Slot]
          BY <5>1, VecFields DEF Contents
        <5> QED BY <2>5, <5>2 DEF Without, Slot
      <4>3. Len(Contents') = Len(Contents)
        BY <4>2, MakeSeq
      <4> QED BY <2>0, <3>1, <3>3, <4>1, <4>3 DEF Sequence!Next, Sequence!Empty
    <3> QED BY <3>2, <3>3
  <2>6. CASE PushBackThrow
    BY <2>5, <2>6, PushBackThrowStep
  <2>7. CASE PopBack
    BY <2>0, <2>7, PopBackStep DEF Sequence!Next, Sequence!Pop
  <2>8. CASE ShrinkToFit
    BY <2>0, <2>8, ShrinkStep
  <2>9. CASE ShrinkThrow
    BY <2>5, <2>9, ShrinkThrowStep
  <2>10. CASE \E n \in 0..MaxCap : Resize(n)
    BY <2>0, <2>10, ResizeStep
  <2>11. CASE Destroy
    BY <2>0, <2>11, DestroyStep DEF Sequence!Next, Sequence!Destroy
  <2>12. CASE UNCHANGED vars
    BY <2>0, <2>12, StutterStep
  <2> QED BY <2>1, <2>2, <2>3, <2>4, <2>6, <2>7, <2>8, <2>9, <2>10, <2>11, <2>12 DEF Next
<1> QED BY <1>1, <1>2, VectorInvariant, PTL DEF Spec, ImplementsStack, Sequence!Spec

=============================================================================
