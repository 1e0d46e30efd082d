-------------------------------- MODULE Vector --------------------------------
(***************************************************************************)
(* quick::structs::Vector (include/quick/structs/Vector.hh): an array of   *)
(* raw memory, of which the first m_size elements are constructed.  An     *)
(* allocation may fail and an element's constructor may throw.             *)
(*                                                                         *)
(* Callers may shrink, resize and push as they like: no member function    *)
(* checks anything.  An access outside the array or to freed memory sets   *)
(* fault.  What the program does then is undefined: the rest of the state  *)
(* stays as it was before the call, and the behaviour ends.                *)
(***************************************************************************)
EXTENDS Integers, Sequences

CONSTANTS
  Value,
  Default,   \* the value of a default constructed element
  Raw,       \* memory without an element in it
  MaxSize,   \* bound: how many elements a behaviour keeps
  MaxCap     \* bound: the capacities that resize() is called with

ASSUME ConstantsAssumption ==
  /\ Default \notin Value /\ Raw \notin Value \cup {Default}
  /\ MaxSize \in Nat /\ MaxCap \in Nat

VARIABLES
  copyable, \* can elements be copied?  move_if_noexcept copies those whose move
            \* may throw, but moves them if there is no copy constructor
  alive,    \* is the vector constructed?
  m_size,
  m_cap,
  p_arr,    \* the array's slots; <<>> is nullptr
  arrays,   \* how many arrays are allocated
  objects,  \* how many elements are constructed
  lost,     \* [arrays, objects] that a throwing constructor gave up
  fault,    \* was memory outside the array touched?
  misused   \* the kinds of unchecked call that the vector has seen, for the properties

vec == [size |-> m_size, cap |-> m_cap, arr |-> p_arr,
        arrays |-> arrays, objects |-> objects, fault |-> fault]
vars == <<copyable, alive, m_size, m_cap, p_arr, arrays, objects, lost, fault, misused>>

\* A member function leaves the vector as s, or nothing defined.
Become(s) ==
  /\ fault' = s.fault
  /\ IF s.fault THEN UNCHANGED <<m_size, m_cap, p_arr, arrays, objects>>
     ELSE /\ m_size' = s.size /\ m_cap' = s.cap /\ p_arr' = s.arr
          /\ arrays' = s.arrays /\ objects' = s.objects

Usable == alive /\ ~fault

Init ==
  /\ copyable \in BOOLEAN
  /\ alive = FALSE
  /\ m_size = 0 /\ m_cap = 1 /\ p_arr = <<>>
  /\ arrays = 0 /\ objects = 0 /\ fault = FALSE
  /\ lost = [arrays |-> 0, objects |-> 0]
  /\ misused = {}

-----------------------------------------------------------------------------
(* _allocate and _grow_capacity                                            *)

\* operator new for n elements; no array for none.
_allocate(s, n) == [s EXCEPT !.arrays = @ + IF n = 0 THEN 0 ELSE 1]

\* operator delete of an array of n elements, of which count are destroyed.
Deallocate(s, n, count) ==
  [s EXCEPT !.arrays = @ - IF n = 0 THEN 0 ELSE 1, !.objects = @ - count]

\* construct_at of the first count elements of a new array.
Constructed(s, count) == [s EXCEPT !.objects = @ + count]

Grown(s, n) ==
  LET new == Constructed(_allocate(s, n), s.size)
      old == Deallocate(new, Len(s.arr), s.size)
  IN  [old EXCEPT
         !.arr = [i \in 1..n |-> IF i <= s.size /\ i <= Len(s.arr) THEN s.arr[i] ELSE Raw],
         !.cap = n,
         !.fault = @ \/ s.size > n \/ s.size > Len(s.arr)]

\* Moving from elements may leave empty ones behind.
Emptied(s, gone) ==
  [s EXCEPT !.arr = [k \in DOMAIN @ |-> IF k \in gone THEN Default ELSE @[k]]]

\* The copy or move of element i + 1 throws: the catch block destroys the i new
\* ones and frees the new array.  Elements that were moved from are not restored.
GrowFailed_mut(s, n, i, gone) == Constructed(_allocate(s, n), i)
GrowFailed(s, n, i, gone) ==
  [Deallocate(Constructed(_allocate(Emptied(s, gone), n), i), n, i) EXCEPT
     !.fault = @ \/ i >= n]

\* The elements that are moved from and are not empty already.
GoneSets(s, i) ==
  IF copyable THEN {{}}
  ELSE SUBSET {k \in 1..(i + 1) : k <= Len(s.arr) /\ s.arr[k] # Default}

\* _grow_capacity(n) throws, in operator new or at an element.
GrowThrows(s, n) ==
  \/ n > 0 /\ Become(s)
  \/ \E i \in 0..(s.size - 1) : \E gone \in GoneSets(s, i) : Become(GrowFailed(s, n, i, gone))

\* The first growth, from the capacity of 1, and the second, when the array is full.
Grow1(s) == IF s.cap = 1 THEN Grown(s, s.cap * 3) ELSE s
Grow2_mut(s) == IF s.size > s.cap THEN Grown(s, s.cap * 3) ELSE s
Grow2(s) == IF s.size >= s.cap THEN Grown(s, s.cap * 3) ELSE s

-----------------------------------------------------------------------------
(* The member functions.                                                   *)

\* Vector() and Vector(size), which allocates at least one slot.
Construct(n) ==
  LET cap == IF n = 0 THEN 1 ELSE n
      new == Constructed(_allocate(vec, cap), n)
  IN  /\ ~alive /\ n <= MaxSize
      /\ alive' = TRUE
      /\ Become([new EXCEPT !.size = n, !.cap = cap,
                            !.arr = [i \in 1..cap |-> IF i <= n THEN Default ELSE Raw]])
      /\ UNCHANGED <<lost, misused>>

\* Element i + 1 throws: there is no destructor yet, and no catch block.
ConstructThrow(n, i) ==
  LET new == Constructed(_allocate(vec, n), i)
  IN  /\ ~alive /\ n <= MaxSize /\ i < n
      /\ lost = [arrays |-> 0, objects |-> 0]
      /\ lost' = [arrays |-> 1, objects |-> i]
      /\ Become(new)
      /\ UNCHANGED <<alive, misused>>

\* The slot that the new element is built in.
Reached(s) == [s EXCEPT !.fault = @ \/ s.size + 1 > Len(s.arr)]

\* construct_at(p_arr + m_size, v) and ++m_size
Appended(s, v) ==
  [Reached(s) EXCEPT !.arr = [i \in DOMAIN @ |-> IF i = s.size + 1 THEN v ELSE @[i]],
                     !.size = @ + 1,
                     !.objects = @ + 1]

\* push_back and emplace_back
PushBack(v) ==
  /\ Usable /\ m_size < MaxSize
  /\ Become(Appended(Grow2(Grow1(vec)), v))
  /\ UNCHANGED <<alive, lost, misused>>

\* An allocation fails, an element cannot be copied or moved over, or the new
\* element's constructor throws.
PushBackThrow ==
  LET s == Grow1(vec)
  IN  /\ Usable
      /\ \/ m_cap = 1 /\ GrowThrows(vec, m_cap * 3)
         \/ s.size >= s.cap /\ GrowThrows(s, s.cap * 3)
         \/ Become(Reached(Grow2(s)))
      /\ UNCHANGED <<alive, lost, misused>>

Grows == m_cap = 1 \/ m_size >= m_cap

\* The argument is an element of the vector, which a growth frees before it is
\* used.  emplace_back(v[i]) copies it; push_back(v[i]) moves from it, as it
\* forwards its argument as an Element&&, and may leave an empty one behind,
\* also when the new element's constructor throws.
PushBackOwn_mut(i, left) ==
  LET s == [Grow2(Grow1(vec)) EXCEPT
              !.arr = [k \in DOMAIN @ |-> IF k = i THEN left ELSE @[k]],
              !.fault = @ \/ Grows]
  IN  /\ Usable /\ m_size < MaxSize /\ i <= m_size
      /\ left \in {p_arr[i], Default}
      /\ Become(Appended(s, left)) \/ Become(Reached(s))
      /\ misused' = misused \cup (IF Grows THEN {"alias"} ELSE {})
      /\ UNCHANGED <<alive, lost>>
PushBackOwn(i, left) ==
  LET s == [Grow2(Grow1(vec)) EXCEPT
              !.arr = [k \in DOMAIN @ |-> IF k = i THEN left ELSE @[k]],
              !.fault = @ \/ Grows]
  IN  /\ Usable /\ m_size < MaxSize /\ i <= m_size
      /\ left \in {p_arr[i], Default}
      /\ Become(Appended(s, p_arr[i])) \/ Become(Reached(s))
      /\ misused' = misused \cup (IF Grows THEN {"alias"} ELSE {})
      /\ UNCHANGED <<alive, lost>>

PopBack ==
  /\ Usable /\ m_size > 0
  /\ Become([vec EXCEPT !.size = @ - 1,
                        !.objects = @ - 1,
                        !.arr = [i \in DOMAIN p_arr |-> IF i = m_size THEN Raw ELSE p_arr[i]]])
  /\ UNCHANGED <<alive, lost, misused>>

\* An empty vector is left without an array and with a capacity of 0, which no
\* growth changes.
ShrinkToFit ==
  /\ Usable /\ m_cap > m_size
  /\ Become(Grown(vec, m_size))
  /\ misused' = misused \cup (IF m_size = 0 THEN {"shrink"} ELSE {})
  /\ UNCHANGED <<alive, lost>>

ShrinkThrow ==
  /\ Usable /\ m_cap > m_size
  /\ GrowThrows(vec, m_size)
  /\ UNCHANGED <<alive, lost, misused>>

\* Has the array n slots, and does the next growth, to three times as many, hold
\* the elements and one more?
Fits(n) ==
  /\ n \in 1..Len(p_arr)
  /\ m_size <= n * 3
  /\ m_size = n * 3 => n = 1

\* resize only sets m_cap.
Resize(n) ==
  /\ Usable
  /\ Become([vec EXCEPT !.cap = n])
  /\ misused' = misused \cup (IF Fits(n) THEN {} ELSE {"resize"})
  /\ UNCHANGED <<alive, lost>>

\* ~Vector; m_size and m_cap are what the next constructor starts from.
Destroy ==
  LET s == Deallocate(vec, Len(p_arr), m_size)
  IN  /\ Usable
      /\ alive' = FALSE
      /\ Become([s EXCEPT !.size = 0, !.cap = 1, !.arr = <<>>])
      /\ misused' = {}
      /\ UNCHANGED lost

-----------------------------------------------------------------------------
Next ==
  /\ UNCHANGED copyable
  /\ \/ \E n \in 0..MaxSize : Construct(n)
     \/ \E n \in 0..MaxSize, i \in 0..MaxSize : ConstructThrow(n, i)
     \/ \E v \in Value : PushBack(v)
     \/ \E i \in 1..MaxSize, left \in Value \cup {Default} : PushBackOwn(i, left)
     \/ PushBackThrow
     \/ PopBack
     \/ ShrinkToFit
     \/ ShrinkThrow
     \/ \E n \in 0..MaxCap : Resize(n)
     \/ Destroy

Spec == Init /\ [][Next]_vars

-----------------------------------------------------------------------------
(* Properties.                                                             *)

\* Memory outside the array is touched only in a vector that was shrunk while
\* empty (136-140), given a capacity that it cannot grow from or does not have
\* (142-145), or made to push an element of its own when it had to grow (85-104):
\* no other sequence of calls and exceptions does it.  Until then the capacity
\* is allocated, and whatever the calls, the elements are the first m_size slots.
InBounds ==
  /\ fault => misused # {}
  /\ alive /\ misused = {} => m_cap \in 1..Len(p_arr)
  /\ m_size <= Len(p_arr)
  /\ \A i \in 1..Len(p_arr) : p_arr[i] = Raw <=> i > m_size

\* Every array and every element is accounted for after any number of growths
\* that threw halfway (33-41), whatever the calls; only the constructor leaks
\* (64-72).
NoLeak ==
  /\ arrays = lost.arrays + IF p_arr = <<>> THEN 0 ELSE 1
  /\ objects = lost.objects + m_size

Contents == [i \in 1..m_size |-> p_arr[i]]
Sequence == INSTANCE Stack WITH seq <- Contents

\* Until a call is undefined, push_back appends or, when anything throws, changes
\* nothing: the strong guarantee, if the elements can be copied.  Without a copy
\* constructor a growth that throws may empty elements (34), but keeps their
\* number.  An element of the vector can be appended to it, and growing, shrinking
\* and resizing keep the elements.
ImplementsStack == Sequence!Spec

=============================================================================
