-------------------------------- MODULE Fifo --------------------------------
(***************************************************************************)
(* What a queue of this library promises its callers, whatever is behind   *)
(* it: values come out in the order in which they went in, each to exactly *)
(* one pop, never more than Capacity of them at a time, and none is thrown *)
(* away before the queue is destroyed.  SPSCQueue (a lock-free ring) and   *)
(* ThreadSafeQueue (a std::queue behind a mutex) are shown to implement it.*)
(***************************************************************************)
EXTENDS Naturals, Sequences

CONSTANTS
  Value,      \* the elements
  None,       \* what a consumer holds before its first pop
  Consumers,  \* who pops
  Capacity    \* the largest number of elements in the queue

VARIABLES
  q,     \* the elements, oldest first
  got,   \* got[c]: the last element consumer c received
  open   \* FALSE once the queue's destructor has begun

vars == <<q, got, open>>

Init ==
  /\ q = <<>>
  /\ got = [c \in Consumers |-> None]
  /\ open = TRUE

Push(v) ==
  /\ open
  /\ Len(q) < Capacity
  /\ q' = Append(q, v)
  /\ UNCHANGED <<got, open>>

Pop(c) ==
  /\ open
  /\ q # <<>>
  /\ q' = Tail(q)
  /\ got' = [got EXCEPT ![c] = Head(q)]
  /\ UNCHANGED open

Close ==
  /\ open
  /\ open' = FALSE
  /\ UNCHANGED <<q, got>>

\* Only the destructor discards elements nobody popped.
Discard ==
  /\ ~open
  /\ q # <<>>
  /\ q' = Tail(q)
  /\ UNCHANGED <<got, open>>

Next ==
  \/ \E v \in Value : Push(v)
  \/ \E c \in Consumers : Pop(c)
  \/ Close
  \/ Discard

Spec == Init /\ [][Next]_vars

=============================================================================
