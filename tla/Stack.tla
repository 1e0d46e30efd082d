-------------------------------- MODULE Stack --------------------------------
(***************************************************************************)
(* What a growable array promises: a sequence of values that push_back     *)
(* extends and pop_back shortens.  What is pushed may be moved out of the  *)
(* sequence itself.  Everything else, a failed push_back and a change of   *)
(* the capacity included, leaves it alone, unless elements cannot be       *)
(* copied: then a failure may empty some.                                  *)
(***************************************************************************)
EXTENDS Naturals, Sequences

CONSTANTS
  Value,    \* what is pushed
  Default,  \* the value of a default constructed element
  MaxSize   \* bound: how many elements an array is created with

VARIABLES
  seq,
  copyable  \* can elements be copied?

Init == seq = <<>> /\ copyable \in BOOLEAN

\* A new array of n default constructed elements.
Create(n) == seq' = [i \in 1..n |-> Default]

Push(v) == seq' = Append(seq, v)

\* Element i is pushed, or the push of it fails; either way, a move may leave an
\* empty element in its place.
PushOwn(i, left) ==
  /\ left \in {seq[i], Default}
  /\ \/ seq' = Append([seq EXCEPT ![i] = left], seq[i])
     \/ seq' = [seq EXCEPT ![i] = left]

\* A failure while the elements are moved: some are left empty.
Empty ==
  /\ ~copyable
  /\ Len(seq') = Len(seq)
  /\ \A i \in DOMAIN seq : seq'[i] \in {seq[i], Default}

Pop == seq # <<>> /\ seq' = SubSeq(seq, 1, Len(seq) - 1)

Destroy == seq' = <<>>

Next ==
  /\ UNCHANGED copyable
  /\ \/ \E n \in 0..MaxSize : Create(n)
     \/ \E v \in Value : Push(v)
     \/ \E i \in DOMAIN seq, left \in Value \cup {Default} : PushOwn(i, left)
     \/ Empty
     \/ Pop
     \/ Destroy

Spec == Init /\ [][Next]_<<seq, copyable>>

=============================================================================
