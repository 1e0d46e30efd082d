----------------------------- MODULE MCSharedPtr -----------------------------
(***************************************************************************)
(* SharedPtr for TLC: threads, handles and control blocks are alike.       *)
(***************************************************************************)
EXTENDS SharedPtr, TLC

Symmetry == Permutations(Thread) \cup Permutations(Handle) \cup Permutations(Block)

=============================================================================
