------------------------------- MODULE MCNetwork -------------------------------
(***************************************************************************)
(* Tcp and Config in one run.  They share no state: a step of one is taken *)
(* while the other is as it was in the beginning, with an empty file, so   *)
(* that the states of the run are those of the one and those of the other. *)
(***************************************************************************)
EXTENDS Tcp, MCConfig

NetworkInit == Init /\ TomlInit

NetworkNext ==
  \/ disk = <<>> /\ TomlInit /\ Next /\ UNCHANGED tomlVars
  \/ Init /\ TomlNext /\ UNCHANGED vars

NetworkSpec == NetworkInit /\ [][NetworkNext]_<<vars, tomlVars>>

\* Neither the threads nor the servers differ.
Symmetry == Permutations(Thread) \cup Permutations(Server)

=============================================================================
