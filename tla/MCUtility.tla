------------------------------- MODULE MCUtility -------------------------------
(***************************************************************************)
(* SpinMutex and UniquePtr in one run.  They share no state: a step of one *)
(* is taken while the other is as it was in the beginning, so that the     *)
(* states of the run are those of the one and those of the other.          *)
(***************************************************************************)
EXTENDS SpinMutex, UniquePtr

CONSTANT OneDeleter   \* the deleter of all handles while threads use the lock

ASSUME OneDeleterAssumption == OneDeleter \in Deleter

UtilityInit == LockInit /\ Init

UtilityNext ==
  \/ /\ Init
     /\ m_deleter = [h \in Handle |-> OneDeleter] /\ mate = [o \in Object |-> OneDeleter]
     /\ LockNext
     /\ UNCHANGED vars
  \/ LockInit /\ Next /\ UNCHANGED lockVars

UtilitySpec == UtilityInit /\ [][UtilityNext]_<<lockVars, vars>> /\ Fairness

=============================================================================
