-------------------------- MODULE MC_ImportQueue --------------------------
(***************************************************************************)
(* Instances of ImportQueue for TLC.                                       *)
(***************************************************************************)
EXTENDS ImportQueue, TLC

OneUser == [j \in Job |-> 1]

Symmetry == Permutations(Dispatcher) \cup Permutations(JobRequest)
=============================================================================
