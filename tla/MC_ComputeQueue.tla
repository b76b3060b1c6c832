-------------------------- MODULE MC_ComputeQueue --------------------------
(***************************************************************************)
(* Instances of ComputeQueue for TLC.                                      *)
(***************************************************************************)
EXTENDS ComputeQueue, TLC

\* Workers, request slots and reapers are interchangeable.
Symmetry == Permutations(Worker) \cup Permutations(Request) \cup Permutations(Reaper)
=============================================================================
