------------------------- MODULE MC_BackgroundJobs -------------------------
(***************************************************************************)
(* Instances of BackgroundJobs for TLC.                                    *)
(***************************************************************************)
EXTENDS BackgroundJobs, TLC

\* Processes and administrators are interchangeable.
Symmetry == Permutations(Worker) \cup Permutations(Admin) \cup Permutations(Job)
=============================================================================
