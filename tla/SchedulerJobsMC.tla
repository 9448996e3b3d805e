--------------------------- MODULE SchedulerJobsMC ---------------------------
(* Instances of SchedulerJobs for TLC.                                       *)
EXTENDS SchedulerJobs, TLC

CONSTANTS j1, j2, a1, w1, w2, s1

OneAccount == [j \in Jobs |-> a1]

JobSymmetry == Permutations(Jobs)
Symmetry == Permutations(Jobs) \cup Permutations(Workers)
=============================================================================
