--------------------------- MODULE ScheduledDmsMC ---------------------------
(* Small instances of OwnerDm and ScheduledDms for TLC.                      *)
EXTENDS ScheduledDms, TLC

CONSTANTS j1, j2, k1, a1, w1, w2, s1, o1

OneAccount == [k \in Keys |-> a1]
JobSymmetry == Permutations(Jobs)
WorkerSymmetry == Permutations(Workers)
Symmetry == JobSymmetry \cup WorkerSymmetry
=============================================================================
