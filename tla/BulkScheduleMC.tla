--------------------------- MODULE BulkScheduleMC ---------------------------
(* Small instances of BulkSchedule for TLC.                                   *)
EXTENDS BulkSchedule

CONSTANTS w1, w2, l1, g1, k1
=============================================================================
