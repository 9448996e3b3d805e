---------------------------- MODULE StoryRunsMC ----------------------------
(* Small instances of StoryRuns for TLC.                                      *)
EXTENDS StoryRuns

CONSTANTS r1, r2, a1, a2, nobody, other

(* One request for both accounts beside one for the first.                    *)
Lists == [r \in Requests |-> IF r = r1 THEN <<a1, a2>> ELSE <<a1>>]
=============================================================================
