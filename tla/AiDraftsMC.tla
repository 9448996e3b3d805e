----------------------------- MODULE AiDraftsMC -----------------------------
(* Small instances of AiDrafts for TLC.                                       *)
EXTENDS AiDrafts, TLC

CONSTANTS s1, s2, d1, d2, r1, loop

(* Every job carries a text of its own.                                       *)
Itself == [j \in Jobs |-> j]

Renaming == Permutations(Jobs) \cup Permutations(Drafts)
=============================================================================
