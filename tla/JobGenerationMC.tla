-------------------------- MODULE JobGenerationMC ---------------------------
(* Two accounts and two chats of a configuration.                            *)
EXTENDS JobGeneration

CONSTANTS a1, a2, c1, c2
=============================================================================
