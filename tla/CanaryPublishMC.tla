-------------------------- MODULE CanaryPublishMC --------------------------
(* Small instances of CanaryPublish for TLC.                                  *)
EXTENDS CanaryPublish, TLC

MCPages == {"canary", "other"}
MCCanary == "canary"
MCKeys == {"k1"}
MCDryRuns == {"d1"}

Symmetric == Permutations(Workers)
=============================================================================
