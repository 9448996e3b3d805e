SPECIFICATION Spec
CONSTANTS
  w1 = w1
  w2 = w2
  Workers = {w1, w2}
  Keys <- MCKeys
  DryRuns <- MCDryRuns
  Pages <- MCPages
  Canary <- MCCanary
  MaxAuths = 1
  MaxStates = 2
  MaxFaults = 2
SYMMETRY Symmetric
INVARIANTS TypeOK EveryPostAccounted ConnectedHasCredentials
CHECK_DEADLOCK FALSE
