SPECIFICATION JobSpec
CONSTANTS
  j1 = j1 j2 = j2 k1 = k1 a1 = a1 w1 = w1 w2 = w2 s1 = s1 o1 = o1
  Jobs = {j1}
  GroupJobs = {j1}
  Keys = {j1, k1}
  Accounts = {a1}
  AccountOf <- OneAccount
  Workers = {w1}
  Scripts = {s1}
  Callers = {w1, s1, o1}
  Env = {"crash", "db_error"}
  IntervalTicks = 1
  BatchMax = 2
  MaxCrashes = 1
INVARIANTS AcceptedAtMostOnce OutcomeWasAccepted CancelledIsNotSent
PROPERTIES  KeepsPromise
