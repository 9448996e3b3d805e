SPECIFICATION Spec
CONSTANTS
  j1 = j1 j2 = j2 a1 = a1 w1 = w1 w2 = w2 s1 = s1
  Accounts = {a1}
  AccountOf <- OneAccount
  Jobs = {j1, j2}
  Workers = {w1, w2}
  Scripts = {}
  Markers = {"none", "cert"}
  Env = {"crash", "db_error", "temp_lock"}
  BatchMax = 2
  LeaseTicks = 2
  DeferTicks = 1
  ReloginTicks = 1
  IntervalTicks = 1
  JitterMin = 0
  JitterMax = 1
  MaxWait = 1
  MaxRows = 2
  MaxCrashes = 1
SYMMETRY Symmetry
INVARIANTS TypeOK AtMostOnePost EvidenceKept OneExecutor
