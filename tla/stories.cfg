SPECIFICATION FairSpec
CONSTANTS
  r1 = r1 r2 = r2 a1 = a1 a2 = a2 nobody = nobody other = other
  Requests = {r1, r2}
  Accounts = {a1, a2}
  Wants <- Lists
  DailyCap = 1
  MaxDay = 1
  MaxStale = 1
  Clinging = {a1}
  Shared = {a1}
  Nobody = nobody
  Other = other
INVARIANTS TypeOK SessionIsExclusive StepsAreHonest DailyCapHolds
PROPERTIES RequestEnds
CHECK_DEADLOCK FALSE
