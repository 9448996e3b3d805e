SPECIFICATION FairSpec
CONSTANTS
  w1 = w1 w2 = w2 l1 = l1 g1 = g1 k1 = k1
  Webs = {w1}
  Loops = {l1}
  Gateways = {g1}
  Accounts = {1, 2}
  FileAccounts = {1}
  Keys = {k1}
  MaxJobs = 2
  MaxOps = 2
  MaxDeaths = 1
  MaxMoves = 1
INVARIANTS SessionIsOneProcess  OnePerAccount AnswerListsJobs
PROPERTIES JobSettles
CHECK_DEADLOCK FALSE
