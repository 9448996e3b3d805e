SPECIFICATION FairSpec
CONSTANTS
  c1 = c1 c2 = c2 p1 = p1 f1 = f1 a1 = a1 a2 = a2 m1 = m1 m2 = m2 m3 = m3
  Jobs = {c1, c2, f1}
  Accounts = {a1, a2}
  Messages = {m1, m2, m3}
  AccountOf <- Account
  MessageOf <- Message
  KindOf <- Kind
  Blind = {}
  Env = {"crash", "failpoint", "db_error"}
  Limit = 2
  MaxAttempts = 2
  MaxFaults = 1
INVARIANTS OneRunningPerAccount DoneWasDelivered CertifiedOnce
PROPERTIES KeepsQueue EveryJobSettles
