SPECIFICATION Spec
CONSTANTS
  a1 = a1  a2 = a2  c1 = c1  c2 = c2
  Accounts = {a1, a2}
  Chats = {c1, c2}
  Edited = {a1}
  StartTargets = 1
  MaxTargets = 2
  MaxRows = 2
  MaxMade = 2
  MaxDay = 1
  MaxEvents = 2
INVARIANTS TypeOK LaterPostMeansLostRecord RulesNameMeantChats MarkedDayIsGenerated
