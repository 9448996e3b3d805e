SPECIFICATION AiSpec
CONSTANTS
  s1 = s1 s2 = s2 d1 = d1 d2 = d2 r1 = r1 loop = loop
  Jobs = {s1, s2}
  MessageOf <- Itself
  Fetches = {}
  Tasks = {1}
  Autonomous = {1}
  Drafts = {d1, d2}
  Requests = {r1}
  Loop = loop
  MaxTasks = 3
  Off = {}
  MaxMessages = 1
  MaxReplies = 1
  MaxSends = 1
SYMMETRY Renaming
INVARIANTS AiTypeOK SentWasDelivered LoopKeepsToLimit
