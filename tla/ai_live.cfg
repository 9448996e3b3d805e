SPECIFICATION AiFairSpec
CONSTANTS
  s1 = s1 s2 = s2 d1 = d1 d2 = d2 r1 = r1 loop = loop
  Jobs = {s1}
  MessageOf <- Itself
  Fetches = {}
  Tasks = {1, 2, 3}
  Autonomous = {2}
  Drafts = {d1}
  Requests = {r1}
  Loop = loop
  MaxTasks = 3
  Off = {3}
  MaxMessages = 1
  MaxReplies = 0
  MaxSends = 1
PROPERTIES OlderTaskIsSuperseded
