SPECIFICATION LiveSpec
CONSTANTS
  Conversations = {c1, c2}
  Handles = {h1, h2}
  Scenarios = {s1}
  Callers = {p1, p2}
  MaxExchanges = 1
  MaxConversations = 2
  MaxRuns = 2
  None = None
PROPERTY CreatedRunIsRecorded
CHECK_DEADLOCK FALSE
