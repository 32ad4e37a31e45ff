SPECIFICATION Spec
CONSTANTS
  Conversations = {c1, c2}
  Handles = {h1, h2}
  Scenarios = {s1, s2}
  Callers = {p1, p2}
  MaxExchanges = 2
  MaxConversations = 2
  MaxRuns = 1
  None = None
SYMMETRY Symmetry
INVARIANTS
  OneRunPerConversation
  ArchitectPlansOnce
  LaunchIsTheReviewedExchange
  ReceiptHasItsRun
  CapacityRespected
CHECK_DEADLOCK FALSE
