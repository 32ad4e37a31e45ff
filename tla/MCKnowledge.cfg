SPECIFICATION Spec
CONSTANTS
  Procs = {p1, p2}
  MaxCalls = 3
  None = None
  Requests = {r1, r2}
  Configs = {c1, c2}
  Sources = {s0, s1}
  Bound = s0
  Wikis = {w0, w1}
  Pinned = w0
  Policies = {strict, lenient, later}
  Assured = {lenient, later}
  Benchmark = TRUE
  MaxEdits = 1
  SourceFiles = {"page", "class", "class2", "meta", "helper", "test", "access", "alone"}
  Nodes = {"Page", "Class", "Helper", "Test", "Access", "Account", "Unknown"}
  NodeOf <- NodeOfFile
  Plain = {"ignore"}
  Context = {"meta", "alone", "ignore"}
  Kind <- KindOfNode
  App <- AppOfNode
  External = {"Account"}
  Candidates <- References
  Dynamic = {"access"}
  Directory = {"test", "access"}
  Entries = {"page", "test", "directory"}
  Requirements = {{"page", "class", "meta", "ignore"}, {"test", "alone"}, {"page", "absent"}}
  MaxMissed = 1
  Attempts = 2
  MaxPolls = 3
INVARIANTS
  StartedFromTheEvidence
  KnowledgeIsAssured
PROPERTY ProgressWasTrue
CHECK_DEADLOCK FALSE
