SPECIFICATION Spec
CONSTANTS
  Approved = Approved
  Foreign = Foreign
  Refused = Refused
  None = None
  a1 = a1
  a2 = a2
  caller = caller
  Absent = Absent
  LocalModels = {old, new}
  MaxCalls = 3
  MaxDrifts = 2
  MaxPulls = 3
  ClaudeRestarts = 1
  OllamaRestarts = 2
  Work = 3
  Leader = leader
  Children = {c1, c2}
  Channels = {out, err}
  Limit = 1
  Volume = 2
INVARIANTS
  AnswersAreWhole
  ResponsesAreWhole
  OneModelPerRun
PROPERTIES
  SentUnderTheRecord
  CallsEnd
CHECK_DEADLOCK FALSE
