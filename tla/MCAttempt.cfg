SPECIFICATION Spec
CONSTANTS
  None = None
  Absent = Absent
  NoFile = NoFile
  Threads = {t1, t2}
  Nonces = {n1, n2}
  AttemptsGiven = {2, 3}
  MaxWrites = 2
  MaxClock = 1
  MaxEpochs = 2
  HostChanges = 2
  MaxValidations = 3
  MuleChanges = 1
  MaxValidators = 2
  Components = {"component", "permissions"}
  Texts = {"a", "b", "c"}
  Signals = {"permissions_contract", "behavior"}
  SignalPaths <- OpenedFiles
  Files = {"component", "test", "other"}
  Approved = {"component", "test"}
  MaxVersion = 1
  MaxEdits = 2
  MinTests = 3
  MaximumAttempts = 2
INVARIANTS
  CandidateIsTheApproved
  ReportsRestOnOneEnvironment
  CorrectionIsGrounded
CHECK_DEADLOCK FALSE
