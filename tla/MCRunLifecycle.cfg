SPECIFICATION BundleSpec
CONSTANTS
  r1 = r1
  r2 = r2
  None = None
  Reviewers <- MCReviewers
  Verdicts <- MCVerdicts
INVARIANTS
  AtMostOneDispatch
  DispatchAuthorized
  ConsumedDecisionIsAnchored
  CallsAreAccountedFor
  ClosedEvidenceIsComplete
  ReadableExceptInGaps
  BundleIsOfTheRun
PROPERTIES
  EvidenceIsWriteOnce
  DrivesTheWorkflow
SYMMETRY MCSymmetry
CHECK_DEADLOCK FALSE
