SPECIFICATION Spec
CONSTANTS
  r1 = r1
  r2 = r2
  None = None
  Reviewers <- MCReviewers
  Verdicts <- MCVerdicts
INVARIANT
  ExactResubmissionContinues
CHECK_DEADLOCK FALSE
