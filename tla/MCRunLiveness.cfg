SPECIFICATION FairSpec
CONSTANTS
  r1 = r1
  r2 = r2
  None = None
  Reviewers <- MCReviewers
  Verdicts <- MCVerdicts
PROPERTY
  DecisionsAreCarriedThrough
CHECK_DEADLOCK FALSE
