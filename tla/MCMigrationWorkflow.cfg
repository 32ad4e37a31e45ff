SPECIFICATION FairSpec
CONSTANTS
  r1 = r1
  r2 = r2
  None = None
  Reviewers <- MCReviewers
  Verdicts <- MCVerdicts
INVARIANTS
  ImplementationAuthorized
  EngineerNodeNeverRefuses
  CompletedReportIsCurrent
PROPERTIES
  DecisionsAreFinal
  TerminalOnlyRetries
  PendingRoleTaskEnds
  ImplementsGatedRun
CHECK_DEADLOCK FALSE
