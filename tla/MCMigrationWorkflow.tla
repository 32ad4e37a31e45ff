------------------------- MODULE MCMigrationWorkflow -------------------------
(* The instance of MigrationWorkflow that TLC checks: two reviewers and    *)
(* one verdict of every kind the correction policy tells apart.            *)
EXTENDS MigrationWorkflow

CONSTANTS r1, r2

Verdict(d, s, r) == [disposition |-> d, structural |-> s, repairable |-> r]

MCReviewers == {r1, r2}
MCVerdicts ==
  {Verdict("ready_for_human_review", FALSE, FALSE),
   Verdict("recoverable_failure", FALSE, TRUE),
   Verdict("recoverable_failure", FALSE, FALSE),
   Verdict("recoverable_failure", TRUE, TRUE),
   Verdict("environment_unavailable", FALSE, TRUE),
   Verdict("plan_invalid", FALSE, TRUE)}
==============================================================================
