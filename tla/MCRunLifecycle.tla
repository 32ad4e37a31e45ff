--------------------------- MODULE MCRunLifecycle ---------------------------
(* The instance of RunLifecycle that TLC checks: two reviewers, so that a  *)
(* second, different decision can be presented at every point, and the     *)
(* verdicts that lead to every correction action.                          *)
EXTENDS RunLifecycle

CONSTANTS r1, r2

Verdict(d, s, r) == [disposition |-> d, structural |-> s, repairable |-> r]

MCReviewers == {r1, r2}
MCVerdicts ==
  {Verdict("ready_for_human_review", FALSE, FALSE),
   Verdict("recoverable_failure", FALSE, TRUE),
   Verdict("plan_invalid", FALSE, TRUE)}
==============================================================================
