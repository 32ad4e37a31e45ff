----------------------------- MODULE MCRunBundle -----------------------------
(* The instance of RunLifecycle, with the readers of RunBundle beside it,  *)
(* that TLC checks: two reviewers, so that a second, different decision    *)
(* can be presented at every point, and the verdicts that lead to every    *)
(* correction action and end an attempt in each way a receipt can say.     *)
(* Decisions are compared for equality only, so the reviewers are alike.   *)
EXTENDS RunBundle, TLC

CONSTANTS r1, r2

Verdict(d, s, r) == [disposition |-> d, structural |-> s, repairable |-> r]

MCReviewers == {r1, r2}
MCSymmetry == Permutations(MCReviewers)
MCVerdicts ==
  {Verdict("ready_for_human_review", FALSE, FALSE),
   Verdict("recoverable_failure", FALSE, TRUE),
   Verdict("environment_unavailable", FALSE, FALSE),
   Verdict("plan_invalid", FALSE, TRUE)}
==============================================================================
