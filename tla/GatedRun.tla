------------------------------- MODULE GatedRun -------------------------------
(***************************************************************************)
(* What a migration run promises its reviewers, without graph, checkpoints *)
(* or files: nothing is implemented before a human approves the manifest;  *)
(* each attempt yields one change set and then one report on it, or ends   *)
(* in a question to the human; and a second attempt needs a second human   *)
(* decision, possible only when the first report offers a retry.           *)
(***************************************************************************)
EXTENDS WorkflowGraph

VARIABLES
  approval,      \* the manifest decision
  correction,    \* the decision that authorizes attempt two
  change,        \* the attempts that produced a change set: 0, 1 or 2
  report,        \* the report of the last validated attempt
  asked          \* the Engineer handed the run back with a question

vars == <<approval, correction, change, report, asked>>

Init == approval = None /\ correction = None /\ change = 0 /\ report = None /\ asked = FALSE

AuthorizedAttempts == IF correction # None THEN 2
                      ELSE IF approval # None /\ approval.selection = "approve" THEN 1
                      ELSE 0
ReportedAttempt == IF report = None THEN 0 ELSE report.attempt

Decide(a) ==
  /\ approval = None
  /\ approval' = a
  /\ UNCHANGED <<correction, change, report, asked>>

Implement ==
  /\ change < AuthorizedAttempts /\ ReportedAttempt = change /\ ~asked
  /\ change' = change + 1
  /\ UNCHANGED <<approval, correction, report, asked>>

Ask ==
  /\ change < AuthorizedAttempts /\ ReportedAttempt = change /\ ~asked
  /\ asked' = TRUE
  /\ UNCHANGED <<approval, correction, change, report>>

Report(v) ==
  /\ ReportedAttempt < change
  /\ report' = [attempt |-> change, verdict |-> v]
  /\ UNCHANGED <<approval, correction, change, asked>>

Correct(c) ==
  /\ correction = None
  /\ report # None /\ report.attempt = 1 /\ CorrectionAction(report) = "retry"
  /\ correction' = c
  /\ UNCHANGED <<approval, change, report, asked>>

Next ==
  \/ \E a \in Approvals : Decide(a)
  \/ Implement
  \/ Ask
  \/ \E v \in Verdicts : Report(v)
  \/ \E c \in Corrections : Correct(c)

Spec == Init /\ [][Next]_vars
==============================================================================
