---------------------------- MODULE WorkflowGraph ----------------------------
(***************************************************************************)
(* The state graph that MigrationWorkflow compiles (workflow.py), as pure  *)
(* operators on one checkpoint.  A checkpoint holds the fields of          *)
(* WorkflowState that decide control flow, the node LangGraph runs next,   *)
(* and whether that node's last execution recorded a task error.           *)
(*                                                                         *)
(* Digest-bound inputs are abstracted to what the digests tell apart: a    *)
(* change set is named by the attempt that produced it (0: none yet), and  *)
(* a validation report by its attempt and its verdict.                     *)
(***************************************************************************)
EXTENDS Integers

CONSTANTS
  Reviewers,     \* the people who may decide; a decision names its reviewer
  Verdicts,      \* the deterministic verdicts a validation may reach
  None           \* no value

Attempts == 1..2
MaximumAttempts == 2         \* maximum_execution_attempts of every agent run

Dispositions == {"ready_for_human_review", "recoverable_failure",
                 "environment_unavailable", "plan_invalid", "decision_required"}

(***************************************************************************)
(* What the correction policy reads in a ValidationReport: its             *)
(* disposition; whether a required check outside the Engineer's reach      *)
(* failed (source integrity, candidate inventory); whether a required      *)
(* check the Engineer can repair failed.  A report is ready exactly when   *)
(* every required check passed.                                            *)
(***************************************************************************)
AllVerdicts ==
  {[disposition |-> "ready_for_human_review",
    structural |-> FALSE, repairable |-> FALSE]}
  \cup [disposition : Dispositions \ {"ready_for_human_review"},
        structural : BOOLEAN, repairable : BOOLEAN]

Selections == {"approve", "reject", "modify"}
Approvals == [selection : Selections, reviewer : Reviewers]   \* ManifestApproval
Corrections == Reviewers                                      \* CorrectionApproval

Statuses == {"awaiting_approval", "implementing", "validating", "completed",
             "decision_required", "rejected", "modification_requested"}

Reports == [attempt : Attempts, verdict : Verdicts]

Nodes == {"architect", "approval_gate", "engineer", "validator",
          "decision_required", "rejected", "modification_requested", "end"}
RoleNodes == {"engineer", "validator"}

Checkpoint ==
  [next : Nodes,                        \* the pending node
   status : Statuses \cup {None},
   attempt : Attempts,                  \* execution_attempt
   approval : Approvals \cup {None},    \* the consumed manifest approval
   correction : Corrections \cup {None},\* the consumed correction approval
   change : 0..2,                       \* change_set
   report : Reports \cup {None},        \* validation_report
   intervention : BOOLEAN,              \* implementation_intervention present
   failed : BOOLEAN]                    \* the pending task recorded an error

ASSUME NoneAssumption ==
  /\ None \notin Statuses
  /\ None \notin Approvals
  /\ None \notin Corrections
  /\ None \notin Reports
  /\ None \notin Checkpoint
ASSUME VerdictsAssumption == Verdicts \subseteq AllVerdicts

-----------------------------------------------------------------------------
(***************************************************************************)
(* The correction policy: the action a terminal report selects.            *)
(***************************************************************************)
CorrectionAction(report) ==
  LET v == report.verdict IN
  CASE v.disposition = "ready_for_human_review" -> "complete"
    [] v.disposition # "ready_for_human_review" /\ v.structural -> "replan"
    [] v.disposition = "environment_unavailable" /\ ~v.structural -> "stop_environment"
    [] v.disposition \in {"plan_invalid", "decision_required"} /\ ~v.structural -> "replan"
    [] v.disposition = "recoverable_failure" /\ ~v.structural ->
         IF ~v.repairable THEN "stop_environment"
         ELSE IF report.attempt >= MaximumAttempts THEN "stop_exhausted"
         ELSE "retry"

CorrectionActions == {"complete", "replan", "stop_environment", "stop_exhausted", "retry"}

(* validate_report binds a report to the change set it was computed from. *)
ReportMatches(s) == s.report # None /\ s.report.attempt = s.change

-----------------------------------------------------------------------------
(* The nodes and their outgoing edges.  A step that completes replaces the *)
(* checkpoint, so the error recorded on the previous one is gone.          *)

StartedCheckpoint ==      \* the input checkpoint, before any node ran
  [next |-> "architect", status |-> None, attempt |-> 1,
   approval |-> None, correction |-> None, change |-> 0, report |-> None,
   intervention |-> FALSE, failed |-> FALSE]

PlannedCheckpoint ==      \* the Architect's manifest, paused at the gate
  [StartedCheckpoint EXCEPT !.next = "approval_gate",
                            !.status = "awaiting_approval"]

UndecidedCheckpoint ==    \* a planning intervention or an undecided manifest
  [StartedCheckpoint EXCEPT !.next = "decision_required",
                            !.status = "decision_required"]

(* Mutant: only a rejection stops the run; a request to modify goes on. *)
AfterApprovalOrModify(s, a) ==
  [s EXCEPT !.approval = a,
            !.status = IF a.selection = "approve" THEN "implementing"
                       ELSE "awaiting_approval",
            !.next = IF a.selection = "reject" THEN "rejected" ELSE "engineer",
            !.failed = FALSE]

AfterApproval(s, a) ==
  [s EXCEPT !.approval = a,
            !.status = IF a.selection = "approve" THEN "implementing"
                       ELSE "awaiting_approval",
            !.next = CASE a.selection = "approve" -> "engineer"
                       [] a.selection = "reject" -> "rejected"
                       [] a.selection = "modify" -> "modification_requested",
            !.failed = FALSE]

(* Mutant: a second attempt keeps the change set of the first. *)
AfterFirstChange(s) ==
  [s EXCEPT !.change = IF s.change = 0 THEN s.attempt ELSE s.change,
            !.status = "validating", !.next = "validator", !.failed = FALSE]

AfterChange(s) ==
  [s EXCEPT !.change = s.attempt, !.status = "validating",
            !.next = "validator", !.failed = FALSE]

AfterIntervention(s) ==
  [s EXCEPT !.intervention = TRUE, !.status = "decision_required",
            !.next = "decision_required", !.failed = FALSE]

AfterReport(s, report) ==
  [s EXCEPT !.report = report, !.status = "completed", !.next = "end",
            !.failed = FALSE]

(* decision_required, rejected and modification_requested only record the  *)
(* terminal status they stand for.                                         *)
TerminalNodes == {"decision_required", "rejected", "modification_requested"}
AfterTerminalNode(s) ==
  [s EXCEPT !.status = s.next, !.next = "end", !.failed = FALSE]

(* The guard of the Engineer node before its role is called. *)
EngineerAuthorized(s) ==
  /\ s.approval # None
  /\ s.approval.selection = "approve"
  /\ s.attempt > 1 => s.correction # None /\ ReportMatches(s)

-----------------------------------------------------------------------------
(* retry_recoverable: what it accepts, and the checkpoint it writes.       *)

RetryEvidence(s) ==       \* the terminal evidence is present and coherent
  /\ s.next # "approval_gate"
  /\ s.change # 0
  /\ ReportMatches(s)

(* Mutant: a retry is offered again while attempt two is pending. *)
RetryOfferedAgain(s) ==
  /\ RetryEvidence(s)
  /\ CorrectionAction(s.report) = "retry"
  /\ s.report.attempt = 1

(* Mutant: a retry is offered whatever the report selects. *)
RetryAlwaysOffered(s) ==
  /\ RetryEvidence(s)
  /\ s.correction = None
  /\ s.next = "end"
  /\ s.report.attempt = 1

RetryOffered(s) ==        \* attempt two has not been authorized yet
  /\ RetryEvidence(s)
  /\ CorrectionAction(s.report) = "retry"
  /\ s.correction = None
  /\ s.next = "end"
  /\ s.report.attempt = 1

RetryResubmitted(s, c) == \* the byte-equal approval of a pending attempt two
  /\ RetryEvidence(s)
  /\ CorrectionAction(s.report) = "retry"
  /\ s.correction = c
  /\ s.next \in RoleNodes

(* Mutant: the correction approval is not recorded. *)
AfterRetryUnrecorded(s, c) ==
  [s EXCEPT !.attempt = 2, !.status = "implementing",
            !.next = "engineer", !.failed = FALSE]

AfterRetryAuthorized(s, c) ==
  [s EXCEPT !.correction = c, !.attempt = 2, !.status = "implementing",
            !.next = "engineer", !.failed = FALSE]

(* Mutant: only the Engineer is continued. *)
EngineerContinuable(s) == s.next = "engineer"

(* continue_local_failure: the pending role task, never an interrupt. *)
Continuable(s) == s.next \in RoleNodes
==============================================================================
