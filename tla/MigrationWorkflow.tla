-------------------------- MODULE MigrationWorkflow --------------------------
(***************************************************************************)
(* MigrationWorkflow (workflow.py): one LangGraph thread driven through    *)
(* start, resume, continue_local_failure and retry_recoverable.            *)
(*                                                                         *)
(* LangGraph (external) runs one node at a time.  The checkpoint after a   *)
(* node is written in the background, in order, while the next node runs,  *)
(* so a crash may lose the newest checkpoints: ckpt is the durable one,    *)
(* queue holds those not written yet.  An invocation returns, or records   *)
(* the error of a raising node, only after the queue has drained;          *)
(* update_state writes at once.  The interrupt of approval_gate becomes    *)
(* durable together with the checkpoint that pauses there.                 *)
(***************************************************************************)
EXTENDS WorkflowGraph, Sequences

VARIABLES
  ckpt,    \* the durable checkpoint; None before start
  queue,   \* checkpoints produced by the running invocation, not durable yet
  op       \* "idle", "running", "returning" or "raising"

vars == <<ckpt, queue, op>>

(* The checkpoint the running loop continues from. *)
Current == IF queue = <<>> THEN ckpt ELSE queue[Len(queue)]

Init == ckpt = None /\ queue = <<>> /\ op = "idle"

-----------------------------------------------------------------------------
(* Operations: each checks the durable snapshot before it invokes the graph. *)

Start ==
  /\ op = "idle" /\ ckpt = None
  /\ queue' = <<StartedCheckpoint>>
  /\ op' = "running"
  /\ UNCHANGED ckpt

Resume(a) ==
  /\ op = "idle" /\ ckpt # None
  /\ ckpt.next = "approval_gate"
  /\ queue' = <<AfterApproval(ckpt, a)>>
  /\ op' = "running"
  /\ UNCHANGED ckpt

ContinueLocalFailure ==
  /\ op = "idle" /\ ckpt # None
  /\ Continuable(ckpt)
  /\ op' = "running"
  /\ UNCHANGED <<ckpt, queue>>

RetryRecoverable(c) ==
  /\ op = "idle" /\ ckpt # None
  /\ \/ /\ RetryOffered(ckpt)
        /\ ckpt' = AfterRetryAuthorized(ckpt, c)
     \/ /\ RetryResubmitted(ckpt, c)
        /\ UNCHANGED ckpt
  /\ op' = "running"
  /\ UNCHANGED queue

-----------------------------------------------------------------------------
(* Nodes. *)

Running(node) == op = "running" /\ Current.next = node
Advance(s) == queue' = Append(queue, s) /\ UNCHANGED <<ckpt, op>>

ArchitectStep ==
  /\ Running("architect")
  /\ \E s \in {PlannedCheckpoint, UndecidedCheckpoint} : Advance(s)

EngineerStep ==
  /\ Running("engineer")
  /\ EngineerAuthorized(Current)
  /\ Advance(AfterChange(Current)) \/ Advance(AfterIntervention(Current))

ValidatorStep ==
  /\ Running("validator")
  /\ \E v \in Verdicts :
       Advance(AfterReport(Current, [attempt |-> Current.attempt, verdict |-> v]))

TerminalStep ==
  /\ op = "running" /\ Current.next \in TerminalNodes
  /\ Advance(AfterTerminalNode(Current))

(* A role raises: provider, policy, workspace or check failure. *)
RoleError ==
  /\ op = "running" /\ Current.next \in {"architect"} \cup RoleNodes
  /\ op' = "raising"
  /\ UNCHANGED <<ckpt, queue>>

(* The loop stops at the end or at the interrupt of the approval gate. *)
Stop ==
  /\ op = "running" /\ Current.next \in {"end", "approval_gate"}
  /\ op' = "returning"
  /\ UNCHANGED <<ckpt, queue>>

-----------------------------------------------------------------------------
(* Durability. *)

Flush ==
  /\ queue # <<>>
  /\ ckpt' = Head(queue)
  /\ queue' = Tail(queue)
  /\ UNCHANGED op

Return ==
  /\ op = "returning" /\ queue = <<>>
  /\ op' = "idle"
  /\ UNCHANGED <<ckpt, queue>>

Raise ==
  /\ op = "raising" /\ queue = <<>>
  /\ ckpt' = [ckpt EXCEPT !.failed = TRUE]
  /\ op' = "idle"
  /\ UNCHANGED queue

Crash ==
  /\ op # "idle"
  /\ queue' = <<>>
  /\ op' = "idle"
  /\ UNCHANGED ckpt

Program == ArchitectStep \/ EngineerStep \/ ValidatorStep \/ TerminalStep
           \/ Stop \/ Flush \/ Return \/ Raise

Next ==
  \/ Start
  \/ \E a \in Approvals : Resume(a)
  \/ ContinueLocalFailure
  \/ \E c \in Corrections : RetryRecoverable(c)
  \/ Program
  \/ RoleError
  \/ Crash

Spec == Init /\ [][Next]_vars

(* Dying when there is nothing left to do is the same step as returning.   *)
Fault == (Crash \/ RoleError) /\ ~Program

(* The process runs on while it is alive; an operator keeps continuing a   *)
(* pending role task; crashes and role errors end at some point.           *)
FairSpec ==
  /\ Spec
  /\ WF_vars(Program)
  /\ WF_vars(ContinueLocalFailure)
  /\ <>[][~Fault]_vars

-----------------------------------------------------------------------------
(* Properties *)

TypeOK ==
  /\ ckpt \in Checkpoint \cup {None}
  /\ queue \in Seq(Checkpoint)
  /\ op \in {"idle", "running", "returning", "raising"}

Known == (IF ckpt = None THEN {} ELSE {ckpt}) \cup {queue[i] : i \in 1..Len(queue)}

(* No checkpoint, durable or in flight, lets implementation start or      *)
(* continue without an approving decision, and attempt two additionally   *)
(* needs an exact correction approval of a retryable attempt-one report.  *)
(* (_engineer_node, _validate_checkpointed_retry)                         *)
ImplementationAuthorized ==
  \A s \in Known :
    /\ s.next \in RoleNodes \/ s.change # 0 \/ s.intervention =>
         s.approval # None /\ s.approval.selection = "approve"
    /\ s.attempt = 2 => s.correction # None /\ s.report # None
    /\ s.attempt = 2 /\ s.report.attempt = 1 => CorrectionAction(s.report) = "retry"

(* Whatever the Engineer node finds when it is reached again after any     *)
(* number of crashes and errors, its own authorization guard holds: the    *)
(* node never deadlocks an approved run.  (_engineer_node)                 *)
EngineerNodeNeverRefuses ==
  \A s \in Known : s.next = "engineer" => EngineerAuthorized(s)

(* A completed run reports on exactly the change set of its last attempt,  *)
(* even when that attempt was replayed after a crash. (_validator_node)    *)
CompletedReportIsCurrent ==
  \A s \in Known : s.status = "completed" =>
    ReportMatches(s) /\ s.change = s.attempt

(* A human decision, once durable, is never replaced or forgotten.         *)
(* (resume, retry_recoverable)                                             *)
DecisionsAreFinal ==
  [][ckpt # None =>
       /\ ckpt.approval # None => ckpt'.approval = ckpt.approval
       /\ ckpt.correction # None => ckpt'.correction = ckpt.correction]_vars

(* A terminal checkpoint changes only by the one correction retry its      *)
(* attempt-one report offers; there is no third attempt.                   *)
(* (retry_recoverable)                                                     *)
TerminalOnlyRetries ==
  [][ckpt # None /\ ckpt.next = "end" /\ ckpt' # ckpt =>
       /\ ckpt.attempt = 1 /\ ckpt'.attempt = 2
       /\ CorrectionAction(ckpt.report) = "retry"]_vars

(* Once crashes and role errors stop, a pending role task ends the run,    *)
(* unless a crash left the thread at a node that no operation continues.   *)
(* (continue_local_failure)                                                *)
At(nodes) == ckpt # None /\ ckpt.next \in nodes
Stranded == op = "idle" /\ At(TerminalNodes)
PendingRoleTaskEnds == At(RoleNodes) ~> (At({"end"}) \/ Stranded)

(* The durable checkpoint, and nothing an invocation merely had in memory, *)
(* implements the run promised to the reviewers: a crash may lose a step   *)
(* but never fakes one. (the whole of MigrationWorkflow)                   *)
Durable(field, initial) == IF ckpt = None THEN initial ELSE ckpt[field]
Abstract == INSTANCE GatedRun WITH
  approval <- Durable("approval", None),
  correction <- Durable("correction", None),
  change <- Durable("change", 0),
  report <- Durable("report", None),
  asked <- Durable("intervention", FALSE)
ImplementsGatedRun == Abstract!Spec

(* retry_recoverable's own contract: "A process restart may resubmit only  *)
(* the byte-equivalent approval and continue that same pending             *)
(* Engineer/Validator task."                                               *)
ExactResubmissionContinues ==
  op = "idle" /\ ckpt # None /\ ckpt.attempt = 2 /\ ckpt.next \in RoleNodes
    => RetryResubmitted(ckpt, ckpt.correction)
==============================================================================
