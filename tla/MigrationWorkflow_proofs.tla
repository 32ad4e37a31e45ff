----------------------- MODULE MigrationWorkflow_proofs -----------------------
(***************************************************************************)
(* TLAPS proofs about MigrationWorkflow, for any reviewers and verdicts.   *)
(* Its invariants speak of all checkpoints known, durable or in flight, so *)
(* the argument is about one checkpoint at a time: every node and every    *)
(* operation turns a sound checkpoint into a sound one, and a crash only   *)
(* forgets some.  The second part is the refinement of GatedRun, for which *)
(* the order of the checkpoints in flight matters.                         *)
(***************************************************************************)
EXTENDS MigrationWorkflow, TLAPS

Approved(s) == s.approval # None /\ s.approval.selection = "approve"

(* Planning has left nothing behind but the manifest. *)
FreshPlan(s) ==
  s.next \in {"architect", "approval_gate"} =>
    /\ s.attempt = 1 /\ s.change = 0 /\ s.report = None /\ s.approval = None
    /\ s.correction = None /\ ~s.intervention /\ s.status # "completed"

(* Attempt one starts from nothing, attempt two from attempt one's report. *)
Progress(s) ==
  /\ s.attempt = 1 => s.correction = None
  /\ s.next = "engineer" \/ s.intervention => s.change = s.attempt - 1
  /\ s.next \in RoleNodes =>
       /\ ~s.intervention
       /\ s.attempt = 1 => s.report = None
       /\ s.attempt = 2 => s.report.attempt = 1

(* What a checkpoint must hold for the run to be continued from it. *)
Sound(s) ==
  /\ s \in Checkpoint
  /\ FreshPlan(s)
  /\ Progress(s)
  /\ s.next \in RoleNodes \/ s.change # 0 \/ s.intervention => Approved(s)
  /\ s.attempt = 2 => s.correction # None /\ s.report # None
  /\ s.attempt = 2 /\ s.report.attempt = 1 => CorrectionAction(s.report) = "retry"
  /\ s.next = "engineer" => EngineerAuthorized(s)
  /\ s.next = "validator" => s.change = s.attempt
  /\ s.status = "completed" => ReportMatches(s) /\ s.change = s.attempt

(* A running invocation has a checkpoint to continue from. *)
InvocationHasState == op # "idle" => ckpt # None \/ queue # <<>>

IInv == TypeOK /\ InvocationHasState /\ \A s \in Known : Sound(s)

USE NoneAssumption, VerdictsAssumption

-----------------------------------------------------------------------------
(* One lemma per checkpoint a node or an operation writes. *)

(* What the start and the Architect write is sound. *)
LEMMA PlannedIsSound ==
  /\ Sound(StartedCheckpoint) /\ Sound(PlannedCheckpoint) /\ Sound(UndecidedCheckpoint)
  <1>1. /\ StartedCheckpoint \in Checkpoint
        /\ StartedCheckpoint.attempt = 1 /\ StartedCheckpoint.change = 0
        /\ StartedCheckpoint.report = None /\ StartedCheckpoint.correction = None
        /\ StartedCheckpoint.intervention = FALSE /\ StartedCheckpoint.approval = None
        /\ StartedCheckpoint.next = "architect" /\ StartedCheckpoint.status = None
    BY DEF StartedCheckpoint, Checkpoint, Attempts, Nodes
  <1>2. None # "completed"
    BY DEF Statuses
  <1>3. ASSUME NEW n \in Nodes \ RoleNodes, NEW st \in Statuses, st # "completed"
        PROVE  Sound([StartedCheckpoint EXCEPT !.next = n, !.status = st])
    <2> DEFINE t == [StartedCheckpoint EXCEPT !.next = n, !.status = st]
    <2>1. t \in Checkpoint
      BY <1>1, <1>3 DEF Checkpoint
    <2>2. /\ t.next \notin RoleNodes /\ t.status # "completed"
          /\ t.attempt = 1 /\ t.change = 0 /\ t.report = None
          /\ t.correction = None /\ t.intervention = FALSE /\ t.approval = None
      BY <1>1, <1>3 DEF Checkpoint
    <2> HIDE DEF t
    <2>3. Sound(t)
      BY <2>1, <2>2 DEF Sound, FreshPlan, Progress, RoleNodes
    <2> QED BY <2>3 DEF t
  <1>4. Sound(StartedCheckpoint)
    BY <1>1, <1>2 DEF Sound, FreshPlan, Progress, RoleNodes
  <1>5. Sound(PlannedCheckpoint)
    BY <1>3 DEF PlannedCheckpoint, Nodes, RoleNodes, Statuses
  <1>6. Sound(UndecidedCheckpoint)
    BY <1>3 DEF UndecidedCheckpoint, Nodes, RoleNodes, Statuses
  <1> QED BY <1>4, <1>5, <1>6

(* A manifest decision at the gate leads to a sound checkpoint. *)
LEMMA ApprovalIsSound ==
  ASSUME NEW s, Sound(s), s.next = "approval_gate", NEW a \in Approvals
  PROVE  Sound(AfterApproval(s, a))
  <1> DEFINE t == AfterApproval(s, a)
  <1>1. s \in Checkpoint /\ FreshPlan(s)
    BY DEF Sound
  <1>2. PICK n, st :
          /\ t = [s EXCEPT !.approval = a, !.status = st, !.next = n, !.failed = FALSE]
          /\ n \in {"engineer", "rejected", "modification_requested"}
          /\ n = "engineer" => a.selection = "approve"
          /\ st \in {"implementing", "awaiting_approval"}
    BY DEF AfterApproval, Approvals, Selections
  <1>3. t \in Checkpoint
    BY <1>1, <1>2 DEF Checkpoint, Nodes, Statuses
  <1>4. s.attempt = 1 /\ s.change = 0 /\ s.report = None /\ ~s.intervention
    BY <1>1 DEF FreshPlan
  <1> QED
    BY <1>1, <1>2, <1>3, <1>4
    DEF Sound, FreshPlan, Progress, Checkpoint, RoleNodes, Approved, EngineerAuthorized

(* Whatever the Engineer answers leads to a sound checkpoint. *)
LEMMA ChangeIsSound ==
  ASSUME NEW s, Sound(s), s.next = "engineer"
  PROVE  Sound(AfterChange(s)) /\ Sound(AfterIntervention(s))
  <1>1. s \in Checkpoint /\ Approved(s)
    BY DEF Sound, RoleNodes
  <1>2. Sound(AfterChange(s))
    <2>1. s.attempt \in 0..2
      BY <1>1 DEF Checkpoint, Attempts
    <2>2. AfterChange(s) \in Checkpoint
      BY <1>1, <2>1 DEF AfterChange, Checkpoint, Nodes, Statuses
    <2> QED BY <1>1, <2>2 DEF Sound, FreshPlan, Progress, AfterChange, Checkpoint, RoleNodes,
                              Approved, EngineerAuthorized
  <1>3. Sound(AfterIntervention(s))
    <2>1. AfterIntervention(s) \in Checkpoint
      BY <1>1 DEF AfterIntervention, Checkpoint, Nodes, Statuses
    <2> QED BY <1>1, <2>1 DEF Sound, FreshPlan, Progress, AfterIntervention, Checkpoint, RoleNodes,
                              Approved, EngineerAuthorized
  <1> QED BY <1>2, <1>3

(* A report of any verdict leads to a sound checkpoint. *)
LEMMA ReportIsSound ==
  ASSUME NEW s, Sound(s), s.next = "validator", NEW v \in Verdicts
  PROVE  Sound(AfterReport(s, [attempt |-> s.attempt, verdict |-> v]))
  <1> DEFINE r == [attempt |-> s.attempt, verdict |-> v]
             t == AfterReport(s, r)
  <1>1. s \in Checkpoint /\ Approved(s) /\ s.change = s.attempt /\ s.intervention = FALSE
    BY DEF Sound, Progress, Checkpoint, RoleNodes
  <1>2. r \in Reports
    BY <1>1 DEF Reports, Checkpoint
  <1>3. r # None
    BY <1>2 DEF Reports
  <1>4. t \in Checkpoint
    BY <1>1, <1>2 DEF AfterReport, Checkpoint, Nodes, Statuses
  <1>5. /\ t.next = "end" /\ t.report = r /\ r.attempt = s.attempt
        /\ t.attempt = s.attempt /\ t.change = s.change
        /\ t.approval = s.approval /\ t.correction = s.correction
        /\ t.intervention = s.intervention
    BY <1>1 DEF AfterReport, Checkpoint
  <1> HIDE DEF r, t
  <1>6. Sound(t)
    BY <1>1, <1>3, <1>4, <1>5 DEF Sound, FreshPlan, Progress, RoleNodes, Approved, ReportMatches
  <1> QED BY <1>6 DEF r, t

(* Recording a terminal status keeps a checkpoint sound. *)
LEMMA TerminalIsSound ==
  ASSUME NEW s, Sound(s), s.next \in TerminalNodes
  PROVE  Sound(AfterTerminalNode(s))
  <1>1. s \in Checkpoint
    BY DEF Sound
  <1>2. s.next \in Statuses /\ s.next # "completed"
    BY DEF Statuses, TerminalNodes
  <1>3. AfterTerminalNode(s) \in Checkpoint
    BY <1>1, <1>2 DEF AfterTerminalNode, Checkpoint, Nodes
  <1> QED BY <1>1, <1>2, <1>3 DEF Sound, FreshPlan, Progress, AfterTerminalNode, Checkpoint, RoleNodes,
                            TerminalNodes, Approved

(* An offered retry, authorized, is sound: attempt two can be engineered. *)
LEMMA RetryIsSound ==
  ASSUME NEW s, Sound(s), RetryOffered(s), NEW c \in Corrections
  PROVE  Sound(AfterRetryAuthorized(s, c))
  <1> DEFINE t == AfterRetryAuthorized(s, c)
  <1>1. /\ s \in Checkpoint /\ Approved(s)
        /\ ReportMatches(s) /\ s.report.attempt = 1
        /\ CorrectionAction(s.report) = "retry"
    BY DEF Sound, RetryOffered, RetryEvidence
  <1>6. s.change = 1 /\ s.attempt = 1 /\ s.intervention = FALSE
    <2>1. s.attempt = 1
      BY <1>1 DEF Sound, RetryOffered, Checkpoint, Attempts
    <2>2. s.change = 1
      BY <1>1 DEF ReportMatches
    <2> QED BY <1>1, <2>1, <2>2 DEF Sound, Progress, Checkpoint
  <1>2. c # None
    BY DEF Corrections
  <1>3. t \in Checkpoint
    <2>1. 2 \in Attempts /\ "implementing" \in Statuses /\ "engineer" \in Nodes
      BY DEF Attempts, Statuses, Nodes
    <2> QED BY <1>1, <2>1 DEF AfterRetryAuthorized, Checkpoint
  <1>4. /\ t.next = "engineer" /\ t.status = "implementing" /\ t.attempt = 2
        /\ t.correction = c /\ t.approval = s.approval
        /\ t.report = s.report /\ t.change = s.change
        /\ t.intervention = s.intervention
    BY <1>1 DEF AfterRetryAuthorized, Checkpoint
  <1> HIDE DEF t
  <1>5. Sound(t)
    BY <1>1, <1>2, <1>3, <1>4, <1>6
    DEF Sound, FreshPlan, Progress, RoleNodes, Approved, EngineerAuthorized, ReportMatches
  <1> QED BY <1>5 DEF t

(* Recording a task error keeps a checkpoint sound. *)
LEMMA FailureIsSound ==
  ASSUME NEW s, Sound(s)
  PROVE  Sound([s EXCEPT !.failed = TRUE])
  <1> DEFINE t == [s EXCEPT !.failed = TRUE]
  <1>1. t \in Checkpoint
    BY DEF Sound, Checkpoint
  <1>2. {"next", "status", "attempt", "approval", "correction", "change", "report",
         "intervention"} \subseteq DOMAIN s
    BY DEF Sound, Checkpoint
  <1>3. /\ t.next = s.next /\ t.status = s.status /\ t.attempt = s.attempt
        /\ t.approval = s.approval /\ t.correction = s.correction /\ t.change = s.change
        /\ t.report = s.report /\ t.intervention = s.intervention
    BY <1>2
  <1> HIDE DEF t
  <1>4. FreshPlan(t) /\ Progress(t)
    BY <1>3 DEF Sound, FreshPlan, Progress, ReportMatches
  <1>5. Sound(t)
    BY <1>1, <1>3, <1>4 DEF Sound, Approved, EngineerAuthorized, ReportMatches
  <1> QED BY <1>5 DEF t

-----------------------------------------------------------------------------
(* What the steps do to the checkpoints known. *)

(* A node that produces a sound checkpoint preserves the invariant. *)
LEMMA AdvanceIsSound ==
  ASSUME IInv, NEW s, Sound(s), Advance(s)
  PROVE  IInv'
  <1>1. s \in Checkpoint
    BY DEF Sound
  <1>2. TypeOK' /\ InvocationHasState'
    BY <1>1 DEF IInv, TypeOK, Advance, InvocationHasState
  <1>3. Known' \subseteq Known \cup {s}
    BY <1>1 DEF IInv, TypeOK, Advance, Known
  <1> QED BY <1>2, <1>3 DEF IInv

(* The running loop continues from a sound checkpoint. *)
LEMMA CurrentIsSound ==
  ASSUME IInv, op = "running"
  PROVE  Sound(Current)
  <1>1. CASE queue = <<>>
    BY <1>1 DEF IInv, InvocationHasState, Current, Known
  <1>2. CASE queue # <<>>
    <2>1. Len(queue) \in 1..Len(queue)
      BY <1>2 DEF IInv, TypeOK
    <2> QED BY <1>2, <2>1 DEF IInv, Current, Known
  <1> QED BY <1>1, <1>2

(* IInv holds before the run starts. *)
LEMMA InitInvariant == Init => IInv
  BY DEF Init, IInv, TypeOK, InvocationHasState, Known

(* IInv survives every operation, node, flush, error and crash. *)
LEMMA StepInvariant == ASSUME IInv, [Next]_vars PROVE IInv'
  <1>1. CASE Start
    <2>1. TypeOK' /\ InvocationHasState'
      BY <1>1, PlannedIsSound DEF Start, IInv, TypeOK, InvocationHasState, Sound
    <2>2. Known' \subseteq Known \cup {StartedCheckpoint}
      BY <1>1 DEF Start, Known
    <2> QED BY <2>1, <2>2, PlannedIsSound DEF IInv
  <1>2. ASSUME NEW a \in Approvals, Resume(a) PROVE IInv'
    <2>1. Sound(ckpt) /\ ckpt.next = "approval_gate"
      BY <1>2 DEF Resume, IInv, Known
    <2>2. Sound(AfterApproval(ckpt, a))
      BY <2>1, ApprovalIsSound
    <2>3. TypeOK' /\ InvocationHasState'
      BY <1>2, <2>2 DEF Resume, IInv, TypeOK, InvocationHasState, Sound
    <2>4. Known' \subseteq Known \cup {AfterApproval(ckpt, a)}
      BY <1>2 DEF Resume, Known
    <2> QED BY <2>2, <2>3, <2>4 DEF IInv
  <1>3. CASE ContinueLocalFailure
    BY <1>3 DEF ContinueLocalFailure, IInv, TypeOK, InvocationHasState, Known
  <1>4. ASSUME NEW c \in Corrections, RetryRecoverable(c) PROVE IInv'
    <2>1. CASE UNCHANGED ckpt
      BY <1>4, <2>1 DEF RetryRecoverable, IInv, TypeOK, InvocationHasState, Known
    <2>2. CASE RetryOffered(ckpt) /\ ckpt' = AfterRetryAuthorized(ckpt, c)
      <3>1. Sound(ckpt')
        BY <1>4, <2>2, RetryIsSound DEF RetryRecoverable, IInv, Known
      <3>2. ckpt' \in Checkpoint /\ ckpt' # None
        BY <3>1 DEF Sound
      <3>3. TypeOK' /\ InvocationHasState'
        BY <1>4, <3>2 DEF RetryRecoverable, IInv, TypeOK, InvocationHasState
      <3>4. Known' \subseteq Known \cup {ckpt'}
        BY <1>4 DEF RetryRecoverable, Known
      <3> QED BY <3>1, <3>3, <3>4 DEF IInv
    <2> QED BY <1>4, <2>1, <2>2 DEF RetryRecoverable
  <1>5. CASE ArchitectStep
    BY <1>5, PlannedIsSound, AdvanceIsSound DEF ArchitectStep
  <1>6. CASE EngineerStep
    <2>1. Sound(AfterChange(Current)) /\ Sound(AfterIntervention(Current))
      BY <1>6, CurrentIsSound, ChangeIsSound DEF EngineerStep, Running
    <2> QED BY <1>6, <2>1, AdvanceIsSound DEF EngineerStep
  <1>7. CASE ValidatorStep
    <2>1. Sound(Current) /\ Current.next = "validator"
      BY <1>7, CurrentIsSound DEF ValidatorStep, Running
    <2> QED BY <1>7, <2>1, ReportIsSound, AdvanceIsSound DEF ValidatorStep
  <1>8. CASE TerminalStep
    <2>1. Sound(AfterTerminalNode(Current))
      BY <1>8, CurrentIsSound, TerminalIsSound DEF TerminalStep
    <2> QED BY <1>8, <2>1, AdvanceIsSound DEF TerminalStep
  <1>9. CASE RoleError \/ Stop \/ Return
    BY <1>9 DEF RoleError, Stop, Return, IInv, TypeOK, InvocationHasState, Known
  <1>10. CASE Flush
    <2>1. /\ queue \in Seq(Checkpoint) /\ Len(queue) \in Nat \ {0}
          /\ ckpt' = queue[1] /\ queue' = Tail(queue)
      BY <1>10 DEF Flush, IInv, TypeOK
    <2>2. TypeOK' /\ ckpt' # None
      BY <1>10, <2>1 DEF Flush, IInv, TypeOK
    <2>3. \A i \in 1..Len(queue') : i + 1 \in 1..Len(queue) /\ queue'[i] = queue[i + 1]
      BY <2>1
    <2>4. Known' \subseteq Known
      BY <2>1, <2>3 DEF Known
    <2> QED BY <2>2, <2>4 DEF IInv, InvocationHasState
  <1>11. CASE Raise
    <2>1. Sound(ckpt)
      BY <1>11 DEF Raise, IInv, InvocationHasState, Known
    <2>2. Sound(ckpt')
      BY <1>11, <2>1, FailureIsSound DEF Raise
    <2>3. TypeOK' /\ InvocationHasState'
      BY <1>11, <2>2 DEF Raise, IInv, TypeOK, InvocationHasState, Sound
    <2>4. Known' \subseteq Known \cup {ckpt'}
      BY <1>11 DEF Raise, Known
    <2> QED BY <2>2, <2>3, <2>4 DEF IInv
  <1>12. CASE Crash
    <2>1. TypeOK' /\ InvocationHasState' /\ Known' \subseteq Known
      BY <1>12 DEF Crash, IInv, TypeOK, InvocationHasState, Known
    <2> QED BY <2>1 DEF IInv
  <1>13. CASE UNCHANGED vars
    BY <1>13 DEF vars, IInv, TypeOK, InvocationHasState, Known
  <1> QED
    BY <1>1, <1>2, <1>3, <1>4, <1>5, <1>6, <1>7, <1>8, <1>9, <1>10, <1>11, <1>12, <1>13
    DEF Next, Program

-----------------------------------------------------------------------------
(* Every known checkpoint is sound in every reachable state. *)
THEOREM Invariance == Spec => []IInv
  <1>1. Init => IInv
    BY InitInvariant
  <1>2. IInv /\ [Next]_vars => IInv'
    BY StepInvariant
  <1> QED BY <1>1, <1>2, PTL DEF Spec

(* The checkpoints, the queue and the operation keep their types. *)
THEOREM TypeCorrect == Spec => []TypeOK
  <1>1. IInv => TypeOK
    BY DEF IInv
  <1> QED BY <1>1, Invariance, PTL

(* Nothing is implemented or validated before a human approves the plan,   *)
(* nor a second time before a human authorizes the correction of a         *)
(* retryable report, whatever crashes and errors happen. (_engineer_node,  *)
(* retry_recoverable)                                                      *)
THEOREM Authorized == Spec => []ImplementationAuthorized
  <1>1. IInv => ImplementationAuthorized
    BY DEF IInv, ImplementationAuthorized, Sound, Approved
  <1> QED BY <1>1, Invariance, PTL

(* Wherever a run is continued, the Engineer node accepts it.              *)
(* (_engineer_node)                                                        *)
THEOREM EngineerAccepts == Spec => []EngineerNodeNeverRefuses
  <1>1. IInv => EngineerNodeNeverRefuses
    BY DEF IInv, EngineerNodeNeverRefuses, Sound
  <1> QED BY <1>1, Invariance, PTL

(* A completed run reports on the change set of its last attempt.          *)
(* (_validator_node)                                                       *)
THEOREM ReportIsCurrent == Spec => []CompletedReportIsCurrent
  <1>1. IInv => CompletedReportIsCurrent
    BY DEF IInv, CompletedReportIsCurrent, Sound
  <1> QED BY <1>1, Invariance, PTL

-----------------------------------------------------------------------------
(***************************************************************************)
(* The action properties, and that the durable checkpoint implements       *)
(* GatedRun.  A durable step is taken long after the node that produced it *)
(* ran, so the argument needs to know how the checkpoints in flight follow *)
(* from each other: each one is what a node makes of the one before.       *)
(***************************************************************************)

(* t is what a node, or the start of the run, makes of s. *)
Follows(s, t) ==
  \/ s = None /\ t = StartedCheckpoint
  \/ s # None /\ s.next = "architect" /\ t \in {PlannedCheckpoint, UndecidedCheckpoint}
  \/ s # None /\ s.next = "approval_gate" /\ \E a \in Approvals : t = AfterApproval(s, a)
  \/ s # None /\ s.next = "engineer" /\ t \in {AfterChange(s), AfterIntervention(s)}
  \/ /\ s # None /\ s.next = "validator"
     /\ \E v \in Verdicts : t = AfterReport(s, [attempt |-> s.attempt, verdict |-> v])
  \/ s # None /\ s.next \in TerminalNodes /\ t = AfterTerminalNode(s)

Predecessor(i) == IF i = 1 THEN ckpt ELSE queue[i - 1]
Chained == \A i \in 1..Len(queue) : Follows(Predecessor(i), queue[i])

(* An idle thread has nothing in flight; only a role raises. *)
QuietIsFlushed == op = "idle" => queue = <<>>
RaisingAtRole == op = "raising" => Current.next \in {"architect"} \cup RoleNodes

CInv == IInv /\ QuietIsFlushed /\ RaisingAtRole /\ Chained

-----------------------------------------------------------------------------
(* A node appends to the chain of checkpoints in flight. *)
LEMMA AdvanceChains ==
  ASSUME IInv, Chained, NEW s, Follows(Current, s), Advance(s)
  PROVE  Chained'
  <1>1. queue \in Seq(Checkpoint) /\ Len(queue) \in Nat
    BY DEF IInv, TypeOK
  <1>2. queue' = Append(queue, s) /\ UNCHANGED ckpt
    BY DEF Advance
  <1> SUFFICES ASSUME NEW i \in 1..Len(queue')
               PROVE  Follows(Predecessor(i)', queue'[i])
    BY DEF Chained
  <1>3. CASE i = Len(queue) + 1
    <2>1. queue'[i] = s
      BY <1>1, <1>2, <1>3
    <2>2. Predecessor(i)' = Current
      BY <1>1, <1>2, <1>3 DEF Predecessor, Current
    <2> QED BY <2>1, <2>2
  <1>4. CASE i \in 1..Len(queue)
    <2>1. queue'[i] = queue[i]
      BY <1>1, <1>2, <1>4
    <2>2. Predecessor(i)' = Predecessor(i)
      BY <1>1, <1>2, <1>4 DEF Predecessor
    <2> QED BY <1>4, <2>1, <2>2 DEF Chained
  <1> QED BY <1>1, <1>2, <1>3, <1>4

(* Flushing the head shifts the chain and leaves its end where it was. *)
LEMMA FlushShifts ==
  ASSUME IInv, Chained, Flush
  PROVE  Chained' /\ Current' = Current /\ Follows(ckpt, ckpt')
  <1>1. /\ queue \in Seq(Checkpoint) /\ Len(queue) \in Nat \ {0}
        /\ ckpt' = queue[1] /\ queue' = Tail(queue)
    BY DEF IInv, TypeOK, Flush
  <1>2. /\ Len(queue') = Len(queue) - 1
        /\ \A i \in 1..Len(queue') : queue'[i] = queue[i + 1]
    BY <1>1
  <1>3. Chained'
    <2> SUFFICES ASSUME NEW i \in 1..Len(queue')
                 PROVE  Follows(Predecessor(i)', queue'[i])
      BY DEF Chained
    <2>1. i + 1 \in 1..Len(queue) /\ queue'[i] = queue[i + 1]
      BY <1>1, <1>2
    <2>2. Predecessor(i)' = Predecessor(i + 1)
      <3>1. CASE i = 1
        BY <1>1, <2>1, <3>1 DEF Predecessor
      <3>2. CASE i # 1
        <4>1. i - 1 \in 1..Len(queue') /\ (i - 1) + 1 = i /\ (i + 1) - 1 = i
          BY <1>1, <1>2, <3>2
        <4>2. queue'[i - 1] = queue[(i - 1) + 1]
          BY <1>2, <4>1
        <4> QED BY <3>2, <4>1, <4>2 DEF Predecessor
      <3> QED BY <3>1, <3>2
    <2> QED BY <2>1, <2>2 DEF Chained
  <1>4. Current' = Current
    <2>1. Current = queue[Len(queue)]
      BY <1>1 DEF Current
    <2>2. CASE Len(queue) = 1
      <3>1. queue' = <<>>
        BY <1>1, <2>2
      <3> QED BY <1>1, <2>1, <2>2, <3>1 DEF Current
    <2>3. CASE Len(queue) # 1
      <3>1. Len(queue') \in 1..Len(queue') /\ Len(queue') + 1 = Len(queue)
        BY <1>1, <1>2, <2>3
      <3>2. queue'[Len(queue')] = queue[Len(queue)]
        BY <1>2, <3>1
      <3>3. queue' # <<>>
        BY <3>1
      <3> QED BY <2>1, <3>2, <3>3 DEF Current
    <2> QED BY <2>2, <2>3
  <1>5. Follows(ckpt, ckpt')
    BY <1>1 DEF Chained, Predecessor
  <1> QED BY <1>3, <1>4, <1>5

(* CInv holds before the run starts. *)
LEMMA InitChained == Init => CInv
  BY InitInvariant DEF Init, CInv, QuietIsFlushed, RaisingAtRole, Chained

(* CInv survives every operation, node, flush, error and crash. *)
LEMMA StepChained == ASSUME CInv, [Next]_vars PROVE CInv'
  <1>1. IInv'
    BY StepInvariant DEF CInv
  <1>2. CASE \E s : Advance(s) /\ Follows(Current, s) /\ op = "running"
    BY <1>1, <1>2, AdvanceChains DEF CInv, Advance, QuietIsFlushed, RaisingAtRole
  <1>3. CASE Flush
    BY <1>1, <1>3, FlushShifts DEF CInv, Flush, QuietIsFlushed, RaisingAtRole
  <1>4. CASE queue' = <<>> /\ op' # "raising"
    BY <1>1, <1>4 DEF CInv, QuietIsFlushed, RaisingAtRole, Chained
  <1>5. CASE UNCHANGED <<ckpt, queue>> /\ op' # "idle" /\ RaisingAtRole'
    BY <1>1, <1>5 DEF CInv, QuietIsFlushed, Chained, Predecessor
  <1>6. CASE Start \/ \E a \in Approvals : Resume(a)
    <2>1. op' = "running" /\ \E s : queue' = <<s>> /\ Follows(ckpt, s) /\ ckpt' = ckpt
      BY <1>6 DEF Start, Resume, Follows
    <2> QED BY <1>1, <2>1 DEF CInv, QuietIsFlushed, RaisingAtRole, Chained, Predecessor
  <1>7. ASSUME ArchitectStep \/ EngineerStep \/ ValidatorStep \/ TerminalStep
        PROVE  \E s : Advance(s) /\ Follows(Current, s) /\ op = "running"
    <2>1. op = "running"
      BY <1>7 DEF ArchitectStep, EngineerStep, ValidatorStep, TerminalStep, Running
    <2>6. Sound(Current)
      BY <2>1, CurrentIsSound DEF CInv
    <2>7. Current # None
      BY <2>6 DEF Sound
    <2>2. CASE ArchitectStep
      BY <2>1, <2>7, <2>2 DEF ArchitectStep, Running, Follows
    <2>3. CASE EngineerStep
      BY <2>1, <2>7, <2>3 DEF EngineerStep, Running, Follows
    <2>4. CASE ValidatorStep
      BY <2>1, <2>7, <2>4 DEF ValidatorStep, Running, Follows
    <2>5. CASE TerminalStep
      BY <2>1, <2>7, <2>5 DEF TerminalStep, Running, Follows
    <2> QED BY <1>7, <2>2, <2>3, <2>4, <2>5
  <1>8. CASE ContinueLocalFailure \/ Stop
    BY <1>5, <1>8 DEF ContinueLocalFailure, Stop, RaisingAtRole
  <1>9. CASE RoleError
    BY <1>5, <1>9 DEF RoleError, RaisingAtRole, Current
  <1>10. CASE Return \/ Raise \/ Crash \/ \E c \in Corrections : RetryRecoverable(c)
    BY <1>4, <1>10 DEF Return, Raise, Crash, RetryRecoverable, CInv, QuietIsFlushed
  <1>11. CASE UNCHANGED vars
    BY <1>1, <1>11 DEF vars, CInv, QuietIsFlushed, RaisingAtRole, Chained, Predecessor, Current
  <1> QED
    BY <1>2, <1>3, <1>6, <1>7, <1>8, <1>9, <1>10, <1>11 DEF Next, Program

(* The checkpoints in flight always follow from each other. *)
THEOREM ChainInvariance == Spec => []CInv
  <1>1. Init => CInv
    BY InitChained
  <1>2. CInv /\ [Next]_vars => CInv'
    BY StepChained
  <1> QED BY <1>1, <1>2, PTL DEF Spec

-----------------------------------------------------------------------------
(* Every step that changes the durable checkpoint makes it follow from the *)
(* one before, records a failure on it, or grants the offered correction.  *)
LEMMA DurableSteps ==
  ASSUME CInv, [Next]_vars
  PROVE  \/ UNCHANGED ckpt
         \/ Follows(ckpt, ckpt')
         \/ /\ ckpt # None /\ ckpt.next \in {"architect"} \cup RoleNodes
            /\ ckpt' = [ckpt EXCEPT !.failed = TRUE]
         \/ /\ ckpt # None /\ RetryOffered(ckpt)
            /\ \E c \in Corrections : ckpt' = AfterRetryAuthorized(ckpt, c)
  <1>1. CASE Flush
    BY <1>1, FlushShifts DEF CInv
  <1>2. CASE Raise
    BY <1>2 DEF Raise, CInv, IInv, InvocationHasState, RaisingAtRole, Current
  <1>3. ASSUME NEW c \in Corrections, RetryRecoverable(c)
        PROVE  \/ UNCHANGED ckpt
               \/ /\ ckpt # None /\ RetryOffered(ckpt)
                  /\ ckpt' = AfterRetryAuthorized(ckpt, c)
    BY <1>3 DEF RetryRecoverable
  <1>4. ASSUME ~Flush, ~Raise, \A c \in Corrections : ~RetryRecoverable(c)
        PROVE  UNCHANGED ckpt
    BY <1>4 DEF Next, Program, Start, Resume, ContinueLocalFailure, ArchitectStep,
                EngineerStep, ValidatorStep, TerminalStep, Advance, Stop, Return,
                RoleError, Crash, vars
  <1> QED BY <1>1, <1>2, <1>3, <1>4

(* The durable checkpoint is sound. *)
LEMMA DurableIsSound == ASSUME CInv, ckpt # None PROVE Sound(ckpt)
  BY DEF CInv, IInv, Known

(* A retry is offered only to attempt one, not yet corrected. *)
LEMMA OfferIsFirst ==
  ASSUME NEW s, Sound(s), RetryOffered(s)
  PROVE  s.attempt = 1 /\ s.change = 1 /\ s.correction = None
  BY DEF Sound, RetryOffered, RetryEvidence, ReportMatches, Checkpoint, Attempts

(* A node keeps the decisions taken, and no node runs at the end. *)
LEMMA FollowsKeepsDecisions ==
  ASSUME NEW s, NEW t, Sound(s), Follows(s, t)
  PROVE  /\ s.next # "end"
         /\ s.approval # None => t.approval = s.approval
         /\ s.correction # None => t.correction = s.correction
  <1>1. s \in Checkpoint /\ s # None
    BY DEF Sound
  <1>2. CASE s.next \in {"architect", "approval_gate"}
    BY <1>1, <1>2 DEF Sound, FreshPlan, Follows, TerminalNodes
  <1>3. CASE s.next = "engineer"
    <2>1. t = AfterChange(s) \/ t = AfterIntervention(s)
      BY <1>1, <1>3 DEF Follows, TerminalNodes
    <2>2. "approval" \in DOMAIN s /\ "correction" \in DOMAIN s
      BY <1>1 DEF Checkpoint
    <2>3. t.approval = s.approval /\ t.correction = s.correction
      BY <2>1, <2>2 DEF AfterChange, AfterIntervention
    <2> QED BY <1>3, <2>3
  <1>4. CASE s.next = "validator"
    <2>1. PICK v \in Verdicts : t = AfterReport(s, [attempt |-> s.attempt, verdict |-> v])
      BY <1>1, <1>4 DEF Follows, TerminalNodes
    <2>2. t.approval = s.approval /\ t.correction = s.correction
      BY <1>1, <2>1 DEF AfterReport, Checkpoint
    <2> QED BY <1>4, <2>2
  <1>5. CASE s.next \in TerminalNodes
    BY <1>1, <1>5 DEF Follows, AfterTerminalNode, Checkpoint, TerminalNodes
  <1> QED BY <1>1, <1>2, <1>3, <1>4, <1>5 DEF Follows

(* An authorized retry keeps the manifest decision. *)
LEMMA RetryKeepsApproval ==
  ASSUME NEW s, Sound(s), NEW c
  PROVE  /\ AfterRetryAuthorized(s, c).approval = s.approval
         /\ AfterRetryAuthorized(s, c).attempt = 2
         /\ AfterRetryAuthorized(s, c).correction = c
  BY DEF Sound, Checkpoint, AfterRetryAuthorized

(* Decisions, once durable, are never replaced or forgotten. (resume,      *)
(* retry_recoverable)                                                      *)
THEOREM DecisionsStay == Spec => DecisionsAreFinal
  <1>1. ASSUME CInv, [Next]_vars, ckpt # None
        PROVE  /\ ckpt.approval # None => ckpt'.approval = ckpt.approval
               /\ ckpt.correction # None => ckpt'.correction = ckpt.correction
    <2>1. Sound(ckpt) /\ ckpt \in Checkpoint
      BY <1>1, DurableIsSound DEF Sound
    <2>2. CASE Follows(ckpt, ckpt')
      BY <2>1, <2>2, FollowsKeepsDecisions
    <2>3. CASE ckpt' = [ckpt EXCEPT !.failed = TRUE]
      BY <2>1, <2>3 DEF Checkpoint
    <2>4. ASSUME NEW c \in Corrections, RetryOffered(ckpt),
                 ckpt' = AfterRetryAuthorized(ckpt, c)
          PROVE  /\ ckpt'.approval = ckpt.approval
                 /\ ckpt.correction = None
      BY <2>1, <2>4, RetryKeepsApproval, OfferIsFirst
    <2> QED BY <1>1, <2>2, <2>3, <2>4, DurableSteps
  <1> QED BY <1>1, ChainInvariance, PTL DEF Spec, DecisionsAreFinal

(* A terminal checkpoint is left only by the one retry it offers.          *)
(* (retry_recoverable)                                                     *)
THEOREM NoThirdAttempt == Spec => TerminalOnlyRetries
  <1>1. ASSUME CInv, [Next]_vars, ckpt # None, ckpt.next = "end", ckpt' # ckpt
        PROVE  /\ ckpt.attempt = 1 /\ ckpt'.attempt = 2
               /\ CorrectionAction(ckpt.report) = "retry"
    <2>1. Sound(ckpt)
      BY <1>1, DurableIsSound
    <2>2. ~Follows(ckpt, ckpt')
      BY <1>1, <2>1, FollowsKeepsDecisions
    <2>3. PICK c \in Corrections : RetryOffered(ckpt) /\ ckpt' = AfterRetryAuthorized(ckpt, c)
      BY <1>1, <2>2, DurableSteps DEF RoleNodes
    <2> QED BY <2>1, <2>3, OfferIsFirst, RetryKeepsApproval DEF RetryOffered
  <1> QED BY <1>1, ChainInvariance, PTL DEF Spec, TerminalOnlyRetries

-----------------------------------------------------------------------------
(* The refinement: each node, the correction and a failure take an abstract *)
(* step or a stutter.  A checkpoint that does not exist yet stands for the  *)
(* same abstract state as one that planning wrote.                          *)

(* GatedRun sees the same decisions ... *)
LEMMA SameSets == Abstract!Approvals = Approvals /\ Abstract!Corrections = Corrections
  BY DEF Abstract!Approvals, Approvals, Abstract!Selections, Selections,
         Abstract!Corrections, Corrections

(* ... and the same correction policy. *)
LEMMA SamePolicy == \A r : Abstract!CorrectionAction(r) = CorrectionAction(r)
  BY DEF Abstract!CorrectionAction, CorrectionAction, Abstract!MaximumAttempts,
         MaximumAttempts

(* A durable checkpoint maps to GatedRun field by field. *)
LEMMA MappedFields ==
  ASSUME ckpt # None
  PROVE  /\ Durable("approval", None) = ckpt.approval
         /\ Durable("correction", None) = ckpt.correction
         /\ Durable("change", 0) = ckpt.change
         /\ Durable("report", None) = ckpt.report
         /\ Durable("intervention", FALSE) = ckpt.intervention
  BY DEF Durable

(* A checkpoint that planning wrote maps to the initial GatedRun. *)
LEMMA MappedStart ==
  ASSUME ckpt = None \/ (Sound(ckpt) /\ ckpt.next \in {"architect", "approval_gate"})
  PROVE  /\ Durable("approval", None) = None /\ Durable("correction", None) = None
         /\ Durable("change", 0) = 0 /\ Durable("report", None) = None
         /\ Durable("intervention", FALSE) = FALSE
  BY DEF Durable, Sound, FreshPlan, Checkpoint

(* A step that keeps the mapped fields is a stutter of GatedRun. *)
LEMMA MappedStutter ==
  ASSUME ckpt # None, ckpt' # None,
         ckpt'.approval = ckpt.approval, ckpt'.correction = ckpt.correction,
         ckpt'.change = ckpt.change, ckpt'.report = ckpt.report,
         ckpt'.intervention = ckpt.intervention
  PROVE  UNCHANGED Abstract!vars
  BY DEF Durable, Abstract!vars

(* A node, once its checkpoint is durable, is a step of GatedRun. *)
LEMMA NodeRefines ==
  ASSUME CInv, Follows(ckpt, ckpt'), CInv'
  PROVE  [Abstract!Next]_(Abstract!vars)
  <1>1. ckpt # None => Sound(ckpt) /\ ckpt \in Checkpoint
    BY DurableIsSound DEF Sound
  <1>2. ckpt' \in Checkpoint \cup {None}
    BY DEF CInv, IInv, TypeOK
  <1>3. ASSUME ckpt = None \/ ckpt.next = "architect"
        PROVE  UNCHANGED Abstract!vars
    <2>1. ckpt' \in {StartedCheckpoint, PlannedCheckpoint, UndecidedCheckpoint}
      BY <1>3 DEF Follows, RoleNodes, TerminalNodes
    <2>2. /\ ckpt'.approval = None /\ ckpt'.correction = None /\ ckpt'.change = 0
          /\ ckpt'.report = None /\ ckpt'.intervention = FALSE /\ ckpt' # None
      <3> DEFINE planned(s) ==
            /\ s.approval = None /\ s.correction = None /\ s.change = 0
            /\ s.report = None /\ s.intervention = FALSE
      <3>1. StartedCheckpoint \in Checkpoint /\ planned(StartedCheckpoint)
        BY PlannedIsSound DEF StartedCheckpoint, Sound
      <3>2. planned(PlannedCheckpoint) /\ planned(UndecidedCheckpoint)
        BY <3>1 DEF PlannedCheckpoint, UndecidedCheckpoint, Checkpoint
      <3>3. ckpt' # None
        BY <2>1, PlannedIsSound DEF Sound
      <3> QED BY <2>1, <3>1, <3>2, <3>3
    <2>3. ckpt = None \/ (Sound(ckpt) /\ ckpt.next \in {"architect", "approval_gate"})
      BY <1>1, <1>3
    <2> QED BY <2>2, <2>3, MappedStart DEF Durable, Abstract!vars
  <1>4. ASSUME NEW a \in Approvals, ckpt # None, ckpt.next = "approval_gate",
               ckpt' = AfterApproval(ckpt, a)
        PROVE  Abstract!Decide(a)
    <2>1. /\ ckpt'.approval = a /\ ckpt'.correction = ckpt.correction
          /\ ckpt'.change = ckpt.change /\ ckpt'.report = ckpt.report
          /\ ckpt'.intervention = ckpt.intervention
      BY <1>1, <1>4 DEF AfterApproval, Checkpoint
    <2>2. ckpt.approval = None /\ ckpt' # None
      BY <1>1, <1>4, <2>1, ApprovalIsSound DEF Sound, FreshPlan
    <2> QED BY <1>4, <2>1, <2>2 DEF Durable, Abstract!Decide
  <1>5. ASSUME ckpt # None, ckpt.next = "engineer"
        PROVE  /\ ckpt.change < Abstract!AuthorizedAttempts
               /\ Abstract!ReportedAttempt = ckpt.change /\ ~ckpt.intervention
    <2>1. /\ Sound(ckpt) /\ ckpt \in Checkpoint /\ Approved(ckpt) /\ Progress(ckpt)
          /\ EngineerAuthorized(ckpt)
      BY <1>1, <1>5 DEF Sound, RoleNodes
    <2>2. CASE ckpt.attempt = 1
      BY <1>5, <2>1, <2>2, MappedFields
      DEF Abstract!AuthorizedAttempts, Abstract!ReportedAttempt, Progress, RoleNodes, Approved
    <2>3. CASE ckpt.attempt = 2
      BY <1>5, <2>1, <2>3, MappedFields
      DEF Abstract!AuthorizedAttempts, Abstract!ReportedAttempt, Progress, RoleNodes,
          EngineerAuthorized, ReportMatches
    <2> QED BY <2>1, <2>2, <2>3 DEF Checkpoint, Attempts
  <1>6. ASSUME ckpt # None, ckpt.next = "engineer", ckpt' = AfterChange(ckpt)
        PROVE  Abstract!Implement
    <2>1. /\ ckpt'.approval = ckpt.approval /\ ckpt'.correction = ckpt.correction
          /\ ckpt'.change = ckpt.attempt /\ ckpt'.report = ckpt.report
          /\ ckpt'.intervention = ckpt.intervention
      BY <1>1, <1>6 DEF AfterChange, Checkpoint
    <2>2. ckpt.attempt = ckpt.change + 1
      BY <1>1, <1>6 DEF Sound, Progress, Checkpoint, Attempts
    <2>3. ckpt' # None
      BY <1>1, <1>6, ChangeIsSound DEF Sound
    <2> QED BY <1>5, <1>6, <2>1, <2>2, <2>3, MappedFields DEF Durable, Abstract!Implement
  <1>7. ASSUME ckpt # None, ckpt.next = "engineer", ckpt' = AfterIntervention(ckpt)
        PROVE  Abstract!Ask
    <2>1. /\ ckpt'.approval = ckpt.approval /\ ckpt'.correction = ckpt.correction
          /\ ckpt'.change = ckpt.change /\ ckpt'.report = ckpt.report
          /\ ckpt'.intervention = TRUE
      BY <1>1, <1>7 DEF AfterIntervention, Checkpoint
    <2>2. ckpt' # None
      BY <1>1, <1>7, ChangeIsSound DEF Sound
    <2> QED BY <1>5, <1>7, <2>1, <2>2, MappedFields DEF Durable, Abstract!Ask
  <1>8. ASSUME NEW v \in Verdicts, ckpt # None, ckpt.next = "validator",
               ckpt' = AfterReport(ckpt, [attempt |-> ckpt.attempt, verdict |-> v])
        PROVE  Abstract!Report(v)
    <2>1. /\ ckpt'.approval = ckpt.approval /\ ckpt'.correction = ckpt.correction
          /\ ckpt'.change = ckpt.change /\ ckpt'.intervention = ckpt.intervention
          /\ ckpt'.report = [attempt |-> ckpt.attempt, verdict |-> v]
      BY <1>1, <1>8 DEF AfterReport, Checkpoint
    <2>2. ckpt.change = ckpt.attempt /\ Progress(ckpt) /\ ckpt.attempt \in {1, 2}
      BY <1>1, <1>8 DEF Sound, Checkpoint, Attempts
    <2>3. ckpt' # None
      BY <1>1, <1>8, ReportIsSound DEF Sound
    <2>4. Abstract!ReportedAttempt < ckpt.change
      BY <1>8, <2>2, MappedFields DEF Abstract!ReportedAttempt, Progress, RoleNodes
    <2> QED BY <1>8, <2>1, <2>2, <2>3, <2>4, MappedFields DEF Durable, Abstract!Report
  <1>9. ASSUME ckpt # None, ckpt.next \in TerminalNodes, ckpt' = AfterTerminalNode(ckpt)
        PROVE  UNCHANGED Abstract!vars
    <2>1. /\ ckpt'.approval = ckpt.approval /\ ckpt'.correction = ckpt.correction
          /\ ckpt'.change = ckpt.change /\ ckpt'.intervention = ckpt.intervention
          /\ ckpt'.report = ckpt.report
      BY <1>1, <1>9 DEF AfterTerminalNode, Checkpoint
    <2>2. ckpt' # None
      BY <1>1, <1>9, TerminalIsSound DEF Sound
    <2> QED BY <1>9, <2>1, <2>2, MappedStutter
  <1> QED
    BY <1>3, <1>4, <1>6, <1>7, <1>8, <1>9, SameSets DEF Follows, Abstract!Next

(* Every step of the workflow is a step of GatedRun or a stutter. *)
LEMMA StepRefines ==
  ASSUME CInv, [Next]_vars, CInv'
  PROVE  [Abstract!Next]_(Abstract!vars)
  <1>1. CASE UNCHANGED ckpt
    BY <1>1 DEF Durable, Abstract!vars
  <1>2. CASE Follows(ckpt, ckpt')
    BY <1>2, NodeRefines
  <1>3. ASSUME ckpt # None
        PROVE  Sound(ckpt) /\ ckpt \in Checkpoint
    BY <1>3, DurableIsSound DEF Sound
  <1>4. ASSUME ckpt # None, ckpt' = [ckpt EXCEPT !.failed = TRUE]
        PROVE  UNCHANGED Abstract!vars
    <2>1. /\ ckpt'.approval = ckpt.approval /\ ckpt'.correction = ckpt.correction
          /\ ckpt'.change = ckpt.change /\ ckpt'.intervention = ckpt.intervention
          /\ ckpt'.report = ckpt.report
      BY <1>3, <1>4 DEF Checkpoint
    <2>2. ckpt' # None
      BY <1>3, <1>4, FailureIsSound DEF Sound
    <2> QED BY <1>4, <2>1, <2>2, MappedStutter
  <1>5. ASSUME NEW c \in Corrections, ckpt # None, RetryOffered(ckpt),
               ckpt' = AfterRetryAuthorized(ckpt, c)
        PROVE  Abstract!Correct(c)
    <2>1. /\ ckpt'.approval = ckpt.approval /\ ckpt'.correction = c
          /\ ckpt'.change = ckpt.change /\ ckpt'.intervention = ckpt.intervention
          /\ ckpt'.report = ckpt.report
      BY <1>3, <1>5 DEF AfterRetryAuthorized, Checkpoint
    <2>2. ckpt' # None
      BY <1>3, <1>5, RetryIsSound DEF Sound
    <2> QED
      BY <1>5, <2>1, <2>2, MappedFields, SamePolicy
      DEF Durable, Abstract!Correct, RetryOffered, RetryEvidence, ReportMatches
  <1> QED
    BY <1>1, <1>2, <1>4, <1>5, DurableSteps, SameSets DEF Abstract!Next

(* The durable checkpoint implements GatedRun: whatever crashes lose, what *)
(* is durable always went through decision, implementation and report in   *)
(* order. (the whole of MigrationWorkflow)                                 *)
THEOREM Refinement == Spec => ImplementsGatedRun
  <1>1. Init => Abstract!Init
    BY DEF Init, Durable, Abstract!Init
  <1>2. CInv /\ [Next]_vars /\ CInv' => [Abstract!Next]_(Abstract!vars)
    BY StepRefines
  <1> QED BY <1>1, <1>2, ChainInvariance, PTL DEF Spec, ImplementsGatedRun, Abstract!Spec
==============================================================================
