--------------------------- MODULE RunBundle_proofs ---------------------------
(***************************************************************************)
(* Proofs about RunLifecycle and RunBundle, for all reviewers and          *)
(* verdicts.                                                               *)
(*                                                                         *)
(* The run controller takes steps of MigrationWorkflow only, so that what  *)
(* is proved of its checkpoints there (Flow!CInv: they are sound, and an   *)
(* idle workflow has nothing in flight) holds of a run as well.  Whatever  *)
(* the run does while its evidence is read, and wherever it was cut off,   *)
(* the bundle a reader gets and the receipt issued for it are of the run.  *)
(* Readers hold no lock, so nothing they collected is current; what is     *)
(* used of the run holds for good: files are write-once, and so is what    *)
(* they say, and a run that can be read and has no attempt open has        *)
(* promoted every artifact.                                                *)
(***************************************************************************)
EXTENDS RunBundle, FiniteSetTheorems, TLAPS

RunningPcs == RolePcs \cup {"loop", "assess"}
Op == CASE pc \in RolePcs \cup {"loop", "assess"} -> "running"
        [] pc = "return" -> "returning"
        [] pc = "raise" -> "raising"
        [] OTHER -> "idle"
Flow == INSTANCE MigrationWorkflow_proofs WITH op <- Op

USE NoneAssumption, VerdictsAssumption

-----------------------------------------------------------------------------
(* The instance speaks of the same graph.                                  *)
LEMMA SameConstants ==
  /\ Flow!Statuses = Statuses /\ Flow!Approvals = Approvals
  /\ Flow!Corrections = Corrections /\ Flow!Reports = Reports
  /\ Flow!Checkpoint = Checkpoint /\ Flow!AllVerdicts = AllVerdicts
  /\ Flow!RoleNodes = RoleNodes /\ Flow!TerminalNodes = TerminalNodes
  BY DEF Flow!Statuses, Flow!Approvals, Flow!Corrections, Flow!Reports, Flow!Checkpoint,
         Flow!AllVerdicts, Flow!RoleNodes, Flow!TerminalNodes, Flow!Selections,
         Flow!Attempts, Flow!Nodes, Flow!Dispositions,
         Statuses, Approvals, Corrections, Reports, Checkpoint, AllVerdicts, RoleNodes,
         TerminalNodes, Selections, Attempts, Nodes, Dispositions

(* Its helpers are the graph's. *)
LEMMA SameGraph ==
  /\ \A s, a : Flow!AfterApproval(s, a) = AfterApproval(s, a)
  /\ \A s : Flow!AfterChange(s) = AfterChange(s)
  /\ \A s : Flow!AfterIntervention(s) = AfterIntervention(s)
  /\ \A s, r : Flow!AfterReport(s, r) = AfterReport(s, r)
  /\ \A s : Flow!AfterTerminalNode(s) = AfterTerminalNode(s)
  /\ \A s, c : Flow!AfterRetryAuthorized(s, c) = AfterRetryAuthorized(s, c)
  /\ \A s : Flow!RetryOffered(s) <=> RetryOffered(s)
  /\ \A s : Flow!EngineerAuthorized(s) <=> EngineerAuthorized(s)
  /\ \A s : Flow!Continuable(s) <=> Continuable(s)
  /\ Flow!Current = Current
  BY DEF Flow!AfterApproval, Flow!AfterChange, Flow!AfterIntervention, Flow!AfterReport,
         Flow!AfterTerminalNode, Flow!AfterRetryAuthorized, Flow!RetryOffered,
         Flow!RetryEvidence, Flow!EngineerAuthorized, Flow!Continuable, Flow!Current,
         Flow!CorrectionAction, Flow!MaximumAttempts, Flow!ReportMatches, Flow!RoleNodes,
         AfterApproval, AfterChange, AfterIntervention, AfterReport, AfterTerminalNode,
         AfterRetryAuthorized, RetryOffered, RetryEvidence, EngineerAuthorized,
         Continuable, Current, CorrectionAction, MaximumAttempts, ReportMatches, RoleNodes

(* What the controller is doing, in the words of MigrationWorkflow. *)
LEMMA OpOf ==
  /\ pc \in RunningPcs => Op = "running"
  /\ pc = "return" => Op = "returning"
  /\ pc = "raise" => Op = "raising"
  /\ pc \notin RunningPcs \cup {"return", "raise"} => Op = "idle"
  BY DEF Op, RunningPcs, RolePcs

(* and after a step. *)
LEMMA OpOfNext ==
  /\ pc' \in RunningPcs => Op' = "running"
  /\ pc' = "return" => Op' = "returning"
  /\ pc' = "raise" => Op' = "raising"
  /\ pc' \notin RunningPcs \cup {"return", "raise"} => Op' = "idle"
  BY DEF Op, RunningPcs, RolePcs
-----------------------------------------------------------------------------
(* Where the running operation is. *)
EngineerPcs == {"engineer", "correction_wiki", "engineer_correction", "engineer_lease",
                "implement", "engineer_outcome", "engineered"}
ValidatorPcs == {"validator", "checks", "advise", "validator_lease", "assess", "assessment",
                 "validated"}
ReportedPcs == {"advise", "validator_lease", "assess", "assessment", "validated"}
FreezePcs == {"status", "workflow", "checkpoint", "index", "anchor"}

(* A decision is being bound, frozen and handed to the workflow. *)
Authorizing == pc \in FreezePcs /\ call.kind = AuthorizedKind(call.attempt)
Deciding == pc \in {"intent", "approval", "invoke"} \/ Authorizing

(* The workflow is driven, or what it did is closed. *)
Ending == pc \in {"promote"} \cup FreezePcs /\ call.kind # AuthorizedKind(call.attempt)
Working == pc \in RunningPcs \cup {"return", "raise", "failure", "decision", "correction"} \/ Ending

-----------------------------------------------------------------------------
(* Types and control. *)
CallOK ==
  /\ call \in [attempt : Attempts, decision : Approvals \cup Corrections \cup {None},
               seam : {"none", "engineer", "validator", "deterministic_validator"},
               kind : Kinds,
               result : {"none", "change", "intervention", "deferred", "unavailable", "assessed"}]
  /\ Deciding => call.decision \in Decisions(call.attempt)
  /\ pc \in {"intent", "approval"} => call.kind = AuthorizedKind(call.attempt)
  /\ pc \in FreezePcs => call.kind \in {AuthorizedKind(call.attempt), SuccessKind(call.attempt), "failed"}
  /\ pc = "promote" => call.kind \in {SuccessKind(call.attempt), "failed"}
  /\ pc = "failure" => call.kind = "failed"
  /\ pc = "engineer_outcome" => call.result \in {"change", "intervention"}
  /\ pc = "assessment" => call.result \in {"deferred", "unavailable", "assessed"}

Clean == pc # "idle" => Temporary \notin Stored
ReportsTyped ==
  /\ \A n \in Attempts : <<"report", n>> \in Stored => verdict[n] \in Verdicts
  /\ pc \in ReportedPcs => <<"report", This>> \in Stored
AtNode ==
  /\ pc \in EngineerPcs => Current.next = "engineer"
  /\ pc \in ValidatorPcs => Current.next = "validator"
  /\ pc = "return" => Current.next = "end"

Control == TypeOK /\ CallOK /\ Clean /\ ReportsTyped /\ AtNode /\ Flow!CInv

-----------------------------------------------------------------------------
(* Invocation leases. *)
Copied == portable \cap ModelFiles \subseteq runtime
Leased ==
  \A r \in RoleNodes, n \in Attempts : dispatched[r][n] > 0 =>
    /\ Lease(r, n) \in runtime
    /\ r = "validator" => <<"report", n>> \in runtime
EngineerOnce ==
  /\ pc \in {"correction_wiki", "engineer_correction", "engineer_lease", "implement",
             "engineer_outcome"} => <<"engineer", This>> \notin runtime
  /\ pc \in {"implement", "engineer_outcome"} => Lease("engineer", This) \in runtime
  /\ pc = "implement" => dispatched["engineer"][This] = 0
  /\ pc = "engineered" => <<"engineer", This>> \in runtime
ValidatorOnce ==
  /\ pc = "checks" => <<"report", This>> \notin runtime
  /\ pc \in {"validator_lease", "assess", "assessment"} => <<"validator", This>> \notin runtime
  /\ pc = "validator_lease" => Lease("validator", This) \notin runtime
  /\ pc = "assess" => Lease("validator", This) \in runtime /\ dispatched["validator"][This] = 0
Leases == Copied /\ Leased /\ EngineerOnce /\ ValidatorOnce /\ AtMostOneDispatch

-----------------------------------------------------------------------------
(* Basic facts.                                                            *)

(* With nothing in flight, the node to run is that of the durable          *)
(* checkpoint.                                                             *)
LEMMA CurrentInFlight == ASSUME queue = <<>> PROVE Current = ckpt
  BY DEF Current

(* What Flow!CInv says of the workflow, in this module's terms.            *)
LEMMA FlowFacts ==
  ASSUME Control
  PROVE  /\ ckpt \in Checkpoint /\ ckpt # None
         /\ queue \in Seq(Checkpoint) /\ Current \in Checkpoint
         /\ Flow!Sound(ckpt) /\ Flow!Sound(Current)
         /\ pc \notin RunningPcs \cup {"return", "raise"} => queue = <<>>
         /\ pc = "raise" => Current.next \in {"architect"} \cup RoleNodes
  <1>1. ckpt \in Checkpoint /\ queue \in Seq(Checkpoint)
    BY DEF Control, TypeOK
  <1>2. ckpt # None
    BY <1>1
  <1>3. Flow!Sound(ckpt)
    BY <1>2, Flow!DurableIsSound, SameConstants DEF Control
  <1>4. Flow!IInv /\ Flow!QuietIsFlushed /\ Flow!RaisingAtRole
    BY DEF Control, Flow!CInv
  <1>5. Flow!Sound(Current)
    <2>1. CASE queue = <<>>
      BY <2>1, <1>3, CurrentInFlight
    <2>2. CASE queue # <<>>
      <3>1. Len(queue) \in 1..Len(queue) /\ Current = queue[Len(queue)]
        BY <1>1, <2>2 DEF Current
      <3>2. Current \in Flow!Known
        BY <3>1 DEF Flow!Known
      <3> QED BY <3>2, <1>4 DEF Flow!IInv
    <2> QED BY <2>1, <2>2
  <1>6. Current \in Checkpoint
    BY <1>5, SameConstants DEF Flow!Sound
  <1>7. pc \notin RunningPcs \cup {"return", "raise"} => queue = <<>>
    BY <1>4, OpOf DEF Flow!QuietIsFlushed
  <1>8. pc = "raise" => Current.next \in {"architect"} \cup RoleNodes
    BY <1>4, OpOf, SameConstants, SameGraph DEF Flow!RaisingAtRole
  <1> QED BY <1>1, <1>2, <1>3, <1>5, <1>6, <1>7, <1>8

(* A flush makes the oldest checkpoint durable and leaves the newest.      *)
LEMMA FlushKeepsCurrent ==
  ASSUME Control, Flush
  PROVE  /\ Current' = Current /\ ckpt' \in Checkpoint /\ queue' \in Seq(Checkpoint)
         /\ {ckpt'} \cup {queue'[i] : i \in 1..Len(queue')} \subseteq
              {queue[i] : i \in 1..Len(queue)}
  <1>1. /\ queue \in Seq(Checkpoint) /\ Len(queue) \in Nat \ {0}
        /\ ckpt' = queue[1] /\ queue' = Tail(queue)
    BY DEF Control, TypeOK, Flush
  <1>2. /\ Len(queue') = Len(queue) - 1
        /\ \A i \in 1..Len(queue') : queue'[i] = queue[i + 1] /\ i + 1 \in 1..Len(queue)
    BY <1>1
  <1>3. CASE Len(queue) = 1
    BY <1>1, <1>2, <1>3 DEF Current
  <1>4. CASE Len(queue) > 1
    <2>0. Len(queue') \in Nat \ {0} /\ queue' \in Seq(Checkpoint)
      BY <1>1, <1>2, <1>4
    <2>1. queue' # <<>> /\ Len(queue') \in 1..Len(queue')
      BY <2>0
    <2>2. queue'[Len(queue')] = queue[Len(queue)]
      BY <1>1, <1>2, <2>1
    <2> QED BY <1>1, <1>2, <1>4, <2>1, <2>2 DEF Current
  <1> QED BY <1>1, <1>2, <1>3, <1>4

(* The lifecycle an operation continues from is one that is anchored.      *)
LEMMA LatestIs ==
  ASSUME anchors \subseteq Kinds, NEW k \in anchors, \A j \in anchors : Age[j] <= Age[k]
  PROVE  LatestKind = k
  <1>1. \A i, j \in Kinds : Age[i] <= Age[j] /\ Age[j] <= Age[i] => i = j
    BY DEF Kinds, Age
  <1>2. \A j \in anchors : (\A i \in anchors : Age[i] <= Age[j]) => j = k
    BY <1>1
  <1> QED BY <1>2 DEF LatestKind

(* The latest lifecycle is one of those anchored. *)
LEMMA LatestIsAnchored ==
  ASSUME anchors \subseteq Kinds, "planned" \in anchors
  PROVE  /\ LatestKind \in anchors /\ \A j \in anchors : Age[j] <= Age[LatestKind]
  <1> SUFFICES \E k \in anchors : \A j \in anchors : Age[j] <= Age[k]
    BY DEF LatestKind
  <1>1. \A i \in 1..6 : \E k \in Kinds : Age[k] = i
    BY DEF Kinds, Age
  <1>2. \A k \in Kinds : Age[k] \in 1..6
    BY DEF Kinds, Age
  <1>3. CASE "failed" \in anchors
    BY <1>3 DEF Kinds, Age
  <1>4. CASE "failed" \notin anchors /\ "retried" \in anchors
    BY <1>4 DEF Kinds, Age
  <1>5. CASE {"failed", "retried"} \cap anchors = {} /\ "correction_authorized" \in anchors
    BY <1>5 DEF Kinds, Age
  <1>6. CASE {"failed", "retried", "correction_authorized"} \cap anchors = {} /\ "resumed" \in anchors
    BY <1>6 DEF Kinds, Age
  <1>7. CASE anchors \subseteq {"planned", "manifest_authorized"}
    BY <1>7 DEF Kinds, Age
  <1> QED BY <1>3, <1>4, <1>5, <1>6, <1>7 DEF Kinds, Age
-----------------------------------------------------------------------------
(* A decision is taken up only in a tree whose every file is accounted for. *)

(* Every prefix of a freeze or an authorization consists of evidence       *)
(* files.                                                                  *)
LEMMA OrdersAreFiles ==
  ASSUME NEW n \in Attempts, NEW k \in Kinds
  PROVE  /\ \A S \in Prefixes(FreezeOrder(k)) : S \subseteq Files
         /\ \A S \in Prefixes(AuthorizationOrder(n)) : S \subseteq Files
  <1>1. /\ FreezeOrder(k) \in Seq(Files) /\ Len(FreezeOrder(k)) = 4
    BY DEF FreezeOrder, Files
  <1>2. AuthorizedKind(n) \in Kinds
    BY DEF AuthorizedKind, Kinds, Age
  <1>3. FreezeOrder(AuthorizedKind(n)) \in Seq(Files) /\ <<<<"approval", n>>>> \in Seq(Files)
    BY <1>2 DEF FreezeOrder, Files
  <1>4. AuthorizationOrder(n) \in Seq(Files)
    BY <1>3 DEF AuthorizationOrder
  <1>5. ASSUME NEW o \in Seq(Files), NEW S \in Prefixes(o) PROVE S \subseteq Files
    BY <1>5 DEF Prefixes
  <1> QED BY <1>1, <1>4, <1>5

(* A file cut off before its link is no evidence file, *)
LEMMA TemporaryIsNoFile == Temporary \notin Files
  BY DEF Temporary, Files, ModelFiles, Rank, Attempts, Kinds, Age

(* so no inventory that the latest lifecycle accounts for holds one; *)
LEMMA IndexedFiles ==
  ASSUME TypeOK, LatestKind \in Kinds, Extras(LatestKind) \subseteq Files
  PROVE  Temporary \notin portable
  BY TemporaryIsNoFile DEF TypeOK, Extras, Inventory, Temporary

(* hence neither a verified run at rest *)
LEMMA VerifiedIsClean ==
  ASSUME Control, NEW m, NEW d, LifecycleVerified(m, d), Unbound = {}
  PROVE  Temporary \notin Stored
  <1>1. TypeOK /\ LatestKind \in Kinds
    BY LatestIsAnchored DEF Control, TypeOK
  <1>2. Temporary \notin runtime
    BY <1>1, TemporaryIsNoFile DEF Unbound, TypeOK
  <1>3. Extras(LatestKind) \subseteq Files
    <2>1. CASE LatestKind = "failed"
      BY <2>1 DEF LifecycleVerified, IndexVerified
    <2>2. CASE LatestKind # "failed" /\ PartialAttempts = {}
      BY <2>2 DEF LifecycleVerified, IndexVerified
    <2>3. CASE LatestKind # "failed" /\ PartialAttempts # {}
      <3>1. PICK n \in Attempts : PartialVerified(n, m, d)
        BY <2>3 DEF LifecycleVerified, PartialAttempts
      <3> QED BY <3>1, <1>1, OrdersAreFiles DEF PartialVerified
    <2> QED BY <2>1, <2>2, <2>3
  <1> QED BY <1>1, <1>2, <1>3, IndexedFiles DEF Stored

(* nor one accepted in flight has a cut-off write. *)
LEMMA InFlightIsClean ==
  ASSUME Control, NEW n \in Attempts, InFlightVerified(n)
  PROVE  Temporary \notin Stored
  <1>1. TypeOK /\ LatestKind \in Kinds
    BY LatestIsAnchored DEF Control, TypeOK
  <1>2. \A f \in Unbound : f # Temporary
    BY DEF InFlightVerified, Temporary, Attempts
  <1>3. Temporary \notin runtime
    BY <1>1, <1>2, TemporaryIsNoFile DEF Unbound, TypeOK
  <1>4. SuccessKind(n) \in Kinds
    BY DEF SuccessKind, Kinds, Age
  <1>5. Extras(LatestKind) \subseteq Files
    <2>1. Unbound \subseteq Files
      BY <1>1, <1>3, TemporaryIsNoFile DEF Unbound, TypeOK, Files
    <2>2. {"decision"} \X Attempts \subseteq Files
      BY DEF Files
    <2>3. Extras(LatestKind) \ ((Unbound \cap portable)
                               \cup (Extras(LatestKind) \cap ({"decision"} \X Attempts)))
            \in Prefixes(FreezeOrder(SuccessKind(n)))
      BY DEF InFlightVerified, InFlightInventory
    <2> QED BY <1>4, <2>1, <2>2, <2>3, OrdersAreFiles
  <1> QED BY <1>1, <1>3, <1>5, IndexedFiles DEF Stored

(* What is true whichever way a decision is submitted.                     *)
LEMMA Submitted ==
  ASSUME Control, NEW n \in Attempts, NEW d \in Decisions(n), Submit(n, d)
  PROVE  /\ pc = "idle" /\ "failed" \notin anchors
         /\ Temporary \notin Stored
         /\ pc' \in {"intent", "decision", "loop"}
         /\ pc' = "loop" => ckpt.next \in RoleNodes
         /\ call'.attempt = n /\ call'.decision = d /\ call'.kind = AuthorizedKind(n)
         /\ CallOK'
         /\ UNCHANGED <<durable, queue, dispatched>>
  <1>0. ASSUME NEW seam \in {"none", "engineer", "validator"},
               NEW where \in {"intent", "decision", "loop"}, Enter(n, d, seam, where)
        PROVE  /\ pc' = where
               /\ call'.attempt = n /\ call'.decision = d /\ call'.kind = AuthorizedKind(n)
               /\ CallOK'
               /\ UNCHANGED <<durable, queue, dispatched>>
    <2>1. call' = [attempt |-> n, decision |-> d, seam |-> seam, kind |-> AuthorizedKind(n),
                   result |-> "none"]
      BY <1>0 DEF Enter, NoCall
    <2>2. d \in Approvals \cup Corrections /\ AuthorizedKind(n) \in Kinds
      BY DEF Decisions, AuthorizedKind, Kinds, Age
    <2> HIDE DEF Decisions, AuthorizedKind
    <2>3. CallOK'
      BY <1>0, <2>1, <2>2 DEF Enter, CallOK, Deciding, Authorizing, FreezePcs
    <2> QED BY <1>0, <2>1, <2>3 DEF Enter
  <1>1. CASE SubmitFresh(n, d)
    <2>1. Temporary \notin Stored
      BY <1>1, VerifiedIsClean DEF SubmitFresh
    <2> QED BY <1>1, <2>1, <1>0 DEF SubmitFresh
  <1>2. CASE SubmitInFlight(n, d)
    <2>1. Temporary \notin Stored /\ InFlightVerified(n) /\ pc = "idle" /\ "failed" \notin anchors
      BY <1>2, InFlightIsClean DEF SubmitInFlight
    <2>2. ckpt.next = "end" \/ ckpt.next \in RoleNodes
      BY <2>1 DEF InFlightVerified, InFlightProjection
    <2>3. Interrupted(n) \subseteq RoleNodes
      BY DEF Interrupted
    <2>4. (IF Interrupted(n) = {} THEN "none" ELSE CHOOSE r \in Interrupted(n) : TRUE)
            \in {"none", "engineer", "validator"}
      BY <2>3 DEF RoleNodes
    <2>5. Enter(n, d, IF Interrupted(n) = {} THEN "none" ELSE CHOOSE r \in Interrupted(n) : TRUE,
                IF ckpt.next = "end" THEN "decision" ELSE "loop")
      BY <1>2 DEF SubmitInFlight
    <2>6. CASE ckpt.next = "end"
      BY <1>0, <2>1, <2>4, <2>5, <2>6
    <2>7. CASE ckpt.next \in RoleNodes
      BY <1>0, <2>1, <2>4, <2>5, <2>7 DEF RoleNodes
    <2> QED BY <2>2, <2>6, <2>7
  <1>3. CASE n = 2 /\ SubmitRecovery(d)
    <2>1. Temporary \notin Stored
      BY <1>3, VerifiedIsClean DEF SubmitRecovery
    <2>2. ckpt.next \in RoleNodes
      BY <1>3 DEF SubmitRecovery, ControllerFailure, RoleNodes
    <2> QED BY <1>3, <2>1, <2>2, <1>0 DEF SubmitRecovery
  <1> QED BY <1>1, <1>2, <1>3 DEF Submit
-----------------------------------------------------------------------------
(* Every step of a run is a step of the workflow, or leaves it as it is.   *)

(* The steps outside the workflow. *)
Apart == Authorize \/ Freeze \/ RefuseWrite \/ PersistFailure \/ PersistDecision \/ PersistCorrection
(* The steps of a node before it answers. *)
InsideNode ==
  \/ EngineerStart \/ PrepareCorrection \/ ClaimEngineer \/ StoreEngineerOutcome
  \/ ValidatorStart \/ Advise \/ ClaimValidator \/ CallValidator \/ StoreAssessment
  \/ CallEngineer /\ pc' = "engineer_outcome"
  \/ RunChecks /\ pc' = "advise"
(* The ways a node fails. *)
Raises ==
  \/ RoleError \/ RefuseDuplicateDispatch
  \/ CallEngineer /\ pc' = "raise"
  \/ RunChecks /\ pc' = "raise"

(* Authorizing, freezing and recording leave the workflow alone; *)
LEMMA ApartMoves ==
  ASSUME Apart
  PROVE  /\ UNCHANGED <<ckpt, queue>>
         /\ pc \notin RunningPcs \cup {"return", "raise"}
         /\ pc' \notin RunningPcs \cup {"return", "raise"}
  BY DEF Apart, Authorize, Freeze, RefuseWrite, PersistFailure, PersistDecision,
         PersistCorrection, BindIntent, PersistApproval, Promote, WriteStatus, WriteProjection,
         WriteIndex, BindAnchor, Conflict, Finish, Goto, durable, RunningPcs, RolePcs

(* so do the steps inside a node; *)
LEMMA InsideMoves ==
  ASSUME Control, InsideNode
  PROVE  UNCHANGED <<ckpt, queue>> /\ pc \in RunningPcs /\ pc' \in RunningPcs
  <1>1. This \in {1, 2}
    BY FlowFacts DEF This, Checkpoint, Attempts
  <1> QED
  BY <1>1 DEF InsideNode, EngineerStart, PrepareCorrection, ClaimEngineer, StoreEngineerOutcome,
         ValidatorStart, Advise, ClaimValidator, CallValidator, StoreAssessment, CallEngineer,
         RunChecks, Goto, durable, RunningPcs, RolePcs

(* and a node that raises ends at its checkpoint. *)
LEMMA RaisesMoves ==
  ASSUME Control, Raises
  PROVE  /\ UNCHANGED <<ckpt, queue>> /\ pc \in RolePcs /\ pc' = "raise"
         /\ Current.next \in RoleNodes
  <1>1. UNCHANGED <<ckpt, queue>> /\ pc \in RolePcs /\ pc' = "raise"
    BY DEF Raises, RoleError, RefuseDuplicateDispatch, CallEngineer, RunChecks, Goto, durable, RolePcs
  <1>2. pc \in EngineerPcs \cup ValidatorPcs
    BY <1>1 DEF RolePcs, EngineerPcs, ValidatorPcs
  <1> QED BY <1>1, <1>2 DEF Control, AtNode, RoleNodes

(* Every step is a submission, leaves the workflow alone, or is one of its *)
(* operations.                                                             *)
LEMMA StepIsOfOneKind ==
  ASSUME Next
  PROVE  \/ \E n \in Attempts : \E d \in Decisions(n) : Submit(n, d)
         \/ Apart \/ InsideNode \/ Raises
         \/ Invoke \/ Route \/ Flush \/ Return \/ EngineerDone \/ ValidatorDone
         \/ RecordTaskError \/ Crash
  <1>1. CallEngineer => pc' \in {"engineer_outcome", "raise"}
    BY DEF CallEngineer
  <1>2. RunChecks => pc' \in {"advise", "raise"}
    BY DEF RunChecks
  <1> QED BY <1>1, <1>2 DEF Next, Program, Conclude, Workflow, Engineer, Validator, Apart,
                            InsideNode, Raises

(* Every step of the controller is a step of MigrationWorkflow, or none. *)
LEMMA StepDrives ==
  ASSUME Control, [Next]_vars
  PROVE  [Flow!Next]_(Flow!vars)
  <1> USE FlowFacts, OpOf, OpOfNext, SameConstants, SameGraph
  <1>1. ASSUME NEW n \in Attempts, NEW d \in Decisions(n), Submit(n, d)
        PROVE  [Flow!Next]_(Flow!vars)
    <2>1. /\ UNCHANGED <<ckpt, queue>> /\ pc = "idle" /\ pc' \in {"intent", "decision", "loop"}
          /\ pc' = "loop" => ckpt.next \in RoleNodes
      BY <1>1, Submitted DEF durable
    <2>2. CASE pc' = "loop"
      <3>1. Op = "idle" /\ Op' = "running"
        BY <2>1, <2>2 DEF RunningPcs, RolePcs
      <3>2. Flow!ContinueLocalFailure
        BY <2>1, <2>2, <3>1 DEF Flow!ContinueLocalFailure, Continuable
      <3> QED BY <3>2 DEF Flow!Next
    <2>3. CASE pc' # "loop"
      BY <2>1, <2>3 DEF RunningPcs, RolePcs, Flow!vars
    <2> QED BY <2>2, <2>3
  <1>2. CASE Apart
    BY <1>2, ApartMoves DEF Flow!vars
  <1>3. CASE InsideNode
    BY <1>3, InsideMoves DEF Flow!vars
  <1>4. CASE Raises
    <2>1. Op = "running" /\ Op' = "raising"
      BY <1>4, RaisesMoves DEF RunningPcs
    <2>2. Flow!RoleError
      BY <1>4, <2>1, RaisesMoves DEF Flow!RoleError
    <2> QED BY <2>2 DEF Flow!Next
  <1>5. CASE Invoke
    <2>1. Op = "idle" /\ Op' = "running" /\ call.decision \in Decisions(call.attempt)
      BY <1>5 DEF Invoke, Goto, RunningPcs, RolePcs, Control, CallOK, Deciding
    <2>2. CASE call.attempt = 1
      BY <1>5, <2>1, <2>2 DEF Invoke, Flow!Resume, Flow!Next, Decisions
    <2>3. CASE call.attempt # 1
      <3>1. call.decision \in Corrections /\ RetryOffered(ckpt)
            /\ ckpt' = AfterRetryAuthorized(ckpt, call.decision) /\ queue' = queue
        BY <1>5, <2>1, <2>3 DEF Invoke, Decisions
      <3>2. Flow!RetryRecoverable(call.decision)
        BY <2>1, <3>1 DEF Flow!RetryRecoverable
      <3> QED BY <3>1, <3>2 DEF Flow!Next
    <2> QED BY <2>2, <2>3
  <1>6. CASE Route
    <2>1. Op = "running" /\ UNCHANGED ckpt
      BY <1>6 DEF Route, RunningPcs, Unwritten
    <2>2. CASE Current.next \in RoleNodes /\ pc' = Current.next /\ UNCHANGED queue
      BY <2>1, <2>2 DEF RoleNodes, RunningPcs, RolePcs, Flow!vars
    <2>3. CASE Current.next \in TerminalNodes /\ pc' = pc
               /\ queue' = Append(queue, AfterTerminalNode(Current))
      <3>1. Op' = "running"
        BY <1>6, <2>3 DEF Route, RunningPcs
      <3>2. Flow!TerminalStep
        BY <2>1, <2>3, <3>1 DEF Flow!TerminalStep, Flow!Advance
      <3> QED BY <3>2 DEF Flow!Next, Flow!Program
    <2>4. CASE Current.next = "end" /\ pc' = "return" /\ UNCHANGED queue
      <3>1. Flow!Stop
        BY <2>1, <2>4 DEF Flow!Stop
      <3> QED BY <3>1 DEF Flow!Next, Flow!Program
    <2> QED BY <1>6, <2>2, <2>3, <2>4 DEF Route, Goto
  <1>7. CASE Flush
    <2>1. Op' = Op
      BY <1>7 DEF Flush, Op
    <2>2. Flow!Flush
      BY <1>7, <2>1 DEF Flush, Flow!Flush
    <2> QED BY <2>2 DEF Flow!Next, Flow!Program
  <1>8. CASE Return
    <2>1. Flow!Return
      BY <1>8 DEF Return, Flow!Return, Goto, durable, RunningPcs, RolePcs
    <2> QED BY <2>1 DEF Flow!Next, Flow!Program
  <1>9. CASE EngineerDone
    <2>1. Op = "running" /\ Op' = "running" /\ UNCHANGED ckpt /\ Current.next = "engineer"
      BY <1>9 DEF EngineerDone, Goto, RunningPcs, RolePcs, Unwritten, Control, AtNode, EngineerPcs
    <2>2. EngineerAuthorized(Current)
      BY <2>1 DEF Flow!Sound
    <2>3. Flow!EngineerStep
      BY <1>9, <2>1, <2>2 DEF EngineerDone, Flow!EngineerStep, Flow!Running, Flow!Advance
    <2> QED BY <2>3 DEF Flow!Next, Flow!Program
  <1>10. CASE ValidatorDone
    <2>1. Op = "running" /\ Op' = "running" /\ UNCHANGED ckpt /\ Current.next = "validator"
      BY <1>10 DEF ValidatorDone, Goto, RunningPcs, RolePcs, Unwritten, Control, AtNode, ValidatorPcs
    <2>2. This \in Attempts /\ <<"report", This>> \in Stored
      BY <1>10 DEF ValidatorDone, Control, ReportsTyped, ReportedPcs, This, Checkpoint
    <2>3. verdict[This] \in Verdicts
      BY <2>2 DEF Control, ReportsTyped
    <2>4. Flow!ValidatorStep
      BY <1>10, <2>1, <2>3 DEF ValidatorDone, This, Flow!ValidatorStep, Flow!Running, Flow!Advance
    <2> QED BY <2>4 DEF Flow!Next, Flow!Program
  <1>11. CASE RecordTaskError
    <2>1. Op = "raising" /\ Op' = "idle"
      BY <1>11 DEF RecordTaskError, Finish, RunningPcs, RolePcs
    <2>2. Flow!Raise
      BY <1>11, <2>1 DEF RecordTaskError, Flow!Raise
    <2> QED BY <2>2 DEF Flow!Next, Flow!Program
  <1>12. CASE Crash
    <2>1. pc' = "idle" /\ queue' = <<>> /\ UNCHANGED ckpt /\ Op' = "idle"
      BY <1>12 DEF Crash, Die, Finish, RunningPcs, RolePcs
    <2>2. CASE Op # "idle"
      <3>1. Flow!Crash
        BY <2>1, <2>2 DEF Flow!Crash
      <3> QED BY <3>1 DEF Flow!Next
    <2>3. CASE Op = "idle"
      <3>1. queue = <<>>
        BY <2>3 DEF RunningPcs, RolePcs
      <3> QED BY <2>1, <2>3, <3>1 DEF Flow!vars
    <2> QED BY <2>2, <2>3
  <1>13. CASE UNCHANGED vars
    BY <1>13 DEF vars, Flow!vars, Op
  <1> QED
    BY <1>1, <1>2, <1>3, <1>4, <1>5, <1>6, <1>7, <1>8, <1>9, <1>10, <1>11, <1>12, <1>13,
       StepIsOfOneKind
-----------------------------------------------------------------------------
(* Types and control are kept.                                             *)

(* The lifecycle kinds of an attempt are distinct. *)
LEMMA KindsDiffer ==
  ASSUME NEW n \in Attempts
  PROVE  /\ AuthorizedKind(n) \in Kinds /\ SuccessKind(n) \in Kinds
         /\ AuthorizedKind(n) \notin {SuccessKind(n), "failed", "planned"}
         /\ SuccessKind(n) \notin {"failed", "planned"}
  BY DEF AuthorizedKind, SuccessKind, Kinds, Age

(* An operation that ended leaves no arguments behind.                     *)
LEMMA FinishedCall == ASSUME pc' = "idle", call' = NoCall PROVE CallOK'
  BY DEF CallOK, NoCall, Deciding, Authorizing, FreezePcs, Attempts, Kinds, Age

(* The local state of an operation fits where it is. *)
LEMMA CallStep == ASSUME Control, [Next]_vars PROVE CallOK'
  <1> USE DEF CallOK, Deciding, Authorizing, FreezePcs
  <1>0. CallOK
    BY DEF Control
  <1>1. ASSUME NEW n \in Attempts, NEW d \in Decisions(n), Submit(n, d) PROVE CallOK'
    BY <1>1, Submitted
  <1>2. CASE Apart
    <2>1. CASE Authorize
      BY <1>0, <2>1 DEF Authorize, BindIntent, PersistApproval, Goto
    <2>2. CASE Promote \/ WriteStatus \/ WriteProjection \/ WriteIndex
      BY <1>0, <2>2, KindsDiffer DEF Promote, WriteStatus, WriteProjection, WriteIndex, Goto
    <2>3. CASE BindAnchor
      BY <1>0, <2>3, FinishedCall DEF BindAnchor, Goto, Finish
    <2>4. CASE RefuseWrite
      BY <2>4, FinishedCall DEF RefuseWrite, Finish
    <2>5. CASE PersistFailure \/ PersistDecision
      BY <1>0, <2>5 DEF PersistFailure, PersistDecision, Goto
    <2>6. CASE PersistCorrection
      BY <1>0, <2>6, KindsDiffer DEF PersistCorrection
    <2> QED BY <1>2, <2>1, <2>2, <2>3, <2>4, <2>5, <2>6 DEF Apart, Freeze
  <1>3. CASE InsideNode
    <2>1. CASE EngineerStart \/ PrepareCorrection \/ ClaimEngineer \/ StoreEngineerOutcome
               \/ ValidatorStart \/ ClaimValidator \/ StoreAssessment
      <3>1. call' = call /\ pc' \in {"engineered", "engineer_lease", "correction_wiki", "advise",
                                     "engineer_correction", "implement", "checks", "assess",
                                     "validated"}
        BY <2>1, FlowFacts
        DEF EngineerStart, PrepareCorrection, ClaimEngineer, StoreEngineerOutcome, ValidatorStart,
            ClaimValidator, StoreAssessment, Goto, This, Checkpoint, Attempts
      <3> QED BY <1>0, <3>1
    <2>2. CASE Advise
      BY <1>0, <2>2 DEF Advise, Goto
    <2>3. CASE CallValidator \/ CallEngineer \/ RunChecks
      <3>1. CASE CallValidator
        BY <1>0, <3>1 DEF CallValidator
      <3>2. CASE CallEngineer
        BY <1>0, <3>2 DEF CallEngineer
      <3>3. CASE RunChecks
        BY <1>0, <3>3 DEF RunChecks
      <3> QED BY <2>3, <3>1, <3>2, <3>3
    <2> QED BY <1>3, <2>1, <2>2, <2>3 DEF InsideNode
  <1>4. CASE Raises
    BY <1>0, <1>4 DEF Raises, RoleError, RefuseDuplicateDispatch, CallEngineer, RunChecks, Goto
  <1>5. CASE Invoke \/ Flush \/ Return \/ EngineerDone \/ ValidatorDone
    BY <1>0, <1>5 DEF Invoke, Flush, Return, EngineerDone, ValidatorDone, Goto
  <1>6. CASE Route
    BY <1>0, <1>6 DEF Route, Goto, RoleNodes
  <1>7. CASE RecordTaskError
    <2>1. CASE call.seam = "none"
      BY <1>7, <2>1, FinishedCall DEF RecordTaskError, Finish
    <2>2. CASE call.seam # "none"
      <3>1. pc' = "failure" /\ call' = [call EXCEPT !.kind = "failed", !.result = "none"]
        BY <1>7, <2>2 DEF RecordTaskError
      <3>2. "failed" \in Kinds
        BY DEF Kinds, Age
      <3> QED BY <1>0, <3>1, <3>2
    <2> QED BY <2>1, <2>2
  <1>8. CASE Crash
    BY <1>8, FinishedCall DEF Crash, Die, Finish
  <1>9. CASE UNCHANGED vars
    BY <1>0, <1>9 DEF vars
  <1> QED BY <1>1, <1>2, <1>3, <1>4, <1>5, <1>6, <1>7, <1>8, <1>9, StepIsOfOneKind

-----------------------------------------------------------------------------
(* The files of the run, and what the artifacts say, keep their types.     *)

(* What the operations write are evidence files and model artifacts. *)
LEMMA WritesAreFiles ==
  ASSUME NEW n \in Attempts, NEW k \in Kinds
  PROVE  /\ {<<"approval", n>>, <<"decision", n>>, <<"failure", n>>} \subseteq Files
         /\ {<<"status", k>>, <<"workflow", k>>, <<"checkpoint", k>>, <<"index", k>>} \subseteq Files
         /\ \A f \in DOMAIN Rank : <<f, n>> \in ModelFiles
         /\ \A r \in RoleNodes : Lease(r, n) \in ModelFiles /\ Outcome(r, n) \in ModelFiles
         /\ ModelFiles \subseteq Files
  BY DEF Files, ModelFiles, Rank, RoleNodes, Lease, Outcome

(* A call is counted for its role and attempt only.                        *)
LEMMA DispatchCounts ==
  ASSUME dispatched \in [RoleNodes -> [Attempts -> 0..DispatchCap]], This \in Attempts,
         NEW role \in RoleNodes, Dispatch(role)
  PROVE  /\ dispatched' \in [RoleNodes -> [Attempts -> 0..DispatchCap]]
         /\ \A r \in RoleNodes, n \in Attempts :
              dispatched'[r][n] = IF r = role /\ n = This /\ dispatched[r][n] < DispatchCap
                                  THEN dispatched[r][n] + 1 ELSE dispatched[r][n]
  <1> DEFINE g == [dispatched[role] EXCEPT ![This] = IF @ < DispatchCap THEN @ + 1 ELSE @]
  <1>1. dispatched' = [dispatched EXCEPT ![role] = g]
    BY DEF Dispatch
  <1>2. g \in [Attempts -> 0..DispatchCap]
    BY DEF DispatchCap
  <1>3. \A n \in Attempts : g[n] = IF n = This /\ dispatched[role][n] < DispatchCap
                                   THEN dispatched[role][n] + 1 ELSE dispatched[role][n]
    OBVIOUS
  <1> HIDE DEF g
  <1> QED BY <1>1, <1>2, <1>3

(* Every step keeps the types. *)
LEMMA TypeStep ==
  ASSUME Control, [Next]_vars
  PROVE  TypeOK'
  <1>0. /\ TypeOK /\ CallOK /\ CallOK' /\ Clean
        /\ This \in Attempts /\ call.attempt \in Attempts /\ call.kind \in Kinds
        /\ call'.attempt \in Attempts /\ call'.kind \in Kinds
    BY CallStep, FlowFacts DEF Control, CallOK, This, Checkpoint
  <1>1. Flow!CInv'
    BY StepDrives, Flow!StepChained, SameConstants DEF Control
  <1>2. queue' \in Seq(Checkpoint) /\ ckpt' \in Checkpoint \cup {None}
    BY <1>1, SameConstants DEF Flow!CInv, Flow!IInv, Flow!TypeOK
  <1>3. ckpt' \in Checkpoint
    <2>1. CASE UNCHANGED ckpt
      BY <1>0, <2>1 DEF TypeOK
    <2>2. CASE Flush
      BY <2>2, FlushKeepsCurrent
    <2>3. CASE Invoke
      <3>1. call.attempt # 1 => call.decision \in Corrections
        BY <1>0, <2>3 DEF Invoke, CallOK, Deciding, Decisions
      <3>2. 2 \in Attempts /\ "implementing" \in Statuses /\ "engineer" \in Nodes
        BY DEF Attempts, Statuses, Nodes
      <3>3. \A c \in Corrections : AfterRetryAuthorized(ckpt, c) \in Checkpoint
        BY <1>0, <3>2, FlowFacts DEF AfterRetryAuthorized, Checkpoint
      <3> QED BY <2>3, <3>1, <3>3, FlowFacts DEF Invoke
    <2>4. CASE RecordTaskError
      BY <1>0, <2>4 DEF RecordTaskError, TypeOK, Checkpoint
    <2> QED BY <2>1, <2>2, <2>3, <2>4, StepIsOfOneKind, ApartMoves, InsideMoves, RaisesMoves, Submitted
            DEF Route, Return, EngineerDone, ValidatorDone, Crash, Die, Unwritten, durable, vars
  <1>4. UNCHANGED <<durable, dispatched>> /\ pc' \in Pcs => TypeOK'
    BY <1>0, <1>2 DEF TypeOK, durable
  <1>5. ASSUME NEW n \in Attempts, NEW d \in Decisions(n), Submit(n, d) PROVE TypeOK'
    BY <1>4, <1>5, Submitted DEF Pcs
  <1>6. CASE Apart
    <2> USE <1>0, <1>2, <1>3, <1>6
    <2>1. CASE Authorize
      <3>1. call.decision \in Decisions(call.attempt)
        BY <2>1 DEF Authorize, BindIntent, PersistApproval, CallOK, Deciding
      <3>2. call.decision \in Approvals \cup Corrections
        BY <3>1 DEF Decisions
      <3>3. CASE BindIntent
        BY <3>1, <3>2, <3>3 DEF TypeOK, BindIntent, Goto, Pcs
      <3>4. CASE PersistApproval
        BY <3>1, <3>2, <3>4, WritesAreFiles DEF TypeOK, PersistApproval, Goto, Pcs
      <3> QED BY <2>1, <3>3, <3>4 DEF Authorize
    <2>2. CASE Promote
      <3>1. runtime \subseteq Files \cup {Temporary}
        BY WritesAreFiles DEF TypeOK
      <3>2. portable' \subseteq portable \cup runtime
        BY <2>2 DEF Promote
      <3>3. pc' \in Pcs /\ call' = call
        BY <2>2 DEF Promote, Goto, Pcs
      <3> QED BY <2>2, <3>1, <3>2, <3>3 DEF TypeOK, Promote
    <2>3. CASE WriteStatus
      <3>1. call.kind \in Kinds /\ <<"status", call.kind>> \in Files
        BY WritesAreFiles DEF TypeOK
      <3>2. frozen' \in [Kinds -> Checkpoint \cup {None}]
        BY <2>3, <3>1 DEF TypeOK, WriteStatus
      <3>3. portable' \subseteq Files \cup {Temporary}
        BY <2>3, <3>1 DEF TypeOK, WriteStatus
      <3> QED BY <2>3, <3>2, <3>3 DEF TypeOK, WriteStatus, Goto, Pcs
    <2>9. CASE WriteProjection
      <3>1. <<pc, call.kind>> \in Files
        BY <2>9, WritesAreFiles DEF WriteProjection
      <3> QED BY <2>9, <3>1 DEF TypeOK, WriteProjection, Goto, Pcs
    <2>4. CASE WriteIndex
      <3>1. Inventory(call.kind) \subseteq Files
        BY <2>4 DEF WriteIndex, Clean, Stored, Inventory, TypeOK
      <3> QED BY <2>4, <3>1, WritesAreFiles DEF TypeOK, WriteIndex, Goto, Pcs
    <2>5. CASE BindAnchor
      BY <2>5 DEF TypeOK, BindAnchor, Goto, Finish, Pcs
    <2>6. CASE RefuseWrite
      BY <2>6, <1>4 DEF RefuseWrite, Finish, Pcs
    <2>7. CASE PersistFailure \/ PersistDecision
      <3>1. call.attempt \in Attempts /\ ckpt.attempt \in Attempts
        BY DEF TypeOK, Checkpoint
      <3>3. portable' \subseteq portable \cup {<<"failure", call.attempt>>, <<"decision", ckpt.attempt>>}
        BY <2>7 DEF PersistFailure, PersistDecision
      <3>4. <<"failure", call.attempt>> \in Files /\ <<"decision", ckpt.attempt>> \in Files
        BY <3>1 DEF Files
      <3>2. portable' \subseteq Files \cup {Temporary}
        BY <3>3, <3>4 DEF TypeOK
      <3> QED BY <2>7, <3>2 DEF TypeOK, PersistFailure, PersistDecision, Goto, Pcs
    <2>8. CASE PersistCorrection
      <3>1. ckpt.report # None => ckpt.report.attempt \in Attempts
        BY DEF TypeOK, Checkpoint, Reports
      <3>2. ckpt.report # None => <<"correction_request", ckpt.report.attempt>> \in ModelFiles
        BY <3>1, WritesAreFiles DEF Rank
      <3> QED BY <2>8, <3>2 DEF TypeOK, PersistCorrection, Pcs
    <2> QED BY <2>1, <2>2, <2>3, <2>4, <2>5, <2>6, <2>7, <2>8, <2>9 DEF Apart, Freeze
  <1>7. CASE InsideNode
    <2> USE <1>0, <1>2, <1>3, <1>7
    <2>0. pc' \in Pcs
      BY InsideMoves DEF RunningPcs, Pcs
    <2>1. CASE EngineerStart \/ ValidatorStart \/ Advise
      BY <2>0, <2>1, <1>4 DEF EngineerStart, ValidatorStart, Advise
    <2>2. CASE PrepareCorrection \/ ClaimEngineer \/ ClaimValidator
      <3>1. PICK f \in ModelFiles : runtime' = runtime \cup {f}
        BY <2>2, WritesAreFiles
        DEF PrepareCorrection, ClaimEngineer, ClaimValidator, StoreRuntime, Rank, RoleNodes
      <3> QED BY <2>0, <2>2, <3>1 DEF TypeOK, PrepareCorrection, ClaimEngineer, ClaimValidator
    <2>3. CASE StoreEngineerOutcome \/ StoreAssessment
      <3>1. PICK f \in ModelFiles : runtime' = runtime \cup {f}
        BY <2>3, WritesAreFiles DEF StoreEngineerOutcome, StoreAssessment, StoreRuntime, Rank
      <3>2. CASE StoreEngineerOutcome
        BY <2>0, <3>1, <3>2 DEF TypeOK, StoreEngineerOutcome, CallOK
      <3>3. CASE StoreAssessment
        BY <2>0, <3>1, <3>3 DEF TypeOK, StoreAssessment, CallOK
      <3> QED BY <2>3, <3>2, <3>3
    <2>4. CASE CallEngineer \/ CallValidator
      <3>1. dispatched' \in [RoleNodes -> [Attempts -> 0..DispatchCap]]
        BY <2>4, DispatchCounts DEF CallEngineer, CallValidator, RoleNodes, TypeOK
      <3> QED BY <2>0, <2>4, <3>1 DEF TypeOK, CallEngineer, CallValidator, durable
    <2>5. CASE RunChecks /\ pc' = "advise"
      <3>1. <<"report", This>> \in ModelFiles
        BY WritesAreFiles DEF Rank
      <3>0. PICK v \in Verdicts :
              /\ verdict' = [verdict EXCEPT ![This] = v]
              /\ runtime' = runtime \cup {<<"report", This>>}
        BY <2>5 DEF RunChecks, StoreRuntime
      <3>6. verdict \in [Attempts -> Verdicts \cup {None}] /\ runtime \subseteq ModelFiles \cup {Temporary}
        BY DEF TypeOK
      <3>2. /\ verdict' \in [Attempts -> Verdicts \cup {None}]
            /\ runtime' \subseteq ModelFiles \cup {Temporary}
        BY <3>0, <3>1, <3>6
      <3>3. /\ UNCHANGED <<portable, anchors, intent, consent, index, frozen, outcome, advice,
                           ckpt, queue, dispatched>>
            /\ call'.attempt = call.attempt /\ call'.kind = call.kind
        BY <2>5 DEF RunChecks, Goto
      <3>4. call'.attempt \in Attempts /\ call'.kind \in Kinds
        BY <3>3 DEF TypeOK
      <3>5. advice' = advice /\ dispatched' = dispatched /\ index' = index /\ frozen' = frozen
        BY <3>3
      <3> QED BY <2>0, <3>2, <3>3, <3>4, <3>5 DEF TypeOK
    <2> QED BY <2>1, <2>2, <2>3, <2>4, <2>5 DEF InsideNode
  <1>8. CASE Raises
    <2> USE <1>0, <1>2, <1>3, <1>8
    <2>0. pc' \in Pcs
      BY RaisesMoves DEF Pcs
    <2>1. CASE RoleError \/ RefuseDuplicateDispatch
      BY <2>0, <2>1, <1>4 DEF RoleError, RefuseDuplicateDispatch
    <2>2. CASE CallEngineer
      <3>1. dispatched' \in [RoleNodes -> [Attempts -> 0..DispatchCap]]
        BY <2>2, DispatchCounts DEF CallEngineer, RoleNodes, TypeOK
      <3> QED BY <2>0, <2>2, <3>1 DEF TypeOK, CallEngineer, durable
    <2>3. CASE RunChecks /\ pc' = "raise"
      BY <2>0, <2>3 DEF TypeOK, RunChecks
    <2> QED BY <2>1, <2>2, <2>3 DEF Raises
  <1>9. CASE Invoke \/ Flush \/ RecordTaskError
    BY <1>0, <1>2, <1>3, <1>9 DEF TypeOK, Invoke, Flush, RecordTaskError, Goto, Finish, Pcs, RolePcs
  <1>10. CASE Route
    BY <1>0, <1>2, <1>3, <1>10 DEF TypeOK, Route, Unwritten, Goto, Pcs, RolePcs, RoleNodes
  <1>11. CASE Return \/ EngineerDone \/ ValidatorDone
    BY <1>0, <1>2, <1>3, <1>11 DEF TypeOK, Return, EngineerDone, ValidatorDone, Unwritten, durable,
                                   Goto, Pcs
  <1>12. CASE Crash
    BY <1>0, <1>2, <1>3, <1>12 DEF TypeOK, Crash, Die, Finish, Pcs
  <1>13. CASE UNCHANGED vars
    BY <1>0, <1>13 DEF TypeOK, vars
  <1> QED BY <1>5, <1>6, <1>7, <1>8, <1>9, <1>10, <1>11, <1>12, <1>13, StepIsOfOneKind
-----------------------------------------------------------------------------
(* Which steps write which tree.                                           *)

(* The actions that write portable evidence, *)
LEMMA PortableSteps ==
  ASSUME [Next]_vars
  PROVE  \/ UNCHANGED portable
         \/ PersistApproval \/ Promote \/ WriteStatus \/ WriteProjection \/ WriteIndex
         \/ PersistFailure \/ PersistDecision \/ Crash
  BY DEF Next, Program, Conclude, Workflow, Engineer, Validator, Authorize, Freeze, Submit,
         SubmitFresh, SubmitInFlight, SubmitRecovery, Enter, BindIntent, BindAnchor, RefuseWrite,
         PersistCorrection, Invoke, Route, Flush, Return, Unwritten, durable, vars,
         EngineerStart, PrepareCorrection, ClaimEngineer, RefuseDuplicateDispatch, CallEngineer,
         StoreEngineerOutcome, EngineerDone, ValidatorStart, RunChecks, Advise, ClaimValidator,
         CallValidator, StoreAssessment, ValidatorDone, RecordTaskError, RoleError

(* and those that write a runtime artifact. *)
LEMMA RuntimeSteps ==
  ASSUME [Next]_vars
  PROVE  \/ UNCHANGED runtime
         \/ PersistCorrection \/ PrepareCorrection \/ ClaimEngineer \/ StoreEngineerOutcome
         \/ RunChecks \/ ClaimValidator \/ StoreAssessment \/ Crash
  BY DEF Next, Program, Conclude, Workflow, Engineer, Validator, Authorize, Freeze, Submit,
         SubmitFresh, SubmitInFlight, SubmitRecovery, Enter, BindIntent, BindAnchor, RefuseWrite,
         PersistApproval, Promote, WriteStatus, WriteProjection, WriteIndex, PersistFailure,
         PersistDecision, Invoke, Route, Flush, Return, Unwritten, durable, vars,
         EngineerStart, RefuseDuplicateDispatch, CallEngineer, EngineerDone, ValidatorStart,
         Advise, CallValidator, ValidatorDone, RecordTaskError, RoleError

(* Both trees only grow, and a temporary file is what a crash leaves.      *)
LEMMA StorageGrows ==
  ASSUME Control, [Next]_vars
  PROVE  /\ portable \subseteq portable' /\ runtime \subseteq runtime'
         /\ pc' # "idle" => Temporary \notin portable' \cup runtime'
  <1>0. /\ TypeOK /\ call.attempt \in Attempts /\ call.kind \in Kinds
        /\ This \in Attempts
    BY FlowFacts DEF Control, CallOK, This, Checkpoint
  <1>1. /\ portable \subseteq portable'
        /\ ~Crash /\ pc # "idle" => portable' \ portable \subseteq Files \cup runtime
    <2>1. CASE UNCHANGED portable \/ Promote \/ Crash
      BY <2>1 DEF Promote, Crash
    <2>2. CASE PersistApproval \/ WriteStatus \/ WriteProjection \/ WriteIndex
      <3>1. CASE PersistApproval
        BY <1>0, <3>1, WritesAreFiles DEF PersistApproval
      <3>2. CASE WriteStatus
        BY <1>0, <3>2, WritesAreFiles DEF WriteStatus
      <3>3. CASE WriteProjection
        BY <1>0, <3>3, WritesAreFiles DEF WriteProjection
      <3>4. CASE WriteIndex
        BY <1>0, <3>4, WritesAreFiles DEF WriteIndex
      <3> QED BY <2>2, <3>1, <3>2, <3>3, <3>4
    <2>3. CASE PersistFailure
      BY <1>0, <2>3, WritesAreFiles DEF PersistFailure
    <2>4. CASE PersistDecision
      <3>1. <<"decision", ckpt.attempt>> \in Files
        BY <1>0, FlowFacts, WritesAreFiles DEF Checkpoint
      <3> QED BY <2>4, <3>1 DEF PersistDecision
    <2> QED BY <2>1, <2>2, <2>3, <2>4, PortableSteps
  <1>2. /\ runtime \subseteq runtime'
        /\ ~Crash => runtime' \ runtime \subseteq Files
    <2>1. CASE UNCHANGED runtime \/ Crash
      BY <2>1 DEF Crash
    <2>2. CASE PersistCorrection
      <3>1. ckpt.report # None => ckpt.report.attempt \in Attempts
        BY <1>0 DEF TypeOK, Checkpoint, Reports
      <3>2. ckpt.report # None => <<"correction_request", ckpt.report.attempt>> \in ModelFiles
        BY <1>0, <3>1, WritesAreFiles DEF Rank
      <3> QED BY <2>2, <3>2 DEF PersistCorrection, Files
    <2>3. CASE PrepareCorrection \/ ClaimEngineer \/ StoreEngineerOutcome \/ RunChecks
               \/ ClaimValidator \/ StoreAssessment
      <3>1. {<<"correction_wiki", This>>, <<"engineer_correction", This>>, <<"engineer", This>>,
             <<"report", This>>, <<"validator", This>>, Lease("engineer", This),
             Lease("validator", This)} \subseteq Files
        BY <1>0, WritesAreFiles DEF Rank, RoleNodes
      <3> QED BY <2>3, <3>1 DEF PrepareCorrection, ClaimEngineer, StoreEngineerOutcome, RunChecks,
                                ClaimValidator, StoreAssessment, StoreRuntime
    <2> QED BY <2>1, <2>2, <2>3, RuntimeSteps
  <1>3. ASSUME pc' # "idle" PROVE Temporary \notin portable' \cup runtime'
    <2>1. CASE pc # "idle"
      <3>1. ~Crash /\ Temporary \notin Stored
        BY <1>3, <2>1 DEF Control, Clean, Crash, Die, Finish
      <3> QED BY <3>1, <2>1, <1>1, <1>2, TemporaryIsNoFile DEF Stored
    <2>2. CASE pc = "idle"
      <3>1. CASE \E n \in Attempts : \E d \in Decisions(n) : Submit(n, d)
        BY <3>1, Submitted DEF durable, Stored
      <3>2. CASE UNCHANGED vars
        BY <3>2, <2>2, <1>3 DEF vars
      <3>3. pc = "idle" /\ Next /\ pc' # "idle" =>
              \E n \in Attempts : \E d \in Decisions(n) : Submit(n, d)
        BY StepIsOfOneKind, ApartMoves, InsideMoves, RaisesMoves
        DEF Apart, Authorize, Freeze, RefuseWrite, PersistFailure, PersistDecision,
            PersistCorrection, BindIntent, PersistApproval, Promote, WriteStatus, WriteProjection,
            WriteIndex, BindAnchor, Conflict, RunningPcs, RolePcs, Invoke, Route, Flush, Return,
            EngineerDone, ValidatorDone, RecordTaskError, Crash, Die
      <3> QED BY <1>3, <2>2, <3>1, <3>2, <3>3
    <2> QED BY <2>1, <2>2
  <1> QED BY <1>1, <1>2, <1>3
-----------------------------------------------------------------------------
(* What the steps may write, and which step writes what.                   *)

(* Which action may change which variable. *)
LEMMA Frames ==
  ASSUME [Next]_vars
  PROVE  /\ UNCHANGED outcome \/ StoreEngineerOutcome
         /\ UNCHANGED verdict \/ RunChecks
         /\ UNCHANGED advice \/ StoreAssessment
         /\ UNCHANGED frozen \/ WriteStatus
         /\ UNCHANGED index \/ WriteIndex
         /\ UNCHANGED anchors \/ BindAnchor
         /\ UNCHANGED intent \/ BindIntent
         /\ UNCHANGED consent \/ PersistApproval
         /\ UNCHANGED dispatched \/ CallEngineer \/ CallValidator
         /\ UNCHANGED ckpt \/ Flush \/ Invoke \/ RecordTaskError
         /\ UNCHANGED queue \/ Flush \/ Invoke \/ Route \/ EngineerDone \/ ValidatorDone \/ Crash
  BY DEF Next, Program, Conclude, Workflow, Engineer, Validator, Authorize, Freeze, Submit,
         SubmitFresh, SubmitInFlight, SubmitRecovery, Enter, BindIntent, BindAnchor, RefuseWrite,
         PersistApproval, Promote, WriteStatus, WriteProjection, WriteIndex, PersistFailure,
         PersistDecision, PersistCorrection, Invoke, Route, Flush, Return, Unwritten, durable, vars,
         EngineerStart, PrepareCorrection, ClaimEngineer, RefuseDuplicateDispatch, CallEngineer,
         StoreEngineerOutcome, EngineerDone, ValidatorStart, RunChecks, Advise, ClaimValidator,
         CallValidator, StoreAssessment, ValidatorDone, RecordTaskError, RoleError, Crash, Die

(* A step writes the file its place in the operation calls for.            *)
LEMMA PortableWrites ==
  ASSUME [Next]_vars
  PROVE  portable' \subseteq portable \cup NextPortable \cup {Temporary}
  <1>1. CASE UNCHANGED portable \/ Crash
    BY <1>1 DEF Crash
  <1>2. CASE PersistApproval \/ WriteStatus \/ WriteProjection \/ WriteIndex \/ PersistFailure
    BY <1>2 DEF PersistApproval, WriteStatus, WriteProjection, WriteIndex, PersistFailure, NextPortable
  <1>3. CASE Promote \/ PersistDecision
    BY <1>3 DEF Promote, PersistDecision, NextPortable
  <1> QED BY <1>1, <1>2, <1>3, PortableSteps

(* and so is the next runtime write. *)
LEMMA RuntimeWrites ==
  ASSUME [Next]_vars
  PROVE  runtime' \subseteq runtime \cup NextRuntime \cup {Temporary}
  <1>1. CASE UNCHANGED runtime \/ Crash
    BY <1>1 DEF Crash
  <1>2. CASE PrepareCorrection \/ ClaimEngineer \/ ClaimValidator
    BY <1>2 DEF PrepareCorrection, ClaimEngineer, ClaimValidator, StoreRuntime, NextRuntime, Lease
  <1>3. CASE StoreEngineerOutcome \/ StoreAssessment \/ RunChecks
    BY <1>3 DEF StoreEngineerOutcome, StoreAssessment, RunChecks, StoreRuntime, NextRuntime
  <1>4. CASE PersistCorrection
    BY <1>4 DEF PersistCorrection, NextRuntime
  <1> QED BY <1>1, <1>2, <1>3, <1>4, RuntimeSteps

(* Which node the operation is at, and what is stored for it.              *)
LEMMA AtNodeStep ==
  ASSUME Control, [Next]_vars
  PROVE  AtNode'
  <1> USE DEF EngineerPcs, ValidatorPcs
  <1>0. AtNode /\ This \in {1, 2}
    BY FlowFacts DEF Control, This, Checkpoint, Attempts
  <1>1. ASSUME NEW n \in Attempts, NEW d \in Decisions(n), Submit(n, d) PROVE AtNode'
    BY <1>1, Submitted DEF AtNode
  <1>2. CASE Apart
    BY <1>2, ApartMoves DEF AtNode, RunningPcs, RolePcs
  <1>3. CASE InsideNode
    <2>1. UNCHANGED <<ckpt, queue>> /\ Current' = Current
      BY <1>3, InsideMoves DEF Current
    <2>2. CASE EngineerStart \/ PrepareCorrection \/ ClaimEngineer \/ StoreEngineerOutcome
               \/ (CallEngineer /\ pc' = "engineer_outcome")
      <3>1. pc \in EngineerPcs /\ pc' \in EngineerPcs
        BY <1>0, <2>2 DEF EngineerStart, PrepareCorrection, ClaimEngineer, StoreEngineerOutcome,
                          CallEngineer, Goto
      <3> QED BY <1>0, <2>1, <3>1 DEF AtNode
    <2>3. CASE ValidatorStart \/ Advise \/ ClaimValidator \/ CallValidator \/ StoreAssessment
               \/ (RunChecks /\ pc' = "advise")
      <3>1. pc \in ValidatorPcs /\ pc' \in ValidatorPcs
        BY <2>3 DEF ValidatorStart, Advise, ClaimValidator, CallValidator, StoreAssessment,
                    RunChecks, Goto
      <3> QED BY <1>0, <2>1, <3>1 DEF AtNode
    <2> QED BY <1>3, <2>2, <2>3 DEF InsideNode
  <1>4. CASE Raises
    BY <1>4, RaisesMoves DEF AtNode
  <1>5. CASE Flush
    BY <1>0, <1>5, FlushKeepsCurrent DEF AtNode, Flush
  <1>6. CASE Invoke \/ Return \/ EngineerDone \/ ValidatorDone \/ RecordTaskError \/ Crash
    BY <1>6 DEF Invoke, Return, EngineerDone, ValidatorDone, RecordTaskError, Crash, Die, Goto,
                Finish, AtNode
  <1>7. CASE Route
    <2>1. CASE pc' = "loop"
      BY <2>1 DEF AtNode
    <2>2. CASE UNCHANGED queue /\ pc' = Current.next /\ Current.next \in RoleNodes
      BY <1>7, <2>2 DEF Route, Unwritten, AtNode, Current, RoleNodes
    <2>3. CASE UNCHANGED queue /\ pc' = "return" /\ Current.next = "end"
      BY <1>7, <2>3 DEF Route, Unwritten, AtNode, Current
    <2> QED BY <1>7, <2>1, <2>2, <2>3 DEF Route, Goto
  <1>8. CASE UNCHANGED vars
    BY <1>0, <1>8 DEF vars, AtNode, Current
  <1> QED BY <1>1, <1>2, <1>3, <1>4, <1>5, <1>6, <1>7, <1>8, StepIsOfOneKind

(* A stored report says a verdict. *)
LEMMA ReportsStep ==
  ASSUME Control, [Next]_vars
  PROVE  ReportsTyped'
  <1>0. /\ ReportsTyped /\ TypeOK /\ This \in Attempts /\ call.kind \in Kinds
    BY FlowFacts DEF Control, CallOK, This, Checkpoint
  <1>1. CASE RunChecks /\ runtime' # runtime
    BY <1>0, <1>1 DEF ReportsTyped, ReportedPcs, RunChecks, StoreRuntime, Stored, TypeOK, This, Current
  <1>2. CASE ~(RunChecks /\ runtime' # runtime)
    <2>1. \A n \in Attempts : <<"report", n>> \in Stored' => <<"report", n>> \in Stored
      <3>1. \A n \in Attempts : <<"report", n>> \in portable' => <<"report", n>> \in Stored
        BY PortableWrites DEF NextPortable, Temporary, Stored
      <3>2. \A n \in Attempts : <<"report", n>> \in runtime' \ runtime => RunChecks
        BY RuntimeSteps
        DEF PersistCorrection, PrepareCorrection, ClaimEngineer, StoreEngineerOutcome,
            ClaimValidator, StoreAssessment, Crash, StoreRuntime, Lease, NextRuntime, Temporary
      <3> QED BY <1>2, <3>1, <3>2 DEF Stored
    <2>2. Stored \subseteq Stored'
      BY StorageGrows DEF Stored
    <2>3. ASSUME NEW n \in Attempts, <<"report", n>> \in Stored' PROVE verdict'[n] \in Verdicts
      <3>1. UNCHANGED verdict \/ (RunChecks /\ <<"report", This>> \in runtime)
        BY <1>2, Frames DEF RunChecks, StoreRuntime
      <3> QED BY <1>0, <2>1, <2>3, <3>1 DEF ReportsTyped, RunChecks, TypeOK, Stored
    <2>4. ASSUME pc' \in ReportedPcs PROVE <<"report", This'>> \in Stored'
      <3>1. CASE InsideNode
        <4>1. UNCHANGED <<ckpt, queue>> /\ This' = This
          BY <3>1, InsideMoves DEF Current, This
        <4>2. CASE ValidatorStart
          BY <2>2, <2>4, <4>1, <4>2 DEF ValidatorStart, Goto, ReportedPcs
        <4>3. CASE RunChecks
          BY <2>2, <2>4, <4>1, <4>3 DEF RunChecks, ReportedPcs, StoreRuntime, Stored
        <4>4. CASE Advise \/ ClaimValidator \/ CallValidator \/ StoreAssessment
          BY <1>0, <2>2, <4>1, <4>4 DEF Advise, ClaimValidator, CallValidator, StoreAssessment,
                                   ReportsTyped, ReportedPcs
        <4>5. CASE EngineerStart \/ PrepareCorrection \/ ClaimEngineer \/ StoreEngineerOutcome
                   \/ CallEngineer
          <5>1. This \in {1, 2}
            BY <1>0 DEF Attempts
          <5> QED BY <2>4, <4>5, <5>1 DEF EngineerStart, PrepareCorrection, ClaimEngineer, StoreEngineerOutcome,
                             CallEngineer, Goto, ReportedPcs
        <4> QED BY <3>1, <4>2, <4>3, <4>4, <4>5 DEF InsideNode
      <3>2. CASE Flush
        BY <1>0, <2>2, <2>4, <3>2, FlushKeepsCurrent DEF Flush, This, ReportsTyped, ReportedPcs
      <3>3. CASE UNCHANGED vars
        BY <1>0, <2>2, <2>4, <3>3 DEF vars, This, Current, ReportsTyped, ReportedPcs
      <3>4. CASE Raises \/ Apart
        BY <2>4, <3>4, RaisesMoves, ApartMoves DEF ReportedPcs, RunningPcs, RolePcs
      <3>5. CASE Invoke \/ Route \/ Return \/ EngineerDone \/ ValidatorDone \/ RecordTaskError \/ Crash
        BY <2>4, <3>5 DEF Invoke, Route, Return, EngineerDone, ValidatorDone, RecordTaskError, Crash,
                          Die, Goto, Finish, ReportedPcs, RoleNodes
      <3>6. ASSUME NEW n \in Attempts, NEW d \in Decisions(n), Submit(n, d) PROVE FALSE
        BY <2>4, <3>6, Submitted DEF ReportedPcs
      <3> QED BY <3>1, <3>2, <3>3, <3>4, <3>5, <3>6, StepIsOfOneKind
    <2> QED BY <2>3, <2>4 DEF ReportsTyped
  <1> QED BY <1>1, <1>2

(* The control invariant is kept. *)
LEMMA ControlStep == ASSUME Control, [Next]_vars PROVE Control'
  <1>1. Flow!CInv'
    BY StepDrives, Flow!StepChained, SameConstants DEF Control
  <1>2. Clean'
    BY StorageGrows DEF Clean, Stored
  <1> QED BY <1>1, <1>2, TypeStep, CallStep, AtNodeStep, ReportsStep DEF Control

(* A planned run satisfies them. *)
LEMMA InitControl == Init => Control
  <1> SUFFICES ASSUME Init PROVE Control
    OBVIOUS
  <1> USE DEF Init
  <1>1. Flow!Sound(PlannedCheckpoint)
    BY Flow!PlannedIsSound, SameConstants, SameGraph DEF Flow!PlannedCheckpoint, Flow!StartedCheckpoint, PlannedCheckpoint, StartedCheckpoint
  <1>2. PlannedCheckpoint \in Checkpoint
    BY <1>1, SameConstants DEF Flow!Sound
  <1>3. PlannedFiles \subseteq Files /\ PlannedFiles \cap ModelFiles = {}
    BY DEF PlannedFiles, FreezeOrder, Files, ModelFiles, Rank, Kinds, Age
  <1>4. TypeOK
    BY <1>2, <1>3 DEF TypeOK, NoCall, Kinds, Age, Attempts, DispatchCap, Pcs
  <1>5. CallOK
    BY DEF CallOK, NoCall, Deciding, Authorizing, FreezePcs, Attempts, Kinds, Age
  <1>6. Clean /\ AtNode
    BY DEF Clean, AtNode, EngineerPcs, ValidatorPcs
  <1>7. ReportsTyped
    BY <1>3 DEF ReportsTyped, ReportedPcs, Stored, PlannedFiles, FreezeOrder
  <1>8. Flow!CInv
    <2>1. Op = "idle"
      BY OpOf DEF RunningPcs, RolePcs
    <2>2. Flow!IInv
      BY <1>1, <1>2, <2>1, SameConstants
      DEF Flow!IInv, Flow!TypeOK, Flow!InvocationHasState, Flow!Known
    <2> QED BY <2>1, <2>2 DEF Flow!CInv, Flow!QuietIsFlushed, Flow!RaisingAtRole, Flow!Chained
  <1> QED BY <1>4, <1>5, <1>6, <1>7, <1>8 DEF Control
-----------------------------------------------------------------------------
(* What is proved of every run: its control invariant ...                  *)

(* The control invariant holds in every reachable state: types, where each *)
(* operation is and what it was called for, and that a tree with a write   *)
(* cut off is never worked in. (agent_run.py, one operation at a time)     *)
THEOREM ControlInvariance == Spec => []Control
  <1>1. Control /\ [Next]_vars => Control'
    BY ControlStep
  <1> QED BY InitControl, <1>1, PTL DEF Spec

(* The files, the frozen records, the checkpoint and the call keep their   *)
(* types, whatever crashes and errors happen.                              *)
THEOREM TypeCorrect == Spec => []TypeOK
  <1>1. Control => TypeOK
    BY DEF Control
  <1> QED BY <1>1, ControlInvariance, PTL

-----------------------------------------------------------------------------
(* ... that it drives the workflow, and what the workflow thereby promises. *)

(* The instance used here is the one of RunLifecycle.                      *)
LEMMA SameVars == Flow!vars = Engine!vars /\ (Flow!vars' = Engine!vars')
  BY DEF Flow!vars, Engine!vars, Op

(* The two instances of the workflow take the same steps. *)
LEMMA SameNext == Flow!Next = Engine!Next
  BY DEF Op, Flow!Next, Engine!Next, Flow!Program, Engine!Program,
     Flow!Start, Engine!Start, Flow!Resume, Engine!Resume,
     Flow!ContinueLocalFailure, Engine!ContinueLocalFailure,
     Flow!RetryRecoverable, Engine!RetryRecoverable, Flow!RoleError, Engine!RoleError,
     Flow!Crash, Engine!Crash, Flow!ArchitectStep, Engine!ArchitectStep,
     Flow!EngineerStep, Engine!EngineerStep, Flow!ValidatorStep, Engine!ValidatorStep,
     Flow!TerminalStep, Engine!TerminalStep, Flow!Stop, Engine!Stop,
     Flow!Flush, Engine!Flush, Flow!Return, Engine!Return, Flow!Raise, Engine!Raise,
     Flow!Running, Engine!Running, Flow!Advance, Engine!Advance,
     Flow!Current, Engine!Current, Flow!Approvals, Engine!Approvals,
     Flow!Corrections, Engine!Corrections, Flow!Selections, Engine!Selections,
     Flow!StartedCheckpoint, Engine!StartedCheckpoint,
     Flow!PlannedCheckpoint, Engine!PlannedCheckpoint,
     Flow!UndecidedCheckpoint, Engine!UndecidedCheckpoint,
     Flow!AfterApproval, Engine!AfterApproval, Flow!AfterChange, Engine!AfterChange,
     Flow!AfterIntervention, Engine!AfterIntervention, Flow!AfterReport, Engine!AfterReport,
     Flow!AfterTerminalNode, Engine!AfterTerminalNode,
     Flow!AfterRetryAuthorized, Engine!AfterRetryAuthorized,
     Flow!TerminalNodes, Engine!TerminalNodes, Flow!RoleNodes, Engine!RoleNodes,
     Flow!EngineerAuthorized, Engine!EngineerAuthorized,
     Flow!ReportMatches, Engine!ReportMatches, Flow!RetryEvidence, Engine!RetryEvidence,
     Flow!RetryOffered, Engine!RetryOffered, Flow!RetryResubmitted, Engine!RetryResubmitted,
     Flow!CorrectionAction, Engine!CorrectionAction, Flow!MaximumAttempts, Engine!MaximumAttempts,
     Flow!Continuable, Engine!Continuable

(* The run controller moves the checkpoint only as MigrationWorkflow       *)
(* allows, crashes and errors included. (agent_run.py driving workflow.py) *)
THEOREM Drives == Spec => DrivesTheWorkflow
  <1>1. Control /\ [Next]_vars => [Engine!Next]_(Engine!vars)
    BY StepDrives, SameVars, SameNext
  <1> QED BY <1>1, ControlInvariance, PTL DEF Spec, DrivesTheWorkflow

(* The durable checkpoint of a run implements the run that GatedRun        *)
(* promises the reviewers: nothing is implemented before a decision, each  *)
(* attempt reports on its own change, a second attempt needs a second      *)
(* decision. (agent_run.py, workflow.py)                                   *)
THEOREM RunIsGated == Spec => Flow!ImplementsGatedRun
  <1>1. Init => Flow!Abstract!Init
    <2> SUFFICES ASSUME Init PROVE Flow!Abstract!Init
      OBVIOUS
    <2>1. /\ ckpt.approval = None /\ ckpt.correction = None /\ ckpt.change = 0
          /\ ckpt.report = None /\ ckpt.intervention = FALSE /\ ckpt # None
      BY InitControl, FlowFacts DEF Init, PlannedCheckpoint, StartedCheckpoint
    <2> QED BY <2>1, Flow!MappedFields, SameConstants DEF Flow!Abstract!Init
  <1>2. Control /\ [Next]_vars => [Flow!Abstract!Next]_(Flow!Abstract!vars)
    <2> SUFFICES ASSUME Control, [Next]_vars PROVE [Flow!Abstract!Next]_(Flow!Abstract!vars)
      OBVIOUS
    <2>1. Flow!CInv /\ Flow!CInv' /\ [Flow!Next]_(Flow!vars)
      BY StepDrives, ControlStep DEF Control
    <2> QED BY <2>1, Flow!StepRefines, SameConstants
  <1> QED BY <1>1, <1>2, ControlInvariance, PTL DEF Spec, Flow!ImplementsGatedRun, Flow!Abstract!Spec
-----------------------------------------------------------------------------
(* Leases: a provider is called only behind a lease nobody held before.    *)

(* A place inside a node is reached from inside that node.                 *)
LEMMA NodeSteps ==
  ASSUME Control, [Next]_vars, pc' \in (EngineerPcs \cup ValidatorPcs) \ RoleNodes
  PROVE  /\ This' = This
         /\ \/ InsideNode
            \/ UNCHANGED <<portable, runtime, dispatched, outcome, verdict, advice, pc, call>>
  <1> USE DEF EngineerPcs, ValidatorPcs, RoleNodes
  <1>1. CASE InsideNode
    BY <1>1, InsideMoves DEF This, Current
  <1>2. CASE Flush
    BY <1>2, FlushKeepsCurrent DEF Flush, This
  <1>3. CASE UNCHANGED vars
    BY <1>3 DEF vars, This, Current
  <1>4. CASE Raises \/ Apart
    BY <1>4, RaisesMoves, ApartMoves DEF RunningPcs, RolePcs
  <1>5. CASE Invoke \/ Route \/ Return \/ EngineerDone \/ ValidatorDone \/ RecordTaskError \/ Crash
    BY <1>5 DEF Invoke, Route, Return, EngineerDone, ValidatorDone, RecordTaskError, Crash, Die,
                Goto, Finish
  <1>6. ASSUME NEW n \in Attempts, NEW d \in Decisions(n), Submit(n, d) PROVE FALSE
    BY <1>6, Submitted
  <1> QED BY <1>1, <1>2, <1>3, <1>4, <1>5, <1>6, StepIsOfOneKind

(* What is promoted comes from the runtime tree.                           *)
LEMMA CopiedStep == ASSUME Control, Copied, [Next]_vars PROVE Copied'
  <1>1. NextPortable \cap ModelFiles \subseteq runtime
    BY DEF NextPortable, ModelFiles, Rank
  <1>2. Temporary \notin ModelFiles
    BY TemporaryIsNoFile DEF Files
  <1> QED BY <1>1, <1>2, PortableWrites, StorageGrows DEF Copied

(* An artifact of a role is stored when it is in the runtime tree. *)
LEMMA StoredIsRuntime ==
  ASSUME Copied, NEW f \in ModelFiles
  PROVE  f \in Stored <=> f \in runtime
  BY DEF Copied, Stored

(* The files of the attempt at hand are artifacts, stored or not.          *)
LEMMA TheseFiles ==
  ASSUME Control, Copied
  PROVE  /\ This \in Attempts /\ This \in {1, 2}
         /\ \A f \in {Lease("engineer", This), Lease("validator", This), <<"engineer", This>>,
                      <<"report", This>>, <<"validator", This>>} :
              f \in ModelFiles /\ (f \in Stored <=> f \in runtime)
  <1>1. This \in Attempts /\ This \in {1, 2} /\ call.kind \in Kinds
    BY FlowFacts DEF Control, CallOK, This, Checkpoint, Attempts
  <1>2. /\ Lease("engineer", This) \in ModelFiles /\ Lease("validator", This) \in ModelFiles
        /\ <<"engineer", This>> \in ModelFiles /\ <<"report", This>> \in ModelFiles
        /\ <<"validator", This>> \in ModelFiles
    BY <1>1, WritesAreFiles DEF Rank, RoleNodes
  <1> QED BY <1>1, <1>2, StoredIsRuntime

(* A call is made behind its lease, and counted for the first time.        *)
LEMMA CallsStep == ASSUME Control, Leases, [Next]_vars PROVE Leased' /\ AtMostOneDispatch'
  <1>0. TypeOK /\ runtime \subseteq runtime' /\ This \in Attempts
    BY StorageGrows, TheseFiles DEF Control, Leases
  <1>1. CASE CallEngineer
    <2>1. Dispatch("engineer") /\ pc = "implement" /\ UNCHANGED <<runtime, portable>>
      BY <1>1 DEF CallEngineer, durable
    <2>2. \A r \in RoleNodes, n \in Attempts :
            dispatched'[r][n] = IF r = "engineer" /\ n = This THEN 1 ELSE dispatched[r][n]
      BY <1>0, <2>1, DispatchCounts DEF TypeOK, Leases, EngineerOnce, DispatchCap, RoleNodes
    <2> QED BY <2>1, <2>2 DEF Leases, Leased, EngineerOnce, AtMostOneDispatch, RoleNodes
  <1>2. CASE CallValidator
    <2>1. Dispatch("validator") /\ pc = "assess" /\ UNCHANGED <<runtime, portable>>
      BY <1>2 DEF CallValidator, durable
    <2>2. \A r \in RoleNodes, n \in Attempts :
            dispatched'[r][n] = IF r = "validator" /\ n = This THEN 1 ELSE dispatched[r][n]
      BY <1>0, <2>1, DispatchCounts DEF TypeOK, Leases, ValidatorOnce, DispatchCap, RoleNodes
    <2>3. <<"report", This>> \in runtime
      BY <2>1, TheseFiles DEF Control, ReportsTyped, ReportedPcs, Leases
    <2> QED BY <2>1, <2>2, <2>3 DEF Leases, Leased, ValidatorOnce, AtMostOneDispatch, RoleNodes
  <1>3. CASE UNCHANGED dispatched
    BY <1>0, <1>3 DEF Leases, Leased, AtMostOneDispatch
  <1> QED BY <1>1, <1>2, <1>3, Frames

(* Only a role that has not answered is on its way to being called.        *)
LEMMA EngineerOnceStep == ASSUME Control, Leases, [Next]_vars PROVE EngineerOnce'
  <1> SUFFICES ASSUME pc' \in EngineerPcs \ {"engineer"} PROVE EngineerOnce'
    BY DEF EngineerOnce, EngineerPcs
  <1>0. This' = This /\ EngineerOnce /\ Leased /\ TypeOK
    BY NodeSteps DEF Leases, RoleNodes, EngineerPcs, Control
  <1> USE TheseFiles DEF Leases
  <1>1. CASE UNCHANGED <<portable, runtime, dispatched, outcome, verdict, advice, pc, call>>
    BY <1>0, <1>1 DEF EngineerOnce
  <1>2. CASE EngineerStart
    BY <1>0, <1>2 DEF EngineerStart, Goto, durable, EngineerOnce, Outcome
  <1>3. CASE PrepareCorrection
    BY <1>0, <1>3 DEF PrepareCorrection, Goto, StoreRuntime, EngineerOnce
  <1>4. CASE ClaimEngineer
    <2>1. dispatched["engineer"][This] \in 0..DispatchCap
      BY <1>0 DEF TypeOK, RoleNodes
    <2>2. dispatched["engineer"][This] = 0
      BY <1>0, <1>4, <2>1 DEF ClaimEngineer, Leased, RoleNodes, DispatchCap
    <2> QED BY <1>0, <1>4, <2>2 DEF ClaimEngineer, Goto, StoreRuntime, EngineerOnce, Lease
  <1>5. CASE CallEngineer /\ pc' = "engineer_outcome"
    BY <1>0, <1>5 DEF CallEngineer, durable, EngineerOnce
  <1>6. CASE StoreEngineerOutcome
    BY <1>0, <1>6 DEF StoreEngineerOutcome, Goto, StoreRuntime, EngineerOnce
  <1>7. CASE ValidatorStart \/ Advise \/ ClaimValidator \/ CallValidator \/ StoreAssessment
             \/ (RunChecks /\ pc' = "advise")
    BY <1>7 DEF ValidatorStart, Advise, ClaimValidator, CallValidator, StoreAssessment,
                RunChecks, Goto, EngineerPcs
  <1> QED BY <1>1, <1>2, <1>3, <1>4, <1>5, <1>6, <1>7, NodeSteps DEF InsideNode, EngineerPcs, RoleNodes

(* The Validator is called behind its lease, once, and only with a report. *)
LEMMA ValidatorOnceStep == ASSUME Control, Leases, [Next]_vars PROVE ValidatorOnce'
  <1> SUFFICES ASSUME pc' \in ValidatorPcs \ {"validator"} PROVE ValidatorOnce'
    BY DEF ValidatorOnce, ValidatorPcs
  <1>0. This' = This /\ ValidatorOnce /\ Leased /\ TypeOK
    BY NodeSteps DEF Leases, RoleNodes, ValidatorPcs, Control
  <1> USE TheseFiles DEF Leases
  <1>1. CASE UNCHANGED <<portable, runtime, dispatched, outcome, verdict, advice, pc, call>>
    BY <1>0, <1>1 DEF ValidatorOnce
  <1>2. CASE ValidatorStart
    BY <1>0, <1>2 DEF ValidatorStart, Goto, durable, ValidatorOnce
  <1>3. CASE RunChecks
    BY <1>0, <1>3 DEF RunChecks, ValidatorOnce, ValidatorPcs
  <1>4. CASE Advise
    BY <1>0, <1>4 DEF Advise, Goto, durable, ValidatorOnce, Outcome
  <1>5. CASE ClaimValidator
    <2>1. dispatched["validator"][This] \in 0..DispatchCap
      BY <1>0 DEF TypeOK, RoleNodes
    <2>2. dispatched["validator"][This] = 0
      BY <1>0, <1>5, <2>1 DEF ClaimValidator, ValidatorOnce, Leased, RoleNodes, DispatchCap
    <2> QED BY <1>0, <1>5, <2>2 DEF ClaimValidator, Goto, StoreRuntime, ValidatorOnce, Lease
  <1>6. CASE CallValidator
    BY <1>0, <1>6 DEF CallValidator, durable, ValidatorOnce
  <1>7. CASE StoreAssessment
    BY <1>7 DEF StoreAssessment, Goto, ValidatorOnce
  <1>8. CASE EngineerStart \/ PrepareCorrection \/ ClaimEngineer \/ StoreEngineerOutcome
             \/ (CallEngineer /\ pc' = "engineer_outcome")
    BY <1>8 DEF EngineerStart, PrepareCorrection, ClaimEngineer, StoreEngineerOutcome,
                CallEngineer, Goto, ValidatorPcs
  <1> QED BY <1>1, <1>2, <1>3, <1>4, <1>5, <1>6, <1>7, <1>8, NodeSteps
          DEF InsideNode, ValidatorPcs, RoleNodes

(* Leases are inductive. *)
LEMMA LeasesStep == ASSUME Control, Leases, [Next]_vars PROVE Leases'
  BY CopiedStep, CallsStep, EngineerOnceStep, ValidatorOnceStep DEF Leases

(* A planned run has called nobody. *)
LEMMA InitLeases == Init => Leases
  BY DEF Init, Leases, Copied, Leased, EngineerOnce, ValidatorOnce, AtMostOneDispatch,
         PlannedFiles, FreezeOrder, ModelFiles, Rank

(* No role's provider is called twice for one attempt, whatever crashes,   *)
(* errors and resubmissions happen. (_claim_role_invocation)               *)
THEOREM CalledOnce == Spec => []AtMostOneDispatch
  <1>1. Init => Control /\ Leases
    BY InitControl, InitLeases
  <1>2. Control /\ Leases /\ [Next]_vars => Control' /\ Leases'
    BY ControlStep, LeasesStep
  <1>3. Leases => AtMostOneDispatch
    BY DEF Leases
  <1> QED BY <1>1, <1>2, <1>3, PTL DEF Spec

-----------------------------------------------------------------------------
(***************************************************************************)
(* Decisions, stages and the evidence that closed attempts leave behind.   *)
(*                                                                         *)
(* The invariant so far (types, control, leases) is strengthened by three  *)
(* layers, each inductive given those before it:                           *)
(*   DecisionInv  a decision is bound, filed and anchored in that order    *)
(*                before a checkpoint consumes it;                         *)
(*   Stage        lifecycles close in order, and between operations the    *)
(*                checkpoint rests where the last one froze it;            *)
(*   Evidenced, Closed, DispatchAuthorized                                 *)
(*                what checkpoints report is stored, and the records of a  *)
(*                closed attempt hold all it wrote.                        *)
(***************************************************************************)

(* Decisions. *)
KnownCheckpoints == {ckpt} \cup {queue[i] : i \in 1..Len(queue)}
Filed ==
  /\ \A n \in Attempts : consent[n] # None => intent[n] = consent[n] /\ <<"approval", n>> \in portable
  /\ \A n \in Attempts : AuthorizedKind(n) \in anchors => consent[n] # None
Bound ==
  /\ pc = "approval" \/ Authorizing \/ pc = "invoke" => intent[call.attempt] = call.decision
  /\ Authorizing \/ pc = "invoke" => consent[call.attempt] = call.decision
  /\ pc = "invoke" => AuthorizedKind(call.attempt) \in anchors
Consumed ==
  \A s \in KnownCheckpoints :
    /\ s.approval # None =>
         s.approval = consent[1] /\ consent[1] # None /\ AuthorizedKind(1) \in anchors
    /\ s.correction # None =>
         s.correction = consent[2] /\ consent[2] # None /\ AuthorizedKind(2) \in anchors
DecisionInv == Filed /\ Bound /\ Consumed

-----------------------------------------------------------------------------
(* Lifecycles follow each other, and the checkpoint rests between them. *)
Offered ==
  /\ "resumed" \in anchors
  /\ RetryOffered(frozen["resumed"])
  /\ <<"correction_request", 1>> \in runtime
Frozen(k) == frozen[k] # None /\ <<"status", k>> \in portable /\ <<"index", k>> \in portable
Chain ==
  /\ \A k \in anchors : Frozen(k)
  /\ "manifest_authorized" \in anchors => frozen["manifest_authorized"].next = "approval_gate"
  /\ "resumed" \in anchors => "manifest_authorized" \in anchors
  /\ "correction_authorized" \in anchors => Offered /\ frozen["correction_authorized"].attempt = 1
  /\ "retried" \in anchors => "correction_authorized" \in anchors
  /\ "failed" \in anchors => pc = "idle" /\ "manifest_authorized" \in anchors
  /\ \A n \in Attempts : SuccessKind(n) \in anchors =>
       frozen[SuccessKind(n)].next = "end" /\ frozen[SuccessKind(n)].attempt = n
Rest ==
  /\ "manifest_authorized" \notin anchors => ckpt = PlannedCheckpoint /\ queue = <<>>
  /\ "resumed" \in anchors /\ "correction_authorized" \notin anchors =>
       ckpt = frozen["resumed"] /\ queue = <<>>
  /\ "retried" \in anchors => ckpt = frozen["retried"] /\ queue = <<>>
  /\ "resumed" \in anchors => \A s \in KnownCheckpoints : s.approval # None
Decides ==
  /\ Deciding /\ call.attempt = 1 => ckpt.next = "approval_gate"
  /\ Deciding /\ call.attempt = 2 => Offered /\ ckpt.next # "approval_gate"
Works ==
  Working =>
    /\ Current.attempt = call.attempt /\ Current.approval # None
    /\ AuthorizedKind(call.attempt) \in anchors
    /\ SuccessKind(call.attempt) \notin anchors
Freezes ==
  /\ pc \in FreezePcs \ {"status"} => <<"status", call.kind>> \in portable /\ frozen[call.kind] = ckpt
  /\ pc = "anchor" => <<"index", call.kind>> \in portable /\ index[call.kind] = Inventory(call.kind)
  /\ pc \in FreezePcs /\ Ending => runtime \subseteq portable
  /\ pc \in {"decision", "correction"} \/ (Ending /\ call.kind # "failed") => ckpt.next = "end"
  /\ pc = "invoke" => frozen[AuthorizedKind(call.attempt)] = ckpt
Reported ==
  \A s \in KnownCheckpoints : s.attempt = 1 /\ s.report # None =>
    s.next = "end" /\ s.change = 1 /\ ReportMatches(s)
Stage == Reported /\ Chain /\ Rest /\ Decides /\ Works /\ Freezes

-----------------------------------------------------------------------------
(* What a closed attempt leaves behind. *)
Evidenced ==
  \A s \in KnownCheckpoints :
    /\ s.report # None =>
         <<"report", s.report.attempt>> \in runtime /\ verdict[s.report.attempt] = s.report.verdict
    /\ s.approval # None /\ s.approval.selection = "approve" /\ s.next # "engineer" =>
         <<"engineer", s.attempt>> \in runtime
Closed ==
  /\ \A n \in Attempts : SuccessKind(n) \in anchors =>
       /\ {f \in runtime : f[2] = n} \subseteq index[SuccessKind(n)]
       /\ dispatched["engineer"][n] > 0 => <<"engineer", n>> \in runtime
       /\ frozen[SuccessKind(n)].status = "completed" =>
            /\ <<"report", n>> \in runtime
            /\ frozen[SuccessKind(n)].report = [attempt |-> n, verdict |-> verdict[n]]
  /\ "failed" \in anchors => runtime \subseteq index["failed"]
-----------------------------------------------------------------------------
(* What is written once stays.                                             *)

(* What a stored artifact, projection or index says never changes. *)
LEMMA ContentsStay ==
  ASSUME Control, Leases, [Next]_vars
  PROVE  /\ \A n \in Attempts : <<"engineer", n>> \in Stored => outcome'[n] = outcome[n]
         /\ \A n \in Attempts : <<"report", n>> \in Stored => verdict'[n] = verdict[n]
         /\ \A n \in Attempts : <<"validator", n>> \in Stored => advice'[n] = advice[n]
         /\ \A k \in Kinds : <<"status", k>> \in portable => frozen'[k] = frozen[k]
         /\ \A k \in Kinds : <<"index", k>> \in portable => index'[k] = index[k]
         /\ \A n \in Attempts : intent[n] # None => intent'[n] = intent[n]
         /\ \A n \in Attempts : consent[n] # None => consent'[n] = consent[n]
  <1>0. TypeOK /\ EngineerOnce /\ ValidatorOnce /\ Copied
    BY DEF Control, Leases
  <1> USE <1>0, Frames, TheseFiles
  <1>1. \A n \in Attempts : <<"engineer", n>> \in Stored => outcome'[n] = outcome[n]
    BY DEF StoreEngineerOutcome, EngineerOnce, TypeOK
  <1>2. \A n \in Attempts : <<"report", n>> \in Stored => verdict'[n] = verdict[n]
    BY DEF RunChecks, ValidatorOnce, TypeOK
  <1>3. \A n \in Attempts : <<"validator", n>> \in Stored => advice'[n] = advice[n]
    BY DEF StoreAssessment, ValidatorOnce, TypeOK
  <1>4. \A k \in Kinds : <<"status", k>> \in portable => frozen'[k] = frozen[k]
    BY DEF WriteStatus, TypeOK
  <1>5. \A k \in Kinds : <<"index", k>> \in portable => index'[k] = index[k]
    BY DEF WriteIndex, TypeOK
  <1>6. \A n \in Attempts : intent[n] # None => intent'[n] = intent[n]
    BY DEF BindIntent, TypeOK
  <1>7. \A n \in Attempts : consent[n] # None => consent'[n] = consent[n]
    BY DEF PersistApproval, TypeOK
  <1> QED BY <1>1, <1>2, <1>3, <1>4, <1>5, <1>6, <1>7

-----------------------------------------------------------------------------
(* Checkpoints, durable or in flight, come from the current one.           *)

(* s is what the step at hand makes of the checkpoint t. *)
Becomes(t, s) ==
  \/ /\ pc = "invoke" /\ call.attempt = 1 /\ t.next = "approval_gate"
     /\ s = AfterApproval(t, call.decision)
  \/ /\ pc = "invoke" /\ call.attempt = 2 /\ RetryOffered(t)
     /\ s = AfterRetryAuthorized(t, call.decision)
  \/ /\ pc = "engineered" /\ t.next = "engineer"
     /\ s = IF outcome[t.attempt] = "change" THEN AfterChange(t) ELSE AfterIntervention(t)
  \/ /\ pc = "validated" /\ t.next = "validator"
     /\ s = AfterReport(t, [attempt |-> t.attempt, verdict |-> verdict[t.attempt]])
  \/ pc = "loop" /\ t.next \in TerminalNodes /\ s = AfterTerminalNode(t)
  \/ pc = "raise" /\ s = [t EXCEPT !.failed = TRUE]

(* Every checkpoint, durable or in flight, is sound. *)
LEMMA KnownIsSound ==
  ASSUME Control, NEW s \in KnownCheckpoints
  PROVE  s \in Checkpoint /\ s # None /\ Flow!Sound(s)
  <1>1. queue \in Seq(Checkpoint) /\ ckpt \in Checkpoint /\ ckpt # None /\ Flow!Sound(ckpt)
    BY FlowFacts
  <1>2. CASE s = ckpt
    BY <1>1, <1>2
  <1>3. ASSUME NEW i \in 1..Len(queue), s = queue[i]
        PROVE  s \in Checkpoint /\ s # None /\ Flow!Sound(s)
    <2>1. s \in Checkpoint
      BY <1>1, <1>3
    <2>2. s \in Flow!Known
      BY <1>3 DEF Flow!Known
    <2> QED BY <2>1, <2>2 DEF Control, Flow!CInv, Flow!IInv
  <1> QED BY <1>2, <1>3 DEF KnownCheckpoints

(* The checkpoint whose node runs is one of them. *)
LEMMA CurrentIsKnown == ASSUME Control PROVE Current \in KnownCheckpoints
  <1>1. queue # <<>> => Len(queue) \in 1..Len(queue)
    BY FlowFacts
  <1> QED BY <1>1 DEF Current, KnownCheckpoints

(* A step adds at most what it makes of the current checkpoint. *)
LEMMA KnownSteps ==
  ASSUME Control, [Next]_vars
  PROVE  \A s \in KnownCheckpoints' : s \in KnownCheckpoints \/ Becomes(Current, s)
  <1>0. /\ queue \in Seq(Checkpoint) /\ call.attempt \in {1, 2}
        /\ pc = "invoke" \/ queue = <<>> => Current = ckpt
    BY FlowFacts, CurrentInFlight DEF Control, CallOK, Attempts, RunningPcs, RolePcs
  <1>1. CASE UNCHANGED <<ckpt, queue>>
    BY <1>1 DEF KnownCheckpoints
  <1>2. CASE Flush
    BY <1>2, FlushKeepsCurrent DEF KnownCheckpoints
  <1>3. CASE Invoke
    <2>1. CASE call.attempt = 1
      <3>1. ckpt' = ckpt /\ queue' = <<AfterApproval(ckpt, call.decision)>> /\ ckpt.next = "approval_gate"
        BY <1>3, <2>1 DEF Invoke
      <3>2. KnownCheckpoints' = {ckpt, AfterApproval(ckpt, call.decision)}
        BY <3>1 DEF KnownCheckpoints
      <3> QED BY <1>0, <1>3, <2>1, <3>1, <3>2 DEF Becomes, Invoke, KnownCheckpoints
    <2>2. CASE call.attempt = 2
      BY <1>0, <1>3, <2>2 DEF Invoke, Becomes, KnownCheckpoints
    <2> QED BY <1>0, <2>1, <2>2
  <1>4. CASE Route \/ EngineerDone \/ ValidatorDone
    <2>1. UNCHANGED queue \/ \E s : queue' = Append(queue, s) /\ Becomes(Current, s)
      BY <1>4 DEF Route, EngineerDone, ValidatorDone, Becomes, This, Control, AtNode, EngineerPcs,
                  ValidatorPcs
    <2>2. ckpt' = ckpt
      BY <1>4 DEF Route, EngineerDone, ValidatorDone, Unwritten
    <2>3. \A s : KnownCheckpoints' \subseteq KnownCheckpoints \cup {s} \/ queue' # Append(queue, s)
      BY <1>0, <2>2 DEF KnownCheckpoints
    <2> QED BY <2>1, <2>2, <2>3 DEF KnownCheckpoints
  <1>5. CASE RecordTaskError
    BY <1>0, <1>5 DEF RecordTaskError, Becomes, KnownCheckpoints
  <1>6. CASE Crash
    BY <1>6 DEF Crash, Die, KnownCheckpoints
  <1> QED BY <1>1, <1>2, <1>3, <1>4, <1>5, <1>6, Frames
(* A step keeps the decisions on the checkpoint, or adds the one presented. *)
LEMMA BecomesKeeps ==
  ASSUME Control, NEW s, Becomes(Current, s)
  PROVE  /\ s.approval = IF pc = "invoke" /\ call.attempt = 1 THEN call.decision ELSE Current.approval
         /\ s.correction = IF pc = "invoke" /\ call.attempt = 2 THEN call.decision ELSE Current.correction
         /\ s.attempt = IF pc = "invoke" /\ call.attempt = 2 THEN 2 ELSE Current.attempt
         /\ s.report = IF pc = "validated"
                       THEN [attempt |-> Current.attempt, verdict |-> verdict[Current.attempt]]
                       ELSE Current.report
  <1>1. Current \in Checkpoint
    BY FlowFacts
  <1>2. CASE pc = "invoke" /\ call.attempt = 1 /\ s = AfterApproval(Current, call.decision)
    BY <1>1, <1>2 DEF AfterApproval, Checkpoint
  <1>3. CASE pc = "invoke" /\ call.attempt = 2 /\ s = AfterRetryAuthorized(Current, call.decision)
    BY <1>1, <1>3 DEF AfterRetryAuthorized, Checkpoint
  <1>4. CASE pc = "engineered" /\ s \in {AfterChange(Current), AfterIntervention(Current)}
    <2>1. CASE s = AfterChange(Current)
      BY <1>1, <1>4, <2>1 DEF AfterChange, Checkpoint
    <2>2. CASE s = AfterIntervention(Current)
      BY <1>1, <1>4, <2>2 DEF AfterIntervention, Checkpoint
    <2> QED BY <1>4, <2>1, <2>2
  <1>5. CASE /\ pc = "validated"
             /\ s = AfterReport(Current, [attempt |-> Current.attempt, verdict |-> verdict[Current.attempt]])
    BY <1>1, <1>5 DEF AfterReport, Checkpoint
  <1>6. CASE pc = "loop" /\ s = AfterTerminalNode(Current)
    BY <1>1, <1>6 DEF AfterTerminalNode, Checkpoint
  <1>7. CASE pc = "raise" /\ s = [Current EXCEPT !.failed = TRUE]
    BY <1>1, <1>7 DEF Checkpoint
  <1> QED BY <1>2, <1>3, <1>4, <1>5, <1>6, <1>7 DEF Becomes

(* A decision is being bound since it was submitted, and nothing else      *)
(* happens meanwhile.                                                      *)
LEMMA DecidingSteps ==
  ASSUME Control, [Next]_vars, Deciding'
  PROVE  /\ UNCHANGED <<ckpt, queue, runtime>> /\ queue = <<>> /\ Current' = Current
         /\ \/ /\ pc = "idle" /\ pc' = "intent"
               /\ \E n \in Attempts : \E d \in Decisions(n) :
                    SubmitFresh(n, d) /\ call'.attempt = n
            \/ /\ Deciding /\ call' = call
               /\ \/ BindIntent \/ PersistApproval \/ WriteStatus \/ WriteProjection \/ WriteIndex
                  \/ BindAnchor \/ UNCHANGED vars
  <1> USE DEF Deciding, Authorizing, FreezePcs
  <1>0. /\ call'.attempt \in Attempts /\ call.attempt \in Attempts /\ CallOK
        /\ AuthorizedKind(call.attempt) \notin {SuccessKind(call.attempt), "failed"}
    BY CallStep, KindsDiffer DEF CallOK, Control
  <1>1. /\ \/ /\ pc = "idle" /\ pc' = "intent"
              /\ \E n \in Attempts : \E d \in Decisions(n) :
                    SubmitFresh(n, d) /\ call'.attempt = n /\ UNCHANGED durable
           \/ /\ Deciding /\ call' = call
              /\ \/ BindIntent \/ PersistApproval \/ WriteStatus \/ WriteProjection \/ WriteIndex
                 \/ BindAnchor \/ UNCHANGED vars
    <2>1. ASSUME NEW n \in Attempts, NEW d \in Decisions(n), Submit(n, d)
          PROVE  /\ pc = "idle" /\ pc' = "intent"
                 /\ SubmitFresh(n, d) /\ call'.attempt = n /\ UNCHANGED durable
      BY <2>1, Submitted DEF Submit, SubmitInFlight, SubmitRecovery, SubmitFresh, Enter
    <2>2. CASE Authorize \/ WriteStatus \/ WriteProjection \/ WriteIndex
      BY <2>2 DEF Authorize, BindIntent, PersistApproval, WriteStatus, WriteProjection, WriteIndex, Goto
    <2>3. CASE BindAnchor
      BY <2>3 DEF BindAnchor, Goto, Finish
    <2>4. CASE Promote
      BY <1>0, <2>4 DEF Promote, Goto, CallOK
    <2>5. CASE RefuseWrite \/ PersistFailure \/ PersistDecision \/ PersistCorrection
      BY <2>5 DEF RefuseWrite, PersistFailure, PersistDecision, PersistCorrection, Finish, Goto
    <2>6. CASE InsideNode \/ Raises
      BY <2>6, InsideMoves, RaisesMoves DEF RunningPcs, RolePcs
    <2>7. CASE Invoke \/ Route \/ Return \/ EngineerDone \/ ValidatorDone \/ RecordTaskError \/ Crash
      BY <2>7 DEF Invoke, Route, Return, EngineerDone, ValidatorDone, RecordTaskError, Crash, Die,
                  Finish, Goto, RoleNodes
    <2>8. CASE Flush
      BY <2>8, FlowFacts DEF Flush, RunningPcs, RolePcs
    <2>9. CASE UNCHANGED vars
      BY <2>9 DEF vars
    <2> QED BY <2>1, <2>2, <2>3, <2>4, <2>5, <2>6, <2>7, <2>8, <2>9, StepIsOfOneKind
            DEF Apart, Authorize, Freeze
  <1>2. UNCHANGED <<ckpt, queue, runtime>>
    <2>1. pc = "idle" /\ pc' = "intent" => UNCHANGED queue
      BY <1>1 DEF SubmitFresh, Enter
    <2> QED BY <1>1, <2>1 DEF durable, vars, BindIntent, PersistApproval, WriteStatus, WriteProjection, WriteIndex,
               BindAnchor
  <1>3. queue = <<>>
    BY <1>1, FlowFacts DEF RunningPcs, RolePcs
  <1> QED BY <1>1, <1>2, <1>3 DEF Current

-----------------------------------------------------------------------------
(* Decisions: bound before they are filed, filed before they are consumed. *)

(* Bound, filed, consumed: the order is inductive. *)
LEMMA DecisionsStep == ASSUME Control, Leases, DecisionInv, [Next]_vars PROVE DecisionInv'
  <1>0. /\ TypeOK /\ CallOK /\ call.attempt \in Attempts /\ portable \subseteq portable'
        /\ anchors \subseteq anchors'
        /\ Filed /\ Bound /\ Consumed
    BY StorageGrows, Frames DEF Control, CallOK, DecisionInv, BindAnchor
  <1>1. Filed'
    <2>1. ASSUME NEW n \in Attempts, consent'[n] # None
          PROVE  intent'[n] = consent'[n] /\ <<"approval", n>> \in portable'
      <3>1. CASE consent[n] # None
        BY <1>0, <2>1, <3>1, ContentsStay DEF Filed
      <3>2. CASE consent[n] = None
        <4>1. PersistApproval
          BY <2>1, <3>2, Frames
        <4> QED BY <1>0, <2>1, <3>2, <4>1 DEF PersistApproval, Bound, TypeOK
      <3> QED BY <3>1, <3>2
    <2>2. ASSUME NEW n \in Attempts, AuthorizedKind(n) \in anchors' PROVE consent'[n] # None
      <3>1. CASE AuthorizedKind(n) \in anchors
        BY <1>0, <3>1, ContentsStay DEF Filed
      <3>2. CASE AuthorizedKind(n) \notin anchors
        <4>1. BindAnchor /\ call.kind = AuthorizedKind(n)
          BY <2>2, <3>2, Frames DEF BindAnchor
        <4>2. call.attempt = n /\ Authorizing
          BY <1>0, <4>1 DEF BindAnchor, CallOK, Authorizing, FreezePcs, AuthorizedKind, SuccessKind, Attempts
        <4>3. call.decision # None
          BY <1>0, <4>2 DEF CallOK, Deciding, Decisions
        <4> QED BY <1>0, <4>1, <4>2, <4>3 DEF BindAnchor, Bound
      <3> QED BY <3>1, <3>2
    <2> QED BY <2>1, <2>2 DEF Filed
  <1>2. Bound'
    <2> SUFFICES ASSUME Deciding' PROVE Bound'
      BY DEF Bound, Deciding
    <2>1. CASE pc' = "intent"
      BY <2>1 DEF Bound, Authorizing, FreezePcs
    <2>2. ASSUME Deciding, call' = call PROVE Bound'
      <3> USE <1>0, <2>2 DEF Bound, Authorizing, FreezePcs, Deciding
      <3>1. call.decision # None /\ call.decision \in Approvals \cup Corrections
        BY DEF CallOK, Decisions
      <3>2. CASE BindIntent
        BY <3>1, <3>2 DEF BindIntent, Goto, TypeOK
      <3>3. CASE PersistApproval
        BY <3>1, <3>3 DEF PersistApproval, Goto, TypeOK
      <3>4. CASE WriteStatus \/ WriteProjection \/ WriteIndex
        BY <3>4 DEF WriteStatus, WriteProjection, WriteIndex, Goto
      <3>5. CASE BindAnchor
        BY <3>5 DEF BindAnchor, Goto, Finish
      <3>6. CASE UNCHANGED vars
        BY <3>6 DEF vars
      <3> QED BY <3>2, <3>3, <3>4, <3>5, <3>6, DecidingSteps
    <2> QED BY <2>1, <2>2, DecidingSteps
  <1>3. Consumed'
    <2> SUFFICES ASSUME NEW s \in KnownCheckpoints'
                 PROVE  /\ s.approval # None => s.approval = consent'[1] /\ consent'[1] # None
                                                /\ AuthorizedKind(1) \in anchors'
                        /\ s.correction # None => s.correction = consent'[2] /\ consent'[2] # None
                                                  /\ AuthorizedKind(2) \in anchors'
      BY DEF Consumed
    <2>1. 1 \in Attempts /\ 2 \in Attempts
      BY DEF Attempts
    <2>2. ASSUME NEW t \in KnownCheckpoints
          PROVE  /\ t.approval # None => t.approval = consent'[1] /\ consent'[1] # None
                                         /\ AuthorizedKind(1) \in anchors'
                 /\ t.correction # None => t.correction = consent'[2] /\ consent'[2] # None
                                           /\ AuthorizedKind(2) \in anchors'
      BY <1>0, <2>1, ContentsStay DEF Consumed
    <2>3. CASE s \in KnownCheckpoints
      BY <2>2, <2>3
    <2>4. CASE Becomes(Current, s)
      <3>1. pc = "invoke" => /\ call.decision # None
                             /\ call.decision = consent'[call.attempt]
                             /\ AuthorizedKind(call.attempt) \in anchors'
        BY <1>0, ContentsStay DEF CallOK, Deciding, Decisions, Bound
      <3> QED BY <2>2, <2>4, <3>1, CurrentIsKnown, BecomesKeeps
    <2> QED BY <2>3, <2>4, KnownSteps
  <1> QED BY <1>1, <1>2, <1>3 DEF DecisionInv
-----------------------------------------------------------------------------
(* An operation decides, then works, and is idle in between.               *)

(* Where an operation decides it has not yet moved the workflow; where it  *)
(* ends it no longer does.                                                 *)
LEMMA WhereIs ==
  ASSUME Control
  PROVE  /\ pc = "idle" \/ Deciding \/ Working
         /\ Working => ~Deciding
         /\ pc = "idle" => ~Deciding /\ ~Working
         /\ ~Working => queue = <<>> /\ Current = ckpt
         /\ pc \in FreezePcs \cup {"failure", "decision", "correction"} => Current = ckpt
         /\ call.attempt \in Attempts
  <1>1. pc \in Pcs /\ call.attempt \in Attempts
    BY DEF Control, TypeOK, CallOK
  <1> USE DEF Deciding, Working, Ending, Authorizing, FreezePcs, RunningPcs, RolePcs
  <1>2. CallOK /\ AuthorizedKind(call.attempt) \notin {SuccessKind(call.attempt), "failed"}
    BY <1>1, KindsDiffer DEF Control
  <1>3. pc = "idle" \/ Deciding \/ Working
    BY <1>1, <1>2 DEF Pcs, CallOK
  <1>4. Working => ~Deciding
    OBVIOUS
  <1>5. /\ ~Working => queue = <<>>
        /\ pc \in FreezePcs \cup {"failure", "decision", "correction"} => queue = <<>>
    BY FlowFacts
  <1> QED BY <1>1, <1>3, <1>4, <1>5, CurrentInFlight

(* An operation at work stays at work, or ends. *)
LEMMA WorkingSteps ==
  ASSUME Control, [Next]_vars, Working'
  PROVE  \/ Invoke
         \/ \E n \in Attempts : \E d \in Decisions(n) :
              /\ SubmitInFlight(n, d) \/ (n = 2 /\ SubmitRecovery(d))
              /\ pc = "idle" /\ call'.attempt = n /\ UNCHANGED <<durable, queue>>
         \/ Working /\ call'.attempt = call.attempt /\ UNCHANGED anchors
  <1> USE DEF Working, Ending, FreezePcs, RunningPcs, RolePcs
  <1>0. /\ CallOK /\ CallOK' /\ call'.attempt \in Attempts /\ call.attempt \in Attempts
        /\ AuthorizedKind(call.attempt) \notin {SuccessKind(call.attempt), "failed"}
    BY CallStep, KindsDiffer DEF CallOK, Control
  <1>1. ASSUME NEW n \in Attempts, NEW d \in Decisions(n), Submit(n, d)
        PROVE  /\ SubmitInFlight(n, d) \/ (n = 2 /\ SubmitRecovery(d))
               /\ pc = "idle" /\ call'.attempt = n /\ UNCHANGED <<durable, queue>>
    BY <1>1, Submitted DEF Submit, SubmitFresh, Enter
  <1>2. CASE Authorize \/ WriteStatus \/ WriteProjection \/ WriteIndex
    BY <1>0, <1>2 DEF Authorize, BindIntent, PersistApproval, WriteStatus, WriteProjection,
                      WriteIndex, Goto, CallOK
  <1>3. CASE BindAnchor
    BY <1>3 DEF BindAnchor, Goto, Finish
  <1>10. CASE Promote
    BY <1>0, <1>10 DEF Promote, Goto, CallOK
  <1>4. CASE RefuseWrite \/ PersistFailure \/ PersistDecision \/ PersistCorrection
    BY <1>0, <1>4 DEF RefuseWrite, PersistFailure, PersistDecision, PersistCorrection, Finish, Goto,
                      CallOK
  <1>5. CASE InsideNode \/ Raises
    <2>1. pc \in RolePcs \cup {"loop", "assess"}
      BY <1>5, InsideMoves, RaisesMoves
    <2>2. UNCHANGED anchors
      BY <2>1, Frames DEF BindAnchor
    <2>3. call'.attempt = call.attempt
      <3>1. CASE \/ EngineerStart \/ PrepareCorrection \/ ClaimEngineer \/ StoreEngineerOutcome
                 \/ ValidatorStart \/ ClaimValidator \/ StoreAssessment
                 \/ RoleError \/ RefuseDuplicateDispatch
        BY <3>1 DEF EngineerStart, PrepareCorrection, ClaimEngineer, StoreEngineerOutcome,
           ValidatorStart, ClaimValidator, StoreAssessment, RoleError, RefuseDuplicateDispatch, Goto
      <3>2. CASE CallEngineer \/ RunChecks
        BY <1>0, <3>2 DEF CallEngineer, RunChecks, CallOK
      <3>3. CASE Advise \/ CallValidator
        BY <1>0, <3>3 DEF Advise, CallValidator, Goto, CallOK
      <3> QED BY <1>5, <3>1, <3>2, <3>3 DEF InsideNode, Raises
    <2> QED BY <2>1, <2>2, <2>3
  <1>6. CASE Route \/ Return \/ EngineerDone \/ ValidatorDone
    BY <1>6 DEF Route, Return, EngineerDone, ValidatorDone, Goto, Unwritten, durable
  <1>7. CASE RecordTaskError \/ Crash
    BY <1>0, <1>7 DEF RecordTaskError, Crash, Die, Finish, CallOK
  <1>8. CASE Flush
    BY <1>8, FlowFacts DEF Flush
  <1>9. CASE UNCHANGED vars
    BY <1>9 DEF vars
  <1> QED BY <1>1, <1>2, <1>3, <1>4, <1>5, <1>6, <1>7, <1>8, <1>9, <1>10, StepIsOfOneKind
          DEF Apart, Authorize, Freeze

(* Only an operation at work, or a decision handed over, moves the workflow. *)
LEMMA QuietSteps ==
  ASSUME Control, [Next]_vars, ~Invoke, ~Working
  PROVE  UNCHANGED <<ckpt, queue>>
  <1> USE DEF Working, Ending, FreezePcs, RunningPcs, RolePcs
  <1>1. queue = <<>>
    BY WhereIs
  <1>2. ~Flush /\ ~RecordTaskError /\ ~Route /\ ~EngineerDone /\ ~ValidatorDone
    BY <1>1 DEF Flush, RecordTaskError, Route, EngineerDone, ValidatorDone
  <1>3. UNCHANGED ckpt /\ (UNCHANGED queue \/ Crash)
    BY <1>2, Frames
  <1> QED BY <1>1, <1>3 DEF Crash, Die
-----------------------------------------------------------------------------
(* Stages: which lifecycles are closed, and where the checkpoint rests.    *)

(* A report of attempt one ends the attempt.                               *)
LEMMA ReportedStep == ASSUME Control, Reported, [Next]_vars PROVE Reported'
  <1> SUFFICES ASSUME NEW s \in KnownCheckpoints', s.attempt = 1, s.report # None
               PROVE  s.next = "end" /\ s.change = 1 /\ ReportMatches(s)
    BY DEF Reported
  <1> DEFINE t == Current
  <1>0. t \in KnownCheckpoints /\ Flow!Sound(t) /\ t \in Checkpoint
    BY CurrentIsKnown, KnownIsSound
  <1>1. CASE s \in KnownCheckpoints
    BY <1>1 DEF Reported
  <1>2. CASE Becomes(t, s)
    <2>1. t.attempt = 1
      BY <1>2, BecomesKeeps
    <2>2. CASE pc = "validated"
      <3>1. s = AfterReport(t, [attempt |-> t.attempt, verdict |-> verdict[t.attempt]]) /\ t.change = 1
        BY <1>0, <1>2, <2>1, <2>2 DEF Becomes, Flow!Sound
      <3> QED BY <1>0, <2>1, <3>1 DEF AfterReport, Checkpoint, ReportMatches
    <2>3. CASE pc # "validated"
      <3>1. t.next = "end" /\ t.change = 1 /\ ReportMatches(t)
        BY <1>0, <1>2, <2>1, <2>3, BecomesKeeps DEF Reported
      <3>2. s = [t EXCEPT !.failed = TRUE]
        BY <1>2, <2>1, <2>3, <3>1, BecomesKeeps DEF Becomes, TerminalNodes
      <3> QED BY <1>0, <3>1, <3>2 DEF Checkpoint, ReportMatches
    <2> QED BY <2>2, <2>3
  <1> QED BY <1>1, <1>2, KnownSteps

(* A retryable report has been frozen with the run resting on it.          *)
LEMMA OfferedStays ==
  ASSUME Control, Leases, Chain, Offered, [Next]_vars
  PROVE  Offered'
  <1>1. "resumed" \in Kinds /\ <<"status", "resumed">> \in portable
    BY DEF Offered, Chain, Frozen, Kinds, Age
  <1>2. frozen'["resumed"] = frozen["resumed"]
    BY <1>1, ContentsStay
  <1> QED BY <1>2, StorageGrows, Frames DEF Offered, BindAnchor

(* The policy offers a retry to attempt one only.                          *)
LEMMA RetryIsFirst ==
  ASSUME NEW r \in Reports, CorrectionAction(r) = "retry"
  PROVE  r.attempt = 1
  <1>1. r.attempt \in {1, 2} /\ r.verdict \in AllVerdicts
    BY DEF Reports, Attempts
  <1>2. /\ r.verdict.disposition \in Dispositions
        /\ r.verdict.structural \in BOOLEAN /\ r.verdict.repairable \in BOOLEAN
    <2>1. CASE r.verdict \in [disposition : Dispositions \ {"ready_for_human_review"},
                             structural : BOOLEAN, repairable : BOOLEAN]
      BY <2>1
    <2>2. CASE r.verdict = [disposition |-> "ready_for_human_review",
                           structural |-> FALSE, repairable |-> FALSE]
      BY <2>2 DEF Dispositions
    <2> QED BY <1>1, <2>1, <2>2 DEF AllVerdicts
  <1>3. CASE r.verdict.structural
    BY <1>2, <1>3 DEF CorrectionAction
  <1>4. CASE ~r.verdict.structural
    BY <1>1, <1>2, <1>4 DEF CorrectionAction, MaximumAttempts, Dispositions
  <1> QED BY <1>2, <1>3, <1>4

(* A correction is submitted only where attempt one offered it.            *)
LEMMA CorrectionIsOffered ==
  ASSUME Control, Leases, Stage, NEW d \in Decisions(2), SubmitFresh(2, d)
  PROVE  Offered /\ ckpt.next # "approval_gate"
  <1>1. /\ Unchanged /\ "failed" \notin anchors
        /\ ckpt.next # "approval_gate" /\ ckpt.report # None
        /\ <<"correction_request", ckpt.report.attempt>> \in Stored
        /\ CorrectionAction(ckpt.report) = "retry"
    BY DEF SubmitFresh, Boundary
  <1>2. ckpt.report \in Reports /\ ckpt \in Checkpoint /\ Flow!Sound(ckpt) /\ ckpt \in KnownCheckpoints
    BY <1>1, FlowFacts DEF Checkpoint, KnownCheckpoints
  <1>3. ckpt.report.attempt = 1
    BY <1>1, <1>2, RetryIsFirst
  <1>4. LatestKind \in anchors /\ anchors \subseteq Kinds /\ \A j \in anchors : Age[j] <= Age[LatestKind]
    BY LatestIsAnchored DEF Control, TypeOK
  <1>5. CASE "correction_authorized" \in anchors \/ "retried" \in anchors
    BY <1>1, <1>5 DEF Stage, Chain
  <1>6. CASE "correction_authorized" \notin anchors /\ "resumed" \in anchors
    <2>1. ckpt = frozen["resumed"] /\ ckpt.next = "end" /\ ckpt.attempt = 1
      BY <1>6 DEF Stage, Rest, Chain, SuccessKind, Attempts
    <2>2. ckpt.change = 1 /\ ReportMatches(ckpt) /\ ckpt.correction = None
      BY <1>1, <1>2, <2>1, SameConstants DEF Stage, Reported, Flow!Sound, Flow!Progress
    <2>3. RetryOffered(ckpt)
      BY <1>1, <1>3, <2>1, <2>2 DEF RetryOffered, RetryEvidence
    <2>4. <<"correction_request", 1>> \in runtime
      <3>1. <<"correction_request", 1>> \in ModelFiles
        BY DEF ModelFiles, Rank, Attempts
      <3> QED BY <1>1, <1>3, <3>1, StoredIsRuntime DEF Leases
    <2> QED BY <1>1, <1>6, <2>1, <2>3, <2>4 DEF Offered
  <1>7. CASE "resumed" \notin anchors /\ "manifest_authorized" \in anchors
             /\ "correction_authorized" \notin anchors /\ "retried" \notin anchors
    <2>1. LatestKind = "manifest_authorized"
      BY <1>1, <1>4, <1>7 DEF Kinds, Age
    <2> QED BY <1>1, <1>7, <2>1 DEF Stage, Chain, Unchanged
  <1>8. CASE "manifest_authorized" \notin anchors
    <2>1. ckpt = PlannedCheckpoint
      BY <1>8 DEF Stage, Rest
    <2> QED BY <1>1, <2>1 DEF PlannedCheckpoint, StartedCheckpoint
  <1> QED BY <1>5, <1>6, <1>7, <1>8

(* What a decision must answer holds until it is handed over.              *)
LEMMA DecidesStep == ASSUME Control, Leases, Stage, [Next]_vars PROVE Decides'
  <1> SUFFICES ASSUME Deciding'
               PROVE  /\ call'.attempt = 1 => ckpt'.next = "approval_gate"
                      /\ call'.attempt = 2 => Offered' /\ ckpt'.next # "approval_gate"
    BY DEF Decides
  <1>1. UNCHANGED ckpt
    BY DecidingSteps
  <1>2. ASSUME NEW n \in Attempts, NEW d \in Decisions(n), SubmitFresh(n, d), call'.attempt = n
        PROVE  /\ n = 1 => ckpt.next = "approval_gate"
               /\ n = 2 => Offered' /\ ckpt.next # "approval_gate"
    <2>1. CASE n = 1
      BY <1>2, <2>1 DEF SubmitFresh, Boundary
    <2>2. CASE n = 2
      BY <1>2, <2>2, CorrectionIsOffered, OfferedStays DEF Stage
    <2> QED BY <2>1, <2>2
  <1>3. CASE Deciding /\ call' = call
    BY <1>1, <1>3, OfferedStays DEF Stage, Decides
  <1> QED BY <1>1, <1>2, <1>3, DecidingSteps
(* The current checkpoint stays, or is what the step makes of it.          *)
LEMMA CurrentSteps ==
  ASSUME Control, [Next]_vars, pc # "invoke", ~Crash
  PROVE  Current' = Current \/ Becomes(Current, Current')
  <1>0. queue \in Seq(Checkpoint)
    BY FlowFacts
  <1>1. CASE UNCHANGED <<ckpt, queue>>
    BY <1>1 DEF Current
  <1>2. CASE Flush
    BY <1>2, FlushKeepsCurrent
  <1>3. CASE Route \/ EngineerDone \/ ValidatorDone
    <2>1. UNCHANGED queue \/ \E s : queue' = Append(queue, s) /\ Becomes(Current, s)
      BY <1>3 DEF Route, EngineerDone, ValidatorDone, Becomes, This, Control, AtNode, EngineerPcs,
                  ValidatorPcs
    <2>2. ckpt' = ckpt
      BY <1>3 DEF Route, EngineerDone, ValidatorDone, Unwritten
    <2>3. ASSUME NEW s, queue' = Append(queue, s) PROVE Current' = s
      <3>1. Len(queue') = Len(queue) + 1 /\ queue'[Len(queue) + 1] = s /\ queue' # <<>>
        BY <1>0, <2>3
      <3> QED BY <3>1 DEF Current
    <2> QED BY <2>1, <2>2, <2>3 DEF Current
  <1>4. CASE RecordTaskError
    BY <1>4 DEF RecordTaskError, Becomes, Current
  <1> QED BY <1>1, <1>2, <1>3, <1>4, Frames DEF Invoke

(* Work is done for the attempt that was authorized and is not closed.     *)
LEMMA WorksStep == ASSUME Control, Leases, DecisionInv, Stage, [Next]_vars PROVE Works'
  <1> SUFFICES ASSUME Working'
               PROVE  /\ Current'.attempt = call'.attempt /\ Current'.approval # None
                      /\ AuthorizedKind(call'.attempt) \in anchors'
                      /\ SuccessKind(call'.attempt) \notin anchors'
    BY DEF Works
  <1>0. /\ ckpt \in Checkpoint /\ Flow!Sound(ckpt) /\ call.attempt \in {1, 2}
        /\ anchors \subseteq Kinds /\ LatestKind \in anchors
        /\ \A j \in anchors : Age[j] <= Age[LatestKind]
    BY FlowFacts, LatestIsAnchored, WhereIs DEF Control, TypeOK, Attempts
  <1>1. CASE Invoke
    <2>1. /\ pc = "invoke" /\ UNCHANGED <<call, anchors>> /\ call.decision # None
          /\ AuthorizedKind(call.attempt) \in anchors
      BY <1>1 DEF Invoke, Goto, DecisionInv, Bound, Control, CallOK, Deciding, Decisions
    <2>2. CASE call.attempt = 1
      <3>1. /\ ckpt.next = "approval_gate"
            /\ Current' = AfterApproval(ckpt, call.decision)
        <4>1. ckpt.next = "approval_gate" /\ queue' = <<AfterApproval(ckpt, call.decision)>>
          BY <1>1, <2>2 DEF Invoke
        <4>2. queue' # <<>> /\ Len(queue') = 1 /\ queue'[1] = AfterApproval(ckpt, call.decision)
          BY <4>1
        <4> QED BY <4>1, <4>2 DEF Current
      <3>2. ckpt.attempt = 1 /\ ckpt.approval = None
        BY <1>0, <3>1 DEF Flow!Sound, Flow!FreshPlan
      <3>3. "resumed" \notin anchors
        BY <3>2 DEF Stage, Rest, KnownCheckpoints
      <3> QED BY <1>0, <2>1, <2>2, <3>1, <3>2, <3>3 DEF AfterApproval, Checkpoint, SuccessKind
    <2>3. CASE call.attempt = 2
      <3>1. RetryOffered(ckpt) /\ Current' = AfterRetryAuthorized(ckpt, call.decision)
        BY <1>1, <2>3, WhereIs, FlowFacts DEF Invoke, Current, RunningPcs, RolePcs
      <3>2. ckpt.approval # None
        BY <1>0, <3>1 DEF Flow!Sound, Flow!Approved, RetryOffered, RetryEvidence
      <3>3. "retried" \notin anchors
        BY <1>0, <3>1 DEF Stage, Rest, Chain, SuccessKind, Attempts, Flow!Sound, RetryOffered
      <3> QED BY <1>0, <2>1, <2>3, <3>1, <3>2, <3>3 DEF AfterRetryAuthorized, Checkpoint, SuccessKind
    <2> QED BY <1>0, <2>2, <2>3
  <1>2. ASSUME NEW n \in Attempts, NEW d \in Decisions(n),
               SubmitInFlight(n, d) \/ (n = 2 /\ SubmitRecovery(d)),
               pc = "idle", call'.attempt = n, UNCHANGED <<durable, queue>>
        PROVE  /\ Current'.attempt = call'.attempt /\ Current'.approval # None
               /\ AuthorizedKind(call'.attempt) \in anchors'
               /\ SuccessKind(call'.attempt) \notin anchors'
    <2>1. LatestKind = AuthorizedKind(n) /\ ckpt.attempt = n
          /\ (ckpt.next \in RoleNodes \/ InFlightProjection(n, FALSE))
      BY <1>2 DEF SubmitInFlight, SubmitRecovery, ControllerFailure, InFlightVerified,
                  InFlightProjection, AuthorizedKind, RoleNodes
    <2>2. Current' = ckpt /\ anchors' = anchors
      BY <1>2, WhereIs DEF durable, Current
    <2>3. ckpt.approval # None
      <3>1. CASE ckpt.next \in RoleNodes
        BY <1>0, <3>1, SameConstants DEF Flow!Sound, Flow!Approved
      <3>2. CASE ckpt.next \notin RoleNodes
        <4>1. ckpt.intervention \/ ReportMatches(ckpt)
          BY <2>1, <3>2 DEF InFlightProjection, TerminalVerified
        <4>2. ReportMatches(ckpt) => ckpt.change # 0
          BY <1>0 DEF ReportMatches, Checkpoint, Reports, Attempts
        <4> QED BY <1>0, <4>1, <4>2 DEF Flow!Sound, Flow!Approved
      <3> QED BY <3>1, <3>2
    <2>4. Age[SuccessKind(n)] > Age[AuthorizedKind(n)] /\ AuthorizedKind(n) \in Kinds
      BY DEF Age, SuccessKind, AuthorizedKind, Kinds
    <2>5. SuccessKind(n) \notin anchors
      BY <1>0, <2>1, <2>4 DEF Age, SuccessKind, AuthorizedKind
    <2> QED BY <1>0, <1>2, <2>1, <2>2, <2>3, <2>5
  <1>3. CASE Working /\ call'.attempt = call.attempt /\ UNCHANGED anchors
    <2>1. /\ Current.attempt = call.attempt /\ Current.approval # None
          /\ AuthorizedKind(call.attempt) \in anchors
          /\ SuccessKind(call.attempt) \notin anchors
      BY <1>3 DEF Stage, Works
    <2>2. Current'.attempt = Current.attempt /\ Current'.approval # None
      <3>1. pc # "invoke"
        BY <1>3, WhereIs DEF Deciding
      <3>2. Current' = Current \/ Becomes(Current, Current')
        BY <3>1, CurrentSteps DEF Crash, Die, Finish, Working, Ending, FreezePcs, RunningPcs, RolePcs
      <3> QED BY <2>1, <3>1, <3>2, BecomesKeeps
    <2> QED BY <1>3, <2>1, <2>2
  <1> QED BY <1>1, <1>2, <1>3, WorkingSteps
(* A freeze records the checkpoint the operation ended on.                 *)
LEMMA FreezesStep == ASSUME Control, Leases, Stage, [Next]_vars PROVE Freezes'
  <1> USE DEF FreezePcs, Ending
  <1>0. /\ TypeOK /\ TypeOK' /\ CallOK /\ Freezes /\ call.attempt \in Attempts /\ call.kind \in Kinds
        /\ AuthorizedKind(call.attempt) \notin {SuccessKind(call.attempt), "failed"}
        /\ portable \subseteq portable'
    BY WhereIs, KindsDiffer, TypeStep, StorageGrows DEF Control, CallOK, Stage
  <1>1. ASSUME NEW n \in Attempts, NEW d \in Decisions(n), Submit(n, d) PROVE Freezes'
    <2>1. /\ pc' \in {"intent", "decision", "loop"} /\ UNCHANGED durable
          /\ call'.kind = AuthorizedKind(call'.attempt)
      BY <1>1, Submitted
    <2>2. pc' = "decision" => ckpt.next = "end"
      BY <1>1 DEF Submit, SubmitFresh, SubmitInFlight, SubmitRecovery, Enter
    <2> QED BY <2>1, <2>2 DEF Freezes, durable
  <1>2. CASE BindIntent \/ PersistApproval
    BY <1>0, <1>2 DEF BindIntent, PersistApproval, Goto, CallOK, Freezes
  <1>3. CASE Promote
    BY <1>0, <1>3 DEF Promote, Goto, CallOK, Freezes
  <1>4. CASE WriteStatus
    BY <1>0, <1>4 DEF WriteStatus, Goto, Freezes, TypeOK
  <1>5. CASE WriteProjection
    BY <1>0, <1>5 DEF WriteProjection, Goto, Freezes
  <1>6. CASE WriteIndex
    <2>1. Inventory(call.kind)' = Inventory(call.kind) /\ index'[call.kind] = Inventory(call.kind)
      BY <1>0, <1>6 DEF WriteIndex, Inventory, Goto, TypeOK
    <2> QED BY <1>0, <1>6, <2>1 DEF WriteIndex, Goto, Freezes
  <1>7. CASE BindAnchor
    BY <1>0, <1>7 DEF BindAnchor, Goto, Finish, Freezes
  <1>8. CASE RefuseWrite \/ RecordTaskError \/ Crash
    BY <1>8 DEF RefuseWrite, RecordTaskError, Crash, Die, Finish, Freezes
  <1>9. CASE PersistFailure
    BY <1>0, <1>9 DEF PersistFailure, Goto, CallOK, Freezes
  <1>10. CASE PersistDecision \/ PersistCorrection
    BY <1>0, <1>10 DEF PersistDecision, PersistCorrection, Goto, CallOK, Freezes
  <1>11. CASE InsideNode \/ Raises
    BY <1>11, InsideMoves, RaisesMoves DEF RunningPcs, RolePcs, Freezes
  <1>12. CASE Invoke \/ Route \/ EngineerDone \/ ValidatorDone
    BY <1>12 DEF Invoke, Route, EngineerDone, ValidatorDone, Goto, RoleNodes, Freezes
  <1>13. CASE Return
    BY <1>13, CurrentInFlight DEF Return, Goto, Freezes, Control, AtNode, durable
  <1>14. CASE Flush
    BY <1>14, FlowFacts DEF Flush, RunningPcs, RolePcs, Freezes
  <1>15. CASE UNCHANGED vars
    <2>1. Inventory(call.kind)' = Inventory(call.kind)
      BY <1>15 DEF vars, Inventory
    <2> QED BY <1>0, <1>15, <2>1 DEF vars, Freezes
  <1> QED BY <1>1, <1>2, <1>3, <1>4, <1>5, <1>6, <1>7, <1>8, <1>9, <1>10, <1>11, <1>12, <1>13,
             <1>14, <1>15, StepIsOfOneKind DEF Apart, Authorize, Freeze

(* What a lifecycle records when it is anchored.                           *)
LEMMA NewAnchor ==
  ASSUME Control, Stage, BindAnchor
  PROVE  /\ anchors' = anchors \cup {call.kind} /\ UNCHANGED <<ckpt, queue, frozen, portable, runtime, index>>
         /\ call.kind \in {AuthorizedKind(call.attempt), SuccessKind(call.attempt), "failed"}
         /\ Frozen(call.kind) /\ frozen[call.kind] = ckpt /\ queue = <<>>
         /\ call.kind = AuthorizedKind(call.attempt) => Deciding
         /\ call.kind # AuthorizedKind(call.attempt) => Working /\ pc' = "idle"
         /\ call.kind = SuccessKind(call.attempt) => ckpt.next = "end" /\ ckpt.attempt = call.attempt
  <1>1. /\ pc = "anchor" /\ Current = ckpt /\ queue = <<>> /\ ckpt # None /\ CallOK /\ call.attempt \in Attempts
        /\ call.kind \in {AuthorizedKind(call.attempt), SuccessKind(call.attempt), "failed"}
        /\ AuthorizedKind(call.attempt) \notin {SuccessKind(call.attempt), "failed"}
        /\ SuccessKind(call.attempt) # "failed"
    BY WhereIs, FlowFacts, KindsDiffer
    DEF BindAnchor, FreezePcs, Control, CallOK, RunningPcs, RolePcs
  <1>2. /\ call.kind = AuthorizedKind(call.attempt) => Deciding
        /\ call.kind # AuthorizedKind(call.attempt) => Working /\ Ending /\ pc' = "idle"
    BY <1>1 DEF Deciding, Authorizing, Working, Ending, FreezePcs, BindAnchor, Finish
  <1>3. Frozen(call.kind) /\ frozen[call.kind] = ckpt
    BY <1>1 DEF Stage, Freezes, FreezePcs, Frozen
  <1>4. call.kind = SuccessKind(call.attempt) => ckpt.next = "end" /\ ckpt.attempt = call.attempt
    BY <1>1, <1>2 DEF Stage, Freezes, FreezePcs, Works
  <1> QED BY <1>1, <1>2, <1>3, <1>4 DEF BindAnchor

(* A closed lifecycle is reached in order, and keeps what it froze.        *)
LEMMA ChainStep == ASSUME Control, Leases, DecisionInv, Stage, [Next]_vars PROVE Chain'
  <1>0. /\ Chain /\ Rest /\ anchors \subseteq Kinds /\ call.attempt \in {1, 2}
        /\ "planned" \in Kinds /\ portable \subseteq portable'
    BY WhereIs, StorageGrows DEF Control, TypeOK, Stage, Attempts, Kinds, Age
  <1>1. \A k \in anchors : Frozen(k)' /\ frozen'[k] = frozen[k]
    <2>1. ASSUME NEW k \in anchors PROVE Frozen(k)' /\ frozen'[k] = frozen[k]
      <3>1. Frozen(k) /\ k \in Kinds
        BY <1>0 DEF Chain
      <3>2. frozen'[k] = frozen[k]
        BY <3>1, ContentsStay DEF Frozen
      <3> QED BY <1>0, <3>1, <3>2 DEF Frozen
    <2> QED BY <2>1
  <1>2. Offered => Offered'
    BY OfferedStays DEF Stage
  <1>3. CASE UNCHANGED anchors
    <2>1. "failed" \in anchors => pc' = "idle"
      <3>1. ASSUME NEW n \in Attempts, NEW d \in Decisions(n), Submit(n, d), "failed" \in anchors PROVE FALSE
        BY <3>1, Submitted
      <3>2. ASSUME "failed" \in anchors, Next PROVE Crash
        <4>1. pc = "idle" /\ queue = <<>>
          BY <1>0, <3>2, WhereIs DEF Chain
        <4>2. ~Apart /\ ~InsideNode /\ ~Raises
          BY <4>1, InsideMoves, RaisesMoves
          DEF RunningPcs, RolePcs, Apart, Authorize, Freeze, RefuseWrite, PersistFailure, PersistDecision, PersistCorrection,
              BindIntent, PersistApproval, Promote, WriteStatus, WriteProjection, WriteIndex,
              BindAnchor, Conflict
        <4> QED BY <3>1, <3>2, <4>1, <4>2, StepIsOfOneKind
                DEF Invoke, Route, Flush, Return, EngineerDone, ValidatorDone, RecordTaskError
      <3>3. UNCHANGED vars => pc' = pc
        BY DEF vars
      <3> QED BY <1>0, <3>2, <3>3 DEF Chain, Crash, Die, Finish
    <2> QED BY <1>0, <1>1, <1>2, <1>3, <2>1 DEF Chain, Attempts, SuccessKind
  <1>4. CASE BindAnchor
    <2>1. /\ anchors' = anchors \cup {call.kind}
          /\ call.kind \in {AuthorizedKind(call.attempt), SuccessKind(call.attempt), "failed"}
          /\ frozen[call.kind] = ckpt /\ UNCHANGED <<frozen, portable, runtime>>
          /\ \A k \in anchors' : Frozen(k)'
      BY <1>1, <1>4, NewAnchor DEF Frozen
    <2>2. CASE call.kind = AuthorizedKind(call.attempt)
      <3>0. "failed" \notin anchors /\ Deciding
        BY <1>0, <1>4, <2>2, NewAnchor DEF Chain, BindAnchor
      <3>1. CASE call.attempt = 1
        <4>1. ckpt.next = "approval_gate" /\ anchors' = anchors \cup {"manifest_authorized"}
          BY <2>1, <2>2, <3>0, <3>1 DEF Stage, Decides, AuthorizedKind
        <4> QED BY <1>0, <1>1, <1>2, <2>1, <2>2, <3>0, <3>1, <4>1 DEF Chain, AuthorizedKind, Attempts, SuccessKind
      <3>2. CASE call.attempt = 2
        <4>1. Offered' /\ anchors' = anchors \cup {"correction_authorized"}
          BY <1>2, <2>1, <2>2, <3>0, <3>2 DEF Stage, Decides, AuthorizedKind
        <4>2. frozen'["correction_authorized"].attempt = 1
          <5>1. CASE "correction_authorized" \in anchors
            BY <1>0, <2>1, <5>1 DEF Chain
          <5>2. CASE "correction_authorized" \notin anchors
            <6>1. ckpt = frozen["resumed"] /\ "resumed" \in anchors
              BY <1>0, <3>0, <3>2, <5>2 DEF Stage, Decides, Offered, Rest
            <6>2. ckpt.attempt = 1
              BY <1>0, <6>1 DEF Chain, SuccessKind, Attempts
            <6> QED BY <2>1, <2>2, <3>2, <6>2 DEF AuthorizedKind
          <5> QED BY <5>1, <5>2
        <4> QED BY <1>0, <1>1, <1>2, <2>1, <2>2, <3>0, <3>2, <4>1, <4>2
                DEF Chain, AuthorizedKind, Attempts, SuccessKind, Offered
      <3> QED BY <1>0, <3>1, <3>2
    <2>3. CASE call.kind # AuthorizedKind(call.attempt)
      <3>1. Working /\ pc' = "idle" /\ AuthorizedKind(call.attempt) \in anchors
        BY <1>4, <2>3, NewAnchor DEF Stage, Works
      <3>2. "manifest_authorized" \in anchors /\ "failed" \notin anchors
        BY <1>0, <3>1, WhereIs DEF Chain, AuthorizedKind, Offered
      <3>3. CASE call.kind = "failed"
        BY <1>0, <1>1, <1>2, <2>1, <3>1, <3>2, <3>3 DEF Chain, Attempts, SuccessKind
      <3>4. CASE call.kind = SuccessKind(call.attempt)
        <4>1. ckpt.next = "end" /\ ckpt.attempt = call.attempt
          BY <1>4, <3>4, NewAnchor
        <4> QED BY <1>0, <1>1, <1>2, <2>1, <3>1, <3>2, <3>4, <4>1 DEF Chain, Attempts, SuccessKind, AuthorizedKind
      <3> QED BY <2>1, <2>3, <3>3, <3>4
    <2> QED BY <2>2, <2>3
  <1> QED BY <1>3, <1>4, Frames
(* Between closed lifecycles the checkpoint rests where it was frozen.     *)
LEMMA RestStep == ASSUME Control, Leases, DecisionInv, Stage, [Next]_vars PROVE Rest'
  <1>0. /\ Chain /\ Rest /\ anchors \subseteq anchors' /\ call.attempt \in {1, 2}
        /\ ckpt \in KnownCheckpoints /\ Flow!Sound(ckpt)
    BY WhereIs, Frames, FlowFacts DEF Stage, Attempts, BindAnchor, KnownCheckpoints
  <1>1. \A k \in anchors : frozen'[k] = frozen[k]
    BY <1>0, ContentsStay DEF Chain, Frozen, Control, TypeOK
  <1>2. "resumed" \in anchors' => \A s \in KnownCheckpoints' : s.approval # None
    <2>1. CASE "resumed" \in anchors
      <3>1. pc = "invoke" => call.decision # None
        BY DEF Control, CallOK, Deciding, Decisions
      <3>2. \A s : Becomes(Current, s) => s.approval # None
        BY <1>0, <2>1, <3>1, CurrentIsKnown, BecomesKeeps DEF Rest
      <3> QED BY <1>0, <2>1, <3>2, KnownSteps DEF Rest
    <2>2. CASE "resumed" \notin anchors /\ "resumed" \in anchors'
      <3>1. BindAnchor /\ call.kind = "resumed"
        BY <2>2, Frames DEF BindAnchor
      <3>2. Working /\ queue = <<>> /\ UNCHANGED <<ckpt, queue>> /\ Current = ckpt
        BY <1>0, <3>1, NewAnchor, CurrentInFlight DEF AuthorizedKind
      <3> QED BY <3>2 DEF Stage, Works, KnownCheckpoints
    <2> QED BY <2>1, <2>2
  (* The workflow moves only for an attempt that is authorized and open. *)
  <1>3. ASSUME ~ (UNCHANGED <<ckpt, queue>>)
        PROVE  /\ "manifest_authorized" \in anchors
               /\ "retried" \notin anchors
               /\ "resumed" \in anchors => "correction_authorized" \in anchors
    <2>1. CASE Invoke
      <3>1. AuthorizedKind(call.attempt) \in anchors /\ ((Deciding /\ Offered) \/ call.attempt = 1)
        BY <1>0, <2>1 DEF DecisionInv, Bound, Invoke, Deciding, Stage, Decides
      <3>2. CASE call.attempt = 1
        <4>1. ckpt.next = "approval_gate" /\ "manifest_authorized" \in anchors
          BY <2>1, <3>2 DEF Invoke, DecisionInv, Bound, AuthorizedKind
        <4>2. ckpt.approval = None
          BY <1>0, <4>1 DEF Flow!Sound, Flow!FreshPlan
        <4>3. "resumed" \notin anchors
          BY <1>0, <4>2 DEF Rest
        <4> QED BY <1>0, <4>1, <4>3 DEF Chain, Offered
      <3>3. CASE call.attempt = 2
        <4>1. "correction_authorized" \in anchors /\ RetryOffered(ckpt)
          BY <2>1, <3>3 DEF Invoke, DecisionInv, Bound, AuthorizedKind
        <4>2. "retried" \notin anchors
          BY <1>0, <4>1 DEF Rest, Chain, SuccessKind, Attempts, Flow!Sound, RetryOffered
        <4> QED BY <1>0, <4>1, <4>2 DEF Chain, Offered
      <3> QED BY <1>0, <3>2, <3>3
    <2>2. CASE Working
      BY <1>0, <2>2 DEF Stage, Works, Chain, Offered, AuthorizedKind, SuccessKind
    <2> QED BY <1>3, <2>1, <2>2, QuietSteps
  <1>4. CASE UNCHANGED anchors
    BY <1>0, <1>1, <1>2, <1>3, <1>4 DEF Rest
  <1>5. CASE BindAnchor
    <2>1. /\ anchors' = anchors \cup {call.kind} /\ UNCHANGED <<ckpt, queue, frozen>>
          /\ frozen[call.kind] = ckpt /\ queue = <<>>
      BY <1>5, NewAnchor
    <2> QED BY <1>0, <1>2, <2>1 DEF Rest
  <1> QED BY <1>4, <1>5, Frames

(* Stages are inductive. *)
LEMMA StageStep == ASSUME Control, Leases, DecisionInv, Stage, [Next]_vars PROVE Stage'
  BY ReportedStep, ChainStep, RestStep, DecidesStep, WorksStep, FreezesStep DEF Stage

(* A planned run has bound no decision and closed nothing. *)
LEMMA InitStage == Init => DecisionInv /\ Stage
  <1> SUFFICES ASSUME Init PROVE DecisionInv /\ Stage
    OBVIOUS
  <1> USE DEF Init
  <1>1. /\ KnownCheckpoints = {PlannedCheckpoint} /\ ~Deciding /\ ~Working /\ pc = "idle"
        /\ PlannedCheckpoint \in Checkpoint
    BY InitControl, KnownIsSound
    DEF KnownCheckpoints, Deciding, Working, Ending, Authorizing, FreezePcs, RunningPcs, RolePcs
  <1>2. /\ PlannedCheckpoint.approval = None /\ PlannedCheckpoint.correction = None
        /\ PlannedCheckpoint.report = None
    BY DEF PlannedCheckpoint, StartedCheckpoint
  <1>3. \A n \in Attempts : AuthorizedKind(n) \notin anchors /\ SuccessKind(n) \notin anchors
    BY KindsDiffer
  <1>4. DecisionInv
    BY <1>1, <1>2, <1>3 DEF DecisionInv, Filed, Bound, Consumed, Deciding
  <1>5. Frozen("planned")
    BY <1>1 DEF Frozen, PlannedFiles, FreezeOrder, Kinds, Age
  <1>6. Reported /\ Chain /\ Rest
    BY <1>1, <1>2, <1>3, <1>5 DEF Reported, Chain, Rest
  <1>7. Decides /\ Works /\ Freezes
    BY <1>1 DEF Decides, Works, Freezes, FreezePcs, Ending
  <1> QED BY <1>4, <1>6, <1>7 DEF Stage
-----------------------------------------------------------------------------
(* What is promised of every run.                                          *)

(* The inductive invariant, but for what closed attempts leave behind.     *)
RunInv == Control /\ Leases /\ DecisionInv /\ Stage

(* In every reachable state leases come before calls, decisions are bound  *)
(* before they are consumed, and closed lifecycles follow each other.      *)
(* (agent_run.py, agent_run_lifecycle.py)                                  *)
THEOREM RunInvariance == Spec => []RunInv
  <1>1. Init => RunInv
    BY InitControl, InitLeases, InitStage DEF RunInv
  <1>2. RunInv /\ [Next]_vars => RunInv'
    BY ControlStep, LeasesStep, DecisionsStep, StageStep DEF RunInv
  <1> QED BY <1>1, <1>2, PTL DEF Spec

(* The decision the workflow consumed, in every checkpoint durable or in   *)
(* flight, is the one whose intent was anchored and which was filed.       *)
(* (_bind_authorization_intent, MigrationWorkflow.resume)                  *)
THEOREM ConsumedIsAnchored == Spec => []ConsumedDecisionIsAnchored
  <1>1. RunInv => ConsumedDecisionIsAnchored
    BY DEF RunInv, DecisionInv, Filed, Consumed, KnownCheckpoints, Attempts,
           ConsumedDecisionIsAnchored
  <1> QED BY <1>1, RunInvariance, PTL

(* A provider is called only when the exact decision of its attempt was    *)
(* anchored and filed.  This survives every step: decisions are final.     *)
LEMMA DispatchStep ==
  ASSUME RunInv, DispatchAuthorized, [Next]_vars
  PROVE  DispatchAuthorized'
  <1>0. /\ Control /\ Leases /\ TypeOK /\ Filed /\ Consumed /\ Chain
        /\ anchors \subseteq anchors' /\ This \in Attempts /\ This \in {1, 2}
    <2>1. Control /\ Leases /\ TypeOK /\ Filed /\ Consumed /\ Chain /\ Copied
      BY DEF RunInv, Control, Leases, Stage, DecisionInv
    <2> QED BY <2>1, Frames, TheseFiles DEF BindAnchor
  <1> DEFINE Granted(n) ==
        /\ \A i \in 1..n : /\ AuthorizedKind(i) \in anchors
                           /\ consent[i] # None /\ intent[i] = consent[i]
        /\ consent[1].selection = "approve"
        /\ n = 2 => /\ "resumed" \in anchors
                    /\ CorrectionAction(frozen["resumed"].report) = "retry"
  <1>1. ASSUME NEW n \in Attempts, Granted(n) PROVE Granted(n)'
    <2>1. n \in {1, 2} /\ 1 \in 1..n /\ \A i \in 1..n : i \in Attempts
      BY DEF Attempts
    <2>2. \A i \in 1..n : consent'[i] = consent[i] /\ intent'[i] = intent[i]
      BY <1>0, <1>1, <2>1, ContentsStay
    <2>3. "resumed" \in anchors => frozen'["resumed"] = frozen["resumed"]
      BY <1>0, ContentsStay DEF Chain, Frozen, Kinds, Age
    <2> QED BY <1>0, <1>1, <2>1, <2>2, <2>3
  <1>2. ASSUME CallEngineer \/ CallValidator PROVE Granted(This)
    <2>1. Working /\ Current.next \in RoleNodes
      BY <1>0, <1>2 DEF CallEngineer, CallValidator, Working, RunningPcs, RolePcs, Control, AtNode,
                        EngineerPcs, ValidatorPcs, RoleNodes
    <2>2. /\ call.attempt = This /\ AuthorizedKind(This) \in anchors
      BY <2>1 DEF RunInv, Stage, Works, This
    <2>3. Current.approval # None /\ Current.approval.selection = "approve"
      BY <1>0, <2>1, CurrentIsKnown, KnownIsSound, SameConstants DEF Flow!Sound, Flow!Approved
    <2>4. AuthorizedKind(1) \in anchors /\ consent[1].selection = "approve"
      BY <1>0, <2>3, CurrentIsKnown DEF Consumed
    <2>5. This = 2 => Offered
      BY <1>0, <2>2 DEF Chain, AuthorizedKind
    <2> QED BY <1>0, <2>2, <2>4, <2>5 DEF Filed, Offered, RetryOffered, Attempts
  <1>3. ASSUME NEW r \in RoleNodes, NEW n \in Attempts, dispatched'[r][n] > 0 PROVE Granted(n)'
    <2>1. CASE dispatched[r][n] > 0
      <3>1. Granted(n)
        BY <2>1 DEF DispatchAuthorized
      <3> QED BY <3>1, <1>1
    <2>2. CASE ~(dispatched[r][n] > 0)
      <3>1. PICK role \in RoleNodes : Dispatch(role) /\ (CallEngineer \/ CallValidator)
        BY <1>3, <2>2, Frames DEF CallEngineer, CallValidator, RoleNodes
      <3>2. n = This
        <4>1. dispatched'[r][n] = IF r = role /\ n = This /\ dispatched[r][n] < DispatchCap
                                  THEN dispatched[r][n] + 1 ELSE dispatched[r][n]
          BY <1>0, <3>1, DispatchCounts DEF TypeOK
        <4> QED BY <1>3, <2>2, <4>1
      <3> QED BY <1>1, <1>2, <3>1, <3>2
    <2> QED BY <2>1, <2>2
  <1> QED BY <1>3 DEF DispatchAuthorized

(* A provider is called only under a decision that was anchored, filed,    *)
(* frozen and consumed first, and for attempt two only after attempt one's *)
(* retryable report was itself frozen. (_persist_authorization_boundary)   *)
THEOREM CalledWithAuthority == Spec => []DispatchAuthorized
  <1>1. Init => DispatchAuthorized
    BY DEF Init, DispatchAuthorized
  <1>2. RunInv /\ DispatchAuthorized /\ [Next]_vars => DispatchAuthorized'
    BY DispatchStep
  <1> QED BY <1>1, <1>2, RunInvariance, PTL DEF Spec
-----------------------------------------------------------------------------
(* What closed attempts leave behind.                                      *)

(* Nothing is written for an attempt once it is closed.                    *)
LEMMA WritesAreOpen ==
  ASSUME RunInv, [Next]_vars, NEW n \in Attempts, SuccessKind(n) \in anchors,
         NEW f \in runtime', f \notin runtime
  PROVE  f[2] # n
  <1>0. Control /\ Chain /\ Works /\ n \in {1, 2} /\ call.attempt \in {1, 2}
    BY WhereIs DEF RunInv, Stage, Attempts
  <1>1. f \in NextRuntime \/ f = Temporary
    BY RuntimeWrites
  <1>2. CASE f = Temporary
    BY <1>0, <1>2 DEF Temporary
  <1>3. CASE f \in NextRuntime
    <2>1. Working /\ (f[2] = This \/ (pc = "correction" /\ ckpt.report # None
                                     /\ f = <<"correction_request", ckpt.report.attempt>>))
      BY <1>3 DEF NextRuntime, Working, RunningPcs, RolePcs
    <2>2. This = call.attempt /\ SuccessKind(call.attempt) \notin anchors
          /\ AuthorizedKind(call.attempt) \in anchors
      BY <1>0, <2>1 DEF Works, This
    <2>3. n # call.attempt
      BY <2>2
    <2>4. call.attempt = 2 /\ n = 1
      BY <1>0, <2>2, <2>3 DEF Chain, SuccessKind, Offered
    <2>5. <<"correction_request", 1>> \in runtime
      BY <1>0, <2>2, <2>4 DEF Chain, AuthorizedKind, Offered
    <2> QED BY <2>1, <2>2, <2>4, <2>5
  <1> QED BY <1>1, <1>2, <1>3

(* Checkpoints report only what is stored, and leave the Engineer only     *)
(* with its answer stored.                                                 *)
LEMMA EvidencedStep == ASSUME RunInv, Evidenced, [Next]_vars PROVE Evidenced'
  <1>0. /\ Control /\ Leases /\ TypeOK /\ EngineerOnce /\ Copied /\ runtime \subseteq runtime'
        /\ This \in Attempts /\ Current \in Checkpoint /\ Current # None /\ Current \in KnownCheckpoints
    BY StorageGrows, TheseFiles, CurrentIsKnown, FlowFacts DEF RunInv, Control, Leases
  <1> DEFINE Reports1(s) == s.report # None =>
               /\ <<"report", s.report.attempt>> \in runtime
               /\ verdict[s.report.attempt] = s.report.verdict
             Answered(s) == s.approval # None /\ s.approval.selection = "approve" /\ s.next # "engineer" =>
               <<"engineer", s.attempt>> \in runtime
  <1>1. \A n \in Attempts : <<"report", n>> \in runtime => verdict'[n] = verdict[n]
    BY <1>0, ContentsStay DEF Stored
  <1>2. ASSUME NEW s \in KnownCheckpoints PROVE Reports1(s)' /\ Answered(s)'
    <2>1. s \in Checkpoint
      BY <1>0, KnownIsSound
    <2>2. s.report # None => s.report.attempt \in Attempts
      BY <2>1 DEF Checkpoint, Reports
    <2> QED BY <1>0, <1>1, <2>2 DEF Evidenced
  <1>3. ASSUME NEW s, Becomes(Current, s) PROVE Reports1(s)' /\ Answered(s)'
    <2>1. Reports1(s)'
      <3>1. CASE pc = "validated"
        <4>1. s.report = [attempt |-> This, verdict |-> verdict[This]]
          BY <1>0, <1>3, <3>1, BecomesKeeps DEF This
        <4>2. <<"report", This>> \in runtime
          BY <1>0, <3>1, TheseFiles DEF Control, ReportsTyped, ReportedPcs
        <4> QED BY <1>0, <1>1, <4>1, <4>2
      <3>2. CASE pc # "validated"
        BY <1>0, <1>2, <1>3, <3>2, BecomesKeeps
      <3> QED BY <3>1, <3>2
    <2>2. Answered(s)'
      <3>1. CASE pc = "invoke"
        <4>1. CASE s = AfterApproval(Current, call.decision)
          BY <1>0, <4>1 DEF AfterApproval, Checkpoint
        <4>2. CASE s = AfterRetryAuthorized(Current, call.decision)
          BY <1>0, <4>2 DEF AfterRetryAuthorized, Checkpoint
        <4> QED BY <1>3, <3>1, <4>1, <4>2 DEF Becomes
      <3>2. CASE pc = "engineered"
        BY <1>0, <1>3, <3>2, BecomesKeeps DEF EngineerOnce, This
      <3>3. CASE pc \notin {"invoke", "engineered"}
        <4>1. s.next # "engineer" => Current.next # "engineer"
          BY <1>0, <1>3, <3>3 DEF Becomes, AfterReport, AfterTerminalNode, TerminalNodes, Checkpoint
        <4> QED BY <1>0, <1>2, <1>3, <3>3, <4>1, BecomesKeeps
      <3> QED BY <3>1, <3>2, <3>3
    <2> QED BY <2>1, <2>2
  <1>4. ASSUME NEW s \in KnownCheckpoints' PROVE Reports1(s)' /\ Answered(s)'
    BY <1>0, <1>2, <1>3, <1>4, KnownSteps
  <1> QED BY <1>4 DEF Evidenced

(* A closed attempt stays closed: its records already hold all it wrote.   *)
LEMMA ClosedStep ==
  ASSUME RunInv, DispatchAuthorized, Evidenced, Closed, [Next]_vars
  PROVE  Closed'
  <1> DEFINE ClosedAttempt(n) ==
        /\ {f \in runtime : f[2] = n} \subseteq index[SuccessKind(n)]
        /\ dispatched["engineer"][n] > 0 => <<"engineer", n>> \in runtime
        /\ frozen[SuccessKind(n)].status = "completed" =>
             /\ <<"report", n>> \in runtime
             /\ frozen[SuccessKind(n)].report = [attempt |-> n, verdict |-> verdict[n]]
  <1>0. /\ Control /\ Leases /\ TypeOK /\ Copied /\ Stage /\ Chain /\ Freezes /\ Works
        /\ runtime \subseteq runtime' /\ This \in Attempts
    BY StorageGrows, TheseFiles DEF RunInv, Control, Leases, Stage
  <1>1. ASSUME NEW n \in Attempts, SuccessKind(n) \in anchors PROVE ClosedAttempt(n)'
    <2>1. ClosedAttempt(n)
      BY <1>1 DEF Closed
    <2>2. SuccessKind(n) \in Kinds /\ <<"status", SuccessKind(n)>> \in portable /\ <<"index", SuccessKind(n)>> \in portable
      BY <1>0, <1>1, KindsDiffer DEF Chain, Frozen
    <2>3. frozen'[SuccessKind(n)] = frozen[SuccessKind(n)] /\ index'[SuccessKind(n)] = index[SuccessKind(n)]
      BY <1>0, <2>2, ContentsStay
    <2>4. {f \in runtime' : f[2] = n} \subseteq {f \in runtime : f[2] = n}
      BY <1>1, WritesAreOpen
    <2>5. <<"report", n>> \in runtime => verdict'[n] = verdict[n]
      BY <1>0, ContentsStay DEF Stored
    <2>6. dispatched'["engineer"][n] > 0 => dispatched["engineer"][n] > 0
      <3>1. CASE UNCHANGED dispatched
        BY <3>1
      <3>2. CASE CallEngineer \/ CallValidator
        <4>1. n # This
          BY <1>0, <1>1, <3>2 DEF CallEngineer, CallValidator, Working, RunningPcs, RolePcs, Works, This
        <4>2. PICK role \in RoleNodes : Dispatch(role)
          BY <3>2 DEF CallEngineer, CallValidator, RoleNodes
        <4>3. dispatched'["engineer"][n] = dispatched["engineer"][n]
          BY <1>0, <4>1, <4>2, DispatchCounts DEF TypeOK, RoleNodes
        <4> QED BY <4>3
      <3> QED BY <3>1, <3>2, Frames
    <2> QED BY <1>0, <2>1, <2>3, <2>4, <2>5, <2>6
  <1>2. ASSUME BindAnchor, call.kind # AuthorizedKind(call.attempt)
        PROVE  /\ runtime' \subseteq index'[call.kind] /\ UNCHANGED <<runtime, index>>
    <2>1. pc = "anchor" /\ UNCHANGED <<runtime, index>> /\ runtime \subseteq portable
          /\ index[call.kind] = portable \ {<<"index", call.kind>>}
      BY <1>0, <1>2 DEF BindAnchor, Freezes, FreezePcs, Ending, Inventory
    <2>2. <<"index", call.kind>> \notin runtime
      BY <1>0 DEF TypeOK, ModelFiles, Rank, Temporary
    <2> QED BY <2>1, <2>2
  <1>3. ASSUME NEW n \in Attempts, SuccessKind(n) \in anchors', SuccessKind(n) \notin anchors
        PROVE  ClosedAttempt(n)'
    <2>1. BindAnchor /\ call.kind = SuccessKind(n)
      BY <1>3, Frames DEF BindAnchor
    <2>2. call.attempt = n /\ call.kind # AuthorizedKind(call.attempt)
      BY <1>0, <2>1, NewAnchor, WhereIs DEF SuccessKind, AuthorizedKind, Attempts
    <2>3. /\ UNCHANGED <<ckpt, queue, frozen, portable, runtime, index, verdict, dispatched>>
          /\ frozen[SuccessKind(n)] = ckpt /\ ckpt.next = "end" /\ ckpt.attempt = n
          /\ Current = ckpt /\ Working
      BY <1>0, <2>1, <2>2, NewAnchor, CurrentInFlight DEF BindAnchor
    <2>4. ckpt \in KnownCheckpoints /\ Flow!Sound(ckpt) /\ ckpt \in Checkpoint
      BY <1>0, KnownIsSound DEF KnownCheckpoints
    <2>5. dispatched["engineer"][n] > 0 => <<"engineer", n>> \in runtime
      <3>1. ckpt.approval # None /\ ckpt.approval = consent[1]
        BY <2>3, <2>4 DEF Works, Stage, RunInv, DecisionInv, Consumed
      <3>2. dispatched["engineer"][n] > 0 => consent[1].selection = "approve"
        BY DEF DispatchAuthorized, RoleNodes
      <3> QED BY <2>3, <2>4, <3>1, <3>2 DEF Evidenced
    <2>6. ckpt.status = "completed" =>
            <<"report", n>> \in runtime /\ ckpt.report = [attempt |-> n, verdict |-> verdict[n]]
      <3> SUFFICES ASSUME ckpt.status = "completed"
                   PROVE  <<"report", n>> \in runtime /\ ckpt.report = [attempt |-> n, verdict |-> verdict[n]]
        OBVIOUS
      <3>1. ckpt.report # None /\ ckpt.report.attempt = n
        BY <2>3, <2>4 DEF Flow!Sound, Flow!ReportMatches
      <3>2. ckpt.report \in Reports
        BY <2>4, <3>1 DEF Checkpoint
      <3> QED BY <2>4, <3>1, <3>2 DEF Evidenced, Reports
    <2> QED BY <1>2, <2>1, <2>2, <2>3, <2>5, <2>6
  <1>4. ASSUME "failed" \in anchors' PROVE runtime' \subseteq index'["failed"]
    <2>1. CASE "failed" \in anchors
      <3>1. pc = "idle" /\ queue = <<>>
        BY <1>0, <2>1, WhereIs DEF Chain
      <3>2. UNCHANGED runtime
        BY <3>1, RuntimeSteps DEF PersistCorrection, PrepareCorrection, ClaimEngineer,
              StoreEngineerOutcome, RunChecks, ClaimValidator, StoreAssessment, Crash, Die
      <3>3. UNCHANGED index
        BY <3>1, Frames DEF WriteIndex
      <3> QED BY <2>1, <3>2, <3>3 DEF Closed
    <2>2. CASE "failed" \notin anchors
      <3>1. BindAnchor /\ call.kind = "failed"
        BY <1>4, <2>2, Frames DEF BindAnchor
      <3> QED BY <1>2, <3>1 DEF AuthorizedKind
    <2> QED BY <2>1, <2>2
  <1>5. ASSUME NEW n \in Attempts, SuccessKind(n) \in anchors' PROVE ClosedAttempt(n)'
    BY <1>1, <1>3, <1>5
  <1> QED BY <1>4, <1>5 DEF Closed

(* The whole inductive invariant. *)
EvidenceInv == RunInv /\ DispatchAuthorized /\ Evidenced /\ Closed

(* A planned run has nothing to account for. *)
LEMMA InitEvidence == Init => Evidenced /\ Closed
  <1> SUFFICES ASSUME Init PROVE Evidenced /\ Closed
    OBVIOUS
  <1>1. KnownCheckpoints = {PlannedCheckpoint}
    BY DEF Init, KnownCheckpoints
  <1>2. PlannedCheckpoint.approval = None /\ PlannedCheckpoint.report = None
    BY DEF PlannedCheckpoint, StartedCheckpoint
  <1>3. \A n \in Attempts : SuccessKind(n) \notin anchors
    BY KindsDiffer DEF Init
  <1> QED BY <1>1, <1>2, <1>3 DEF Init, Evidenced, Closed

(* In every reachable state the stored artifacts say what the checkpoints  *)
(* report, and a closed attempt's index holds all of them.                 *)
(* (_freeze_operation_evidence)                                            *)
THEOREM EvidenceInvariance == Spec => []EvidenceInv
  <1>1. Init => Evidenced /\ Closed
    BY InitEvidence
  <1>2. RunInv /\ DispatchAuthorized /\ Evidenced /\ Closed /\ [Next]_vars => Evidenced' /\ Closed'
    BY EvidencedStep, ClosedStep
  <1> QED BY <1>1, <1>2, RunInvariance, CalledWithAuthority, PTL DEF Spec, EvidenceInv

(* A lifecycle that closes an attempt freezes a terminal checkpoint of it, *)
(* the stored verdict, and an index of every artifact it wrote.            *)
(* (_freeze_operation_evidence, _persist_status)                           *)
THEOREM ClosedIsComplete == Spec => []ClosedEvidenceIsComplete
  <1>1. EvidenceInv => ClosedEvidenceIsComplete
    BY DEF EvidenceInv, RunInv, Stage, Chain, Closed, ClosedEvidenceIsComplete
  <1> QED BY <1>1, EvidenceInvariance, PTL

(* A run that failed, or closed without an offer to retry, is left as it   *)
(* is: a resubmitted decision only finds what is already written.          *)
LEMMA FinalIsFinal ==
  ASSUME RunInv, Final, [Next]_vars
  PROVE  UNCHANGED durable
  <1> USE DEF FreezePcs
  <1>0. /\ Control /\ Leases /\ TypeOK /\ Chain /\ Rest /\ Decides /\ Works /\ Freezes /\ Filed /\ Bound
        /\ Consumed /\ call.attempt \in {1, 2} /\ ckpt \in KnownCheckpoints /\ Flow!Sound(ckpt)
        /\ 2 \in Attempts /\ CallOK
    BY WhereIs, FlowFacts
    DEF RunInv, Control, Stage, DecisionInv, Attempts, KnownCheckpoints
  <1>1. ASSUME pc = "idle" PROVE UNCHANGED durable
    <2>1. queue = <<>>
      BY <1>0, <1>1, WhereIs
    <2>2. ~Apart /\ ~InsideNode /\ ~Raises
      BY <1>0, <1>1, InsideMoves, RaisesMoves
      DEF RunningPcs, RolePcs, Apart, Authorize, Freeze, RefuseWrite, PersistFailure,
          PersistDecision, PersistCorrection, BindIntent, PersistApproval, Promote, WriteStatus,
          WriteProjection, WriteIndex, BindAnchor, Conflict
    <2>3. \/ UNCHANGED vars
          \/ \E n \in Attempts : \E d \in Decisions(n) : Submit(n, d)
      BY <1>1, <2>1, <2>2, StepIsOfOneKind
      DEF Invoke, Route, Flush, Return, EngineerDone, ValidatorDone, RecordTaskError, Crash, Die
    <2> QED BY <1>0, <2>3, Submitted DEF vars, durable
  <1>2. ASSUME pc # "idle"
        PROVE  /\ "retried" \in anchors /\ "correction_authorized" \in anchors /\ "resumed" \in anchors
               /\ Deciding /\ call.attempt = 2
    <2>1. "failed" \notin anchors
      BY <1>0, <1>2 DEF Chain
    <2>2. "resumed" \in anchors
      BY <1>0, <2>1 DEF Final, Chain, Offered
    <2>3. Deciding \/ (Working /\ call.attempt = 2)
      BY <1>0, <1>2, <2>2, WhereIs DEF Works, SuccessKind
    <2>4. ckpt.approval # None
      BY <1>0, <2>2 DEF Rest
    <2>5. Deciding => call.attempt = 2
      BY <1>0, <2>4 DEF Decides, Flow!Sound, Flow!FreshPlan
    <2>6. Offered
      BY <1>0, <2>3, <2>5 DEF Decides, Works, Chain, AuthorizedKind
    <2>7. "retried" \in anchors
      BY <2>1, <2>6 DEF Final, Offered
    <2> QED BY <1>0, <2>2, <2>3, <2>5, <2>7 DEF Works, SuccessKind, Chain
  <1>3. ASSUME pc # "idle" PROVE pc \in {"intent", "approval", "status"}
    <2>1. ckpt.attempt = 2 /\ frozen["correction_authorized"].attempt = 1
      BY <1>0, <1>2, <1>3 DEF Rest, Chain, SuccessKind
    <2>2. frozen["correction_authorized"] # ckpt
      BY <2>1
    <2>3. pc # "invoke" /\ ~(pc \in FreezePcs \ {"status"} /\ call.kind = AuthorizedKind(2))
      BY <1>0, <1>2, <1>3, <2>2 DEF Freezes, AuthorizedKind
    <2> QED BY <1>2, <1>3, <2>3 DEF Deciding, Authorizing
  <1>4. ASSUME pc # "idle"
        PROVE  /\ intent[2] = consent[2] /\ consent[2] # None
               /\ <<"approval", 2>> \in portable /\ <<"status", "correction_authorized">> \in portable
               /\ frozen["correction_authorized"] # ckpt
    <2>1. AuthorizedKind(2) = "correction_authorized" /\ SuccessKind(2) = "retried"
      BY DEF AuthorizedKind, SuccessKind
    <2>2. /\ intent[2] = consent[2] /\ consent[2] # None
          /\ <<"approval", 2>> \in portable
      BY <1>0, <1>2, <1>4, <2>1 DEF Filed
    <2>3. <<"status", "correction_authorized">> \in portable
      BY <1>0, <1>2, <1>4 DEF Chain, Frozen
    <2>4. ckpt.attempt = 2
      BY <1>0, <1>2, <1>4, <2>1 DEF Rest, Chain
    <2>5. frozen["correction_authorized"].attempt = 1
      BY <1>0, <1>2, <1>4 DEF Chain
    <2> QED BY <2>2, <2>3, <2>4, <2>5
  <1>5. ASSUME pc # "idle" PROVE UNCHANGED durable
    <2> USE <1>0, <1>2, <1>3, <1>4, <1>5
    <2>1. CASE BindIntent
      BY <2>1 DEF BindIntent, durable, TypeOK
    <2>2. CASE PersistApproval
      <3>1. pc = "approval" /\ call.attempt = 2 /\ consent[2] \in {None, call.decision}
            /\ consent' = [consent EXCEPT ![2] = call.decision]
            /\ portable' = portable \cup {<<"approval", 2>>}
            /\ UNCHANGED <<runtime, anchors, intent, index, frozen, outcome, verdict, advice, ckpt>>
        BY <2>2 DEF PersistApproval
      <3>2. consent \in [Attempts -> Approvals \cup Corrections \cup {None}]
        BY DEF TypeOK
      <3>3. consent' = consent
        BY <3>1, <3>2
      <3>4. portable' = portable
        BY <3>1
      <3> QED BY <3>1, <3>3, <3>4 DEF durable
    <2>3. call.kind = AuthorizedKind(2) \/ pc = "intent"
      BY DEF Deciding, Authorizing, CallOK
    <2>4. ~WriteStatus
      BY <2>3 DEF WriteStatus, AuthorizedKind
    <2>5. CASE RefuseWrite
      BY <2>5 DEF RefuseWrite
    <2>6. CASE Crash
      <3>1. NextPortable \subseteq portable /\ NextRuntime = {}
        BY <2>3 DEF NextPortable, NextRuntime, AuthorizedKind
      <3> QED BY <2>6, <3>1 DEF Crash, Die, durable
    <2>7. CASE UNCHANGED vars
      BY <2>7 DEF vars, durable
    <2>8. ~InsideNode /\ ~Raises /\ ~Flush
      BY InsideMoves, RaisesMoves, WhereIs DEF RunningPcs, RolePcs, Flush, Working
    <2>9. ASSUME NEW n \in Attempts, NEW d \in Decisions(n), Submit(n, d) PROVE FALSE
      BY <2>9, Submitted
    <2> QED
      BY <2>1, <2>2, <2>4, <2>5, <2>6, <2>7, <2>8, <2>9, StepIsOfOneKind
      DEF Apart, Authorize, Freeze, Promote, WriteProjection, WriteIndex, BindAnchor, PersistFailure,
          PersistDecision, PersistCorrection, Invoke, Route, Return, EngineerDone, ValidatorDone,
          RecordTaskError
  <1> QED BY <1>1, <1>5

(* Evidence is write-once: across any retries no step removes a file or    *)
(* changes what a stored one says; and a run that failed, or that closed   *)
(* without an offer to retry, never changes again.                         *)
(* (ArtifactStore.write_json, replay; the authorization boundary)          *)
THEOREM WriteOnce == Spec => EvidenceIsWriteOnce
  <1>1. ASSUME RunInv, [Next]_vars
        PROVE  /\ Final => UNCHANGED durable
               /\ portable \subseteq portable' /\ runtime \subseteq runtime' /\ anchors \subseteq anchors'
               /\ \A n \in Attempts :
                    /\ intent[n] # None => intent'[n] = intent[n]
                    /\ consent[n] # None => consent'[n] = consent[n]
                    /\ <<"engineer", n>> \in Stored => outcome'[n] = outcome[n]
                    /\ <<"report", n>> \in Stored => verdict'[n] = verdict[n]
                    /\ <<"validator", n>> \in Stored => advice'[n] = advice[n]
               /\ \A k \in Kinds :
                    /\ <<"status", k>> \in portable => frozen'[k] = frozen[k]
                    /\ <<"index", k>> \in portable => index'[k] = index[k]
    <2>1. Control /\ Leases
      BY <1>1 DEF RunInv
    <2>2. anchors \subseteq anchors'
      BY <1>1, Frames DEF BindAnchor
    <2>3. Final => UNCHANGED durable
      BY <1>1, FinalIsFinal
    <2> QED BY <1>1, <2>1, <2>2, <2>3, StorageGrows, ContentsStay
  <1> QED BY <1>1, RunInvariance, PTL DEF Spec, EvidenceIsWriteOnce

-----------------------------------------------------------------------------
(***************************************************************************)
(* Recovery: after any crash, error or write the next load accepts a run   *)
(* exactly outside the documented gaps.                                    *)
(*                                                                         *)
(* Readable judges a run by its files alone, so the argument is an         *)
(* invariant that says what the files are in every reachable state.  Two   *)
(* more layers strengthen the one above:                                   *)
(*   Roles  the artifacts of an attempt are written in the order its roles *)
(*          work, and each checkpoint rests on those its node wrote;       *)
(*   Tree   unless a write was cut off, the portable tree is the latest    *)
(*          lifecycle's inventory and a prefix of what the operation that  *)
(*          supersedes it writes, frozen from the checkpoint of that time. *)
(* With them, each stage of a run is one case: it waits for a decision, an *)
(* attempt is open with or without artifacts, or the run is over.          *)
(***************************************************************************)

(* What an attempt has written so far, in the order its roles work. *)
Artifacts(n) == {f \in runtime : f[2] = n}
Has(f, n) == <<f, n>> \in runtime
Deferring(n) == n = 1 /\ verdict[n].disposition = "recoverable_failure"
Approves(s) == s.approval # None /\ s.approval.selection = "approve"

InOrder ==
  \A n \in Attempts :
    /\ Has("correction_wiki", n) => n = 2
    /\ Has("engineer_correction", n) => Has("correction_wiki", n)
    /\ Has("engineer_lease", n) /\ n = 2 => Has("engineer_correction", n)
    /\ Has("engineer", n) => Has("engineer_lease", n) /\ outcome[n] # "none"
    /\ Has("report", n) => Has("engineer", n) /\ outcome[n] = "change"
    /\ Has("validator_lease", n) => Has("report", n) /\ ~Deferring(n)
    /\ Has("validator", n) =>
         Has("report", n) /\ (advice[n] = "deferred" <=> ~Has("validator_lease", n))
    /\ Has("correction_request", n) => Has("validator", n)
    /\ Artifacts(n) # {} => AuthorizedKind(n) \in anchors /\ consent[1].selection = "approve"
Prepared ==
  /\ pc \in {"correction_wiki", "engineer_correction"} => This = 2
  /\ pc = "engineer_correction" => Has("correction_wiki", 2)
  /\ pc = "engineer_lease" /\ This = 2 => Has("engineer_correction", 2)
  /\ pc \in ValidatorPcs \ {"validator"} => Has("engineer", This)
  /\ pc = "validator_lease" => ~Deferring(This)
  /\ pc = "assessment" => (call.result = "deferred" <=> ~Has("validator_lease", This))
  /\ pc = "validated" => Has("validator", This)
Backed ==
  \A s \in KnownCheckpoints :
    /\ s.next = "validator" => outcome[s.attempt] = "change"
    /\ s.intervention =>
         /\ outcome[s.attempt] = "intervention" /\ s.status = "decision_required"
         /\ s.next \in {"decision_required", "end"}
    /\ s.report # None => Has("validator", s.report.attempt)
    /\ s.failed => s.next \in RoleNodes
    /\ Approves(s) /\ s.next \notin RoleNodes /\ ~s.intervention =>
         s.next = "end" /\ s.status = "completed" /\ s.report.attempt = s.attempt
Fresh ==
  \A s \in KnownCheckpoints :
    /\ s.approval = None => s = PlannedCheckpoint
    /\ "resumed" \in anchors /\ s.attempt = 1 => s = frozen["resumed"]
Roles == InOrder /\ Prepared /\ Backed /\ Fresh

-----------------------------------------------------------------------------
(* What the portable tree holds. *)
Era(f) ==
  CASE f[1] \in DOMAIN Rank \cup {"decision"} -> Age[SuccessKind(f[2])]
    [] f[1] = "approval" -> Age[AuthorizedKind(f[2])]
    [] f[1] = "failure" -> Age["failed"]
    [] f[1] = "plan" -> Age["planned"]
    [] OTHER -> Age[f[2]]
FreezeFiles(k) == {<<"status", k>>, <<"workflow", k>>, <<"checkpoint", k>>, <<"index", k>>}
AuthorizationFiles(n) == {<<"approval", n>>} \cup FreezeFiles(AuthorizedKind(n))
Waiting(n) == BaseKind(n) \in anchors /\ {AuthorizedKind(n), "failed"} \cap anchors = {}

Indexed ==
  /\ \A k \in Kinds : <<"index", k>> \in portable => index[k] \subseteq portable
  /\ \A k \in Kinds : \A f \in index[k] : Era(f) <= Age[k]
  /\ \A f \in portable : Era(f) <= Age[LatestKind] =>
       f \in index[LatestKind] \cup {<<"index", LatestKind>>}
Ahead ==
  \A f \in portable : Era(f) > Age[LatestKind] =>
    /\ LatestKind \notin {"retried", "failed"}
    /\ Era(f) = Age[LatestKind] + 1 \/ (Era(f) = 6 /\ \E n \in Attempts : Open(n))
Sequenced ==
  /\ \A n \in Attempts : /\ <<"approval", n>> \in portable => intent[n] # None
                         /\ intent[n] # None => BaseKind(n) \in anchors
                         /\ <<"status", AuthorizedKind(n)>> \in portable => <<"approval", n>> \in portable
  /\ \A k \in Kinds :
       /\ <<"workflow", k>> \in portable => <<"status", k>> \in portable
       /\ <<"checkpoint", k>> \in portable => <<"workflow", k>> \in portable
       /\ <<"index", k>> \in portable => <<"checkpoint", k>> \in portable
  /\ pc = "status" /\ Authorizing => <<"approval", call.attempt>> \in portable
  /\ pc = "checkpoint" => <<"workflow", call.kind>> \in portable
  /\ pc = "index" => <<"checkpoint", call.kind>> \in portable
Pending ==
  /\ frozen["planned"] = PlannedCheckpoint
  /\ \A n \in Attempts : AuthorizedKind(n) \in anchors => frozen[AuthorizedKind(n)] = frozen[BaseKind(n)]
  /\ \A n \in Attempts : Waiting(n) =>
    /\ <<"status", AuthorizedKind(n)>> \in portable => frozen[AuthorizedKind(n)] = ckpt
    /\ <<"index", AuthorizedKind(n)>> \in portable =>
         index[AuthorizedKind(n)] = Inventory(AuthorizedKind(n))
Failing ==
  /\ \A n \in Attempts : Open(n) =>
    /\ (\E f \in portable : Era(f) = 6) => <<"failure", n>> \in portable
    /\ <<"failure", n>> \in portable =>
         /\ ckpt.failed /\ ckpt.attempt = n /\ Artifacts(n) # {}
         /\ pc = "idle" \/ (Ending /\ call.kind = "failed")
  /\ pc = "failure" => ckpt.failed /\ Artifacts(call.attempt) # {}
  /\ Ending /\ call.kind = "failed" => <<"failure", call.attempt>> \in portable
  /\ Deciding => call.seam = "none"
  /\ Working /\ call.seam # "none" => Artifacts(call.attempt) # {}
  /\ "failed" \in anchors =>
       /\ ckpt = frozen["failed"] /\ index["failed"] = Inventory("failed")
       /\ \E n \in Attempts : <<"failure", n>> \in portable /\ CompletedAuthorizations(1..n)
Concluding ==
  /\ \A n \in Attempts : Open(n) /\ (\E f \in portable : Era(f) = Age[SuccessKind(n)]) =>
    /\ ckpt.attempt = n /\ pc \notin RunningPcs \cup {"return", "raise"}
    /\ ckpt.next = "end" \/ <<"failure", n>> \in portable
  /\ \A n \in Attempts : Open(n) /\ <<"failure", n>> \notin portable =>
    /\ <<"decision", n>> \in portable => ckpt.intervention
    /\ <<"status", SuccessKind(n)>> \in portable =>
         /\ frozen[SuccessKind(n)] = ckpt /\ runtime \subseteq portable
         /\ ckpt.intervention => <<"decision", n>> \in portable
         /\ ckpt.report # None => Has("correction_request", ckpt.report.attempt)
    /\ <<"index", SuccessKind(n)>> \in portable =>
         index[SuccessKind(n)] = Inventory(SuccessKind(n))
    /\ \A f \in Artifacts(n) \cap portable :
         /\ ckpt.report # None => Has("correction_request", ckpt.report.attempt)
         /\ \A g \in Artifacts(n) : Rank[g[1]] <= Rank[f[1]] => g \in portable
  /\ pc = "correction" \/ (Ending /\ call.kind # "failed") =>
       (ckpt.intervention => <<"decision", call.attempt>> \in portable)
  /\ Ending /\ call.kind # "failed" /\ ckpt.report # None =>
       Has("correction_request", ckpt.report.attempt)
Tree == Indexed /\ Ahead /\ Sequenced /\ Pending /\ Failing /\ Concluding

(* A run without a cut-off write, as every operation finds it. *)
Tidy == EvidenceInv /\ Roles /\ Tree /\ Temporary \notin Stored

-----------------------------------------------------------------------------
(* Roles write in order.                                                   *)

(* A new artifact is the one the step at hand writes.                      *)
LEMMA NewArtifact ==
  ASSUME Control, [Next]_vars, NEW f \in DOMAIN Rank, NEW n \in Attempts,
         Has(f, n)', ~Has(f, n)
  PROVE  /\ <<f, n>> \in NextRuntime
         /\ runtime' = runtime \cup {<<f, n>>}
         /\ \/ /\ f \in {"correction_wiki", "engineer_correction", "engineer_lease", "validator_lease"}
               /\ pc = f /\ n = This
            \/ f = "engineer" /\ pc = "engineer_outcome" /\ n = This /\ outcome'[n] = call.result
            \/ f = "report" /\ pc = "checks" /\ n = This
            \/ f = "validator" /\ pc = "assessment" /\ n = This /\ advice'[n] = call.result
            \/ /\ f = "correction_request" /\ pc = "correction"
               /\ ckpt.report # None /\ n = ckpt.report.attempt
  <1> USE DEF Rank
  <1>0. <<f, n>> # Temporary /\ Control
    BY DEF Temporary, Attempts
  <1>1. <<f, n>> \in NextRuntime
    BY <1>0, RuntimeWrites DEF Has
  <1>2. \/ PersistCorrection \/ PrepareCorrection \/ ClaimEngineer \/ StoreEngineerOutcome
        \/ RunChecks \/ ClaimValidator \/ StoreAssessment
    <2>1. runtime' # runtime
      BY DEF Has
    <2>2. ~Crash
      BY <1>0 DEF Crash, Has
    <2> QED BY <2>1, <2>2, RuntimeSteps
  <1>3. TypeOK /\ n \in Attempts
    BY DEF Control
  <1>4. CASE PersistCorrection
    BY <1>0, <1>1, <1>4 DEF PersistCorrection, Has
  <1>5. CASE PrepareCorrection
    BY <1>0, <1>1, <1>5 DEF PrepareCorrection, StoreRuntime, Has
  <1>6. CASE ClaimEngineer
    BY <1>0, <1>1, <1>6 DEF ClaimEngineer, StoreRuntime, Lease, Has
  <1>7. CASE StoreEngineerOutcome
    BY <1>0, <1>1, <1>3, <1>7 DEF StoreEngineerOutcome, StoreRuntime, Has, TypeOK
  <1>8. CASE RunChecks
    BY <1>0, <1>1, <1>8 DEF RunChecks, StoreRuntime, Has
  <1>9. CASE ClaimValidator
    BY <1>0, <1>1, <1>9 DEF ClaimValidator, StoreRuntime, Lease, Has
  <1>10. CASE StoreAssessment
    BY <1>0, <1>1, <1>3, <1>10 DEF StoreAssessment, StoreRuntime, Has, TypeOK
  <1> QED BY <1>1, <1>2, <1>4, <1>5, <1>6, <1>7, <1>8, <1>9, <1>10

(* What a checkpoint, a node and its artifacts have to do with each other. *)
LEMMA AtWork ==
  ASSUME EvidenceInv, Roles
  PROVE  /\ Control /\ Leases /\ TypeOK /\ Copied /\ CallOK
         /\ This \in {1, 2} /\ This \in Attempts /\ This = Current.attempt
         /\ Current \in KnownCheckpoints /\ Current \in Checkpoint /\ Current # None
         /\ Flow!Sound(Current)
         /\ pc \in EngineerPcs \cup ValidatorPcs =>
              /\ Working /\ call.attempt = This
              /\ AuthorizedKind(This) \in anchors /\ SuccessKind(This) \notin anchors
              /\ consent[1].selection = "approve" /\ Approves(Current)
         /\ pc \in ReportedPcs => Has("report", This)
         /\ pc \in ValidatorPcs => Has("engineer", This) /\ outcome[This] = "change"
  <1>1. Control /\ Leases /\ TypeOK /\ Copied /\ CallOK /\ AtNode /\ ReportsTyped
    BY DEF EvidenceInv, RunInv, Control, Leases
  <1>2. /\ This \in {1, 2} /\ This \in Attempts /\ Current \in KnownCheckpoints
        /\ Current \in Checkpoint /\ Current # None /\ Flow!Sound(Current)
    BY <1>1, TheseFiles, CurrentIsKnown, FlowFacts
  <1>3. ASSUME pc \in EngineerPcs \cup ValidatorPcs
        PROVE  /\ Working /\ call.attempt = This
               /\ AuthorizedKind(This) \in anchors /\ SuccessKind(This) \notin anchors
               /\ consent[1].selection = "approve" /\ Approves(Current)
    <2>1. Working
      BY <1>3 DEF EngineerPcs, ValidatorPcs, Working, RunningPcs, RolePcs
    <2>2. Current.next \in RoleNodes
      BY <1>1, <1>3 DEF AtNode, RoleNodes
    <2>3. Approves(Current)
      BY <1>2, <2>2 DEF Flow!Sound, Flow!Approved, Flow!RoleNodes, RoleNodes, Approves
    <2>4. Current.approval = consent[1]
      BY <1>2, <2>3 DEF EvidenceInv, RunInv, DecisionInv, Consumed, Approves
    <2> QED BY <2>1, <2>3, <2>4 DEF EvidenceInv, RunInv, Stage, Works, This, Approves
  <1>4. pc \in ReportedPcs => Has("report", This)
    BY <1>1, TheseFiles DEF ReportsTyped, Has
  <1>5. pc \in ValidatorPcs => Has("engineer", This) /\ outcome[This] = "change"
    BY <1>1, <1>2, <1>3 DEF EvidenceInv, Evidenced, Roles, Backed, AtNode, Has, This, Approves,
                     EngineerPcs, ValidatorPcs
  <1> QED BY <1>1, <1>2, <1>3, <1>4, <1>5 DEF This


(* Every artifact is preceded by those its role needs. *)
LEMMA InOrderStep == ASSUME EvidenceInv, Roles, [Next]_vars PROVE InOrder'
  <1> USE DEF Rank
  <1>0. /\ Control /\ Leases /\ TypeOK /\ Copied /\ CallOK /\ runtime \subseteq runtime' /\ InOrder
        /\ Prepared /\ This \in {1, 2} /\ anchors \subseteq anchors'
    BY AtWork, StorageGrows, Frames DEF Roles, BindAnchor
  <1>1. /\ \A n \in Attempts : Has("engineer", n) => outcome'[n] = outcome[n]
        /\ \A n \in Attempts : Has("report", n) => verdict'[n] = verdict[n]
        /\ \A n \in Attempts : Has("validator", n) => advice'[n] = advice[n]
    BY <1>0, ContentsStay DEF Stored, Has
  <1>2. ASSUME NEW n \in Attempts
        PROVE  /\ Has("correction_wiki", n)' => n = 2
               /\ Has("engineer_correction", n)' => Has("correction_wiki", n)'
               /\ Has("engineer_lease", n)' /\ n = 2 => Has("engineer_correction", n)'
               /\ Has("engineer", n)' => Has("engineer_lease", n)' /\ outcome'[n] # "none"
    <2>1. \A f \in DOMAIN Rank : Has(f, n) => Has(f, n)'
      BY <1>0 DEF Has
    <2>2. ASSUME Has("correction_wiki", n)' PROVE n = 2
      BY <1>0, <1>2, <2>2, NewArtifact DEF Prepared, InOrder
    <2>3. ASSUME Has("engineer_correction", n)' PROVE Has("correction_wiki", n)'
      <3>1. CASE Has("engineer_correction", n)
        BY <1>0, <1>2, <2>1, <3>1 DEF InOrder
      <3>2. CASE ~Has("engineer_correction", n)
        <4>1. pc = "engineer_correction" /\ n = This
          BY <1>0, <1>2, <2>3, <3>2, NewArtifact
        <4> QED BY <1>0, <2>1, <4>1 DEF Prepared
      <3> QED BY <3>1, <3>2
    <2>4. ASSUME Has("engineer_lease", n)', n = 2 PROVE Has("engineer_correction", n)'
      <3>1. CASE Has("engineer_lease", n)
        BY <1>0, <1>2, <2>1, <2>4, <3>1 DEF InOrder
      <3>2. CASE ~Has("engineer_lease", n)
        <4>1. pc = "engineer_lease" /\ n = This
          BY <1>0, <1>2, <2>4, <3>2, NewArtifact
        <4> QED BY <1>0, <2>1, <2>4, <4>1 DEF Prepared
      <3> QED BY <3>1, <3>2
    <2>5. ASSUME Has("engineer", n)' PROVE Has("engineer_lease", n)' /\ outcome'[n] # "none"
      <3>1. CASE Has("engineer", n)
        BY <1>0, <1>1, <1>2, <2>1, <3>1 DEF InOrder
      <3>2. CASE ~Has("engineer", n)
        <4>1. pc = "engineer_outcome" /\ n = This /\ outcome'[n] = call.result
          BY <1>0, <1>2, <2>5, <3>2, NewArtifact
        <4>2. Has("engineer_lease", n) /\ call.result \in {"change", "intervention"}
          BY <1>0, <4>1 DEF Leases, EngineerOnce, Lease, Has, CallOK
        <4> QED BY <2>1, <4>1, <4>2
      <3> QED BY <3>1, <3>2
    <2> QED BY <2>2, <2>3, <2>4, <2>5
  <1>3. ASSUME NEW n \in Attempts, Has("report", n)'
        PROVE  Has("engineer", n)' /\ outcome'[n] = "change"
    <2>1. CASE Has("report", n)
      BY <1>0, <1>1, <1>3, <2>1 DEF InOrder, Has
    <2>2. CASE ~Has("report", n)
      <3>1. pc = "checks" /\ n = This
        BY <1>0, <1>3, <2>2, NewArtifact
      <3>2. Has("engineer", n) /\ outcome[n] = "change"
        BY <3>1, AtWork DEF ValidatorPcs
      <3> QED BY <1>0, <1>1, <1>3, <3>2 DEF Has
    <2> QED BY <2>1, <2>2
  <1>4. ASSUME NEW n \in Attempts, Has("validator_lease", n)'
        PROVE  Has("report", n)' /\ ~Deferring(n)'
    <2>1. CASE Has("validator_lease", n)
      BY <1>0, <1>1, <1>4, <2>1 DEF InOrder, Has, Deferring
    <2>2. CASE ~Has("validator_lease", n)
      <3>1. pc = "validator_lease" /\ n = This
        BY <1>0, <1>4, <2>2, NewArtifact
      <3>2. Has("report", n) /\ ~Deferring(n)
        BY <1>0, <3>1, AtWork DEF ReportedPcs, Prepared
      <3> QED BY <1>0, <1>1, <1>4, <3>2 DEF Has, Deferring
    <2> QED BY <2>1, <2>2
  <1>5. ASSUME NEW n \in Attempts, Has("validator", n)'
        PROVE  Has("report", n)' /\ (advice'[n] = "deferred" <=> ~Has("validator_lease", n)')
    <2>1. CASE Has("validator", n)
      <3>1. Has("validator_lease", n)' => Has("validator_lease", n)
        <4> SUFFICES ASSUME Has("validator_lease", n)', ~Has("validator_lease", n) PROVE FALSE
          OBVIOUS
        <4>1. pc = "validator_lease" /\ n = This
          BY <1>0, <1>5, NewArtifact
        <4> QED BY <1>0, <2>1, <4>1 DEF Leases, ValidatorOnce, Has
      <3> QED BY <1>0, <1>1, <1>5, <2>1, <3>1 DEF InOrder, Has
    <2>2. CASE ~Has("validator", n)
      <3>1. /\ pc = "assessment" /\ n = This /\ advice'[n] = call.result
            /\ runtime' = runtime \cup {<<"validator", n>>}
        BY <1>0, <1>5, <2>2, NewArtifact
      <3>2. Has("validator_lease", n)' <=> Has("validator_lease", n)
        BY <3>1 DEF Has
      <3>3. Has("report", n)
        BY <3>1, AtWork DEF ReportedPcs
      <3> QED BY <1>0, <3>1, <3>2, <3>3 DEF Prepared, Has
    <2> QED BY <2>1, <2>2
  <1>6. ASSUME NEW n \in Attempts, Has("correction_request", n)' PROVE Has("validator", n)'
    <2>1. CASE Has("correction_request", n)
      BY <1>0, <1>6, <2>1 DEF InOrder, Has
    <2>2. CASE ~Has("correction_request", n)
      <3>1. ckpt.report # None /\ n = ckpt.report.attempt
        BY <1>0, <1>6, <2>2, NewArtifact
      <3> QED BY <1>0, <3>1 DEF Roles, Backed, KnownCheckpoints, Has
    <2> QED BY <2>1, <2>2
  <1>7. ASSUME NEW n \in Attempts, Artifacts(n)' # {}
        PROVE  AuthorizedKind(n) \in anchors' /\ consent'[1].selection = "approve"
    <2>1. CASE Artifacts(n) # {}
      <3>1. /\ AuthorizedKind(n) \in anchors /\ consent[1].selection = "approve"
        BY <1>0, <1>7, <2>1 DEF InOrder
      <3>2. AuthorizedKind(1) \in anchors
        BY <3>1 DEF EvidenceInv, RunInv, Stage, Chain, Offered, AuthorizedKind, Attempts
      <3>3. consent'[1] = consent[1]
        BY <1>0, <3>2, ContentsStay DEF EvidenceInv, RunInv, DecisionInv, Filed, Attempts
      <3> QED BY <1>0, <3>1, <3>3
    <2>2. CASE Artifacts(n) = {}
      <3>1. PICK g \in runtime' : g[2] = n /\ g \notin runtime
        BY <1>7, <2>2 DEF Artifacts
      <3>2. g # Temporary
        BY <3>1 DEF Temporary, Attempts
      <3>3. PICK f \in DOMAIN Rank, m \in Attempts : g = <<f, m>>
        <4>1. TypeOK'
          BY <1>0, TypeStep
        <4> QED BY <3>1, <3>2, <4>1 DEF TypeOK, ModelFiles
      <3>4. Has(f, n)' /\ ~Has(f, n)
        BY <3>1, <3>3 DEF Has
      <3>5. pc # "correction"
        <4> SUFFICES ASSUME pc = "correction" PROVE FALSE
          OBVIOUS
        <4>1. ckpt.report # None /\ n = ckpt.report.attempt
          BY <1>0, <1>7, <3>4, NewArtifact
        <4>2. Has("validator", n)
          BY <4>1 DEF Roles, Backed, KnownCheckpoints
        <4> QED BY <2>2, <4>2 DEF Has, Artifacts
      <3>6. pc \in EngineerPcs \cup ValidatorPcs /\ n = This
        BY <1>0, <1>7, <3>4, <3>5, NewArtifact DEF EngineerPcs, ValidatorPcs
      <3>7. consent'[1] = consent[1]
        <4>1. "manifest_authorized" \in anchors
          BY <3>6, AtWork DEF EvidenceInv, RunInv, Stage, Chain, Offered, AuthorizedKind, Attempts
        <4> QED BY <1>0, <4>1, ContentsStay DEF EvidenceInv, RunInv, DecisionInv, Filed, Attempts, AuthorizedKind
      <3> QED BY <1>0, <3>6, <3>7, AtWork
    <2> QED BY <2>1, <2>2
  <1> QED BY <1>2, <1>3, <1>4, <1>5, <1>6, <1>7 DEF InOrder


(* A node's steps follow each other with the artifacts they need.          *)
LEMMA PreparedStep == ASSUME EvidenceInv, Roles, [Next]_vars PROVE Prepared'
  <1> USE DEF EngineerPcs, ValidatorPcs, RoleNodes
  <1>0. /\ Control /\ Leases /\ TypeOK /\ Copied /\ CallOK /\ runtime \subseteq runtime' /\ InOrder
        /\ Prepared /\ This \in {1, 2} /\ This \in Attempts /\ EngineerOnce /\ ValidatorOnce
    BY AtWork, StorageGrows DEF Roles, Leases
  <1>1. \A f \in {"engineer", "report", "validator", "validator_lease"} :
          (<<f, This>> \in Stored <=> Has(f, This)) /\ (Has(f, This) => <<f, This>> \in runtime')
    BY <1>0, TheseFiles DEF Has, Lease
  <1>2. ASSUME pc' \in (EngineerPcs \cup ValidatorPcs) \ RoleNodes
        PROVE  /\ pc' \in {"correction_wiki", "engineer_correction"} => This = 2
               /\ pc' = "engineer_correction" => <<"correction_wiki", 2>> \in runtime'
               /\ pc' = "engineer_lease" /\ This = 2 => <<"engineer_correction", 2>> \in runtime'
               /\ pc' \in ValidatorPcs \ {"validator"} => <<"engineer", This>> \in runtime'
               /\ pc' = "validator_lease" => ~(This = 1 /\ verdict'[This].disposition = "recoverable_failure")
               /\ pc' = "assessment" => (call'.result = "deferred" <=> <<"validator_lease", This>> \notin runtime')
               /\ pc' = "validated" => <<"validator", This>> \in runtime'
    <2>1. CASE UNCHANGED <<portable, runtime, dispatched, outcome, verdict, advice, pc, call>>
      BY <1>0, <1>2, <2>1 DEF Prepared, Has, Deferring
    <2>2. CASE InsideNode
      <3>1. CASE EngineerStart
        BY <1>0, <3>1 DEF EngineerStart, Goto
      <3>2. CASE PrepareCorrection
        BY <1>0, <3>2 DEF PrepareCorrection, Goto, StoreRuntime, Prepared, Has
      <3>3. CASE ClaimEngineer \/ StoreEngineerOutcome \/ (CallEngineer /\ pc' = "engineer_outcome")
        BY <3>3 DEF ClaimEngineer, StoreEngineerOutcome, Goto
      <3>4. CASE ValidatorStart
        BY <1>1, <3>4 DEF ValidatorStart, Goto, Outcome
      <3>5. CASE RunChecks /\ pc' = "advise"
        BY <1>0, <1>1, <3>5, AtWork DEF RunChecks
      <3>6. CASE Advise
        <4>1. <<"engineer", This>> \in runtime' /\ pc' \notin {"correction_wiki", "engineer_correction", "engineer_lease"}
          BY <1>0, <1>1, <3>6, AtWork DEF Advise, Goto
        <4>2. runtime' = runtime /\ verdict' = verdict
          BY <3>6 DEF Advise, durable
        <4>3. pc' = "validated" => <<"validator", This>> \in runtime'
          BY <1>1, <3>6 DEF Advise, Goto, Outcome
        <4>4. pc' = "validator_lease" => ~Deferring(This)
          BY <3>6 DEF Advise, Goto, Deferred, Deferring
        <4>5. pc' = "assessment" => (call'.result = "deferred" <=> ~Has("validator_lease", This))
          <5>1. Deferred => ~Has("validator_lease", This)
            BY <1>0 DEF InOrder, Deferred, Deferring
          <5>2. Lease("validator", This) \in Stored <=> Has("validator_lease", This)
            BY <1>1 DEF Lease
          <5>3. pc' = "assessment" =>
                  \/ Deferred /\ call'.result = "deferred"
                  \/ Lease("validator", This) \in Stored /\ call'.result = "unavailable"
            BY <1>0, <3>6 DEF Advise, Goto, CallOK
          <5> QED BY <5>1, <5>2, <5>3
        <4> QED BY <4>1, <4>2, <4>3, <4>4, <4>5 DEF Has, Deferring
      <3>7. CASE ClaimValidator
        BY <1>0, <1>1, <3>7, AtWork DEF ClaimValidator, Goto
      <3>8. CASE CallValidator
        <4>1. runtime' = runtime /\ Has("validator_lease", This) /\ Has("engineer", This)
          BY <1>0, <3>8, AtWork DEF CallValidator, durable, ValidatorOnce, Lease, Has
        <4>2. pc' = "assessment" /\ call'.result # "deferred"
          BY <1>0, <3>8 DEF CallValidator, CallOK
        <4> QED BY <4>1, <4>2 DEF Has
      <3>9. CASE StoreAssessment
        BY <1>0, <1>1, <3>9, AtWork DEF StoreAssessment, Goto, StoreRuntime, Has
      <3> QED BY <2>2, <3>1, <3>2, <3>3, <3>4, <3>5, <3>6, <3>7, <3>8, <3>9 DEF InsideNode
    <2> QED BY <1>0, <1>2, <2>1, <2>2, NodeSteps
  <1>3. pc' \in (EngineerPcs \cup ValidatorPcs) \ RoleNodes => This' = This
    BY <1>0, NodeSteps
  <1> QED BY <1>2, <1>3 DEF Prepared, Has, Deferring

(* Checkpoints tell of what was stored. *)
LEMMA BackedStep == ASSUME EvidenceInv, Roles, [Next]_vars PROVE Backed'
  <1>0. /\ Control /\ Leases /\ TypeOK /\ Copied /\ CallOK /\ runtime \subseteq runtime' /\ InOrder
        /\ Prepared /\ Backed /\ This \in {1, 2} /\ This \in Attempts /\ EngineerOnce
        /\ Current \in KnownCheckpoints /\ Current \in Checkpoint /\ This = Current.attempt
        /\ Flow!Sound(Current)
    BY AtWork, StorageGrows DEF Roles, Leases
  <1>1. \A n \in Attempts : Has("engineer", n) => outcome'[n] = outcome[n]
    BY <1>0, ContentsStay DEF Stored, Has
  <1>2. ASSUME NEW s \in KnownCheckpoints
        PROVE  /\ s.next = "validator" => outcome'[s.attempt] = "change"
               /\ s.intervention => outcome'[s.attempt] = "intervention"
               /\ s.report # None => Has("validator", s.report.attempt)'
    <2>1. s \in Checkpoint /\ s.attempt \in Attempts /\ Flow!Sound(s)
      BY <1>0, KnownIsSound DEF Checkpoint
    <2>2. s.next = "validator" \/ s.intervention => Approves(s) /\ s.next # "engineer"
      BY <2>1 DEF Flow!Sound, Flow!Approved, Flow!Progress, Flow!RoleNodes, Approves
    <2>3. s.next = "validator" \/ s.intervention => outcome'[s.attempt] = outcome[s.attempt]
      BY <1>1, <2>1, <2>2 DEF EvidenceInv, Evidenced, Approves, Has
    <2> QED BY <1>0, <2>3 DEF Backed, Has
  <1>3. ASSUME NEW s, Becomes(Current, s)
        PROVE  /\ s.next = "validator" => outcome'[s.attempt] = "change"
               /\ s.intervention =>
                    /\ outcome'[s.attempt] = "intervention" /\ s.status = "decision_required"
                    /\ s.next \in {"decision_required", "end"}
               /\ s.report # None => Has("validator", s.report.attempt)'
               /\ s.failed => s.next \in RoleNodes
               /\ Approves(s) /\ s.next \notin RoleNodes /\ ~s.intervention =>
                    s.next = "end" /\ s.status = "completed" /\ s.report.attempt = s.attempt
    <2> USE <1>0
    <2>1. CASE pc = "invoke"
      <3>1. CASE /\ s = AfterApproval(Current, call.decision) /\ Current.next = "approval_gate"
                 /\ call.attempt = 1
        <4>1. Current.report = None /\ ~Current.intervention
          BY <3>1 DEF Flow!Sound, Flow!FreshPlan
        <4>2. call.decision \in Approvals
          BY <2>1, <3>1 DEF CallOK, Deciding, Decisions
        <4>3. /\ s.approval = call.decision /\ s.report = None /\ ~s.intervention /\ ~s.failed
              /\ s.next # "validator"
              /\ call.decision.selection = "approve" => s.next = "engineer"
          BY <3>1, <4>1, <4>2 DEF AfterApproval, Checkpoint, Approvals, Selections
        <4> QED BY <4>3 DEF Approves, RoleNodes
      <3>2. CASE s = AfterRetryAuthorized(Current, call.decision) /\ RetryOffered(Current)
        <4>1. s.report = Current.report /\ s.intervention = Current.intervention /\ ~s.failed
              /\ s.next = "engineer" /\ s.attempt = 2
          BY <3>2 DEF AfterRetryAuthorized, Checkpoint
        <4>2. ~Current.intervention
          BY <3>2 DEF RetryOffered, RetryEvidence, ReportMatches, Flow!Sound, Flow!Progress, Checkpoint
        <4> QED BY <1>2, <4>1, <4>2 DEF RoleNodes
      <3> QED BY <1>3, <2>1, <3>1, <3>2 DEF Becomes
    <2>2. CASE pc = "engineered"
      <3>1. /\ s = IF outcome[This] = "change" THEN AfterChange(Current) ELSE AfterIntervention(Current)
            /\ Current.next = "engineer"
        BY <1>3, <2>2 DEF Becomes
      <3>2. Has("engineer", This) /\ outcome[This] \in {"change", "intervention"}
        <4>1. Has("engineer", This)
          BY <2>2 DEF EngineerOnce, Has
        <4>2. outcome[This] # "none"
          BY <4>1 DEF InOrder
        <4>3. outcome[This] \in {"none", "change", "intervention"}
          BY DEF TypeOK
        <4> QED BY <4>1, <4>2, <4>3
      <3>3. outcome'[This] = outcome[This] /\ ~Current.intervention
        BY <1>1, <3>1, <3>2 DEF Flow!Sound, Flow!Progress, Flow!RoleNodes
      <3>4. /\ s.report = Current.report /\ ~s.failed /\ s.attempt = This
            /\ outcome[This] = "change" => s.next = "validator" /\ ~s.intervention
            /\ outcome[This] # "change" =>
                 s.next = "decision_required" /\ s.intervention /\ s.status = "decision_required"
        BY <3>1, <3>3 DEF AfterChange, AfterIntervention, Checkpoint
      <3> QED BY <1>2, <3>2, <3>3, <3>4 DEF RoleNodes
    <2>3. CASE pc = "validated"
      <3>1. s = AfterReport(Current, [attempt |-> This, verdict |-> verdict[This]])
            /\ Current.next = "validator" /\ ~Current.intervention
        BY <1>3, <2>3 DEF Becomes, Flow!Sound, Flow!Progress, Flow!RoleNodes
      <3>2. /\ s.next = "end" /\ s.status = "completed" /\ s.report.attempt = This /\ ~s.failed
            /\ s.attempt = This /\ ~s.intervention
        BY <3>1 DEF AfterReport, Checkpoint
      <3>3. <<"validator", This>> \in runtime'
        BY <2>3 DEF Prepared, Has
      <3> QED BY <3>2, <3>3 DEF Has
    <2>4. CASE pc = "loop"
      <3>1. s = AfterTerminalNode(Current) /\ Current.next \in TerminalNodes
        BY <1>3, <2>4 DEF Becomes
      <3>2. /\ s.next = "end" /\ s.status = Current.next /\ s.report = Current.report /\ ~s.failed
            /\ s.attempt = This /\ s.intervention = Current.intervention /\ s.approval = Current.approval
        BY <3>1 DEF AfterTerminalNode, Checkpoint
      <3>3. Current.intervention => Current.next = "decision_required"
        BY <3>1 DEF Backed, TerminalNodes
      <3>4. ~(Approves(Current) /\ ~Current.intervention)
        BY <3>1 DEF Backed, TerminalNodes, RoleNodes
      <3> QED BY <1>2, <3>2, <3>3, <3>4 DEF Approves
    <2>5. CASE pc = "raise"
      <3>1. s = [Current EXCEPT !.failed = TRUE]
        BY <1>3, <2>5 DEF Becomes
      <3>2. Working
        BY <2>5 DEF Working
      <3>3. Current.approval # None /\ Current.next \in {"architect"} \cup RoleNodes
        BY <2>5, <3>2, FlowFacts DEF EvidenceInv, RunInv, Stage, Works
      <3>4. Current.next \in RoleNodes
        BY <3>3 DEF Flow!Sound, Flow!FreshPlan
      <3>5. /\ s.next = Current.next /\ s.attempt = This /\ s.intervention = Current.intervention
            /\ s.report = Current.report
        BY <3>1 DEF Checkpoint
      <3>6. ~Current.intervention
        BY <3>4 DEF Flow!Sound, Flow!Progress, Flow!RoleNodes, RoleNodes
      <3> QED BY <1>2, <3>4, <3>5, <3>6
    <2> QED BY <1>3, <2>1, <2>2, <2>3, <2>4, <2>5 DEF Becomes
  <1>4. ASSUME NEW s \in KnownCheckpoints
        PROVE  /\ s.intervention =>
                    s.status = "decision_required" /\ s.next \in {"decision_required", "end"}
               /\ s.failed => s.next \in RoleNodes
               /\ Approves(s) /\ s.next \notin RoleNodes /\ ~s.intervention =>
                    s.next = "end" /\ s.status = "completed" /\ s.report.attempt = s.attempt
    BY <1>0 DEF Backed
  <1> QED BY <1>0, <1>2, <1>3, <1>4, KnownSteps DEF Backed


(* Only the planned checkpoint is undecided, and attempt one rests where   *)
(* it was closed.                                                          *)
LEMMA FreshStep == ASSUME EvidenceInv, Roles, [Next]_vars PROVE Fresh'
  <1>0. /\ Control /\ Leases /\ Stage /\ Fresh /\ CallOK /\ Current \in KnownCheckpoints
        /\ Current.attempt \in Attempts /\ call.attempt \in Attempts /\ Works /\ Chain /\ Decides
        /\ KnownCheckpoints = {ckpt} \cup {queue[i] : i \in 1..Len(queue)}
    BY AtWork DEF EvidenceInv, RunInv, Roles, Stage, CallOK, KnownCheckpoints
  <1>1. pc \in {"engineered", "validated", "loop", "raise"} => Working /\ pc # "invoke"
    BY DEF Working, RunningPcs, RolePcs
  <1>2. \A k \in anchors : frozen'[k] = frozen[k] /\ k \in Kinds
    BY <1>0, ContentsStay DEF Chain, Frozen, Control, TypeOK
  <1>3. ASSUME NEW s, Becomes(Current, s), s.approval = None PROVE FALSE
    <2>1. s.approval = IF pc = "invoke" /\ call.attempt = 1 THEN call.decision ELSE Current.approval
      BY <1>0, <1>3, BecomesKeeps
    <2>2. CASE pc = "invoke"
      <3>1. call.decision \in Decisions(call.attempt) /\ Current = ckpt
        BY <1>0, <2>2, WhereIs DEF CallOK, Deciding, Working, Ending, RunningPcs, RolePcs, FreezePcs
      <3>2. call.attempt # 1
        <4> SUFFICES ASSUME call.attempt = 1 PROVE FALSE
          OBVIOUS
        <4>1. call.decision \in Approvals
          BY <3>1 DEF Decisions
        <4> QED BY <1>3, <2>1, <2>2, <4>1
      <3>3. Current = PlannedCheckpoint /\ RetryOffered(Current)
        BY <1>0, <1>3, <2>1, <2>2, <3>2 DEF Fresh, Becomes
      <3> QED BY <3>3 DEF RetryOffered, PlannedCheckpoint, StartedCheckpoint
    <2>3. CASE pc # "invoke"
      <3>1. Working
        BY <1>1, <1>3, <2>3 DEF Becomes
      <3> QED BY <1>0, <1>3, <2>1, <2>3, <3>1 DEF Works
    <2> QED BY <2>2, <2>3
  <1>4. ASSUME NEW s, Becomes(Current, s), "resumed" \in anchors, s.attempt = 1 PROVE FALSE
    <2>1. s.attempt = IF pc = "invoke" /\ call.attempt = 2 THEN 2 ELSE Current.attempt
      BY <1>0, <1>4, BecomesKeeps
    <2>2. CASE pc = "invoke"
      <3>1. /\ Current.attempt = 1 /\ Current.next = "approval_gate"
        BY <1>4, <2>1, <2>2 DEF Becomes
      <3>2. Current.next = "end"
        BY <1>0, <1>4, <3>1 DEF Fresh, Chain, SuccessKind, Attempts
      <3> QED BY <3>1, <3>2
    <2>3. CASE pc # "invoke"
      <3>1. Working
        BY <1>1, <1>4, <2>3 DEF Becomes
      <3> QED BY <1>0, <1>4, <2>1, <2>3, <3>1 DEF Works, SuccessKind
    <2> QED BY <2>2, <2>3
  <1>5. ASSUME NEW s \in KnownCheckpoints', s.approval = None PROVE s = PlannedCheckpoint
    BY <1>0, <1>3, <1>5, KnownSteps DEF Fresh
  <1>6. ASSUME NEW s \in KnownCheckpoints', "resumed" \in anchors', s.attempt = 1
        PROVE  s = frozen'["resumed"]
    <2>1. CASE "resumed" \in anchors
      BY <1>0, <1>2, <1>4, <1>6, <2>1, KnownSteps DEF Fresh
    <2>2. CASE "resumed" \notin anchors
      <3>1. BindAnchor
        BY <1>6, <2>2, Frames
      <3>2. /\ call.kind = "resumed" /\ UNCHANGED <<ckpt, queue, frozen>>
            /\ frozen["resumed"] = ckpt /\ queue = <<>>
        BY <1>0, <1>6, <2>2, <3>1, NewAnchor
      <3>3. KnownCheckpoints' = {ckpt}
        BY <3>2 DEF KnownCheckpoints
      <3> QED BY <1>6, <3>2, <3>3
    <2> QED BY <2>1, <2>2
  <1> QED BY <1>5, <1>6 DEF Fresh

(* Roles keep to it in every run. *)
LEMMA RolesStep == ASSUME EvidenceInv, Roles, [Next]_vars PROVE Roles'
  BY InOrderStep, PreparedStep, BackedStep, FreshStep DEF Roles

(* A planned run has no artifact of a role. *)
LEMMA InitRoles == Init => Roles
  <1> SUFFICES ASSUME Init PROVE Roles
    OBVIOUS
  <1>1. /\ runtime = {} /\ pc = "idle" /\ ckpt = PlannedCheckpoint /\ queue = <<>>
        /\ anchors = {"planned"}
    BY DEF Init
  <1>2. InOrder
    BY <1>1 DEF InOrder, Has, Artifacts
  <1>3. Prepared
    BY <1>1 DEF Prepared, ValidatorPcs
  <1>4. KnownCheckpoints = {PlannedCheckpoint}
    BY <1>1 DEF KnownCheckpoints
  <1>5. /\ PlannedCheckpoint.next = "approval_gate" /\ ~PlannedCheckpoint.intervention
        /\ PlannedCheckpoint.report = None /\ ~PlannedCheckpoint.failed
        /\ PlannedCheckpoint.approval = None
    BY DEF PlannedCheckpoint, StartedCheckpoint
  <1>6. Fresh
    BY <1>1, <1>4 DEF Fresh
  <1> QED BY <1>2, <1>3, <1>4, <1>5, <1>6 DEF Roles, Backed, Approves

-----------------------------------------------------------------------------
(* Whoever was called has answered when its attempt is closed.             *)

HasAssessed ==
  \A n \in Attempts :
    SuccessKind(n) \in anchors /\ dispatched["validator"][n] > 0 => Has("validator", n)

(* A terminal checkpoint of an attempt whose Validator was called reports,  *)
(* and its node reports only when the assessment is stored.                *)
LEMMA HasAssessedStep == ASSUME EvidenceInv, Roles, HasAssessed, [Next]_vars PROVE HasAssessed'
  <1>0. /\ Control /\ Leases /\ TypeOK /\ Copied /\ Stage /\ Chain /\ Freezes /\ Works
        /\ runtime \subseteq runtime' /\ This \in Attempts /\ InOrder /\ Backed /\ "validator" \in RoleNodes
    BY StorageGrows, TheseFiles DEF EvidenceInv, RunInv, Control, Leases, Stage, Roles, RoleNodes
  <1>1. ASSUME NEW n \in Attempts, SuccessKind(n) \in anchors, dispatched'["validator"][n] > 0
        PROVE  Has("validator", n)
    <2>1. CASE UNCHANGED dispatched
      BY <1>1, <2>1 DEF HasAssessed
    <2>2. CASE CallEngineer \/ CallValidator
      <3>1. n # This
        BY <1>0, <1>1, <2>2 DEF CallEngineer, CallValidator, Working, RunningPcs, RolePcs, Works, This
      <3>2. PICK role \in RoleNodes : Dispatch(role)
        BY <2>2 DEF CallEngineer, CallValidator, RoleNodes
      <3>3. dispatched'["validator"][n] = dispatched["validator"][n]
        BY <1>0, <3>1, <3>2, DispatchCounts DEF TypeOK
      <3> QED BY <1>1, <3>3 DEF HasAssessed
    <2> QED BY <2>1, <2>2, Frames
  <1>2. ASSUME NEW n \in Attempts, SuccessKind(n) \in anchors', SuccessKind(n) \notin anchors,
               dispatched'["validator"][n] > 0
        PROVE  Has("validator", n)
    <2>1. BindAnchor /\ call.kind = SuccessKind(n)
      BY <1>2, Frames DEF BindAnchor
    <2>2. call.attempt = n /\ call.kind # AuthorizedKind(call.attempt)
      BY <1>0, <2>1, NewAnchor, WhereIs DEF SuccessKind, AuthorizedKind, Attempts
    <2>3. /\ UNCHANGED dispatched /\ ckpt.next = "end" /\ ckpt.attempt = n /\ Current = ckpt /\ Working
      BY <1>0, <2>1, <2>2, NewAnchor, CurrentInFlight DEF BindAnchor
    <2>4. ckpt \in KnownCheckpoints
      BY DEF KnownCheckpoints
    <2>5. dispatched["validator"][n] > 0
      BY <1>2, <2>3
    <2>6. ckpt.approval # None /\ ckpt.approval = consent[1]
      BY <2>3, <2>4 DEF Works, Stage, EvidenceInv, RunInv, DecisionInv, Consumed
    <2>7. Approves(ckpt)
      BY <1>0, <2>5, <2>6 DEF EvidenceInv, DispatchAuthorized, Approves
    <2>8. Has("report", n)
      BY <1>0, <2>5 DEF Leases, Leased, Has
    <2>9. ~ckpt.intervention
      BY <1>0, <2>3, <2>4, <2>8 DEF InOrder, Backed
    <2>10. ckpt.status = "completed" /\ ckpt.report.attempt = n
      BY <1>0, <2>3, <2>4, <2>7, <2>9 DEF Backed, RoleNodes
    <2>11. Flow!Sound(ckpt)
      BY <1>0, <2>4, KnownIsSound
    <2>12. ckpt.report # None
      BY <2>3, <2>10, <2>11 DEF Flow!Sound, Flow!ReportMatches
    <2> QED BY <1>0, <2>4, <2>10, <2>12 DEF Backed
  <1> QED BY <1>0, <1>1, <1>2 DEF HasAssessed, Has

(* Once an attempt is closed, every provider call made for it is on the    *)
(* closing record: its lease, and the outcome of the role that was called, *)
(* which only a run that failed may have to do without.                    *)
(* (_freeze_operation_evidence promotes before it indexes)                 *)
THEOREM CallsAccounted == Spec => []CallsAreAccountedFor
  <1>1. Init => Roles /\ HasAssessed
    <2>1. Init => HasAssessed
      BY KindsDiffer DEF Init, HasAssessed
    <2> QED BY <2>1, InitRoles
  <1>2. EvidenceInv /\ Roles /\ HasAssessed /\ [Next]_vars => Roles' /\ HasAssessed'
    BY RolesStep, HasAssessedStep
  <1>3. EvidenceInv /\ HasAssessed => CallsAreAccountedFor
    <2> SUFFICES ASSUME EvidenceInv, HasAssessed, NEW n \in Attempts, NEW r \in RoleNodes,
                        NEW k \in Closing(n), dispatched[r][n] > 0
                 PROVE  /\ Lease(r, n) \in index[k]
                        /\ k # "failed" \/ Outcome(r, n) \in runtime => Outcome(r, n) \in index[k]
      BY DEF CallsAreAccountedFor
    <2>1. Lease(r, n) \in runtime
      BY DEF EvidenceInv, RunInv, Leases, Leased
    <2>2. Lease(r, n)[2] = n /\ Outcome(r, n)[2] = n
      BY DEF Lease, Outcome
    <2>3. CASE k = "failed"
      BY <2>1, <2>3 DEF EvidenceInv, Closed, Closing
    <2>4. CASE k # "failed"
      <3>1. k = SuccessKind(n) /\ k \in anchors
        BY <2>4 DEF Closing
      <3>2. \A f \in runtime : f[2] = n => f \in index[k]
        BY <3>1 DEF EvidenceInv, Closed
      <3>3. r = "engineer" => <<"engineer", n>> \in runtime
        BY <3>1 DEF EvidenceInv, Closed
      <3>4. r = "validator" => <<"validator", n>> \in runtime
        BY <3>1 DEF HasAssessed, Has
      <3>5. Outcome(r, n) \in runtime
        BY <3>3, <3>4 DEF RoleNodes, Outcome
      <3> QED BY <2>1, <2>2, <3>2, <3>5
    <2> QED BY <2>3, <2>4
  <1> QED BY <1>1, <1>2, <1>3, EvidenceInvariance, PTL DEF Spec

-----------------------------------------------------------------------------
(* Where a run is, and what is written there.                              *)

(* The era a file belongs to. *)
LEMMA EraOf ==
  /\ \A n \in Attempts :
       /\ \A f \in DOMAIN Rank \cup {"decision"} : Era(<<f, n>>) = Age[SuccessKind(n)]
       /\ Era(<<"approval", n>>) = Age[AuthorizedKind(n)]
       /\ Era(<<"failure", n>>) = 6
  /\ \A k \in Kinds : \A f \in FreezeFiles(k) : Era(f) = Age[k]
  /\ Era(<<"plan", 0>>) = 1
  /\ Age["planned"] = 1 /\ Age["manifest_authorized"] = 2 /\ Age["resumed"] = 3
  /\ Age["correction_authorized"] = 4 /\ Age["retried"] = 5 /\ Age["failed"] = 6
  /\ \A k \in Kinds : Age[k] \in 1..6
  <1>1. DOMAIN Rank = {"correction_request", "correction_wiki", "engineer", "engineer_correction",
                       "engineer_lease", "report", "validator", "validator_lease"}
    BY DEF Rank
  <1>2. ASSUME NEW k \in Kinds, NEW f \in FreezeFiles(k) PROVE Era(f) = Age[k]
    BY <1>1, <1>2 DEF Era, FreezeFiles
  <1>3. ASSUME NEW n \in Attempts, NEW f \in DOMAIN Rank \cup {"decision"}
        PROVE  Era(<<f, n>>) = Age[SuccessKind(n)]
    BY <1>1, <1>3 DEF Era
  <1>4. /\ Age["planned"] = 1 /\ Age["manifest_authorized"] = 2 /\ Age["resumed"] = 3
        /\ Age["correction_authorized"] = 4 /\ Age["retried"] = 5 /\ Age["failed"] = 6
        /\ \A k \in Kinds : Age[k] \in 1..6
    BY DEF Age, Kinds
  <1>5. \A n \in Attempts :
       /\ Era(<<"approval", n>>) = Age[AuthorizedKind(n)]
       /\ Era(<<"failure", n>>) = 6
    BY <1>1, <1>4 DEF Era
  <1>6. Era(<<"plan", 0>>) = 1
    BY <1>1, <1>4 DEF Era
  <1> QED BY <1>2, <1>3, <1>4, <1>5, <1>6

(* Files of the portable tree have an era. *)
LEMMA ErasAreNumbers == \A f \in Files : Era(f) \in 1..6
  <1> SUFFICES ASSUME NEW f \in Files PROVE Era(f) \in 1..6
    OBVIOUS
  <1>1. CASE f \in ModelFiles
    <2>1. PICK g \in DOMAIN Rank, n \in Attempts : f = <<g, n>>
      BY <1>1 DEF ModelFiles
    <2> QED BY <2>1, EraOf, KindsDiffer
  <1>2. CASE f \in {"approval", "decision", "failure"} \X Attempts
    <2>1. PICK g \in {"approval", "decision", "failure"}, n \in Attempts : f = <<g, n>>
      BY <1>2
    <2>2. Era(f) \in {Age[AuthorizedKind(n)], Age[SuccessKind(n)], 6}
      BY <2>1, EraOf
    <2>3. AuthorizedKind(n) \in Kinds /\ SuccessKind(n) \in Kinds
      BY KindsDiffer
    <2>4. 6 \in 1..6
      OBVIOUS
    <2>5. Age[AuthorizedKind(n)] \in 1..6 /\ Age[SuccessKind(n)] \in 1..6
      BY <2>3, EraOf
    <2> QED BY <2>2, <2>4, <2>5
  <1>3. CASE f \in {"status", "workflow", "checkpoint", "index"} \X Kinds
    <2>1. PICK g \in {"status", "workflow", "checkpoint", "index"}, k \in Kinds : f = <<g, k>>
      BY <1>3
    <2> QED BY <2>1, EraOf DEF FreezeFiles
  <1>4. CASE f = <<"plan", 0>>
    BY <1>4, EraOf
  <1> QED BY <1>1, <1>2, <1>3, <1>4 DEF Files

(* The latest lifecycle is the one before the decision awaited, or the     *)
(* authorization under which the run is open, or the one that ended it.    *)
LEMMA StageOf ==
  ASSUME EvidenceInv
  PROVE  /\ LatestKind \in anchors /\ LatestKind \in Kinds /\ anchors \subseteq Kinds
         /\ \A j \in anchors : Age[j] <= Age[LatestKind]
         /\ \A n \in Attempts : Waiting(n) => LatestKind = BaseKind(n)
         /\ \A n \in Attempts : Open(n) => LatestKind = AuthorizedKind(n)
         /\ "failed" \in anchors => LatestKind = "failed"
         /\ "retried" \in anchors /\ "failed" \notin anchors => LatestKind = "retried"
         /\ \/ \E n \in Attempts : Waiting(n) \/ Open(n)
            \/ LatestKind \in {"retried", "failed"}
         /\ Working => Open(call.attempt)
         /\ Deciding => Waiting(call.attempt) \/ AuthorizedKind(call.attempt) \in anchors
         /\ "correction_authorized" \in anchors => "resumed" \in anchors
         /\ "resumed" \in anchors => "manifest_authorized" \in anchors
         /\ "retried" \in anchors => "correction_authorized" \in anchors
  <1>1. /\ Control /\ TypeOK /\ Chain /\ Decides /\ Works /\ anchors \subseteq Kinds
        /\ "planned" \in anchors /\ call.attempt \in {1, 2}
        /\ pc = "idle" => ~Working /\ ~Deciding
    BY WhereIs DEF EvidenceInv, RunInv, Stage, Control, TypeOK, Attempts
  <1>2. /\ "correction_authorized" \in anchors => "resumed" \in anchors
        /\ "resumed" \in anchors => "manifest_authorized" \in anchors
        /\ "retried" \in anchors => "correction_authorized" \in anchors
        /\ "failed" \in anchors => "manifest_authorized" \in anchors /\ pc = "idle"
    BY <1>1 DEF Chain, Offered
  <1>3. /\ LatestKind \in anchors /\ LatestKind \in Kinds
        /\ \A j \in anchors : Age[j] <= Age[LatestKind]
    BY <1>1, LatestIsAnchored
  <1>4. Kinds = {"planned", "manifest_authorized", "resumed", "correction_authorized", "retried",
                 "failed"}
    BY DEF Kinds, Age
  <1>5. \A k \in anchors : (\A j \in anchors : Age[j] <= Age[k]) => LatestKind = k
    BY <1>1, LatestIs
  <1>6. "failed" \in anchors => LatestKind = "failed"
    BY <1>1, <1>4, <1>5, EraOf
  <1>7. "retried" \in anchors /\ "failed" \notin anchors => LatestKind = "retried"
    BY <1>1, <1>4, <1>5, EraOf
  <1>8. {"retried", "failed"} \cap anchors = {} /\ "correction_authorized" \in anchors =>
          LatestKind = "correction_authorized"
    BY <1>1, <1>4, <1>5, EraOf
  <1>9. /\ {"retried", "failed", "correction_authorized"} \cap anchors = {} /\ "resumed" \in anchors
        => LatestKind = "resumed"
    BY <1>1, <1>4, <1>5, EraOf
  <1>10. /\ {"retried", "failed", "correction_authorized", "resumed"} \cap anchors = {}
         /\ "manifest_authorized" \in anchors
         => LatestKind = "manifest_authorized"
    <2>1. SUFFICES ASSUME {"retried", "failed", "correction_authorized", "resumed"} \cap anchors = {},
                          "manifest_authorized" \in anchors
                   PROVE  LatestKind = "manifest_authorized"
      OBVIOUS
    <2>2. \A j \in anchors : j \in {"planned", "manifest_authorized"}
      BY <1>1, <1>4, <2>1
    <2> QED BY <1>5, <2>1, <2>2, EraOf
  <1>11. /\ {"retried", "failed", "correction_authorized", "resumed", "manifest_authorized"}
              \cap anchors = {}
         => LatestKind = "planned"
    <2>1. SUFFICES ASSUME {"retried", "failed", "correction_authorized", "resumed",
                           "manifest_authorized"} \cap anchors = {}
                   PROVE  LatestKind = "planned"
      OBVIOUS
    <2>2. \A j \in anchors : j = "planned"
      BY <1>1, <1>4, <2>1
    <2> QED BY <1>1, <1>5, <2>2, EraOf
  <1> USE DEF Waiting, Open, Closing, BaseKind, AuthorizedKind, SuccessKind, Attempts
  <1>12. \A n \in Attempts : Waiting(n) => LatestKind = BaseKind(n)
    BY <1>2, <1>9, <1>11
  <1>13. \A n \in Attempts : Open(n) => LatestKind = AuthorizedKind(n)
    BY <1>2, <1>8, <1>10
  <1>14. \/ \E n \in Attempts : Waiting(n) \/ Open(n)
         \/ LatestKind \in {"retried", "failed"}
    <2>1. CASE "failed" \in anchors
      BY <1>6, <2>1
    <2>2. CASE "failed" \notin anchors /\ "retried" \in anchors
      BY <1>7, <2>2
    <2>3. CASE {"failed", "retried"} \cap anchors = {} /\ "correction_authorized" \in anchors
      <3>1. Open(2)
        BY <2>3
      <3> QED BY <3>1
    <2>4. CASE {"failed", "correction_authorized"} \cap anchors = {} /\ "resumed" \in anchors
      <3>1. Waiting(2)
        BY <2>4
      <3> QED BY <3>1
    <2>5. CASE {"failed", "resumed"} \cap anchors = {} /\ "manifest_authorized" \in anchors
      <3>1. Open(1)
        BY <2>5
      <3> QED BY <3>1
    <2>6. CASE {"failed", "manifest_authorized"} \cap anchors = {}
      <3>1. Waiting(1)
        BY <1>1, <2>6
      <3> QED BY <3>1
    <2> QED BY <1>2, <2>1, <2>2, <2>3, <2>4, <2>5, <2>6
  <1>15. Working => Open(call.attempt)
    BY <1>1, <1>2 DEF Works
  <1>16. Deciding => Waiting(call.attempt) \/ AuthorizedKind(call.attempt) \in anchors
    BY <1>1, <1>2 DEF Decides, Offered
  <1> QED BY <1>1, <1>2, <1>3, <1>6, <1>7, <1>12, <1>13, <1>14, <1>15, <1>16

(* A run waits for one decision or is open under one, not both. *)
LEMMA OneStage ==
  ASSUME EvidenceInv, NEW n \in Attempts, NEW m \in Attempts
  PROVE  /\ Waiting(n) /\ Waiting(m) => n = m
         /\ Open(n) /\ Open(m) => n = m
         /\ ~(Waiting(n) /\ Open(m))
  BY StageOf DEF BaseKind, AuthorizedKind, Attempts

-----------------------------------------------------------------------------
(* What every operation finds.                                             *)

(* What a run without a cut-off write satisfies, by name. *)
LEMMA Found ==
  ASSUME Tidy
  PROVE  /\ EvidenceInv /\ RunInv /\ Control /\ Leases /\ DecisionInv /\ Stage /\ Evidenced /\ Closed
         /\ Roles /\ InOrder /\ Indexed /\ Ahead /\ Sequenced /\ Pending /\ Failing /\ Concluding
         /\ TypeOK /\ CallOK /\ Copied /\ Chain /\ Rest /\ Decides /\ Works /\ Freezes /\ Filed
         /\ portable \subseteq Files /\ runtime \subseteq ModelFiles /\ call.attempt \in Attempts
         /\ \A k \in anchors : Frozen(k)
  BY DEF Tidy, Tree, Roles, EvidenceInv, RunInv, Control, Leases, DecisionInv, Stage, TypeOK, Chain,
         Stored

(* A run that awaits a decision takes up that decision only.               *)
LEMMA DecidesFor ==
  ASSUME Tidy, NEW n \in Attempts, Waiting(n), Deciding
  PROVE  call.attempt = n /\ pc # "invoke"
  <1>1. /\ Decides /\ Rest /\ Chain /\ Bound /\ call.attempt \in {1, 2} /\ n \in {1, 2}
    BY Found DEF DecisionInv, Attempts
  <1>2. "correction_authorized" \in anchors => "resumed" \in anchors
    BY <1>1 DEF Chain, Offered
  <1>3. call.attempt = n
    BY <1>1 DEF Waiting, Decides, Rest, Chain, Offered, BaseKind, AuthorizedKind, SuccessKind, Attempts
  <1> QED BY <1>1, <1>3 DEF Bound, Waiting

(* A decision that was anchored is on file, with everything frozen for it. *)
LEMMA AuthorizationIsFiled ==
  ASSUME Sequenced, NEW n \in Attempts, <<"index", AuthorizedKind(n)>> \in portable
  PROVE  AuthorizationFiles(n) \subseteq portable
  <1>1. AuthorizedKind(n) \in Kinds
    BY KindsDiffer
  <1> QED BY <1>1 DEF Sequenced, AuthorizationFiles, FreezeFiles

(* The artifacts of an attempt belong to the stage it is open in. *)
LEMMA ArtifactsOf ==
  ASSUME Tidy
  PROVE  /\ \A n \in Attempts : Open(n) =>
              /\ Unbound = Artifacts(n)
              /\ \A f \in Artifacts(n) : f \notin index[LatestKind] /\ Era(f) = Age[SuccessKind(n)]
              /\ \A f \in runtime : f \notin portable => f \in Artifacts(n)
         /\ (\A n \in Attempts : ~Open(n)) => Unbound = {} /\ runtime \subseteq portable
  <1>0. /\ Closed /\ Indexed /\ InOrder /\ Chain /\ runtime \subseteq ModelFiles
        /\ \A k \in anchors : k \in Kinds /\ <<"index", k>> \in portable
    BY Found, StageOf DEF Frozen
  <1>1. ASSUME NEW f \in runtime
        PROVE  \E n \in Attempts :
                 /\ f[2] = n /\ f \in Artifacts(n) /\ AuthorizedKind(n) \in anchors
                 /\ Era(f) = Age[SuccessKind(n)] /\ \A k \in Kinds : f # <<"index", k>>
    <2>1. PICK g \in DOMAIN Rank, n \in Attempts : f = <<g, n>>
      BY <1>0 DEF ModelFiles
    <2>2. f \in Artifacts(n) /\ AuthorizedKind(n) \in anchors
      BY <1>0, <1>1, <2>1 DEF Artifacts, InOrder
    <2>3. Era(f) = Age[SuccessKind(n)]
      BY <2>1, EraOf
    <2>4. g # "index"
      BY DEF Rank
    <2> QED BY <2>1, <2>2, <2>3, <2>4
  <1>2. ASSUME NEW f \in runtime, SuccessKind(f[2]) \in anchors
        PROVE  f \in portable /\ f \in index[LatestKind]
    <2>1. PICK n \in Attempts : f[2] = n /\ Era(f) = Age[SuccessKind(n)]
                                /\ \A k \in Kinds : f # <<"index", k>>
      BY <1>1
    <2>2. f \in index[SuccessKind(n)] /\ SuccessKind(n) \in Kinds
      BY <1>0, <1>2, <2>1 DEF Closed
    <2>3. f \in portable
      BY <1>0, <1>2, <2>1, <2>2 DEF Indexed
    <2>4. Era(f) <= Age[LatestKind] /\ LatestKind \in Kinds
      BY <1>2, <2>1, StageOf, Found
    <2> QED BY <1>0, <2>1, <2>3, <2>4 DEF Indexed
  <1>3. ASSUME NEW n \in Attempts, Open(n)
        PROVE  /\ Unbound = Artifacts(n)
               /\ \A f \in Artifacts(n) : f \notin index[LatestKind] /\ Era(f) = Age[SuccessKind(n)]
               /\ \A f \in runtime : f \notin portable => f \in Artifacts(n)
    <2>1. LatestKind = AuthorizedKind(n) /\ AuthorizedKind(n) \in Kinds
      BY <1>3, StageOf, Found, KindsDiffer
    <2>2. Age[SuccessKind(n)] > Age[AuthorizedKind(n)]
      BY EraOf DEF SuccessKind, AuthorizedKind, Attempts
    <2>3. ASSUME NEW f \in Artifacts(n)
          PROVE  f \notin index[LatestKind] /\ Era(f) = Age[SuccessKind(n)] /\ f \in runtime
      <3>1. Era(f) = Age[SuccessKind(n)] /\ f \in runtime
        BY <1>1 DEF Artifacts
      <3>2. Age[SuccessKind(n)] \in 1..6 /\ Age[AuthorizedKind(n)] \in 1..6
        BY EraOf, KindsDiffer
      <3> QED BY <1>0, <2>1, <2>2, <3>1, <3>2 DEF Indexed
    <2>4. ASSUME NEW f \in runtime, f \notin Artifacts(n)
          PROVE  f \in portable /\ f \in index[LatestKind]
      <3>1. PICK m \in Attempts : f[2] = m /\ f \in Artifacts(m) /\ AuthorizedKind(m) \in anchors
        BY <1>1
      <3>2. m # n
        BY <2>4, <3>1
      <3>3. SuccessKind(m) \in anchors
        BY <1>0, <1>3, <3>1, <3>2
           DEF Chain, Offered, Open, Closing, AuthorizedKind, SuccessKind, Attempts
      <3> QED BY <1>2, <3>1, <3>3
    <2> QED BY <2>3, <2>4 DEF Unbound
  <1>4. ASSUME \A n \in Attempts : ~Open(n), NEW f \in runtime
        PROVE  f \in portable /\ f \in index[LatestKind]
    <2>1. PICK n \in Attempts : f[2] = n /\ AuthorizedKind(n) \in anchors
      BY <1>1
    <2>2. CASE SuccessKind(n) \in anchors
      BY <1>2, <2>1, <2>2
    <2>3. CASE "failed" \in anchors
      <3>1. LatestKind = "failed" /\ f \in index["failed"]
        BY <1>0, <2>3, StageOf, Found DEF Closed
      <3>2. f \in portable
        BY <1>0, <2>3, <3>1 DEF Indexed
      <3> QED BY <3>1, <3>2
    <2> QED BY <1>4, <2>1, <2>2, <2>3 DEF Open, Closing
  <1> QED BY <1>3, <1>4 DEF Unbound

-----------------------------------------------------------------------------
(* What an operation writes fits the stage the run is in.                  *)

(* A new portable file belongs to the decision being bound, or to the end  *)
(* of the attempt at work.                                                 *)
LEMMA WritesInTime ==
  ASSUME Tidy, [Next]_vars, Temporary \notin Stored', NEW f \in portable', f \notin portable
  PROVE  \/ /\ Deciding /\ Waiting(call.attempt) /\ UNCHANGED <<runtime, ckpt, anchors>>
            /\ f \in AuthorizationFiles(call.attempt) /\ Era(f) = Age[AuthorizedKind(call.attempt)]
         \/ /\ Working /\ Open(call.attempt) /\ UNCHANGED <<runtime, ckpt, anchors>>
            /\ ckpt.attempt = call.attempt
            /\ pc \notin RunningPcs \cup {"return", "raise"}
            /\ pc' \notin RunningPcs \cup {"return", "raise"}
            /\ \/ /\ pc = "promote" /\ Promote /\ f \in Artifacts(call.attempt)
                  /\ Era(f) = Age[SuccessKind(call.attempt)]
               \/ /\ pc = "decision" /\ f = <<"decision", call.attempt>> /\ ckpt.intervention
                  /\ Era(f) = Age[SuccessKind(call.attempt)]
               \/ pc = "failure" /\ f = <<"failure", call.attempt>> /\ Era(f) = 6 /\ pc' = "promote"
               \/ /\ Ending /\ pc \in FreezePcs /\ call.kind \in {SuccessKind(call.attempt), "failed"}
                  /\ f \in FreezeFiles(call.kind) /\ Era(f) = Age[call.kind]
  <1>0. /\ Control /\ TypeOK /\ CallOK /\ Works /\ Decides /\ call.attempt \in Attempts
        /\ Sequenced /\ f # Temporary /\ call.attempt \in {1, 2} /\ call.kind \in Kinds
        /\ pc \in FreezePcs \cup {"failure", "decision", "correction"} => Current = ckpt
    BY Found, WhereIs DEF Stored, CallOK, Attempts
  <1>1. f \in NextPortable
    BY <1>0, PortableWrites
  <1>2. \/ PersistApproval \/ Promote \/ WriteStatus \/ WriteProjection \/ WriteIndex
        \/ PersistFailure \/ PersistDecision
    BY <1>0, PortableSteps DEF Crash
  <1>3. UNCHANGED <<runtime, ckpt, anchors>>
    BY <1>2 DEF PersistApproval, Promote, WriteStatus, WriteProjection, WriteIndex,
                PersistFailure, PersistDecision
  <1>4. pc \in {"approval", "promote", "status", "workflow", "checkpoint", "index", "failure", "decision"}
    BY <1>2 DEF PersistApproval, Promote, WriteStatus, WriteProjection, WriteIndex,
                PersistFailure, PersistDecision
  <1>5. pc' \notin RunningPcs \cup {"return", "raise"} /\ pc \notin RunningPcs \cup {"return", "raise"}
    <2>1. Apart
      BY <1>2 DEF Apart, Authorize, Freeze
    <2> QED BY <2>1, ApartMoves
  <1>6. CASE Deciding
    <2>1. f \in AuthorizationFiles(call.attempt)
      BY <1>0, <1>1, <1>4, <1>6
         DEF NextPortable, AuthorizationFiles, FreezeFiles, Deciding, Authorizing, FreezePcs
    <2>2. AuthorizedKind(call.attempt) \notin anchors
      <3> SUFFICES ASSUME AuthorizedKind(call.attempt) \in anchors PROVE FALSE
        OBVIOUS
      <3>1. AuthorizationFiles(call.attempt) \subseteq portable
        BY <1>0, Found, AuthorizationIsFiled DEF Frozen
      <3> QED BY <2>1, <3>1
    <2>3. Waiting(call.attempt)
      BY <1>0, <1>6, <2>2, StageOf, Found
    <2>4. Era(f) = Age[AuthorizedKind(call.attempt)]
      BY <1>0, <2>1, EraOf, KindsDiffer DEF AuthorizationFiles
    <2> QED BY <1>3, <1>6, <2>1, <2>3, <2>4
  <1>7. CASE Working
    <2>1. Open(call.attempt)
      BY <1>7, StageOf, Found
    <2>2. /\ pc \in {"promote", "status", "workflow", "checkpoint", "index", "failure", "decision"}
          /\ pc \notin {"failure", "decision"} => Ending
      BY <1>4, <1>7 DEF Working, Ending, FreezePcs, RunningPcs, RolePcs
    <2>3. ckpt.attempt = call.attempt
      <3>1. Current = ckpt
        BY <1>0, <1>5, FlowFacts, CurrentInFlight
      <3> QED BY <1>0, <1>7, <3>1 DEF Works
    <2>4. CASE pc = "promote"
      <3>1. Promote
        BY <1>2, <2>4 DEF PersistApproval, WriteStatus, WriteProjection, WriteIndex,
                PersistFailure, PersistDecision
      <3>2. f \in Artifacts(call.attempt)
        BY <1>0, <1>1, <2>1, <2>4, ArtifactsOf DEF NextPortable
      <3> QED BY <1>0, <1>3, <1>5, <1>7, <2>1, <2>3, <2>4, <3>1, <3>2, ArtifactsOf
    <2>5. CASE pc = "decision"
      <3>1. f = <<"decision", call.attempt>> /\ ckpt.intervention
        BY <1>1, <2>3, <2>5 DEF NextPortable
      <3> QED BY <1>0, <1>3, <1>5, <1>7, <2>1, <2>3, <2>5, <3>1, EraOf
    <2>6. CASE pc = "failure"
      <3>1. f = <<"failure", call.attempt>> /\ pc' = "promote"
        BY <1>1, <1>2, <2>6 DEF NextPortable, PersistApproval, Promote, WriteStatus, WriteProjection,
                                WriteIndex, PersistFailure, PersistDecision, Goto
      <3> QED BY <1>0, <1>3, <1>5, <1>7, <2>1, <2>3, <2>6, <3>1, EraOf
    <2>7. CASE pc \in {"status", "workflow", "checkpoint", "index"}
      <3>1. f \in FreezeFiles(call.kind)
        BY <1>1, <2>7 DEF NextPortable, FreezeFiles
      <3>2. call.kind \in {SuccessKind(call.attempt), "failed"} /\ pc \in FreezePcs /\ Ending
        BY <1>0, <2>2, <2>7 DEF Ending, CallOK, FreezePcs
      <3>3. Era(f) = Age[call.kind]
        BY <1>0, <3>1, EraOf
      <3> QED BY <1>3, <1>5, <1>7, <2>1, <2>3, <3>1, <3>2, <3>3
    <2> QED BY <2>2, <2>4, <2>5, <2>6, <2>7
  <1> QED BY <1>0, <1>4, <1>6, <1>7, WhereIs

(* A lifecycle just anchored is the latest.                                *)
LEMMA NewLatest ==
  ASSUME Tidy, [Next]_vars, anchors' # anchors
  PROVE  /\ BindAnchor /\ anchors' = anchors \cup {call.kind} /\ call.kind \notin anchors
         /\ UNCHANGED <<portable, runtime, index, frozen, ckpt, intent, consent>>
         /\ LatestKind' = call.kind /\ call.kind \in Kinds
         /\ index[call.kind] = Inventory(call.kind) /\ frozen[call.kind] = ckpt
         /\ \/ Deciding /\ call.kind = AuthorizedKind(call.attempt) /\ Waiting(call.attempt)
            \/ Working /\ Ending /\ call.kind \in {SuccessKind(call.attempt), "failed"} /\ Open(call.attempt)
  <1>0. /\ Control /\ TypeOK /\ CallOK /\ Stage /\ call.attempt \in Attempts /\ call.kind \in Kinds
        /\ anchors \subseteq Kinds
    BY Found DEF CallOK, TypeOK
  <1>1. BindAnchor
    BY Frames
  <1>2. /\ anchors' = anchors \cup {call.kind} /\ call.kind \notin anchors
        /\ UNCHANGED <<portable, runtime, index, frozen, ckpt, intent, consent>>
    BY <1>1 DEF BindAnchor
  <1>3. index[call.kind] = Inventory(call.kind) /\ frozen[call.kind] = ckpt
    BY <1>0, <1>1 DEF Stage, Freezes, BindAnchor, FreezePcs
  <1>4. \/ Deciding /\ call.kind = AuthorizedKind(call.attempt) /\ Waiting(call.attempt)
        \/ Working /\ Ending /\ call.kind \in {SuccessKind(call.attempt), "failed"} /\ Open(call.attempt)
    <2>1. pc = "anchor" /\ (Ending => Working) /\ (call.kind # AuthorizedKind(call.attempt) => Ending)
      BY <1>1 DEF BindAnchor, Working, Ending, FreezePcs
    <2>2. CASE call.kind = AuthorizedKind(call.attempt)
      <3>1. Deciding
        BY <2>1, <2>2 DEF Deciding, Authorizing, FreezePcs
      <3> QED BY <1>2, <2>2, <3>1, StageOf, Found
    <2>3. CASE call.kind # AuthorizedKind(call.attempt)
      BY <1>0, <2>1, <2>3, StageOf, Found DEF CallOK, FreezePcs
    <2> QED BY <2>2, <2>3
  <1>5. \A j \in anchors : Age[j] <= Age[call.kind]
    <2>1. LatestKind \in Kinds /\ \A j \in anchors : Age[j] <= Age[LatestKind] /\ j \in Kinds
      BY Found, StageOf
    <2>2. Age[LatestKind] <= Age[call.kind]
      BY <1>0, <1>4, Found, StageOf, EraOf
         DEF BaseKind, AuthorizedKind, SuccessKind, Attempts
    <2>3. Age[LatestKind] \in 1..6 /\ Age[call.kind] \in 1..6 /\ \A j \in anchors : Age[j] \in 1..6
      BY <1>0, <2>1, EraOf
    <2> QED BY <2>1, <2>2, <2>3
  <1>6. LatestKind' = call.kind
    <2>1. anchors' \subseteq Kinds /\ call.kind \in anchors' /\ \A j \in anchors' : Age[j] <= Age[call.kind]
      <3>1. Age[call.kind] \in 1..6
        BY <1>0, EraOf
      <3> QED BY <1>0, <1>2, <1>5, <3>1
    <2>2. \A k \in anchors' : (\A j \in anchors' : Age[j] <= Age[k]) => k = call.kind
      <3> SUFFICES ASSUME NEW k \in anchors', \A j \in anchors' : Age[j] <= Age[k], k # call.kind PROVE FALSE
        OBVIOUS
      <3>1. Age[k] \in 1..6 /\ Age[call.kind] \in 1..6
        BY <1>0, <2>1, EraOf
      <3>2. Age[k] # Age[call.kind]
        BY <1>0, <2>1 DEF Kinds, Age
      <3> QED BY <2>1, <3>1, <3>2
    <2> QED BY <2>1, <2>2 DEF LatestKind
  <1> QED BY <1>0, <1>1, <1>2, <1>3, <1>4, <1>6

-----------------------------------------------------------------------------
(* The indexes and the files beyond them.                                  *)

(* A step without a new anchor leaves the run in its stage. *)
LEMMA StageStays ==
  ASSUME anchors' = anchors
  PROVE  /\ LatestKind' = LatestKind
         /\ \A n \in Attempts : (Open(n)' <=> Open(n)) /\ (Waiting(n)' <=> Waiting(n))
  BY DEF LatestKind, Open, Closing, Waiting

(* An index lists what was there when it was written, and the latest one   *)
(* lists all of its own time.                                              *)
LEMMA IndexedStep ==
  ASSUME Tidy, [Next]_vars, Temporary \notin Stored'
  PROVE  Indexed'
  <1>0. /\ Control /\ Leases /\ Indexed /\ Ahead /\ Failing /\ TypeOK /\ CallOK /\ portable \subseteq Files
        /\ portable \subseteq portable' /\ call.kind \in Kinds /\ call.attempt \in Attempts
        /\ LatestKind \in Kinds /\ LatestKind \in anchors /\ \A k \in anchors : Frozen(k)
    BY Found, StorageGrows, StageOf DEF CallOK
  <1>1. \A k \in Kinds : <<"index", k>> \in portable => index'[k] = index[k]
    BY <1>0, ContentsStay
  <1>2. \/ index' = index
        \/ /\ WriteIndex /\ index' = [index EXCEPT ![call.kind] = Inventory(call.kind)]
           /\ portable' = portable \cup {<<"index", call.kind>>} /\ pc = "index"
    BY Frames DEF WriteIndex
  <1>3. ASSUME NEW k \in Kinds, <<"index", k>> \in portable' PROVE index'[k] \subseteq portable'
    <2>1. CASE <<"index", k>> \in portable
      BY <1>0, <1>1, <1>3, <2>1 DEF Indexed
    <2>2. CASE <<"index", k>> \notin portable
      <3>1. <<"index", k>> \in NextPortable
        BY <1>3, <2>2, PortableWrites DEF Temporary
      <3>2. pc = "index" /\ k = call.kind
        <4>1. <<"index", k>> \notin runtime
          BY Found DEF ModelFiles, Rank
        <4> QED BY <3>1, <4>1 DEF NextPortable
      <3>3. WriteIndex
        BY <1>3, <2>2, <3>2, PortableSteps
           DEF PersistApproval, Promote, WriteStatus, WriteProjection, PersistFailure,
               PersistDecision, Crash, Temporary
      <3>4. index'[k] = Inventory(k) /\ portable' = portable \cup {<<"index", k>>}
        BY <1>0, <3>2, <3>3 DEF WriteIndex, TypeOK
      <3> QED BY <3>4 DEF Inventory
    <2> QED BY <2>1, <2>2
  <1>4. ASSUME NEW k \in Kinds, NEW f \in index'[k] PROVE Era(f) <= Age[k]
    <2>1. CASE index'[k] = index[k]
      BY <1>0, <1>4, <2>1 DEF Indexed
    <2>2. CASE index'[k] # index[k]
      <3>1. /\ WriteIndex /\ k = call.kind /\ index'[k] = Inventory(k) /\ <<"index", k>> \notin portable
        BY <1>0, <1>1, <1>2, <2>2 DEF TypeOK
      <3>2. f \in portable /\ Era(f) \in 1..6 /\ Age[k] \in 1..6 /\ Age[LatestKind] \in 1..6
        BY <1>0, <1>4, <3>1, ErasAreNumbers, EraOf DEF Inventory
      <3>3. pc = "index"
        BY <3>1 DEF WriteIndex
      <3>4. CASE k = "failed"
        BY <3>2, <3>4, EraOf
      <3>5. CASE k # "failed"
        <4>1. Era(f) <= Age[LatestKind] \/ Era(f) = Age[LatestKind] + 1 \/ (Era(f) = 6 /\ \E n \in Attempts : Open(n))
          BY <1>0, <3>2 DEF Ahead
        <4>2. CASE Deciding
          <5>1. k = AuthorizedKind(call.attempt) /\ k \notin anchors
            BY <1>0, <3>1, <3>3, <4>2 DEF Deciding, Authorizing, Frozen, FreezePcs
          <5>2. Waiting(call.attempt)
            BY <1>0, <4>2, <5>1, StageOf, Found
          <5>3. Age[k] = Age[LatestKind] + 1
            BY <1>0, <5>1, <5>2, StageOf, Found, EraOf DEF BaseKind, AuthorizedKind, Attempts
          <5>4. \A n \in Attempts : ~Open(n)
            BY <1>0, <5>2, OneStage, Found
          <5> QED BY <3>2, <4>1, <5>3, <5>4
        <4>3. CASE ~Deciding
          <5>1. Working /\ Ending /\ k = SuccessKind(call.attempt)
            BY <1>0, <3>1, <3>3, <3>5, <4>3 DEF Working, Ending, Deciding, Authorizing, FreezePcs, CallOK
          <5>2. Open(call.attempt)
            BY <5>1, StageOf, Found
          <5>3. Age[k] = Age[LatestKind] + 1
            BY <1>0, <5>1, <5>2, StageOf, Found, EraOf DEF SuccessKind, AuthorizedKind, Attempts
          <5>4. Era(f) # 6
            <6> SUFFICES ASSUME Era(f) = 6 PROVE FALSE
              OBVIOUS
            <6>1. <<"failure", call.attempt>> \in portable
              BY <1>0, <3>2, <5>2 DEF Failing
            <6>2. pc = "idle" \/ call.kind = "failed"
              BY <1>0, <5>2, <6>1 DEF Failing
            <6> QED BY <3>1, <3>3, <3>5, <6>2
          <5> QED BY <3>2, <4>1, <5>3, <5>4
        <4> QED BY <4>2, <4>3
      <3> QED BY <3>4, <3>5
    <2> QED BY <2>1, <2>2
  <1>5. ASSUME NEW f \in portable', Era(f) <= Age[LatestKind']
        PROVE  f \in index'[LatestKind'] \cup {<<"index", LatestKind'>>}
    <2>1. CASE anchors' = anchors
      <3>1. LatestKind' = LatestKind
        BY <2>1, StageStays
      <3>2. index'[LatestKind] = index[LatestKind]
        BY <1>0, <1>1 DEF Frozen
      <3>3. f \in portable
        <4> SUFFICES ASSUME f \notin portable PROVE FALSE
          OBVIOUS
        <4>1. \/ Waiting(call.attempt) /\ Era(f) = Age[AuthorizedKind(call.attempt)]
              \/ Open(call.attempt) /\ Era(f) \in {Age[SuccessKind(call.attempt)], 6}
          BY <1>5, WritesInTime, EraOf
        <4>2. Era(f) > Age[LatestKind] /\ Era(f) \in 1..6 /\ Age[LatestKind] \in 1..6
          BY <1>0, <4>1, StageOf, Found, EraOf DEF BaseKind, AuthorizedKind, SuccessKind, Attempts
        <4> QED BY <1>5, <3>1, <4>2
      <3> QED BY <1>0, <1>5, <3>1, <3>2, <3>3 DEF Indexed
    <2>2. CASE anchors' # anchors
      BY <1>5, <2>2, NewLatest DEF Inventory
    <2> QED BY <2>1, <2>2
  <1> QED BY <1>3, <1>4, <1>5 DEF Indexed

(* Files beyond the latest index belong to the next lifecycle, or to a     *)
(* failure under way.                                                      *)
LEMMA AheadStep ==
  ASSUME Tidy, [Next]_vars, Temporary \notin Stored'
  PROVE  Ahead'
  <1>0. Ahead /\ Indexed /\ call.attempt \in Attempts /\ portable \subseteq Files
    BY Found
  <1>1. ASSUME NEW f \in portable', Era(f) > Age[LatestKind'], anchors' = anchors
        PROVE  /\ LatestKind' \notin {"retried", "failed"}
               /\ Era(f) = Age[LatestKind'] + 1 \/ (Era(f) = 6 /\ \E n \in Attempts : Open(n)')
    <2>1. LatestKind' = LatestKind /\ \A n \in Attempts : Open(n)' <=> Open(n)
      BY <1>1, StageStays
    <2>2. CASE f \in portable
      BY <1>0, <1>1, <2>1, <2>2 DEF Ahead
    <2>3. CASE f \notin portable
      <3>1. \/ Waiting(call.attempt) /\ Era(f) = Age[AuthorizedKind(call.attempt)]
            \/ Open(call.attempt) /\ Era(f) \in {Age[SuccessKind(call.attempt)], 6}
        BY <1>1, <2>3, WritesInTime, EraOf
      <3>2. /\ LatestKind \notin {"retried", "failed"}
            /\ Era(f) = Age[LatestKind] + 1 \/ (Era(f) = 6 /\ Open(call.attempt))
        BY <1>0, <3>1, StageOf, Found, EraOf DEF BaseKind, AuthorizedKind, SuccessKind, Attempts
      <3> QED BY <1>0, <2>1, <3>2
    <2> QED BY <2>2, <2>3
  <1>2. ASSUME NEW f \in portable', anchors' # anchors PROVE ~(Era(f) > Age[LatestKind'])
    <2>1. /\ f \in portable /\ LatestKind' = call.kind /\ call.kind \in Kinds
          /\ index[call.kind] = Inventory(call.kind)
      BY <1>2, NewLatest
    <2>2. f \in index[call.kind] \/ f \in FreezeFiles(call.kind)
      BY <2>1 DEF Inventory, FreezeFiles
    <2>3. Era(f) <= Age[call.kind] /\ Era(f) \in 1..6 /\ Age[call.kind] \in 1..6
      BY <1>0, <2>1, <2>2, EraOf, ErasAreNumbers DEF Indexed
    <2> QED BY <2>1, <2>3
  <1> QED BY <1>1, <1>2 DEF Ahead

-----------------------------------------------------------------------------
(* The order of writes, and what a decision being bound has frozen.        *)

(* Where a freeze is once a step was taken. *)
LEMMA FreezeSteps ==
  ASSUME Tidy, [Next]_vars
  PROVE  /\ pc' = "status" /\ Authorizing' =>
              <<"approval", call'.attempt>> \in portable'
         /\ pc' = "checkpoint" => <<"workflow", call'.kind>> \in portable'
         /\ pc' = "index" => <<"checkpoint", call'.kind>> \in portable'
  <1>0. Control /\ Sequenced /\ portable \subseteq portable'
    BY Found, StorageGrows
  <1>1. ASSUME pc' = "status", Authorizing' PROVE <<"approval", call'.attempt>> \in portable'
    <2>1. \/ Deciding /\ call' = call /\ (PersistApproval \/ UNCHANGED vars)
      <3>1. Deciding' /\ pc' # "intent"
        BY <1>1 DEF Deciding
      <3>2. /\ Deciding /\ call' = call
            /\ \/ BindIntent \/ PersistApproval \/ WriteStatus \/ WriteProjection \/ WriteIndex
               \/ BindAnchor \/ UNCHANGED vars
        BY <1>0, <3>1, DecidingSteps
      <3> QED BY <1>1, <3>2 DEF BindIntent, WriteStatus, WriteProjection, WriteIndex, BindAnchor,
                                Goto, Finish
    <2>2. CASE PersistApproval
      BY <2>1, <2>2 DEF PersistApproval
    <2>3. CASE UNCHANGED vars
      BY <1>0, <1>1, <2>3 DEF Sequenced, Authorizing, vars
    <2> QED BY <2>1, <2>2, <2>3
  <1>2. ASSUME pc' \in {"checkpoint", "index"}
        PROVE  /\ pc' = "checkpoint" => <<"workflow", call'.kind>> \in portable'
               /\ pc' = "index" => <<"checkpoint", call'.kind>> \in portable'
    <2>1. CASE Apart
      <3>1. WriteProjection
        BY <1>2, <2>1 DEF Apart, Authorize, Freeze, BindIntent, PersistApproval, Promote, WriteStatus,
              WriteIndex, BindAnchor, RefuseWrite, Finish, PersistFailure, PersistDecision,
              PersistCorrection, Goto
      <3> QED BY <3>1 DEF WriteProjection, Goto
    <2>2. CASE UNCHANGED vars
      BY <1>0, <1>2, <2>2 DEF Sequenced, vars
    <2>3. CASE ~Apart /\ Next
      <3>1. ASSUME NEW n \in Attempts, NEW d \in Decisions(n), Submit(n, d) PROVE FALSE
        BY <1>0, <1>2, <3>1, Submitted
      <3>2. ~InsideNode
        BY <1>0, <1>2, InsideMoves DEF RunningPcs, RolePcs
      <3>3. ~Raises
        BY <1>0, <1>2, RaisesMoves
      <3>4. ~Flush
        BY <1>0, <1>2, FlowFacts DEF Flush, RunningPcs, RolePcs
      <3>5. /\ ~Invoke /\ ~Route /\ ~Return /\ ~EngineerDone /\ ~ValidatorDone
            /\ ~RecordTaskError /\ ~Crash
        BY <1>2 DEF Invoke, Route, Return, EngineerDone, ValidatorDone, RecordTaskError, Crash,
              Die, Finish, Goto, RoleNodes
      <3> QED BY <2>3, <3>1, <3>2, <3>3, <3>4, <3>5, StepIsOfOneKind
    <2> QED BY <2>1, <2>2, <2>3
  <1> QED BY <1>1, <1>2

(* A new file of a freeze is written in its turn. *)
LEMMA FreezeWrites ==
  ASSUME Tidy, [Next]_vars, Temporary \notin Stored',
         NEW g \in {"status", "workflow", "checkpoint", "index"}, NEW k \in Kinds,
         <<g, k>> \in portable', <<g, k>> \notin portable
  PROVE  /\ pc = g /\ k = call.kind /\ portable' = portable \cup {<<g, k>>}
         /\ g = "status" => frozen' = [frozen EXCEPT ![k] = ckpt] /\ frozen'[k] = ckpt
         /\ g = "index" => index' = [index EXCEPT ![k] = Inventory(k)] /\ index'[k] = Inventory(k)
         /\ call.kind \in {AuthorizedKind(call.attempt), SuccessKind(call.attempt), "failed"}
         /\ k = AuthorizedKind(call.attempt) => Deciding
         /\ k # AuthorizedKind(call.attempt) => Ending
  <1>0. CallOK /\ TypeOK /\ call.attempt \in Attempts /\ call.kind \in Kinds /\ <<g, k>> # Temporary
        /\ <<g, k>> \notin runtime
    BY Found DEF ModelFiles, Rank, CallOK, Temporary
  <1>1. <<g, k>> \in NextPortable
    BY <1>0, PortableWrites
  <1>2. pc = g /\ k = call.kind
    BY <1>0, <1>1 DEF NextPortable
  <1>3. portable' # portable /\ Temporary \notin portable'
    BY DEF Stored
  <1>4. \/ WriteStatus /\ g = "status"
        \/ WriteProjection /\ g \in {"workflow", "checkpoint"}
        \/ WriteIndex /\ g = "index"
    BY <1>2, <1>3, PortableSteps
       DEF PersistApproval, Promote, WriteStatus, WriteProjection, WriteIndex, PersistFailure,
           PersistDecision, Crash
  <1>5. portable' = portable \cup {<<g, k>>}
    BY <1>2, <1>4 DEF WriteStatus, WriteProjection, WriteIndex
  <1>6. g = "status" => frozen' = [frozen EXCEPT ![k] = ckpt] /\ frozen'[k] = ckpt
    BY <1>0, <1>2, <1>4 DEF WriteStatus, TypeOK
  <1>7. g = "index" => index' = [index EXCEPT ![k] = Inventory(k)] /\ index'[k] = Inventory(k)
    BY <1>0, <1>2, <1>4 DEF WriteIndex, TypeOK
  <1>8. /\ call.kind \in {AuthorizedKind(call.attempt), SuccessKind(call.attempt), "failed"}
        /\ k = AuthorizedKind(call.attempt) => Deciding
        /\ k # AuthorizedKind(call.attempt) => Ending
    BY <1>0, <1>2 DEF CallOK, FreezePcs, Deciding, Authorizing, Ending
  <1> QED BY <1>2, <1>5, <1>6, <1>7, <1>8

(* Every file is written after those it rests on.                          *)
LEMMA SequencedStep ==
  ASSUME Tidy, [Next]_vars, Temporary \notin Stored'
  PROVE  Sequenced'
  <1>0. /\ Control /\ Leases /\ Sequenced /\ Freezes /\ portable \subseteq portable'
        /\ anchors \subseteq anchors' /\ CallOK /\ DecisionInv
    BY Found, StorageGrows, Frames DEF BindAnchor
  <1>1. ASSUME NEW n \in Attempts, <<"approval", n>> \in portable' PROVE intent'[n] # None
    <2>1. \A m \in Attempts : intent[m] # None => intent'[m] = intent[m]
      BY <1>0, ContentsStay
    <2>2. CASE <<"approval", n>> \in portable
      BY <1>0, <2>1, <2>2 DEF Sequenced
    <2>3. CASE <<"approval", n>> \notin portable
      <3>1. <<"approval", n>> \in NextPortable /\ <<"approval", n>> \notin runtime
        BY <1>1, <2>3, PortableWrites, Found DEF Temporary, ModelFiles, Rank
      <3>2. pc = "approval" /\ n = call.attempt
        BY <3>1 DEF NextPortable
      <3>3. intent[n] = call.decision /\ call.decision \in Decisions(n)
        BY <1>0, <3>2 DEF DecisionInv, Bound, CallOK, Deciding
      <3>4. intent[n] # None
        BY <3>3 DEF Decisions
      <3> QED BY <2>1, <3>4
    <2> QED BY <2>2, <2>3
  <1>2. ASSUME NEW n \in Attempts, intent'[n] # None PROVE BaseKind(n) \in anchors'
    <2>1. CASE intent[n] # None
      BY <1>0, <2>1 DEF Sequenced
    <2>2. CASE intent[n] = None
      <3>1. BindIntent /\ n = call.attempt
        BY <1>2, <2>2, Frames, Found DEF BindIntent, TypeOK
      <3>2. Deciding /\ "planned" \in anchors
        BY <3>1, Found DEF BindIntent, Deciding, TypeOK
      <3>3. BaseKind(n) \in anchors
        BY <3>1, <3>2, Found DEF Decides, Offered, BaseKind, Attempts
      <3> QED BY <1>0, <3>3
    <2> QED BY <2>1, <2>2
  <1>3. ASSUME NEW n \in Attempts, <<"status", AuthorizedKind(n)>> \in portable'
        PROVE  <<"approval", n>> \in portable'
    <2>1. CASE <<"status", AuthorizedKind(n)>> \in portable
      BY <1>0, <2>1 DEF Sequenced
    <2>2. CASE <<"status", AuthorizedKind(n)>> \notin portable
      <3>1. /\ pc = "status" /\ AuthorizedKind(n) = call.kind
            /\ call.kind \in {AuthorizedKind(call.attempt), SuccessKind(call.attempt), "failed"}
        BY <1>3, <2>2, FreezeWrites, KindsDiffer
      <3>2. call.attempt = n
        BY <3>1, Found DEF AuthorizedKind, SuccessKind, Attempts
      <3>3. Authorizing
        BY <3>1, <3>2 DEF Authorizing, FreezePcs
      <3> QED BY <1>0, <3>1, <3>2, <3>3 DEF Sequenced
    <2> QED BY <2>1, <2>2
  <1>4. ASSUME NEW k \in Kinds
        PROVE  /\ <<"workflow", k>> \in portable' => <<"status", k>> \in portable'
               /\ <<"checkpoint", k>> \in portable' => <<"workflow", k>> \in portable'
               /\ <<"index", k>> \in portable' => <<"checkpoint", k>> \in portable'
    <2>1. ASSUME <<"workflow", k>> \in portable' PROVE <<"status", k>> \in portable'
      <3>1. CASE <<"workflow", k>> \in portable
        BY <1>0, <3>1 DEF Sequenced
      <3>2. CASE <<"workflow", k>> \notin portable
        <4>1. pc = "workflow" /\ k = call.kind
          BY <2>1, <3>2, FreezeWrites
        <4> QED BY <1>0, <4>1 DEF Freezes, FreezePcs
      <3> QED BY <3>1, <3>2
    <2>2. ASSUME <<"checkpoint", k>> \in portable' PROVE <<"workflow", k>> \in portable'
      <3>1. CASE <<"checkpoint", k>> \in portable
        BY <1>0, <3>1 DEF Sequenced
      <3>2. CASE <<"checkpoint", k>> \notin portable
        <4>1. pc = "checkpoint" /\ k = call.kind
          BY <2>2, <3>2, FreezeWrites
        <4> QED BY <1>0, <4>1 DEF Sequenced
      <3> QED BY <3>1, <3>2
    <2>3. ASSUME <<"index", k>> \in portable' PROVE <<"checkpoint", k>> \in portable'
      <3>1. CASE <<"index", k>> \in portable
        BY <1>0, <3>1 DEF Sequenced
      <3>2. CASE <<"index", k>> \notin portable
        <4>1. pc = "index" /\ k = call.kind
          BY <2>3, <3>2, FreezeWrites
        <4> QED BY <1>0, <4>1 DEF Sequenced
      <3> QED BY <3>1, <3>2
    <2> QED BY <2>1, <2>2, <2>3
  <1> QED BY <1>1, <1>2, <1>3, <1>4, FreezeSteps DEF Sequenced

(* A run that awaits a decision rests where the lifecycle before froze it. *)
LEMMA RestsAt ==
  ASSUME Tidy, NEW n \in Attempts, Waiting(n)
  PROVE  ckpt = frozen[BaseKind(n)] /\ LatestKind = BaseKind(n)
  BY Found, StageOf DEF Rest, Pending, Waiting, BaseKind, AuthorizedKind, Attempts

(* While a decision is being bound, its freeze says what will be consumed. *)
LEMMA PendingStep ==
  ASSUME Tidy, [Next]_vars, Temporary \notin Stored'
  PROVE  Pending'
  <1>0. /\ Control /\ Leases /\ Sequenced /\ Pending /\ Ahead /\ portable \subseteq portable' /\ TypeOK
        /\ "planned" \in anchors /\ Frozen("planned") /\ "planned" \in Kinds
    BY Found, StorageGrows DEF TypeOK
  <1>1. frozen'["planned"] = PlannedCheckpoint
    BY <1>0, ContentsStay DEF Frozen, Pending
  <1>2. ASSUME NEW n \in Attempts, Waiting(n)', Waiting(n)
        PROVE  /\ <<"status", AuthorizedKind(n)>> \in portable' => frozen'[AuthorizedKind(n)] = ckpt'
               /\ <<"index", AuthorizedKind(n)>> \in portable' =>
                    index'[AuthorizedKind(n)] = Inventory(AuthorizedKind(n))'
    <2> DEFINE k == AuthorizedKind(n)
    <2>0. k \in Kinds
      BY KindsDiffer
    <2>1. ckpt' = ckpt
      <3>1. ~Working
        BY <1>2, StageOf, OneStage, Found
      <3>2. ~Invoke
        BY <1>2, DecidesFor DEF Invoke, Deciding
      <3> QED BY <1>0, <3>1, <3>2, QuietSteps
    <2>2. ASSUME <<"status", k>> \in portable' PROVE frozen'[k] = ckpt'
      <3>1. CASE <<"status", k>> \in portable
        BY <1>0, <1>2, <2>0, <2>1, <3>1, ContentsStay DEF Pending
      <3>2. CASE <<"status", k>> \notin portable
        BY <2>0, <2>1, <2>2, <3>2, FreezeWrites
      <3> QED BY <3>1, <3>2
    <2>3. ASSUME <<"index", k>> \in portable' PROVE index'[k] = Inventory(k)'
      <3>1. CASE <<"index", k>> \in portable
        <4>1. AuthorizationFiles(n) \subseteq portable
          BY <1>0, <3>1, AuthorizationIsFiled
        <4>2. portable' = portable
          <5> SUFFICES ASSUME NEW f \in portable', f \notin portable PROVE FALSE
            BY <1>0
          <5>1. \/ Deciding /\ f \in AuthorizationFiles(call.attempt)
                \/ Open(call.attempt)
            BY WritesInTime
          <5>2. call.attempt \in Attempts
            BY Found
          <5> QED BY <1>2, <4>1, <5>1, <5>2, DecidesFor, OneStage, Found
        <4>3. index'[k] = index[k]
          BY <1>0, <2>0, <3>1, ContentsStay
        <4> QED BY <1>0, <1>2, <3>1, <4>2, <4>3 DEF Pending, Inventory
      <3>2. CASE <<"index", k>> \notin portable
        <4>1. index'[k] = Inventory(k) /\ portable' = portable \cup {<<"index", k>>}
          BY <2>0, <2>3, <3>2, FreezeWrites
        <4> QED BY <4>1 DEF Inventory
      <3> QED BY <3>1, <3>2
    <2> QED BY <2>2, <2>3
  <1>3. ASSUME NEW n \in Attempts, Waiting(n)', ~Waiting(n)
        PROVE  <<"status", AuthorizedKind(n)>> \notin portable' /\ <<"index", AuthorizedKind(n)>> \notin portable'
    <2>1. /\ anchors' # anchors /\ AuthorizedKind(n) \in Kinds
      BY <1>3, StageStays, KindsDiffer
    <2>2. /\ portable' = portable /\ anchors' = anchors \cup {call.kind} /\ call.kind = BaseKind(n)
          /\ \/ Deciding /\ call.kind = AuthorizedKind(call.attempt) /\ Waiting(call.attempt)
             \/ Working /\ call.kind \in {SuccessKind(call.attempt), "failed"} /\ Open(call.attempt)
      BY <1>3, <2>1, NewLatest DEF Waiting
    <2>3. call.attempt = 1 /\ n = 2 /\ Open(1)
      BY <1>0, <2>2, Found DEF Waiting, BaseKind, AuthorizedKind, SuccessKind, Attempts
    <2>4. LatestKind = "manifest_authorized" /\ AuthorizedKind(n) = "correction_authorized"
      BY <2>3, StageOf, Found DEF AuthorizedKind, Attempts
    <2>5. \A f \in FreezeFiles("correction_authorized") : f \notin portable
      <3> SUFFICES ASSUME NEW f \in FreezeFiles("correction_authorized"), f \in portable PROVE FALSE
        OBVIOUS
      <3>1. Era(f) = 4 /\ Age[LatestKind] = 2
        BY <2>1, <2>4, EraOf
      <3> QED BY <1>0, <3>1 DEF Ahead
    <2> QED BY <2>2, <2>4, <2>5 DEF FreezeFiles
  <1>4. ASSUME NEW n \in Attempts, AuthorizedKind(n) \in anchors'
        PROVE  frozen'[AuthorizedKind(n)] = frozen'[BaseKind(n)]
    <2>1. \A k \in anchors : k \in Kinds /\ frozen'[k] = frozen[k]
      BY <1>0, Found, ContentsStay DEF Frozen, TypeOK
    <2>2. CASE AuthorizedKind(n) \in anchors
      <3>1. BaseKind(n) \in anchors
        BY <1>0, <2>2, StageOf, Found DEF BaseKind, AuthorizedKind, Attempts
      <3> QED BY <1>0, <2>1, <2>2, <3>1 DEF Pending
    <2>3. CASE AuthorizedKind(n) \notin anchors
      <3>1. /\ call.kind = AuthorizedKind(n) /\ frozen' = frozen /\ frozen[call.kind] = ckpt
            /\ \/ call.kind = AuthorizedKind(call.attempt) /\ Waiting(call.attempt)
               \/ call.kind \in {SuccessKind(call.attempt), "failed"}
        BY <1>4, <2>3, NewLatest
      <3>2. call.attempt = n /\ Waiting(n)
        BY <3>1, Found DEF AuthorizedKind, SuccessKind, Attempts
      <3> QED BY <3>1, <3>2, RestsAt
    <2> QED BY <2>2, <2>3
  <1> QED BY <1>1, <1>2, <1>3, <1>4 DEF Pending

-----------------------------------------------------------------------------
(* How an operation arrives where it ends.                                 *)

(* An idle run only takes up a decision. *)
LEMMA IdleSteps ==
  ASSUME Control, [Next]_vars, pc = "idle"
  PROVE  UNCHANGED vars \/ \E n \in Attempts : \E d \in Decisions(n) : Submit(n, d)
  <1> SUFFICES ASSUME Next, ~(\E n \in Attempts : \E d \in Decisions(n) : Submit(n, d)) PROVE FALSE
    OBVIOUS
  <1>1. ~Apart
    BY DEF Apart, Authorize, Freeze, BindIntent, PersistApproval, Promote, WriteStatus,
           WriteProjection, WriteIndex, BindAnchor, RefuseWrite, Conflict, PersistFailure,
           PersistDecision, PersistCorrection
  <1>2. ~InsideNode /\ ~Raises
    BY InsideMoves, RaisesMoves DEF RunningPcs, RolePcs
  <1>3. ~Flush
    BY FlowFacts DEF Flush, RunningPcs, RolePcs
  <1>4. /\ ~Invoke /\ ~Route /\ ~Return /\ ~EngineerDone /\ ~ValidatorDone /\ ~RecordTaskError
        /\ ~Crash
    BY DEF Invoke, Route, Return, EngineerDone, ValidatorDone, RecordTaskError, Crash, Die
  <1> QED BY <1>1, <1>2, <1>3, <1>4, StepIsOfOneKind

(* The ends of an operation are reached in order.                          *)
LEMMA Arrivals ==
  ASSUME Control, [Next]_vars
  PROVE  /\ pc' = "failure" => UNCHANGED vars \/ (RecordTaskError /\ call.seam # "none")
         /\ pc' = "correction" => UNCHANGED vars \/ PersistDecision
         /\ Ending' => \/ UNCHANGED vars
                       \/ PersistFailure \/ PersistCorrection
                       \/ Ending /\ call' = call /\ UNCHANGED <<ckpt, runtime>>
  <1>0. CallOK
    BY DEF Control
  <1> SUFFICES ASSUME Next PROVE
         /\ pc' = "failure" => UNCHANGED vars \/ (RecordTaskError /\ call.seam # "none")
         /\ pc' = "correction" => UNCHANGED vars \/ PersistDecision
         /\ Ending' => \/ UNCHANGED vars
                       \/ PersistFailure \/ PersistCorrection
                       \/ Ending /\ call' = call /\ UNCHANGED <<ckpt, runtime>>
    BY DEF Ending
  <1> SUFFICES ASSUME pc' \in {"failure", "correction"} \/ Ending'
               PROVE  \/ RecordTaskError /\ call.seam # "none" /\ pc' = "failure"
                      \/ PersistDecision /\ pc' = "correction"
                      \/ PersistFailure /\ pc' = "promote"
                      \/ PersistCorrection /\ pc' = "promote"
                      \/ /\ Ending /\ call' = call /\ UNCHANGED <<ckpt, runtime>>
                         /\ pc' \in {"promote"} \cup FreezePcs
    BY DEF Ending, FreezePcs
  <1>1. pc' \in {"failure", "correction", "promote"} \cup FreezePcs
    BY DEF Ending
  <1>2. ASSUME NEW n \in Attempts, NEW d \in Decisions(n), Submit(n, d) PROVE FALSE
    BY <1>1, <1>2, Submitted DEF FreezePcs
  <1>3. ~InsideNode /\ ~Raises
    BY <1>1, InsideMoves, RaisesMoves DEF FreezePcs, RunningPcs, RolePcs
  <1>4. ~Flush
    BY <1>1, FlowFacts DEF Flush, FreezePcs, RunningPcs, RolePcs
  <1>5. ~Invoke /\ ~Route /\ ~Return /\ ~EngineerDone /\ ~ValidatorDone /\ ~Crash
    BY <1>1 DEF Invoke, Route, Return, EngineerDone, ValidatorDone, Crash, Die, Finish, Goto,
                RoleNodes, FreezePcs
  <1>6. CASE RecordTaskError
    BY <1>1, <1>6 DEF RecordTaskError, Finish, FreezePcs
  <1>7. CASE Apart
    <2>1. ~BindIntent /\ ~RefuseWrite
      BY <1>1 DEF BindIntent, RefuseWrite, Goto, Finish, FreezePcs
    <2>2. ~PersistApproval
      <3> SUFFICES ASSUME PersistApproval PROVE FALSE
        OBVIOUS
      <3>1. pc' = "status" /\ call' = call /\ pc = "approval"
        BY DEF PersistApproval, Goto
      <3> QED BY <1>0, <3>1 DEF CallOK, Ending
    <2>3. CASE PersistFailure \/ PersistDecision \/ PersistCorrection
      BY <2>3 DEF PersistFailure, PersistDecision, PersistCorrection, Goto
    <2>4. CASE Promote \/ WriteStatus \/ WriteProjection \/ WriteIndex \/ BindAnchor
      <3>1. /\ pc \in {"promote"} \cup FreezePcs /\ UNCHANGED <<ckpt, runtime>>
            /\ pc' \in FreezePcs \cup {"promote", "idle", "invoke"}
        BY <2>4 DEF Promote, WriteStatus, WriteProjection, WriteIndex, BindAnchor, Goto, Finish, FreezePcs
      <3>2. call' = call
        BY <1>1, <2>4 DEF Promote, WriteStatus, WriteProjection, WriteIndex, BindAnchor, Goto, Finish, FreezePcs
      <3>3. Ending'
        BY <1>1, <3>1 DEF Ending, FreezePcs
      <3> QED BY <3>1, <3>2, <3>3 DEF Ending
    <2> QED BY <1>7, <2>1, <2>2, <2>3, <2>4 DEF Apart, Authorize, Freeze
  <1> QED BY <1>2, <1>3, <1>4, <1>5, <1>6, <1>7, StepIsOfOneKind

(* While an attempt ends, nothing but its evidence is written. *)
LEMMA EndingSteps ==
  ASSUME Control, [Next]_vars, Ending, Temporary \notin Stored'
  PROVE  /\ UNCHANGED <<ckpt, runtime>>
         /\ pc' = "idle" \/ (Ending' /\ call' = call)
  <1>0. pc \in {"promote"} \cup FreezePcs /\ call.kind # AuthorizedKind(call.attempt)
    BY DEF Ending
  <1>1. CASE UNCHANGED vars
    BY <1>1 DEF vars, Ending
  <1>2. CASE Crash
    BY <1>2 DEF Crash, Die, Finish, Stored
  <1>3. CASE RefuseWrite
    BY <1>3 DEF RefuseWrite, Finish, durable
  <1>4. CASE Promote \/ WriteStatus \/ WriteProjection \/ WriteIndex
    <2>1. UNCHANGED <<ckpt, runtime, call>> /\ pc' \in {"promote"} \cup FreezePcs
      BY <1>4 DEF Promote, WriteStatus, WriteProjection, WriteIndex, Goto, FreezePcs
    <2> QED BY <1>0, <2>1 DEF Ending
  <1>5. CASE BindAnchor
    BY <1>0, <1>5 DEF BindAnchor, Finish
  <1>6. CASE Next /\ ~Crash /\ ~RefuseWrite
             /\ ~Promote /\ ~WriteStatus /\ ~WriteProjection /\ ~WriteIndex /\ ~BindAnchor
    <2>1. ASSUME NEW n \in Attempts, NEW d \in Decisions(n), Submit(n, d) PROVE FALSE
      BY <1>0, <2>1, Submitted DEF FreezePcs
    <2>2. ~InsideNode /\ ~Raises
      BY <1>0, InsideMoves, RaisesMoves DEF FreezePcs, RunningPcs, RolePcs
    <2>3. ~Flush
      BY <1>0, FlowFacts DEF Flush, FreezePcs, RunningPcs, RolePcs
    <2>4. ~Invoke /\ ~Route /\ ~Return /\ ~EngineerDone /\ ~ValidatorDone /\ ~RecordTaskError
      BY <1>0 DEF Invoke, Route, Return, EngineerDone, ValidatorDone, RecordTaskError, FreezePcs
    <2>5. ~Apart
      BY <1>0, <1>6 DEF Apart, Authorize, Freeze, BindIntent, PersistApproval, PersistFailure,
                        PersistDecision, PersistCorrection, FreezePcs
    <2> QED BY <1>6, <2>1, <2>2, <2>3, <2>4, <2>5, StepIsOfOneKind
  <1> QED BY <1>1, <1>2, <1>3, <1>4, <1>5, <1>6

(* A trusted seam is entered by a call, by a check, or again by taking up  *)
(* an interrupted attempt.                                                 *)
LEMMA SeamSteps ==
  ASSUME Control, [Next]_vars
  PROVE  \/ call'.seam \in {"none", call.seam}
         \/ CallEngineer \/ RunChecks \/ CallValidator
         \/ \E n \in Attempts : \E d \in Decisions(n) : SubmitInFlight(n, d)
  <1>0. CallOK
    BY DEF Control
  <1>1. CASE UNCHANGED vars
    BY <1>1 DEF vars
  <1>2. ASSUME NEW n \in Attempts, NEW d \in Decisions(n), SubmitFresh(n, d) \/ (n = 2 /\ SubmitRecovery(d))
        PROVE  call'.seam = "none"
    BY <1>2 DEF SubmitFresh, SubmitRecovery, Enter, NoCall
  <1>3. CASE Apart
    <2>1. call' = call \/ call' = NoCall \/ PersistCorrection
      BY <1>3 DEF Apart, Authorize, Freeze, BindIntent, PersistApproval, Promote, WriteStatus,
         WriteProjection, WriteIndex, BindAnchor, RefuseWrite, PersistFailure, PersistDecision, Goto, Finish
    <2>2. PersistCorrection => call'.seam = call.seam
      BY <1>0 DEF PersistCorrection, CallOK
    <2> QED BY <2>1, <2>2 DEF NoCall
  <1>4. CASE InsideNode
    BY <1>0, <1>4 DEF InsideNode, EngineerStart, PrepareCorrection, ClaimEngineer, StoreEngineerOutcome,
         ValidatorStart, Advise, ClaimValidator, StoreAssessment, Goto, CallOK
  <1>5. CASE Raises
    BY <1>5 DEF Raises, RoleError, RefuseDuplicateDispatch, Goto
  <1>6. CASE Invoke \/ Route \/ Flush \/ Return \/ EngineerDone \/ ValidatorDone
    BY <1>6 DEF Invoke, Route, Flush, Return, EngineerDone, ValidatorDone, Goto
  <1>7. CASE RecordTaskError
    <2>1. call' = NoCall \/ call' = [call EXCEPT !.kind = "failed", !.result = "none"]
      BY <1>7 DEF RecordTaskError, Finish
    <2>2. [call EXCEPT !.kind = "failed", !.result = "none"].seam = call.seam
      BY <1>0 DEF CallOK
    <2>3. NoCall.seam = "none"
      BY DEF NoCall
    <2>4. call'.seam \in {"none", call.seam}
      BY <2>1, <2>2, <2>3
    <2> QED BY <2>4
  <1>8. CASE Crash
    BY <1>8 DEF Crash, Die, Finish, NoCall
  <1>9. CASE \E n \in Attempts : \E d \in Decisions(n) : Submit(n, d)
    BY <1>2, <1>9 DEF Submit
  <1> QED BY <1>1, <1>3, <1>4, <1>5, <1>6, <1>7, <1>8, <1>9, StepIsOfOneKind

-----------------------------------------------------------------------------
(* A run that failed.                                                      *)

(* The latest lifecycle opens the attempt under way. *)
LEMMA NewlyOpen ==
  ASSUME Tidy, [Next]_vars, Temporary \notin Stored', NEW n \in Attempts, Open(n)'
  PROVE  \/ Open(n) /\ anchors' = anchors
         \/ /\ ~Open(n) /\ UNCHANGED <<portable, runtime, ckpt>>
            /\ \A f \in portable : Era(f) <= Age[AuthorizedKind(n)] /\ Era(f) \in 1..6
  <1>1. CASE anchors' = anchors
    BY <1>1, StageStays
  <1>2. CASE anchors' # anchors
    <2>1. /\ UNCHANGED <<portable, runtime, ckpt>> /\ LatestKind' = call.kind /\ call.kind \in Kinds
          /\ anchors' = anchors \cup {call.kind} /\ index[call.kind] = Inventory(call.kind)
          /\ \/ Deciding /\ call.kind = AuthorizedKind(call.attempt) /\ Waiting(call.attempt)
             \/ Working /\ call.kind \in {SuccessKind(call.attempt), "failed"} /\ Open(call.attempt)
      BY <1>2, NewLatest
    <2>2. call.attempt \in Attempts /\ Chain /\ Indexed /\ portable \subseteq Files
      BY Found
    <2>3. call.kind = AuthorizedKind(n) /\ ~Open(n)
      BY <1>2, <2>1, <2>2, OneStage, Found
         DEF Open, Closing, Waiting, BaseKind, AuthorizedKind, SuccessKind, Attempts
    <2>4. ASSUME NEW f \in portable PROVE Era(f) <= Age[call.kind] /\ Era(f) \in 1..6
      <3>1. f \in index[call.kind] \/ f \in FreezeFiles(call.kind)
        BY <2>1 DEF Inventory, FreezeFiles
      <3>2. Age[call.kind] \in 1..6 /\ Era(f) \in 1..6
        BY <2>1, <2>2, EraOf, ErasAreNumbers
      <3> QED BY <2>1, <2>2, <3>1, <3>2, EraOf DEF Indexed
    <2> QED BY <2>1, <2>3, <2>4
  <1> QED BY <1>1, <1>2

(* A run whose failure is on file takes up no decision. *)
LEMMA FailureRefuses ==
  ASSUME Tidy, NEW n \in Attempts, Open(n), <<"failure", n>> \in portable,
         NEW m \in Attempts, NEW d \in Decisions(m), Submit(m, d)
  PROVE  FALSE
  <1>1. Unbound # {} /\ ckpt.failed = TRUE
    <2>1. ckpt.failed /\ Artifacts(n) # {} /\ ckpt \in Checkpoint
      BY Found DEF Failing, TypeOK
    <2> QED BY <2>1, ArtifactsOf DEF Checkpoint
  <1>2. SubmitInFlight(m, d)
    BY <1>1 DEF Submit, SubmitFresh, SubmitRecovery, ControllerFailure
  <1> QED BY <1>1, <1>2 DEF SubmitInFlight, InFlightVerified, InFlightProjection

(* Once the failure is on file, the run is closed with it or not at all. *)
LEMMA AfterFailure ==
  ASSUME Tidy, [Next]_vars, Temporary \notin Stored', NEW n \in Attempts, Open(n),
         <<"failure", n>> \in portable
  PROVE  /\ UNCHANGED <<ckpt, runtime>>
         /\ pc' = "idle" \/ (Ending' /\ call'.kind = "failed")
  <1>1. pc = "idle" \/ (Ending /\ call.kind = "failed")
    BY Found DEF Failing
  <1>2. CASE pc = "idle"
    BY <1>2, IdleSteps, FailureRefuses, Found DEF vars
  <1>3. CASE Ending /\ call.kind = "failed"
    BY <1>3, EndingSteps, Found
  <1> QED BY <1>1, <1>2, <1>3

(* A seam is trusted only once something of its attempt is stored.         *)
LEMMA SeamStep ==
  ASSUME Tidy, [Next]_vars, Temporary \notin Stored', Working', call'.seam # "none"
  PROVE  Artifacts(call.attempt)' # {}
  <1>0. /\ Control /\ Leases /\ Failing /\ CallOK /\ runtime \subseteq runtime' /\ EvidenceInv /\ Roles
        /\ call.attempt \in Attempts
    BY Found, StorageGrows
  <1>1. ASSUME NEW n \in Attempts, NEW f \in runtime, f[2] = n, call'.attempt = n
        PROVE  Artifacts(call.attempt)' # {}
    BY <1>0, <1>1 DEF Artifacts
  <1>2. CASE CallEngineer \/ RunChecks \/ CallValidator
    <2>1. /\ pc \in EngineerPcs \cup ValidatorPcs /\ call'.attempt = call.attempt
          /\ pc \in {"implement", "checks", "assess"}
      BY <1>0, <1>2 DEF CallEngineer, RunChecks, CallValidator, EngineerPcs, ValidatorPcs, CallOK
    <2>2. This = call.attempt
      BY <1>0, <2>1, AtWork
    <2>3. \E g \in DOMAIN Rank : <<g, This>> \in runtime
      <3>1. pc = "implement" => Lease("engineer", This) \in runtime
        BY <1>0 DEF Leases, EngineerOnce
      <3>2. pc = "assess" => Lease("validator", This) \in runtime
        BY <1>0 DEF Leases, ValidatorOnce
      <3>3. pc = "checks" => <<"engineer", This>> \in runtime
        BY <1>0, AtWork DEF ValidatorPcs, Has
      <3> QED BY <2>1, <3>1, <3>2, <3>3 DEF Lease, Rank
    <2> QED BY <1>0, <1>1, <2>1, <2>2, <2>3
  <1>3. ASSUME NEW n \in Attempts, NEW d \in Decisions(n), SubmitInFlight(n, d)
        PROVE  Artifacts(call.attempt)' # {}
    <2>1. Interrupted(n) # {} /\ call'.attempt = n
      BY <1>3 DEF SubmitInFlight, Enter, NoCall
    <2>2. PICK r \in RoleNodes : Lease(r, n) \in runtime
      BY <2>1 DEF Interrupted, Unbound
    <2> QED BY <1>1, <2>1, <2>2 DEF Lease
  <1>4. CASE /\ call'.seam \in {"none", call.seam} /\ ~CallEngineer /\ ~RunChecks /\ ~CallValidator
             /\ ~\E n \in Attempts : \E d \in Decisions(n) : SubmitInFlight(n, d)
    <2>1. call'.seam = call.seam /\ call.seam # "none"
      BY <1>4
    <2>2. Working /\ call'.attempt = call.attempt
      <3>1. CASE Invoke
        <4>1. Deciding
          BY <3>1 DEF Invoke, Deciding
        <4> QED BY <1>0, <2>1, <4>1 DEF Failing
      <3>2. ASSUME NEW d \in Decisions(2), SubmitRecovery(d) PROVE FALSE
        BY <2>1, <3>2, <1>4 DEF SubmitRecovery, Enter, NoCall
      <3> QED BY <1>0, <1>4, <3>1, <3>2, WorkingSteps
    <2>3. PICK f \in Artifacts(call.attempt) : TRUE
      BY <1>0, <2>1, <2>2 DEF Failing
    <2> QED BY <1>0, <1>1, <2>2, <2>3 DEF Artifacts
  <1> QED BY <1>0, <1>2, <1>3, <1>4, SeamSteps

(* A failure is filed with what it left behind, and closes the run for good. *)
LEMMA FailingStep ==
  ASSUME Tidy, [Next]_vars, Temporary \notin Stored'
  PROVE  Failing'
  <1>0. /\ Control /\ Leases /\ RunInv /\ Failing /\ CallOK /\ TypeOK /\ portable \subseteq portable'
        /\ runtime \subseteq runtime' /\ call.attempt \in Attempts /\ Works /\ Chain /\ Filed
    BY Found, StorageGrows
  <1>1. ASSUME NEW n \in Attempts, Open(n)', NEW f \in portable', Era(f) = 6
        PROVE  <<"failure", n>> \in portable'
    <2>1. Open(n) /\ anchors' = anchors
      <3> SUFFICES ASSUME ~Open(n) PROVE FALSE
        BY <1>1, NewlyOpen
      <3>1. f \in portable /\ Era(f) <= Age[AuthorizedKind(n)]
        BY <1>1, NewlyOpen
      <3> QED BY <1>1, <3>1, EraOf DEF AuthorizedKind, Attempts
    <2>2. CASE f \in portable
      BY <1>0, <1>1, <2>1, <2>2 DEF Failing
    <2>3. CASE f \notin portable
      <3>1. Open(call.attempt) /\ call.attempt = n
        <4>1. Open(call.attempt)
          BY <1>1, <2>1, <2>3, WritesInTime, OneStage, Found, EraOf DEF AuthorizedKind
        <4> QED BY <1>0, <2>1, <4>1, OneStage, Found
      <3>2. \/ f = <<"failure", n>>
            \/ Ending /\ f \in FreezeFiles(call.kind) /\ Era(f) = Age[call.kind]
        BY <1>1, <2>1, <2>3, <3>1, WritesInTime, OneStage, Found, EraOf DEF SuccessKind, Attempts
      <3>3. CASE f = <<"failure", n>>
        BY <1>1, <3>3
      <3>4. CASE Ending /\ f \in FreezeFiles(call.kind) /\ Era(f) = Age[call.kind]
        <4>1. call.kind = "failed"
          BY <1>0, <1>1, <3>4 DEF Kinds, Age, CallOK
        <4> QED BY <1>0, <3>1, <3>4, <4>1 DEF Failing
      <3> QED BY <3>2, <3>3, <3>4
    <2> QED BY <2>2, <2>3
  <1>2. ASSUME NEW n \in Attempts, Open(n)', <<"failure", n>> \in portable'
        PROVE  /\ ckpt'.failed /\ ckpt'.attempt = n /\ Artifacts(n)' # {}
               /\ pc' = "idle" \/ (Ending' /\ call'.kind = "failed")
    <2>1. Open(n)
      <3> SUFFICES ASSUME ~Open(n) PROVE FALSE
        OBVIOUS
      <3>1. <<"failure", n>> \in portable /\ Era(<<"failure", n>>) <= Age[AuthorizedKind(n)]
        BY <1>2, NewlyOpen
      <3> QED BY <3>1, EraOf DEF AuthorizedKind, Attempts
    <2>2. CASE <<"failure", n>> \in portable
      <3>1. ckpt.failed /\ ckpt.attempt = n /\ Artifacts(n) # {}
        BY <1>0, <2>1, <2>2 DEF Failing
      <3>2. Artifacts(n) \subseteq Artifacts(n)'
        BY <1>0 DEF Artifacts
      <3> QED BY <2>1, <2>2, <3>1, <3>2, AfterFailure
    <2>3. CASE <<"failure", n>> \notin portable
      <3>1. pc = "failure" /\ n = call.attempt
        <4>1. <<"failure", n>> \in NextPortable /\ <<"failure", n>> \notin runtime
          BY <1>2, <2>3, PortableWrites, Found DEF Temporary, ModelFiles, Rank
        <4> QED BY <4>1 DEF NextPortable
      <3>2. /\ UNCHANGED <<ckpt, runtime>> /\ ckpt.attempt = n
        BY <1>2, <2>1, <2>3, <3>1, WritesInTime, OneStage, Found
      <3>3. PersistFailure
        BY <1>2, <2>3, <3>1, PortableSteps
           DEF PersistApproval, Promote, WriteStatus, WriteProjection, WriteIndex, PersistDecision,
               Crash, Temporary
      <3>4. Ending' /\ call'.kind = "failed"
        BY <1>0, <3>1, <3>3, KindsDiffer DEF PersistFailure, Goto, Ending, CallOK
      <3>5. ckpt.failed /\ Artifacts(n) # {}
        BY <1>0, <3>1 DEF Failing
      <3> QED BY <3>2, <3>4, <3>5 DEF Artifacts
    <2> QED BY <2>2, <2>3
  <1>3. ASSUME pc' = "failure" PROVE ckpt'.failed /\ Artifacts(call.attempt)' # {}
    <2>1. CASE UNCHANGED vars
      BY <1>0, <1>3, <2>1 DEF Failing, Artifacts, vars
    <2>2. CASE RecordTaskError /\ call.seam # "none"
      <3>1. Working /\ ckpt'.failed /\ UNCHANGED runtime /\ call'.attempt = call.attempt
        <4>1. ckpt \in Checkpoint /\ pc = "raise"
          BY <1>0, <2>2 DEF TypeOK, RecordTaskError
        <4>2. ckpt' = [ckpt EXCEPT !.failed = TRUE] /\ UNCHANGED runtime
          BY <2>2 DEF RecordTaskError
        <4>3. call'.attempt = call.attempt
          BY <1>0, <2>2 DEF RecordTaskError, CallOK
        <4> QED BY <4>1, <4>2, <4>3 DEF Working, Checkpoint
      <3> QED BY <1>0, <2>2, <3>1 DEF Failing, Artifacts
    <2> QED BY <1>0, <1>3, <2>1, <2>2, Arrivals
  <1>4. ASSUME Ending', call'.kind = "failed" PROVE <<"failure", call'.attempt>> \in portable'
    <2>1. CASE UNCHANGED vars
      BY <1>0, <1>4, <2>1 DEF Failing, Ending, vars
    <2>2. CASE PersistFailure
      BY <2>2 DEF PersistFailure, Goto
    <2>3. CASE PersistCorrection
      <3>1. call'.kind = SuccessKind(call.attempt)
        BY <1>0, <2>3 DEF PersistCorrection, CallOK
      <3> QED BY <1>0, <1>4, <3>1, KindsDiffer
    <2>4. CASE Ending /\ call' = call
      BY <1>0, <1>4, <2>4 DEF Failing
    <2> QED BY <1>0, <1>4, <2>1, <2>2, <2>3, <2>4, Arrivals
  <1>5. Deciding' => call'.seam = "none"
    <2> SUFFICES ASSUME Deciding' PROVE call'.seam = "none"
      OBVIOUS
    <2>1. ASSUME NEW n \in Attempts, NEW d \in Decisions(n), SubmitFresh(n, d) PROVE call'.seam = "none"
      BY <2>1 DEF SubmitFresh, Enter, NoCall
    <2> QED BY <1>0, <2>1, DecidingSteps DEF Failing
  <1>6. "failed" \in anchors' =>
          /\ ckpt' = frozen'["failed"] /\ index'["failed"] = Inventory("failed")'
          /\ \E n \in Attempts : <<"failure", n>> \in portable' /\ CompletedAuthorizations(1..n)'
    <2> SUFFICES ASSUME "failed" \in anchors' PROVE
          /\ ckpt' = frozen'["failed"] /\ index'["failed"] = Inventory("failed")'
          /\ \E n \in Attempts : <<"failure", n>> \in portable' /\ CompletedAuthorizations(1..n)'
      OBVIOUS
    <2>1. CASE "failed" \in anchors
      <3>1. UNCHANGED durable
        BY <1>0, <2>1, FinalIsFinal DEF Final
      <3> QED BY <1>0, <2>1, <3>1 DEF durable, Failing, Inventory, CompletedAuthorizations
    <2>2. CASE "failed" \notin anchors
      <3>1. /\ call.kind = "failed" /\ UNCHANGED <<portable, index, frozen, ckpt, intent, consent>>
            /\ frozen["failed"] = ckpt /\ index["failed"] = Inventory("failed") /\ Working /\ Ending
            /\ anchors' = anchors \cup {"failed"} /\ Open(call.attempt)
        BY <1>0, <2>2, NewLatest, KindsDiffer
      <3>2. <<"failure", call.attempt>> \in portable
        BY <1>0, <3>1 DEF Failing
      <3>3. PICK n \in Attempts : n = call.attempt
        BY <1>0
      <3>4. \A i \in 1..n : i \in Attempts /\ AuthorizedKind(i) \in anchors
        BY <1>0, <3>1, <3>3 DEF Open, Closing, Chain, Offered, AuthorizedKind, Attempts
      <3>5. \A i \in Attempts : i \notin 1..n => AuthorizedKind(i) \notin anchors'
        BY <1>0, <3>1, <3>3 DEF Open, Closing, Chain, Offered, AuthorizedKind, SuccessKind, Attempts
      <3>6. CompletedAuthorizations(1..n)'
        BY <1>0, <3>1, <3>4, <3>5 DEF CompletedAuthorizations, Filed
      <3> QED BY <1>0, <3>1, <3>2, <3>3, <3>6 DEF Inventory
    <2> QED BY <2>1, <2>2
  <1> QED BY <1>1, <1>2, <1>3, <1>4, <1>5, <1>6, SeamStep DEF Failing

-----------------------------------------------------------------------------
(* An attempt that ends.                                                   *)

(* What ends an attempt is of its own era. *)
LEMMA SuccessEra ==
  ASSUME NEW n \in Attempts
  PROVE  /\ Era(<<"decision", n>>) = Age[SuccessKind(n)]
         /\ \A f \in FreezeFiles(SuccessKind(n)) : Era(f) = Age[SuccessKind(n)]
         /\ \A f \in ModelFiles : f[2] = n => Era(f) = Age[SuccessKind(n)]
         /\ Age[SuccessKind(n)] > Age[AuthorizedKind(n)]
         /\ Age[SuccessKind(n)] \in 1..5 /\ Age[AuthorizedKind(n)] \in 1..5
  <1>1. ASSUME NEW f \in ModelFiles, f[2] = n PROVE Era(f) = Age[SuccessKind(n)]
    <2>1. PICK g \in DOMAIN Rank : f = <<g, n>>
      BY <1>1 DEF ModelFiles
    <2> QED BY <2>1, EraOf
  <1>2. Age[SuccessKind(n)] > Age[AuthorizedKind(n)]
        /\ Age[SuccessKind(n)] \in 1..5 /\ Age[AuthorizedKind(n)] \in 1..5
    BY EraOf DEF SuccessKind, AuthorizedKind, Attempts
  <1> QED BY <1>1, <1>2, EraOf, KindsDiffer

(* An attempt whose end is on file stays where it ended. *)
LEMMA ConcludedStays ==
  ASSUME Tidy, [Next]_vars, Temporary \notin Stored', NEW n \in Attempts, Open(n),
         NEW f \in portable, Era(f) = Age[SuccessKind(n)]
  PROVE  /\ ckpt' = ckpt /\ ckpt.attempt = n
         /\ pc' \notin RunningPcs \cup {"return", "raise"}
         /\ ckpt.next = "end" \/ <<"failure", n>> \in portable
         /\ runtime' = runtime \/ PersistCorrection
  <1>0. /\ Control /\ TypeOK /\ Decides /\ Freezes /\ Chain /\ DecisionInv /\ call.attempt \in Attempts
        /\ ckpt.attempt = n /\ pc \notin RunningPcs \cup {"return", "raise"}
        /\ ckpt.next = "end" \/ <<"failure", n>> \in portable
    BY Found DEF Concluding
  <1>1. CASE <<"failure", n>> \in portable
    <2>1. /\ UNCHANGED <<ckpt, runtime>>
          /\ pc' = "idle" \/ (Ending' /\ call'.kind = "failed")
      BY <1>1, AfterFailure
    <2> QED BY <1>0, <1>1, <2>1 DEF Ending, FreezePcs, RunningPcs, RolePcs
  <1>2. CASE <<"failure", n>> \notin portable
    <2>0. ckpt.next = "end"
      BY <1>0, <1>2
    <2>1. CASE UNCHANGED vars
      BY <1>0, <2>0, <2>1 DEF vars
    <2>2. ASSUME NEW m \in Attempts, NEW d \in Decisions(m), Submit(m, d)
          PROVE  UNCHANGED durable /\ pc' \notin RunningPcs \cup {"return", "raise"}
      <3>1. UNCHANGED durable /\ pc' \in {"intent", "decision", "loop"} /\ pc' # "loop"
        BY <1>0, <2>0, <2>2, Submitted DEF RoleNodes
      <3> QED BY <3>1 DEF RunningPcs, RolePcs
    <2>3. Apart => runtime' = runtime \/ PersistCorrection
      BY DEF Apart, Authorize, Freeze, BindIntent, PersistApproval, Promote, WriteStatus, WriteProjection,
             WriteIndex, BindAnchor, RefuseWrite, PersistFailure, PersistDecision, durable
    <2>4. ~InsideNode /\ ~Raises
      BY <1>0, InsideMoves, RaisesMoves DEF RunningPcs
    <2>5. ~Flush
      BY <1>0, FlowFacts DEF Flush
    <2>6. ~Route /\ ~Return /\ ~EngineerDone /\ ~ValidatorDone /\ ~RecordTaskError
      BY <1>0 DEF Route, Return, EngineerDone, ValidatorDone, RecordTaskError, RunningPcs, RolePcs
    <2>7. ~Invoke
      <3> SUFFICES ASSUME pc = "invoke" PROVE FALSE
        BY DEF Invoke
      <3>1. Deciding /\ call.attempt \in {1, 2}
        BY <1>0 DEF Deciding, Attempts
      <3>2. call.attempt = 2
        BY <1>0, <2>0, <3>1 DEF Decides
      <3>3. "correction_authorized" \in anchors /\ frozen["correction_authorized"] = ckpt
        BY <1>0, <3>2 DEF DecisionInv, Bound, Freezes, AuthorizedKind
      <3>4. ckpt.attempt = 1
        BY <1>0, <3>3 DEF Chain
      <3>5. n = 1
        BY <1>0, <3>4
      <3> QED BY <1>0, <3>3, <3>5 DEF Open, Closing, Chain, Offered, SuccessKind, AuthorizedKind
    <2>8. Crash => UNCHANGED <<ckpt, runtime>> /\ pc' = "idle"
      BY DEF Crash, Die, Finish, Stored
    <2>9. Apart => ckpt' = ckpt /\ pc' \notin RunningPcs \cup {"return", "raise"}
      BY ApartMoves
    <2> QED BY <1>0, <2>0, <2>1, <2>2, <2>3, <2>4, <2>5, <2>6, <2>7, <2>8, <2>9, StepIsOfOneKind
            DEF durable, RunningPcs, RolePcs
  <1> QED BY <1>1, <1>2

(* The correction request of a report is written before anything ends. *)
LEMMA CorrectionStays ==
  ASSUME Tidy, PersistCorrection, ckpt.report # None => Has("correction_request", ckpt.report.attempt)
  PROVE  runtime' = runtime
  BY DEF PersistCorrection, Has, Stored

(* Only an attempt that ended writes what belongs to its end.              *)
LEMMA EndsAt ==
  ASSUME Tidy, [Next]_vars, Temporary \notin Stored', NEW n \in Attempts, Open(n)',
         NEW f \in portable', Era(f) = Age[SuccessKind(n)]
  PROVE  /\ Open(n) /\ anchors' = anchors
         /\ ckpt' = ckpt /\ ckpt.attempt = n
         /\ pc' \notin RunningPcs \cup {"return", "raise"}
         /\ ckpt.next = "end" \/ <<"failure", n>> \in portable'
  <1>0. Control /\ Freezes /\ Failing /\ CallOK /\ call.attempt \in Attempts /\ portable \subseteq portable'
    BY Found, StorageGrows
  <1>1. Open(n) /\ anchors' = anchors
    <2> SUFFICES ASSUME ~Open(n) PROVE FALSE
      BY NewlyOpen
    <2>1. f \in portable /\ Era(f) <= Age[AuthorizedKind(n)]
      BY NewlyOpen
    <2>2. /\ Age[SuccessKind(n)] > Age[AuthorizedKind(n)]
          /\ Age[SuccessKind(n)] \in 1..5 /\ Age[AuthorizedKind(n)] \in 1..5
      BY SuccessEra
    <2> QED BY <2>1, <2>2
  <1>2. CASE f \in portable
    BY <1>0, <1>1, <1>2, ConcludedStays
  <1>3. CASE f \notin portable
    <2>1. Open(call.attempt) /\ call.attempt = n
      BY <1>0, <1>1, <1>3, WritesInTime, OneStage, Found
    <2>2. /\ Working /\ UNCHANGED <<runtime, ckpt, anchors>> /\ ckpt.attempt = n
          /\ pc' \notin RunningPcs \cup {"return", "raise"}
      BY <1>1, <1>3, <2>1, WritesInTime, OneStage, Found
    <2>3. \/ pc = "promote" \/ pc = "decision"
          \/ Ending /\ call.kind \in {SuccessKind(call.attempt), "failed"}
      <3>1. Era(f) # 6
        <4>1. Age[SuccessKind(n)] \in 1..5
          BY SuccessEra
        <4> QED BY <4>1
      <3> QED BY <1>1, <1>3, <2>1, <3>1, WritesInTime, OneStage, Found
    <2>4. pc = "decision" \/ Ending
      BY <1>0, <2>3, KindsDiffer DEF Ending, CallOK
    <2>5. CASE Ending /\ call.kind = "failed"
      <3>1. <<"failure", n>> \in portable
        BY <1>0, <2>1, <2>5 DEF Failing
      <3> QED BY <1>0, <1>1, <2>2, <3>1
    <2>6. CASE pc = "decision" \/ (Ending /\ call.kind # "failed")
      BY <1>0, <1>1, <2>2, <2>6 DEF Freezes
    <2> QED BY <2>4, <2>5, <2>6
  <1> QED BY <1>2, <1>3


(* An attempt ends on its terminal checkpoint, with everything promoted    *)
(* before anything is frozen.                                              *)
LEMMA ConcludingStep ==
  ASSUME Tidy, [Next]_vars, Temporary \notin Stored'
  PROVE  Concluding'
  <1>0. /\ Control /\ Leases /\ Freezes /\ Failing /\ Concluding /\ Sequenced /\ CallOK /\ Copied
        /\ call.attempt \in Attempts /\ portable \subseteq portable' /\ runtime \subseteq runtime'
        /\ runtime \subseteq ModelFiles /\ Works
    BY Found, StorageGrows
  <1>1. ASSUME NEW n \in Attempts, Open(n)', \E f \in portable' : Era(f) = Age[SuccessKind(n)]
        PROVE  /\ ckpt'.attempt = n /\ pc' \notin RunningPcs \cup {"return", "raise"}
               /\ ckpt'.next = "end" \/ <<"failure", n>> \in portable'
    BY <1>1, EndsAt
  <1>2. ASSUME NEW n \in Attempts, Open(n)', <<"failure", n>> \notin portable',
               <<"decision", n>> \in portable'
        PROVE  ckpt'.intervention
    <2>1. Open(n) /\ ckpt' = ckpt
      BY <1>2, EndsAt, SuccessEra
    <2>2. CASE <<"decision", n>> \in portable
      BY <1>0, <1>2, <2>1, <2>2 DEF Concluding
    <2>3. CASE <<"decision", n>> \notin portable
      <3>1. <<"decision", n>> \in NextPortable /\ <<"decision", n>> \notin runtime
        BY <1>2, <2>3, PortableWrites, Found DEF Temporary, ModelFiles, Rank
      <3> QED BY <2>1, <3>1 DEF NextPortable
    <2> QED BY <2>2, <2>3
  <1>3. ASSUME NEW n \in Attempts, Open(n)', <<"failure", n>> \notin portable',
               <<"status", SuccessKind(n)>> \in portable'
        PROVE  /\ frozen'[SuccessKind(n)] = ckpt' /\ runtime' \subseteq portable'
               /\ ckpt'.intervention => <<"decision", n>> \in portable'
               /\ ckpt'.report # None => <<"correction_request", ckpt'.report.attempt>> \in runtime'
    <2>0. Open(n) /\ ckpt' = ckpt /\ SuccessKind(n) \in Kinds
      BY <1>3, EndsAt, SuccessEra, KindsDiffer DEF FreezeFiles
    <2>1. CASE <<"status", SuccessKind(n)>> \in portable
      <3>1. /\ frozen[SuccessKind(n)] = ckpt /\ runtime \subseteq portable
            /\ ckpt.intervention => <<"decision", n>> \in portable
            /\ ckpt.report # None => Has("correction_request", ckpt.report.attempt)
        BY <1>0, <1>3, <2>0, <2>1 DEF Concluding
      <3>2. runtime' = runtime
        BY <2>0, <2>1, <3>1, ConcludedStays, CorrectionStays, SuccessEra DEF FreezeFiles
      <3>3. frozen'[SuccessKind(n)] = frozen[SuccessKind(n)]
        BY <1>0, <2>0, <2>1, ContentsStay
      <3> QED BY <1>0, <2>0, <3>1, <3>2, <3>3 DEF Has
    <2>2. CASE <<"status", SuccessKind(n)>> \notin portable
      <3>1. /\ pc = "status" /\ SuccessKind(n) = call.kind /\ Ending /\ call.attempt = n
            /\ frozen'[SuccessKind(n)] = ckpt /\ call.kind # "failed"
        <4>1. /\ pc = "status" /\ SuccessKind(n) = call.kind
              /\ frozen'[SuccessKind(n)] = ckpt
              /\ call.kind \in {AuthorizedKind(call.attempt), SuccessKind(call.attempt), "failed"}
              /\ call.kind # AuthorizedKind(call.attempt) => Ending
          BY <1>3, <2>0, <2>2, FreezeWrites
        <4>2. call.attempt = n /\ call.kind # "failed"
          BY <1>0, <4>1 DEF AuthorizedKind, SuccessKind, Attempts
        <4> QED BY <4>1, <4>2, KindsDiffer
      <3>2. /\ runtime \subseteq portable
            /\ ckpt.intervention => <<"decision", n>> \in portable
            /\ ckpt.report # None => Has("correction_request", ckpt.report.attempt)
        BY <1>0, <3>1 DEF Freezes, FreezePcs, Concluding
      <3>3. runtime' = runtime
        BY <3>1, EndingSteps, Found
      <3> QED BY <1>0, <2>0, <3>1, <3>2, <3>3 DEF Has
    <2> QED BY <2>1, <2>2
  <1>4. ASSUME NEW n \in Attempts, Open(n)', <<"failure", n>> \notin portable',
               <<"index", SuccessKind(n)>> \in portable'
        PROVE  index'[SuccessKind(n)] = Inventory(SuccessKind(n))'
    <2>0. Open(n) /\ SuccessKind(n) \in Kinds
      BY <1>4, EndsAt, SuccessEra, KindsDiffer DEF FreezeFiles
    <2>1. CASE <<"index", SuccessKind(n)>> \in portable
      <3>1. FreezeFiles(SuccessKind(n)) \subseteq portable
        BY <1>0, <2>0, <2>1 DEF Sequenced, FreezeFiles
      <3>2. /\ runtime \subseteq portable
            /\ ckpt.intervention => <<"decision", n>> \in portable
        BY <1>0, <1>4, <2>0, <3>1 DEF Concluding, FreezeFiles
      <3>3. portable' = portable
        <4> SUFFICES ASSUME NEW f \in portable', f \notin portable PROVE FALSE
          BY <1>0
        <4>1. Open(call.attempt) /\ call.attempt = n
          BY <1>0, <2>0, WritesInTime, OneStage, Found
        <4>2. /\ Working
              /\ \/ f \in Artifacts(n)
                 \/ f = <<"decision", n>> /\ ckpt.intervention
                 \/ f = <<"failure", n>>
                 \/ Ending /\ call.kind \in {SuccessKind(n), "failed"} /\ f \in FreezeFiles(call.kind)
          BY <2>0, <4>1, WritesInTime, OneStage, Found
        <4>3. Ending /\ call.kind = "failed"
          BY <1>4, <3>1, <3>2, <4>2 DEF Artifacts
        <4> QED BY <1>0, <1>4, <4>1, <4>3 DEF Failing
      <3>4. index'[SuccessKind(n)] = index[SuccessKind(n)]
        BY <1>0, <2>0, <2>1, ContentsStay
      <3> QED BY <1>0, <1>4, <2>0, <2>1, <3>3, <3>4 DEF Concluding, Inventory
    <2>2. CASE <<"index", SuccessKind(n)>> \notin portable
      <3>1. /\ index'[SuccessKind(n)] = Inventory(SuccessKind(n))
            /\ portable' = portable \cup {<<"index", SuccessKind(n)>>}
        BY <1>4, <2>0, <2>2, FreezeWrites
      <3> QED BY <3>1 DEF Inventory
    <2> QED BY <2>1, <2>2
  <1>5. ASSUME NEW n \in Attempts, Open(n)', <<"failure", n>> \notin portable',
               NEW f \in runtime', f[2] = n, f \in portable'
        PROVE  /\ ckpt'.report # None => <<"correction_request", ckpt'.report.attempt>> \in runtime'
               /\ \A g \in runtime' : g[2] = n /\ Rank[g[1]] <= Rank[f[1]] => g \in portable'
    <2>1. f \in ModelFiles /\ Era(f) = Age[SuccessKind(n)]
      <3>1. f \in ModelFiles
        BY <1>0, <1>5, TypeStep DEF TypeOK, Stored
      <3> QED BY <1>5, <3>1, SuccessEra
    <2>2. Open(n) /\ ckpt' = ckpt
      BY <1>5, <2>1, EndsAt
    <2>3. CASE f \in portable
      <3>1. f \in Artifacts(n)
        BY <1>0, <1>5, <2>1, <2>3 DEF Copied, Artifacts
      <3>2. /\ ckpt.report # None => Has("correction_request", ckpt.report.attempt)
            /\ \A g \in Artifacts(n) : Rank[g[1]] <= Rank[f[1]] => g \in portable
        BY <1>0, <1>5, <2>2, <2>3, <3>1 DEF Concluding
      <3>3. runtime' = runtime
        BY <2>1, <2>2, <2>3, <3>2, ConcludedStays, CorrectionStays
      <3> QED BY <1>0, <2>2, <3>2, <3>3 DEF Artifacts, Has
    <2>4. CASE f \notin portable
      <3>1. Open(call.attempt) /\ call.attempt = n
        BY <1>0, <1>5, <2>2, <2>4, WritesInTime, OneStage, Found
      <3>2. pc = "promote" /\ Promote /\ runtime' = runtime
        <4>1. \A k \in Kinds : f \notin FreezeFiles(k)
          BY <2>1 DEF FreezeFiles, ModelFiles, Rank
        <4>2. f # <<"decision", n>> /\ f # <<"failure", n>>
          BY <2>1 DEF ModelFiles, Rank
        <4> QED BY <1>0, <1>5, <2>2, <2>4, <3>1, <4>1, <4>2, WritesInTime, OneStage, Found, KindsDiffer
                DEF CallOK
      <3>3. Ending /\ call.kind # "failed"
        <4>1. Ending
          BY <1>0, <3>2, KindsDiffer DEF Ending, CallOK
        <4> QED BY <1>0, <1>5, <3>1, <4>1 DEF Failing
      <3>4. ckpt.report # None => Has("correction_request", ckpt.report.attempt)
        BY <1>0, <3>3 DEF Concluding
      <3>5. ASSUME NEW g \in runtime', g[2] = n, Rank[g[1]] <= Rank[f[1]] PROVE g \in portable'
        <4> SUFFICES ASSUME g \notin portable PROVE g = f
          BY <1>0, <1>5
        <4>1. /\ f \in runtime \ portable /\ g \in runtime \ portable
          BY <1>5, <2>4, <3>2, <3>5
        <4>2. \A h \in runtime \ portable : Rank[f[1]] <= Rank[h[1]]
          BY <1>5, <2>4, <3>2, <4>1 DEF Promote
        <4>3. PICK i \in DOMAIN Rank, j \in DOMAIN Rank : f = <<i, n>> /\ g = <<j, n>>
          BY <1>0, <1>5, <3>5, <4>1 DEF ModelFiles
        <4>4. Rank[i] <= Rank[j] /\ Rank[j] <= Rank[i]
          BY <3>5, <4>1, <4>2, <4>3
        <4>5. i = j
          BY <4>4 DEF Rank
        <4> QED BY <4>3, <4>5
      <3> QED BY <2>2, <3>2, <3>4, <3>5 DEF Has
    <2> QED BY <2>3, <2>4
  <1>6. ASSUME pc' = "correction" \/ (Ending' /\ call'.kind # "failed"), ckpt'.intervention
        PROVE  <<"decision", call'.attempt>> \in portable'
    <2>1. CASE UNCHANGED vars
      BY <1>0, <1>6, <2>1 DEF Concluding, Ending, vars
    <2>2. CASE PersistDecision
      <3>1. Working /\ Current = ckpt
        BY <1>0, <2>2, WhereIs DEF PersistDecision, Working
      <3> QED BY <1>0, <1>6, <2>2, <3>1 DEF PersistDecision, Works, Goto
    <2>3. CASE PersistCorrection
      <3>1. pc = "correction" /\ ckpt' = ckpt /\ call'.attempt = call.attempt
        BY <1>0, <2>3 DEF PersistCorrection, CallOK
      <3> QED BY <1>0, <1>6, <3>1 DEF Concluding
    <2>4. CASE PersistFailure
      <3>1. pc = "failure" /\ pc' = "promote" /\ call' = call
        BY <2>4 DEF PersistFailure, Goto
      <3> QED BY <1>0, <1>6, <3>1 DEF CallOK
    <2>5. CASE Ending /\ call' = call /\ UNCHANGED ckpt /\ Ending'
      <3>1. call.kind # "failed" /\ ckpt.intervention
        BY <1>6, <2>5 DEF Ending, FreezePcs
      <3> QED BY <1>0, <2>5, <3>1 DEF Concluding
    <2> QED BY <1>0, <1>6, <2>1, <2>2, <2>3, <2>4, <2>5, Arrivals
  <1>7. ASSUME Ending', call'.kind # "failed", ckpt'.report # None
        PROVE  <<"correction_request", ckpt'.report.attempt>> \in runtime'
    <2>1. CASE UNCHANGED vars
      BY <1>0, <1>7, <2>1 DEF Concluding, Ending, vars, Has
    <2>2. CASE PersistCorrection
      <3>1. ckpt \in Checkpoint /\ ckpt.report \in Reports \cup {None} /\ ckpt' = ckpt
        BY <1>0, <2>2, FlowFacts DEF PersistCorrection, Checkpoint
      <3>2. <<"correction_request", ckpt.report.attempt>> \in ModelFiles
        BY <1>7, <3>1 DEF Reports, ModelFiles, Rank
      <3> QED BY <1>0, <1>7, <2>2, <3>1, <3>2, StoredIsRuntime DEF PersistCorrection
    <2>3. CASE PersistFailure
      <3>1. pc = "failure" /\ call' = call
        BY <2>3 DEF PersistFailure, Goto
      <3> QED BY <1>0, <1>7, <3>1 DEF CallOK
    <2>4. CASE Ending /\ call' = call /\ UNCHANGED <<ckpt, runtime>>
      BY <1>0, <1>7, <2>4 DEF Concluding, Has
    <2> QED BY <1>0, <1>7, <2>1, <2>2, <2>3, <2>4, Arrivals
  <1> QED BY <1>1, <1>2, <1>3, <1>4, <1>5, <1>6, <1>7 DEF Concluding, Has, Artifacts

-----------------------------------------------------------------------------
(* The tree of every reachable state without a cut-off write.              *)

(* A planned run has a tree of its own. *)
LEMMA InitTree == Init => Tree
  <1> SUFFICES ASSUME Init PROVE Tree
    OBVIOUS
  <1>1. /\ anchors = {"planned"} /\ pc = "idle" /\ call = NoCall /\ runtime = {}
        /\ intent = [n \in Attempts |-> None] /\ ckpt = PlannedCheckpoint
        /\ portable = {<<"plan", 0>>} \cup FreezeFiles("planned")
        /\ index = [k \in Kinds |-> IF k = "planned" THEN PlannedFiles \ {<<"index", k>>} ELSE {}]
        /\ frozen["planned"] = PlannedCheckpoint
        /\ PlannedFiles = {<<"plan", 0>>} \cup FreezeFiles("planned")
    <2> DEFINE writes == FreezeOrder("planned")
    <2>1. writes[1] = <<"status", "planned">> /\ writes[2] = <<"workflow", "planned">>
          /\ writes[3] = <<"checkpoint", "planned">> /\ writes[4] = <<"index", "planned">>
      BY DEF FreezeOrder
    <2>2. 1..4 = {1, 2, 3, 4}
      OBVIOUS
    <2>3. {writes[i] : i \in 1..4} = FreezeFiles("planned")
      BY <2>1, <2>2, Zenon DEF FreezeFiles
    <2>4. PlannedFiles = {<<"plan", 0>>} \cup FreezeFiles("planned")
      BY <2>3 DEF PlannedFiles
    <2>5. "planned" \in Kinds
      BY DEF Kinds, Age
    <2> QED BY <2>4, <2>5 DEF Init
  <1>2. LatestKind = "planned" /\ Age["planned"] = 1
    <2>1. anchors \subseteq Kinds /\ "planned" \in anchors
      BY <1>1 DEF Kinds, Age
    <2> QED BY <1>1, <2>1, LatestIs, EraOf
  <1>3. \A f \in portable : Era(f) = 1
    BY <1>1, EraOf DEF Kinds, Age
  <1>4. /\ ~Deciding /\ ~Working /\ ~Ending
        /\ \A n \in Attempts : AuthorizedKind(n) \notin anchors
        /\ \A n \in Attempts : ~Open(n)
        /\ "failed" \notin anchors
    BY <1>1 DEF Deciding, Working, Ending, Authorizing, FreezePcs, RunningPcs, RolePcs, Open,
                AuthorizedKind
  <1>5. \A k \in Kinds : index[k] \subseteq portable /\ index[k] \subseteq {<<"plan", 0>>} \cup FreezeFiles("planned")
    BY <1>1
  <1>6. Indexed
    <2>1. \A k \in Kinds : \A f \in index[k] : Era(f) <= Age[k]
      <3> SUFFICES ASSUME NEW k \in Kinds, NEW f \in index[k] PROVE Era(f) <= Age[k]
        OBVIOUS
      <3>1. Era(f) = 1 /\ Age[k] \in 1..6
        BY <1>3, <1>5, EraOf
      <3> QED BY <3>1
    <2>2. "planned" \in Kinds
      BY DEF Kinds, Age
    <2>3. portable \subseteq index["planned"] \cup {<<"index", "planned">>}
      BY <1>1, <2>2
    <2> QED BY <1>2, <1>5, <2>1, <2>3 DEF Indexed
  <1>7. Ahead
    BY <1>2, <1>3 DEF Ahead
  <1>8. \A n \in Attempts : /\ <<"approval", n>> \notin portable
                            /\ <<"status", AuthorizedKind(n)>> \notin portable
                            /\ <<"index", AuthorizedKind(n)>> \notin portable
    BY <1>1 DEF FreezeFiles, AuthorizedKind
  <1>9. Sequenced
    <2>1. \A k \in Kinds : FreezeFiles(k) \subseteq portable \/ FreezeFiles(k) \cap portable = {}
      BY <1>1 DEF FreezeFiles
    <2>2. \A n \in Attempts : intent[n] = None
      BY <1>1
    <2>3. pc \notin {"status", "checkpoint", "index"}
      BY <1>1
    <2> QED BY <1>8, <2>1, <2>2, <2>3 DEF Sequenced, FreezeFiles
  <1>10. Pending
    BY <1>1, <1>4, <1>8 DEF Pending
  <1>11. Failing
    BY <1>1, <1>4 DEF Failing
  <1>12. Concluding
    BY <1>1, <1>4 DEF Concluding
  <1> QED BY <1>6, <1>7, <1>9, <1>10, <1>11, <1>12 DEF Tree

(* Every step keeps the tree in order, unless it is cut off in a write. *)
LEMMA TreeStep ==
  ASSUME EvidenceInv, Roles, Temporary \notin Stored => Tree, [Next]_vars
  PROVE  Temporary \notin Stored' => Tree'
  <1> SUFFICES ASSUME Temporary \notin Stored' PROVE Tree'
    OBVIOUS
  <1>1. Temporary \notin Stored
    BY StorageGrows DEF EvidenceInv, RunInv, Stored
  <1>2. Tidy
    BY <1>1 DEF Tidy
  <1> QED BY <1>2, IndexedStep, AheadStep, SequencedStep, PendingStep, FailingStep, ConcludingStep
          DEF Tree

(* In every reachable state the artifacts of an attempt are written in the *)
(* order its roles work, and, unless a write was cut off, the portable     *)
(* tree is the latest lifecycle's inventory and a prefix of what the       *)
(* operation after it writes.                                              *)
(* (agent_run.py, agent_run_lifecycle.py)                                  *)
RecoveryInv == EvidenceInv /\ Roles /\ (Temporary \notin Stored => Tree)
THEOREM RecoveryInvariance == Spec => []RecoveryInv
  <1>1. Init => Roles /\ (Temporary \notin Stored => Tree)
    BY InitRoles, InitTree
  <1>2. EvidenceInv /\ Roles /\ (Temporary \notin Stored => Tree) /\ [Next]_vars
          => Roles' /\ (Temporary \notin Stored => Tree)'
    BY RolesStep, TreeStep
  <1> QED BY <1>1, <1>2, EvidenceInvariance, PTL DEF Spec, RecoveryInv

-----------------------------------------------------------------------------
(* What a load reads off the tree.                                         *)

(* The writes of a freeze up to one of them are a prefix of its order. *)
LEMMA FreezePrefix ==
  ASSUME NEW k, NEW S, S \subseteq FreezeFiles(k),
         <<"workflow", k>> \in S => <<"status", k>> \in S,
         <<"checkpoint", k>> \in S => <<"workflow", k>> \in S,
         <<"index", k>> \in S => <<"checkpoint", k>> \in S
  PROVE  S \in Prefixes(FreezeOrder(k))
  <1> DEFINE order == FreezeOrder(k)
             Upto(m) == {order[i] : i \in 1..m}
  <1>1. /\ order[1] = <<"status", k>> /\ order[2] = <<"workflow", k>>
        /\ order[3] = <<"checkpoint", k>> /\ order[4] = <<"index", k>>
        /\ Len(order) = 4
    BY DEF FreezeOrder
  <1>2. /\ 1..0 = {} /\ 1..1 = {1} /\ 1..2 = {1, 2} /\ 1..3 = {1, 2, 3} /\ 1..4 = {1, 2, 3, 4}
    OBVIOUS
  <1> HIDE DEF order
  <1>3. /\ Upto(0) = {} /\ Upto(1) = {order[1]} /\ Upto(2) = {order[1], order[2]}
        /\ Upto(3) = {order[1], order[2], order[3]}
        /\ Upto(4) = {order[1], order[2], order[3], order[4]}
    <2>1. Upto(0) = {} /\ Upto(1) = {order[1]}
      BY <1>2
    <2>2. Upto(2) = {order[1], order[2]}
      BY <1>2
    <2>3. Upto(3) = {order[1], order[2], order[3]}
      BY <1>2
    <2>4. Upto(4) = {order[1], order[2], order[3], order[4]}
      BY <1>2
    <2> QED BY <2>1, <2>2, <2>3, <2>4
  <1>4. \/ S = {} \/ S = {order[1]} \/ S = {order[1], order[2]}
        \/ S = {order[1], order[2], order[3]}
        \/ S = {order[1], order[2], order[3], order[4]}
    BY <1>1 DEF FreezeFiles
  <1>5. \E m \in 0..4 : S = Upto(m)
    <2>1. 0 \in 0..4 /\ 1 \in 0..4 /\ 2 \in 0..4 /\ 3 \in 0..4 /\ 4 \in 0..4
      OBVIOUS
    <2> QED BY <1>3, <1>4, <2>1, Zenon
  <1>6. S \in {Upto(m) : m \in 0..Len(order)}
    BY <1>1, <1>5
  <1> QED BY <1>6 DEF Prefixes, order

(* The same of an authorization transaction. *)
LEMMA AuthorizationPrefix ==
  ASSUME NEW n, NEW S, S \subseteq AuthorizationFiles(n),
         <<"status", AuthorizedKind(n)>> \in S => <<"approval", n>> \in S,
         <<"workflow", AuthorizedKind(n)>> \in S => <<"status", AuthorizedKind(n)>> \in S,
         <<"checkpoint", AuthorizedKind(n)>> \in S => <<"workflow", AuthorizedKind(n)>> \in S,
         <<"index", AuthorizedKind(n)>> \in S => <<"checkpoint", AuthorizedKind(n)>> \in S
  PROVE  S \in Prefixes(AuthorizationOrder(n))
  <1> DEFINE order == AuthorizationOrder(n)
             k == AuthorizedKind(n)
             Upto(m) == {order[i] : i \in 1..m}
  <1>1. /\ order[1] = <<"approval", n>> /\ order[2] = <<"status", k>>
        /\ order[3] = <<"workflow", k>> /\ order[4] = <<"checkpoint", k>>
        /\ order[5] = <<"index", k>> /\ Len(order) = 5
    BY DEF AuthorizationOrder, FreezeOrder
  <1>2. /\ 1..0 = {} /\ 1..1 = {1} /\ 1..2 = {1, 2} /\ 1..3 = {1, 2, 3}
        /\ 1..4 = {1, 2, 3, 4} /\ 1..5 = {1, 2, 3, 4, 5}
    OBVIOUS
  <1> HIDE DEF order
  <1>3. /\ Upto(0) = {} /\ Upto(1) = {order[1]} /\ Upto(2) = {order[1], order[2]}
        /\ Upto(3) = {order[1], order[2], order[3]}
        /\ Upto(4) = {order[1], order[2], order[3], order[4]}
        /\ Upto(5) = {order[1], order[2], order[3], order[4], order[5]}
    <2>1. Upto(0) = {} /\ Upto(1) = {order[1]}
      BY <1>2
    <2>2. Upto(2) = {order[1], order[2]}
      BY <1>2
    <2>3. Upto(3) = {order[1], order[2], order[3]}
      BY <1>2
    <2>4. Upto(4) = {order[1], order[2], order[3], order[4]}
      BY <1>2
    <2>5. Upto(5) = {order[1], order[2], order[3], order[4], order[5]}
      BY <1>2
    <2> QED BY <2>1, <2>2, <2>3, <2>4, <2>5
  <1>4. \/ S = {} \/ S = {order[1]} \/ S = {order[1], order[2]}
        \/ S = {order[1], order[2], order[3]}
        \/ S = {order[1], order[2], order[3], order[4]}
        \/ S = {order[1], order[2], order[3], order[4], order[5]}
    BY <1>1 DEF FreezeFiles, AuthorizationFiles
  <1>5. \E m \in 0..5 : S = Upto(m)
    <2>1. 0 \in 0..5 /\ 1 \in 0..5 /\ 2 \in 0..5 /\ 3 \in 0..5 /\ 4 \in 0..5 /\ 5 \in 0..5
      OBVIOUS
    <2> QED BY <1>3, <1>4, <2>1, Zenon
  <1>6. S \in {Upto(m) : m \in 0..Len(order)}
    BY <1>1, <1>5
  <1> QED BY <1>6 DEF Prefixes, order

(* The era of a file tells which operation writes it. *)
LEMMA WrittenIn ==
  ASSUME NEW n \in Attempts, NEW f \in Files
  PROVE  /\ Era(f) = Age[AuthorizedKind(n)] => f \in AuthorizationFiles(n)
         /\ Era(f) = Age[SuccessKind(n)] =>
              \/ f \in ModelFiles /\ f[2] = n
              \/ f = <<"decision", n>>
              \/ f \in FreezeFiles(SuccessKind(n))
  <1>1. /\ \A m \in Attempts : Age[AuthorizedKind(m)] = Age[AuthorizedKind(n)] => m = n
        /\ \A m \in Attempts : Age[SuccessKind(m)] = Age[SuccessKind(n)] => m = n
        /\ \A m \in Attempts : Age[SuccessKind(m)] # Age[AuthorizedKind(n)]
        /\ \A m \in Attempts : Age[SuccessKind(n)] # Age[AuthorizedKind(m)]
        /\ Age[AuthorizedKind(n)] \notin {1, 6} /\ Age[SuccessKind(n)] \notin {1, 6}
    BY EraOf DEF AuthorizedKind, SuccessKind, Attempts
  <1>2. /\ \A k \in Kinds : Age[k] = Age[AuthorizedKind(n)] => k = AuthorizedKind(n)
        /\ \A k \in Kinds : Age[k] = Age[SuccessKind(n)] => k = SuccessKind(n)
    BY DEF Kinds, Age, AuthorizedKind, SuccessKind, Attempts
  <1>3. ASSUME NEW g \in DOMAIN Rank, NEW m \in Attempts, f = <<g, m>>
        PROVE  /\ Era(f) # Age[AuthorizedKind(n)]
               /\ Era(f) = Age[SuccessKind(n)] => f \in ModelFiles /\ f[2] = n
    BY <1>1, <1>3, EraOf DEF ModelFiles
  <1>4. ASSUME NEW m \in Attempts, f \in {<<"approval", m>>, <<"decision", m>>, <<"failure", m>>}
        PROVE  /\ Era(f) = Age[AuthorizedKind(n)] => f = <<"approval", n>>
               /\ Era(f) = Age[SuccessKind(n)] => f = <<"decision", n>>
    <2>1. CASE f = <<"approval", m>>
      BY <1>1, <2>1, EraOf
    <2>2. CASE f = <<"decision", m>>
      BY <1>1, <2>2, EraOf
    <2>3. CASE f = <<"failure", m>>
      BY <1>1, <2>3, EraOf
    <2> QED BY <1>4, <2>1, <2>2, <2>3
  <1>5. ASSUME NEW k \in Kinds, f \in FreezeFiles(k)
        PROVE  /\ Era(f) = Age[AuthorizedKind(n)] => f \in FreezeFiles(AuthorizedKind(n))
               /\ Era(f) = Age[SuccessKind(n)] => f \in FreezeFiles(SuccessKind(n))
    BY <1>2, <1>5, EraOf
  <1>6. CASE f \in ModelFiles
    BY <1>3, <1>6 DEF ModelFiles
  <1>7. CASE f \in {"approval", "decision", "failure"} \X Attempts
    <2>1. PICK m \in Attempts : f \in {<<"approval", m>>, <<"decision", m>>, <<"failure", m>>}
      BY <1>7
    <2> QED BY <1>4, <2>1 DEF AuthorizationFiles
  <1>8. CASE f \in {"status", "workflow", "checkpoint", "index"} \X Kinds
    <2>1. PICK k \in Kinds : f \in FreezeFiles(k)
      BY <1>8 DEF FreezeFiles
    <2> QED BY <1>5, <2>1 DEF AuthorizationFiles
  <1>9. CASE f = <<"plan", 0>>
    BY <1>1, <1>9, EraOf
  <1> QED BY <1>6, <1>7, <1>8, <1>9 DEF Files

(* Beyond the latest inventory lies what its successor has written. *)
LEMMA ExtrasAre ==
  ASSUME Tidy
  PROVE  Extras(LatestKind) = {f \in portable : Era(f) > Age[LatestKind]}
  <1>1. /\ Indexed /\ LatestKind \in Kinds /\ portable \subseteq Files
        /\ <<"index", LatestKind>> \in portable
    BY Found, StageOf DEF Frozen
  <1>2. Era(<<"index", LatestKind>>) = Age[LatestKind] /\ Age[LatestKind] \in 1..6
    BY <1>1, EraOf DEF FreezeFiles
  <1>3. \A f \in portable : Era(f) \in 1..6
    BY <1>1, ErasAreNumbers
  <1>4. ASSUME NEW f \in Extras(LatestKind)
        PROVE  f \in portable /\ Era(f) > Age[LatestKind]
    <2>1. f \in portable /\ f # <<"index", LatestKind>> /\ f \notin index[LatestKind]
      BY <1>4 DEF Extras, Inventory
    <2>2. ~(Era(f) <= Age[LatestKind])
      BY <1>1, <2>1 DEF Indexed
    <2> QED BY <1>2, <1>3, <2>1, <2>2
  <1>5. ASSUME NEW f \in portable, Era(f) > Age[LatestKind]
        PROVE  f \in Extras(LatestKind)
    <2>1. f # <<"index", LatestKind>>
      BY <1>2, <1>5
    <2>2. f \notin index[LatestKind]
      BY <1>1, <1>2, <1>3, <1>5 DEF Indexed
    <2> QED BY <1>5, <2>1, <2>2 DEF Extras, Inventory
  <1> QED BY <1>4, <1>5

(* Whatever stage a run is in, the decisions it needs are on file, and a   *)
(* decision half written is the one the run waits for.                     *)
LEMMA DecisionsOnFile ==
  ASSUME Tidy, "failed" \notin anchors
  PROVE  /\ \A n \in Attempts : consent[n] # None => intent[n] # None
         /\ CompletedAuthorizations({n \in Attempts : Age[AuthorizedKind(n)] <= Age[LatestKind]})
         /\ PartialAttempts = {n \in Attempts : Waiting(n) /\ intent[n] # None}
         /\ PartialAttempts # Attempts
         /\ \A exact : exact \in BOOLEAN /\ (exact => Extras(LatestKind) = {}) =>
              IndexVerified(LatestKind, exact)
  <1>1. /\ Filed /\ Sequenced /\ Indexed /\ LatestKind \in anchors /\ LatestKind \in Kinds
        /\ \A j \in anchors : Age[j] <= Age[LatestKind]
        /\ <<"index", LatestKind>> \in portable
    BY Found, StageOf DEF Frozen
  <1>2. \A n \in Attempts : consent[n] # None => intent[n] # None
    BY <1>1 DEF Filed
  <1>3. ASSUME NEW n \in Attempts, Age[AuthorizedKind(n)] <= Age[LatestKind]
        PROVE  AuthorizedKind(n) \in anchors
    <2>1. LatestKind \in {"planned", "manifest_authorized", "resumed", "correction_authorized", "retried"}
      BY <1>1 DEF Kinds, Age
    <2>2. CASE n = 1
      <3>1. LatestKind # "planned"
        BY <1>3, <2>2, EraOf DEF AuthorizedKind
      <3> QED BY <1>1, <2>1, <2>2, <3>1, StageOf, Found DEF AuthorizedKind
    <2>3. CASE n = 2
      <3>1. LatestKind \in {"correction_authorized", "retried"}
        BY <1>3, <2>1, <2>3, EraOf DEF AuthorizedKind
      <3> QED BY <1>1, <2>3, <3>1, StageOf, Found DEF AuthorizedKind
    <2> QED BY <2>2, <2>3 DEF Attempts
  <1>4. CompletedAuthorizations({n \in Attempts : Age[AuthorizedKind(n)] <= Age[LatestKind]})
    BY <1>1, <1>3 DEF CompletedAuthorizations, Filed
  <1>5. PartialAttempts = {n \in Attempts : Waiting(n) /\ intent[n] # None}
    BY <1>1 DEF PartialAttempts, Waiting, Sequenced
  <1>6. PartialAttempts # Attempts
    <2>1. 1 \in Attempts /\ 2 \in Attempts /\ 1 # 2
      BY DEF Attempts
    <2>2. ~(Waiting(1) /\ Waiting(2))
      BY <2>1, OneStage, Found
    <2> QED BY <1>5, <2>1, <2>2
  <1>7. \A exact : exact \in BOOLEAN /\ (exact => Extras(LatestKind) = {}) =>
          IndexVerified(LatestKind, exact)
    BY <1>1 DEF IndexVerified, Indexed
  <1> QED BY <1>2, <1>4, <1>5, <1>6, <1>7

(* A run that awaits a decision can be read, however much of the decision  *)
(* has been written.                                                       *)
LEMMA WaitingIsReadable ==
  ASSUME Tidy, NEW n \in Attempts, Waiting(n)
  PROVE  Readable /\ ~Gap
  <1>1. /\ Indexed /\ Ahead /\ Sequenced /\ Pending /\ Filed
        /\ portable \subseteq Files /\ LatestKind = BaseKind(n) /\ ckpt = frozen[BaseKind(n)]
        /\ "failed" \notin anchors /\ LatestKind \in Kinds
    BY Found, RestsAt, StageOf DEF Waiting
  <1>2. \A m \in Attempts : ~Open(m)
    BY OneStage, Found
  <1>3. Unbound = {} /\ Unchanged /\ ~Gap
    BY <1>1, <1>2, ArtifactsOf DEF Unchanged, Gap, LeftTemporary, Tidy
  <1>4. Extras(LatestKind) \subseteq AuthorizationFiles(n)
    <2>1. Age[BaseKind(n)] + 1 = Age[AuthorizedKind(n)]
      BY EraOf DEF BaseKind, AuthorizedKind, Attempts
    <2> SUFFICES ASSUME NEW f \in portable, Era(f) > Age[LatestKind]
                 PROVE  f \in AuthorizationFiles(n)
      BY ExtrasAre
    <2>2. Era(f) = Age[AuthorizedKind(n)]
      BY <1>1, <1>2, <2>1 DEF Ahead
    <2> QED BY <1>1, <2>2, WrittenIn
  <1>5. /\ \A f \in AuthorizationFiles(n) : f \in portable => f \in Extras(LatestKind)
        /\ AuthorizedKind(n) \in Kinds
    <2>1. AuthorizedKind(n) \in Kinds
      BY KindsDiffer
    <2>2. \A f \in AuthorizationFiles(n) : Era(f) = Age[AuthorizedKind(n)]
      BY <2>1, EraOf DEF AuthorizationFiles
    <2>3. Age[BaseKind(n)] < Age[AuthorizedKind(n)]
      BY EraOf DEF BaseKind, AuthorizedKind, Attempts
    <2> QED BY <1>1, <2>1, <2>2, <2>3, ExtrasAre
  <1>6. Extras(LatestKind) # {} => intent[n] # None
    <2> SUFFICES ASSUME NEW f \in Extras(LatestKind) PROVE intent[n] # None
      OBVIOUS
    <2>1. f \in AuthorizationFiles(n) /\ f \in portable
      BY <1>4 DEF Extras, Inventory
    <2> QED BY <1>1, <1>5, <2>1 DEF Sequenced, AuthorizationFiles, FreezeFiles
  <1>7. Extras(LatestKind) \in Prefixes(AuthorizationOrder(n))
    <2> DEFINE S == Extras(LatestKind)
               k == AuthorizedKind(n)
    <2>1. S \subseteq AuthorizationFiles(n) /\ S \subseteq portable
      BY <1>4 DEF Extras, Inventory
    <2>2. /\ <<"approval", n>> \in AuthorizationFiles(n) /\ <<"status", k>> \in AuthorizationFiles(n)
          /\ <<"workflow", k>> \in AuthorizationFiles(n) /\ <<"checkpoint", k>> \in AuthorizationFiles(n)
      BY DEF AuthorizationFiles, FreezeFiles
    <2>3. /\ <<"status", k>> \in portable => <<"approval", n>> \in portable
          /\ <<"workflow", k>> \in portable => <<"status", k>> \in portable
          /\ <<"checkpoint", k>> \in portable => <<"workflow", k>> \in portable
          /\ <<"index", k>> \in portable => <<"checkpoint", k>> \in portable
      BY <1>1, <1>5 DEF Sequenced
    <2> HIDE DEF S
    <2>4. /\ <<"status", k>> \in S => <<"approval", n>> \in S
          /\ <<"workflow", k>> \in S => <<"status", k>> \in S
          /\ <<"checkpoint", k>> \in S => <<"workflow", k>> \in S
          /\ <<"index", k>> \in S => <<"checkpoint", k>> \in S
      BY <1>5, <2>1, <2>2, <2>3 DEF S
    <2> QED BY <2>1, <2>4, AuthorizationPrefix DEF S
  <1>8. PartialVerified(n, 0, None)
    <2>1. consent[n] # None => intent[n] = consent[n]
      BY <1>1 DEF Filed
    <2>2. <<"status", AuthorizedKind(n)>> \in portable =>
            frozen[AuthorizedKind(n)] = frozen[LatestKind]
      BY <1>1 DEF Pending
    <2>3. <<"index", AuthorizedKind(n)>> \in portable => IndexVerified(AuthorizedKind(n), TRUE)
      BY <1>1, <1>5 DEF Pending, IndexVerified, Indexed, Extras
    <2> QED BY <1>1, <1>7, <2>1, <2>2, <2>3 DEF PartialVerified
  <1>9. LifecycleVerified(0, None)
    <2>1. PartialAttempts \subseteq {n} /\ (PartialAttempts = {} => intent[n] = None)
      BY <1>1, DecisionsOnFile, OneStage, Found
    <2>2. (PartialAttempts = {} /\ Unbound = {}) => Extras(LatestKind) = {}
      BY <1>6, <2>1
    <2>3. IndexVerified(LatestKind, PartialAttempts = {} /\ Unbound = {})
      BY <1>1, <2>2, DecisionsOnFile
    <2>4. LatestKind # "failed"
      BY <1>1, StageOf, Found
    <2> QED BY <1>1, <1>8, <2>1, <2>3, <2>4, DecisionsOnFile DEF LifecycleVerified
  <1> QED BY <1>3, <1>9 DEF Readable

(* So can a run that is over. *)
LEMMA OverIsReadable ==
  ASSUME Tidy, \A n \in Attempts : ~Open(n), \A n \in Attempts : ~Waiting(n)
  PROVE  Readable /\ ~Gap
  <1>1. /\ Indexed /\ Ahead /\ Rest /\ Failing /\ LatestKind \in {"retried", "failed"}
        /\ LatestKind \in anchors /\ \A k \in anchors : Frozen(k)
    BY Found, StageOf
  <1>2. Unbound = {} /\ ~Gap
    BY ArtifactsOf DEF Gap, LeftTemporary, Tidy
  <1>3. CASE LatestKind = "failed"
    <2>1. /\ ckpt = frozen["failed"] /\ index["failed"] = Inventory("failed")
          /\ \E n \in Attempts : <<"failure", n>> \in portable /\ CompletedAuthorizations(1..n)
      BY <1>1, <1>3 DEF Failing
    <2>2. IndexVerified("failed", TRUE)
      BY <1>1, <1>3, <2>1 DEF IndexVerified, Extras, Inventory, Frozen
    <2> QED BY <1>2, <1>3, <2>1, <2>2 DEF Readable, LifecycleVerified, Unchanged
  <1>4. CASE LatestKind = "retried"
    <2>1. "failed" \notin anchors
      BY <1>4, StageOf, Found
    <2>2. PartialAttempts = {}
      BY <2>1, DecisionsOnFile
    <2>3. Extras(LatestKind) = {}
      BY <1>1, <1>4, ExtrasAre DEF Ahead
    <2>4. IndexVerified(LatestKind, PartialAttempts = {} /\ Unbound = {})
      BY <2>1, <2>3, DecisionsOnFile
    <2>5. LifecycleVerified(0, None)
      BY <1>4, <2>1, <2>2, <2>4, DecisionsOnFile DEF LifecycleVerified
    <2> QED BY <1>1, <1>2, <1>4, <2>5 DEF Readable, Unchanged, Rest
  <1> QED BY <1>1, <1>3, <1>4

-----------------------------------------------------------------------------
(* Runs whose decision was anchored, but whose attempt is not closed.      *)

(* What lies beyond the authorized inventory of an attempt is of the       *)
(* attempt's success, unless its failure was written.                      *)
LEMMA OpenExtras ==
  ASSUME Tidy, NEW n \in Attempts, Open(n), <<"failure", n>> \notin portable,
         NEW f \in Extras(LatestKind)
  PROVE  /\ f \in portable /\ f \in Files /\ Era(f) = Age[SuccessKind(n)]
         /\ ckpt.attempt = n /\ ckpt.next = "end"
  <1>1. /\ Ahead /\ Failing /\ Concluding /\ portable \subseteq Files
        /\ LatestKind = AuthorizedKind(n)
    BY Found, StageOf
  <1>2. f \in portable /\ Era(f) > Age[LatestKind]
    BY ExtrasAre
  <1>3. Era(f) # 6
    BY <1>1, <1>2 DEF Failing
  <1>4. Age[AuthorizedKind(n)] + 1 = Age[SuccessKind(n)]
    BY EraOf DEF AuthorizedKind, SuccessKind, Attempts
  <1>5. Era(f) = Age[SuccessKind(n)]
    BY <1>1, <1>2, <1>3, <1>4 DEF Ahead
  <1> QED BY <1>1, <1>2, <1>5 DEF Concluding

(* What is left to ask of an open attempt. *)
LEMMA OpenLoads ==
  ASSUME Tidy, NEW n \in Attempts, Open(n)
  PROVE  /\ LatestKind = AuthorizedKind(n) /\ Unbound = Artifacts(n)
         /\ Unchanged <=> ~Moved(n)
         /\ Readable <=>
              IF Artifacts(n) = {} THEN Extras(LatestKind) = {} /\ (~Moved(n) \/ ControllerFailure)
              ELSE InFlightVerified(n)
         /\ Gap <=> \/ ConsumedSilently(n) \/ UnfrozenRefusal(n) \/ UnrecordedQuestion
                    \/ LaggingCheckpoint(n) \/ UnseamedError(n) \/ UnfrozenFailure(n)
  <1>1. /\ LatestKind = AuthorizedKind(n) /\ Unbound = Artifacts(n) /\ "failed" \notin anchors
        /\ \A m \in Attempts : ~Waiting(m)
        /\ \A m \in Attempts : Open(m) => m = n
    BY StageOf, OneStage, ArtifactsOf, Found DEF Open, Closing
  <1>2. Unchanged <=> ~Moved(n)
    BY <1>1 DEF Unchanged, Moved
  <1>3. PartialAttempts = {}
    BY <1>1, DecisionsOnFile
  <1>4. LatestKind # "failed"
    BY <1>1, KindsDiffer
  <1>5. LifecycleVerified(0, None) <=> (Unbound = {} => Extras(LatestKind) = {})
    <2>1. ASSUME Unbound = {} => Extras(LatestKind) = {}
          PROVE  IndexVerified(LatestKind, PartialAttempts = {} /\ Unbound = {})
      BY <1>1, <2>1, DecisionsOnFile
    <2>2. ASSUME IndexVerified(LatestKind, PartialAttempts = {} /\ Unbound = {})
          PROVE  Unbound = {} => Extras(LatestKind) = {}
      BY <1>3, <2>2 DEF IndexVerified
    <2> QED BY <1>1, <1>3, <1>4, <2>1, <2>2, DecisionsOnFile DEF LifecycleVerified
  <1>6. ASSUME NEW m \in Attempts, Artifacts(n) # {}, InFlightVerified(m)
        PROVE  m = n
    BY <1>1, <1>6 DEF InFlightVerified, Artifacts
  <1>7. Gap <=> \/ ConsumedSilently(n) \/ UnfrozenRefusal(n) \/ UnrecordedQuestion
                \/ LaggingCheckpoint(n) \/ UnseamedError(n) \/ UnfrozenFailure(n)
    BY <1>1 DEF Gap, LeftTemporary, Tidy
  <1>8. Readable <=>
          IF Artifacts(n) = {} THEN Extras(LatestKind) = {} /\ (~Moved(n) \/ ControllerFailure)
          ELSE InFlightVerified(n)
    BY <1>1, <1>2, <1>5, <1>6 DEF Readable
  <1> QED BY <1>1, <1>2, <1>7, <1>8

(* Whether the decision of an open attempt was consumed.                   *)
LEMMA HasMoved ==
  ASSUME Tidy, NEW n \in Attempts, Open(n)
  PROVE  /\ ckpt \in Checkpoint /\ Flow!Sound(ckpt) /\ ckpt \in KnownCheckpoints
         /\ n = 1 => ckpt.attempt = 1
         /\ n = 2 => /\ Offered /\ frozen["correction_authorized"] = frozen["resumed"]
                     /\ consent[1].selection = "approve"
         /\ ~Moved(n) => /\ ckpt.attempt = 1
                         /\ n = 1 => ckpt = PlannedCheckpoint
                         /\ n = 2 => ckpt.next = "end"
         /\ Moved(n) => /\ ckpt.attempt = n
                        /\ ckpt.approval # None /\ ckpt.approval = consent[1]
                        /\ ckpt.next \notin {"architect", "approval_gate"}
                        /\ ckpt.correction = IF n = 1 THEN None ELSE consent[2]
  <1>1. /\ Control /\ Fresh /\ Pending /\ Chain /\ Rest /\ Consumed /\ InOrder /\ n \in {1, 2}
        /\ ckpt \in KnownCheckpoints /\ AuthorizedKind(n) \in anchors
        /\ runtime \subseteq ModelFiles
    BY Found DEF KnownCheckpoints, Roles, DecisionInv, Open, Attempts
  <1>2. ckpt \in Checkpoint /\ ckpt # None /\ Flow!Sound(ckpt) /\ ckpt.attempt \in {1, 2}
    BY <1>1, KnownIsSound DEF Checkpoint, Attempts
  <1>3. /\ ckpt.attempt = 1 => ckpt.correction = None
        /\ ckpt.attempt = 2 => ckpt.correction # None
        /\ ckpt.next \in {"architect", "approval_gate"} => ckpt.approval = None
    BY <1>2, SameConstants DEF Flow!Sound, Flow!Progress, Flow!FreshPlan
  <1>4. n = 1 => ckpt.attempt = 1
    <2> SUFFICES ASSUME n = 1, ckpt.attempt = 2 PROVE FALSE
      BY <1>2
    <2>1. "correction_authorized" \in anchors
      BY <1>1, <1>3 DEF Consumed, AuthorizedKind
    <2>2. "resumed" \notin anchors
      BY DEF Open, Closing, SuccessKind
    <2> QED BY <1>1, <2>1, <2>2 DEF Chain, Offered
  <1>5. n = 2 => /\ Offered /\ frozen["correction_authorized"] = frozen["resumed"]
                 /\ frozen["resumed"].attempt = 1 /\ frozen["resumed"].next = "end"
                 /\ consent[1].selection = "approve"
    <2> SUFFICES ASSUME n = 2
                 PROVE  /\ Offered /\ frozen["correction_authorized"] = frozen["resumed"]
                        /\ frozen["resumed"].attempt = 1 /\ frozen["resumed"].next = "end"
                        /\ consent[1].selection = "approve"
      OBVIOUS
    <2>1. Offered /\ frozen["correction_authorized"].attempt = 1
      BY <1>1 DEF Chain, AuthorizedKind
    <2>2. frozen["correction_authorized"] = frozen["resumed"]
      BY <1>1 DEF Pending, AuthorizedKind, BaseKind
    <2>3. <<"correction_request", 1>> \in Artifacts(1) /\ 1 \in Attempts
      BY <2>1 DEF Offered, Artifacts, Attempts
    <2>4. consent[1].selection = "approve"
      BY <1>1, <2>3 DEF InOrder
    <2> QED BY <2>1, <2>2, <2>4 DEF Offered, RetryOffered
  <1>6. /\ n = 1 => frozen[AuthorizedKind(n)] = PlannedCheckpoint
        /\ n = 2 => frozen[AuthorizedKind(n)] = frozen["resumed"] /\ "resumed" \in anchors
    BY <1>1, <1>5 DEF Pending, AuthorizedKind, BaseKind, Offered
  <1>7. ASSUME ~Moved(n)
        PROVE  /\ ckpt.attempt = 1
               /\ n = 1 => ckpt = PlannedCheckpoint
               /\ n = 2 => ckpt.next = "end"
    BY <1>1, <1>4, <1>5, <1>6, <1>7 DEF Moved
  <1>8. ASSUME Moved(n)
        PROVE  /\ ckpt.attempt = n /\ ckpt.approval # None
    BY <1>1, <1>2, <1>4, <1>5, <1>6, <1>8 DEF Moved, Fresh, Rest
  <1>9. ASSUME Moved(n)
        PROVE  /\ ckpt.approval = consent[1]
               /\ ckpt.next \notin {"architect", "approval_gate"}
               /\ ckpt.correction = IF n = 1 THEN None ELSE consent[2]
    BY <1>1, <1>3, <1>8, <1>9 DEF Consumed
  <1> QED BY <1>1, <1>2, <1>4, <1>5, <1>7, <1>8, <1>9

(* An attempt that has written nothing can be read exactly as long as its  *)
(* decision was not consumed, or if attempt two's first step failed.       *)
LEMMA SilentIsReadable ==
  ASSUME Tidy, NEW n \in Attempts, Open(n), Artifacts(n) = {}
  PROVE  Readable <=> ~Gap
  <1>1. /\ Failing /\ Evidenced /\ n \in {1, 2}
        /\ LatestKind = AuthorizedKind(n) /\ Unbound = {}
        /\ ckpt \in Checkpoint /\ ckpt.failed \in BOOLEAN /\ ckpt \in KnownCheckpoints
    BY Found, OpenLoads, HasMoved DEF Checkpoint, Attempts
  <1>2. /\ <<"failure", n>> \notin portable /\ ~Begun(n)
        /\ \A m \in Attempts : Interrupted(m) = {}
    BY <1>1 DEF Failing, Begun, Artifacts, Interrupted
  <1>3. ~LaggingCheckpoint(n) /\ ~UnfrozenFailure(n)
    BY <1>2 DEF LaggingCheckpoint, UnfrozenFailure
  <1>4. UnseamedError(n) <=> n = 1 /\ ckpt.failed
    BY <1>1, <1>2 DEF UnseamedError
  <1>5. \A f \in runtime : f[2] # n
    BY DEF Artifacts
  <1>6. CASE ~Moved(n)
    <2>1. /\ ckpt.attempt = 1
          /\ n = 1 => ckpt.next = "approval_gate" /\ ~ckpt.failed
          /\ n = 2 => ckpt.next = "end"
      BY <1>6, HasMoved DEF PlannedCheckpoint, StartedCheckpoint
    <2>2. ~Gap
      BY <1>1, <1>3, <1>4, <1>6, <2>1, OpenLoads
         DEF ConsumedSilently, UnfrozenRefusal, UnrecordedQuestion, TerminalNodes
    <2>3. Extras(LatestKind) = {}
      BY <1>1, <1>2, <2>1, OpenExtras
    <2> QED BY <1>6, <2>2, <2>3, OpenLoads
  <1>7. CASE Moved(n) /\ n = 1
    <2>1. ~Readable
      BY <1>1, <1>7, OpenLoads DEF ControllerFailure, AuthorizedKind
    <2>2. /\ ckpt.attempt = n /\ ckpt.approval # None
          /\ ckpt.next \notin {"architect", "approval_gate"} /\ ckpt.next \in Nodes
      BY <1>1, <1>7, HasMoved DEF Checkpoint
    <2>3. CASE ckpt.next \in RoleNodes
      <3>1. ConsumedSilently(n) \/ UnseamedError(n)
        BY <1>2, <1>4, <1>7, <2>3 DEF ConsumedSilently
      <3> QED BY <2>1, <3>1, OpenLoads
    <2>4. CASE ckpt.next \in TerminalNodes
      BY <2>1, <2>4, OpenLoads DEF UnrecordedQuestion
    <2>5. CASE ckpt.next = "end"
      <3>1. ckpt.approval.selection # "approve"
        <4> SUFFICES ASSUME ckpt.approval.selection = "approve" PROVE FALSE
          OBVIOUS
        <4>1. <<"engineer", n>> \in runtime
          BY <1>1, <2>2, <2>5 DEF Evidenced
        <4> QED BY <1>5, <4>1
      <3>2. UnfrozenRefusal(n)
        BY <1>7, <3>1 DEF UnfrozenRefusal
      <3> QED BY <2>1, <3>2, OpenLoads
    <2> QED BY <2>2, <2>3, <2>4, <2>5 DEF Nodes, RoleNodes, TerminalNodes
  <1>8. CASE Moved(n) /\ n = 2
    <2>1. /\ ckpt.attempt = 2 /\ ckpt.approval # None /\ ckpt.approval = consent[1]
          /\ consent[1].selection = "approve" /\ ckpt.correction = consent[2]
          /\ Offered /\ frozen["correction_authorized"] = frozen["resumed"]
      BY <1>8, HasMoved
    <2>2. ckpt.next = "engineer"
      <3> SUFFICES ASSUME ckpt.next # "engineer" PROVE FALSE
        OBVIOUS
      <3>1. <<"engineer", 2>> \in runtime
        BY <1>1, <2>1 DEF Evidenced
      <3> QED BY <1>5, <1>8, <3>1
    <2>3. Gap <=> ~ckpt.failed
      BY <1>2, <1>3, <1>4, <1>8, <2>1, <2>2, OpenLoads
         DEF ConsumedSilently, UnfrozenRefusal, UnrecordedQuestion, TerminalNodes, RoleNodes
    <2>4. Extras(LatestKind) = {}
      BY <1>2, <2>2, OpenExtras
    <2>5. ckpt.failed => ControllerFailure
      <3> SUFFICES ASSUME ckpt.failed PROVE ControllerFailure
        OBVIOUS
      <3>1. LatestKind = "correction_authorized"
        BY <1>1, <1>8 DEF AuthorizedKind
      <3>2. CorrectionAction(frozen[LatestKind].report) = "retry"
        BY <2>1, <3>1 DEF Offered, RetryOffered
      <3>3. Interrupted(2) = {}
        BY <1>2 DEF Attempts
      <3>4. InFlightProjection(2, TRUE)
        BY <1>1, <1>8, <2>1, <2>2, <3>1, <3>3 DEF InFlightProjection, RoleNodes
      <3> QED BY <1>1, <2>1, <2>2, <3>1, <3>2, <3>4 DEF ControllerFailure
    <2> QED BY <1>8, <2>3, <2>4, <2>5, OpenLoads DEF ControllerFailure
  <1> QED BY <1>1, <1>6, <1>7, <1>8

(* What an attempt whose workflow ended has written, and nothing else.     *)
LEMMA EndedWith ==
  ASSUME Tidy, NEW n \in Attempts, Open(n), Moved(n), ckpt.next = "end",
         <<"failure", n>> \notin portable, Artifacts(n) # {}
  PROVE  /\ Interrupted(n) = {}
         /\ ckpt.status \in {"completed", "decision_required"}
         /\ TerminalVerified(n)
  <1>1. /\ InOrder /\ Backed /\ Evidenced /\ Concluding /\ Indexed /\ Control /\ Copied
        /\ n \in {1, 2} /\ LatestKind = AuthorizedKind(n) /\ Unbound = Artifacts(n)
        /\ ckpt \in Checkpoint /\ ckpt \in KnownCheckpoints /\ Flow!Sound(ckpt)
        /\ ckpt.attempt = n /\ ckpt.approval # None /\ ckpt.approval = consent[1]
        /\ runtime \subseteq ModelFiles
    BY Found, OpenLoads, HasMoved DEF Roles, Attempts
  <1>2. Approves(ckpt)
    BY <1>1 DEF InOrder, Approves
  <1>3. Has("engineer", n)
    BY <1>1, <1>2 DEF Evidenced, Approves, Has
  <1>4. Has("engineer_lease", n) /\ (n = 2 => Has("engineer_correction", n) /\ Has("correction_wiki", n))
    BY <1>1, <1>3 DEF InOrder
  <1>5. /\ Has("correction_wiki", n) => n = 2
        /\ Has("engineer_correction", n) => Has("correction_wiki", n)
        /\ Has("report", n) => outcome[n] = "change"
        /\ Has("validator_lease", n) => Has("report", n)
        /\ Has("validator", n) =>
             Has("report", n) /\ (advice[n] = "deferred" <=> ~Has("validator_lease", n))
        /\ Has("correction_request", n) => Has("validator", n)
    BY <1>1 DEF InOrder
  <1>6. \A g \in DOMAIN Rank : <<g, n>> \in Artifacts(n) <=> Has(g, n)
    BY DEF Artifacts, Has
  <1>7. \A f \in Artifacts(n) : \E g \in DOMAIN Rank : f = <<g, n>>
    BY <1>1 DEF Artifacts, ModelFiles
  <1>8. ASSUME NEW f \in Extras(LatestKind) \cap ({"decision"} \X Attempts)
        PROVE  f = <<"decision", n>> /\ ckpt.intervention
    <2>1. f \in Files /\ f \in portable /\ Era(f) = Age[SuccessKind(n)]
      BY <1>8, OpenExtras
    <2>2. f = <<"decision", n>>
      <3>1. f \notin ModelFiles /\ f \notin FreezeFiles(SuccessKind(n))
        BY <1>8 DEF ModelFiles, Rank, FreezeFiles
      <3> QED BY <2>1, <3>1, WrittenIn
    <2> QED BY <1>1, <2>1, <2>2 DEF Concluding
  <1>9. /\ <<"status", SuccessKind(n)>> \in portable => frozen[SuccessKind(n)] = ckpt
        /\ <<"index", SuccessKind(n)>> \in portable => IndexVerified(SuccessKind(n), TRUE)
    <2>1. SuccessKind(n) \in Kinds
      BY KindsDiffer
    <2>2. /\ <<"status", SuccessKind(n)>> \in portable => frozen[SuccessKind(n)] = ckpt
          /\ <<"index", SuccessKind(n)>> \in portable =>
               index[SuccessKind(n)] = Inventory(SuccessKind(n))
      BY <1>1 DEF Concluding
    <2> QED BY <2>1, <2>2 DEF IndexVerified, Extras, Inventory
  <1>10. /\ Lease("engineer", n) = <<"engineer_lease", n>>
         /\ Lease("validator", n) = <<"validator_lease", n>>
         /\ Outcome("engineer", n) = <<"engineer", n>>
         /\ Outcome("validator", n) = <<"validator", n>>
    BY DEF Lease, Outcome
  <1>11. CASE ckpt.intervention
    <2>1. outcome[n] = "intervention" /\ ckpt.status = "decision_required"
      BY <1>1, <1>11 DEF Backed
    <2>2. /\ ~Has("report", n) /\ ~Has("validator_lease", n)
          /\ ~Has("validator", n) /\ ~Has("correction_request", n)
      BY <1>5, <2>1
    <2>3. Unbound = EngineerFiles(n)
      <3>1. \A g \in DOMAIN Rank : Has(g, n) <=>
              \/ g \in {"engineer_lease", "engineer"}
              \/ n = 2 /\ g \in {"engineer_correction", "correction_wiki"}
        BY <1>3, <1>4, <1>5, <2>2 DEF Rank
      <3>2. \A g \in DOMAIN Rank : <<g, n>> \in Unbound <=> <<g, n>> \in EngineerFiles(n)
        BY <1>1, <1>6, <1>10, <3>1 DEF EngineerFiles
      <3>3. \A f \in EngineerFiles(n) : \E g \in DOMAIN Rank : f = <<g, n>>
        BY <1>10 DEF EngineerFiles, Rank
      <3>4. Unbound \subseteq EngineerFiles(n)
        BY <1>1, <1>7, <3>2
      <3>5. EngineerFiles(n) \subseteq Unbound
        BY <3>2, <3>3
      <3> QED BY <3>4, <3>5
    <2>4. Interrupted(n) = {}
      <3>1. Outcome("engineer", n) \in Stored /\ Lease("validator", n) \notin Unbound
        BY <1>1, <1>3, <1>6, <1>10, <2>2 DEF Has, Stored, Rank
      <3> QED BY <3>1 DEF Interrupted, RoleNodes
    <2>5. TerminalVerified(n)
      BY <1>8, <1>9, <1>11, <2>1, <2>3 DEF TerminalVerified
    <2> QED BY <2>1, <2>4, <2>5
  <1>12. CASE ~ckpt.intervention
    <2>1. ckpt.status = "completed" /\ ckpt.report.attempt = n
      BY <1>1, <1>2, <1>12 DEF Backed, RoleNodes
    <2>2. ReportMatches(ckpt) /\ ckpt.report # None
      BY <1>1, <2>1, SameConstants DEF Flow!Sound, Flow!ReportMatches, ReportMatches
    <2>3. ckpt.report = [attempt |-> n, verdict |-> verdict[n]]
      <3>1. ckpt.report \in Reports
        BY <1>1, <2>2 DEF Checkpoint
      <3>2. verdict[n] = ckpt.report.verdict
        BY <1>1, <2>1, <2>2 DEF Evidenced
      <3> QED BY <2>1, <3>1, <3>2 DEF Reports
    <2>4. Has("validator", n)
      BY <1>1, <2>1, <2>2 DEF Backed
    <2>5. Has("report", n) /\ outcome[n] = "change"
          /\ (advice[n] = "deferred" <=> ~Has("validator_lease", n))
      BY <1>5, <2>4
    <2>6. Unbound \ {<<"correction_request", n>>} = EngineerFiles(n) \cup ValidatorFiles(n)
      <3>1. \A g \in DOMAIN Rank : Has(g, n) /\ g # "correction_request" <=>
              \/ g \in {"engineer_lease", "engineer", "report", "validator"}
              \/ n = 2 /\ g \in {"engineer_correction", "correction_wiki"}
              \/ advice[n] # "deferred" /\ g = "validator_lease"
        BY <1>3, <1>4, <1>5, <2>4, <2>5 DEF Rank
      <3>2. \A g \in DOMAIN Rank :
              <<g, n>> \in Unbound \ {<<"correction_request", n>>}
                <=> <<g, n>> \in EngineerFiles(n) \cup ValidatorFiles(n)
        BY <1>1, <1>6, <1>10, <3>1 DEF EngineerFiles, ValidatorFiles
      <3>3. \A f \in EngineerFiles(n) \cup ValidatorFiles(n) : \E g \in DOMAIN Rank : f = <<g, n>>
        BY <1>10 DEF EngineerFiles, ValidatorFiles, Rank
      <3>4. Unbound \ {<<"correction_request", n>>} \subseteq EngineerFiles(n) \cup ValidatorFiles(n)
        BY <1>1, <1>7, <3>2
      <3>5. EngineerFiles(n) \cup ValidatorFiles(n) \subseteq Unbound \ {<<"correction_request", n>>}
        BY <3>2, <3>3
      <3> QED BY <3>4, <3>5
    <2>7. Interrupted(n) = {}
      <3>1. Outcome("engineer", n) \in Stored /\ Outcome("validator", n) \in Stored
        BY <1>3, <1>10, <2>4 DEF Has, Stored
      <3> QED BY <3>1 DEF Interrupted, RoleNodes
    <2>8. TerminalVerified(n)
      BY <1>8, <1>9, <1>12, <2>2, <2>3, <2>5, <2>6 DEF TerminalVerified
    <2> QED BY <2>1, <2>7, <2>8
  <1> QED BY <1>11, <1>12

(* What an attempt under way has put into the portable tree is a prefix of *)
(* what closing it puts there.                                             *)
LEMMA ClosesInOrder ==
  ASSUME Tidy, NEW n \in Attempts, Open(n), <<"failure", n>> \notin portable
  PROVE  InFlightInventory(n)
  <1> DEFINE promoted == Unbound \cap portable
             decisions == Extras(LatestKind) \cap ({"decision"} \X Attempts)
             writes == Extras(LatestKind) \ (promoted \cup decisions)
             k == SuccessKind(n)
  <1>1. /\ Concluding /\ Sequenced /\ Copied /\ portable \subseteq Files
        /\ Unbound = Artifacts(n) /\ LatestKind = AuthorizedKind(n) /\ k \in Kinds
        /\ runtime \subseteq ModelFiles
    BY Found, OpenLoads, KindsDiffer
  <1>2. \A f \in promoted, g \in Unbound : Rank[g[1]] <= Rank[f[1]] => g \in promoted
    BY <1>1 DEF Concluding
  <1>3. ASSUME NEW f \in Extras(LatestKind)
        PROVE  /\ f \in portable /\ f \in Files /\ Era(f) = Age[SuccessKind(n)]
               /\ \/ f \in promoted
                  \/ f = <<"decision", n>>
                  \/ f \in FreezeFiles(k)
    <2>1. f \in portable /\ f \in Files /\ Era(f) = Age[SuccessKind(n)]
      BY OpenExtras
    <2>2. f \in ModelFiles /\ f[2] = n => f \in promoted
      BY <1>1, <2>1 DEF Copied, Artifacts
    <2> QED BY <2>1, <2>2, WrittenIn
  <1>4. decisions \in {{}} \cup {{<<"decision", i>>} : i \in Attempts}
    <2>1. ASSUME NEW f \in decisions PROVE f = <<"decision", n>>
      <3>1. f \notin ModelFiles /\ f \notin FreezeFiles(k)
        BY <2>1 DEF ModelFiles, Rank, FreezeFiles
      <3>2. f \notin promoted
        BY <1>1, <3>1 DEF Artifacts
      <3> QED BY <1>3, <2>1, <3>1, <3>2
    <2>2. decisions = {} \/ decisions = {<<"decision", n>>}
      BY <2>1
    <2> QED BY <2>2
  <1>5. writes \subseteq FreezeFiles(k) /\ writes \subseteq portable
    <2> SUFFICES ASSUME NEW f \in writes PROVE f \in FreezeFiles(k) /\ f \in portable
      OBVIOUS
    <2>1. <<"decision", n>> \in {"decision"} \X Attempts
      OBVIOUS
    <2> QED BY <1>3, <2>1
  <1>6. ASSUME NEW f \in FreezeFiles(k), f \in portable PROVE f \in writes
    <2>1. Era(f) = Age[SuccessKind(n)] /\ Age[SuccessKind(n)] > Age[AuthorizedKind(n)]
      BY <1>6, SuccessEra
    <2>2. f \in Extras(LatestKind)
      BY <1>1, <1>6, <2>1, ExtrasAre
    <2>3. f \notin ModelFiles /\ f \notin {"decision"} \X Attempts
      BY <1>6 DEF FreezeFiles, ModelFiles, Rank
    <2> QED BY <1>1, <2>2, <2>3 DEF Artifacts
  <1>7. writes \in Prefixes(FreezeOrder(k))
    <2>1. /\ <<"workflow", k>> \in portable => <<"status", k>> \in portable
          /\ <<"checkpoint", k>> \in portable => <<"workflow", k>> \in portable
          /\ <<"index", k>> \in portable => <<"checkpoint", k>> \in portable
      BY <1>1 DEF Sequenced
    <2>2. /\ <<"status", k>> \in FreezeFiles(k) /\ <<"workflow", k>> \in FreezeFiles(k)
          /\ <<"checkpoint", k>> \in FreezeFiles(k)
      BY DEF FreezeFiles
    <2> HIDE DEF writes
    <2>3. /\ <<"workflow", k>> \in writes => <<"status", k>> \in writes
          /\ <<"checkpoint", k>> \in writes => <<"workflow", k>> \in writes
          /\ <<"index", k>> \in writes => <<"checkpoint", k>> \in writes
      BY <1>5, <1>6, <2>1, <2>2
    <2> QED BY <1>5, <2>3, FreezePrefix
  <1>8. writes # {} => promoted = Unbound
    <2> SUFFICES ASSUME NEW f \in writes PROVE promoted = Unbound
      OBVIOUS
    <2>1. f \in FreezeFiles(k) /\ f \in portable
      BY <1>5
    <2>2. <<"status", k>> \in portable
      BY <1>1, <2>1 DEF FreezeFiles, Sequenced
    <2>3. runtime \subseteq portable
      BY <1>1, <2>2 DEF Concluding
    <2> QED BY <1>1, <2>3 DEF Artifacts
  <1> QED BY <1>2, <1>4, <1>7, <1>8 DEF InFlightInventory

(* An attempt that has written something can be read exactly as long as    *)
(* its checkpoint kept up with it and no failure was recorded.             *)
LEMMA BegunIsReadable ==
  ASSUME Tidy, NEW n \in Attempts, Open(n), Artifacts(n) # {}
  PROVE  Readable <=> ~Gap
  <1>1. /\ InOrder /\ Failing /\ Indexed /\ Backed /\ n \in {1, 2}
        /\ LatestKind = AuthorizedKind(n) /\ LatestKind \in Kinds /\ Unbound = Artifacts(n)
        /\ <<"index", LatestKind>> \in portable /\ runtime \subseteq ModelFiles
        /\ ckpt \in Checkpoint /\ ckpt.failed \in BOOLEAN /\ ckpt \in KnownCheckpoints
        /\ Flow!Sound(ckpt) /\ ckpt.next \in Nodes
    <2>1. /\ InOrder /\ Failing /\ Indexed /\ Backed /\ EvidenceInv
          /\ runtime \subseteq ModelFiles /\ \A k \in anchors : Frozen(k)
      BY Found DEF Roles
    <2>2. LatestKind \in Kinds /\ <<"index", LatestKind>> \in portable
      BY <2>1, StageOf DEF Frozen
    <2>3. n \in {1, 2}
      BY DEF Attempts
    <2>4. LatestKind = AuthorizedKind(n) /\ Unbound = Artifacts(n)
      BY OpenLoads
    <2>5. ckpt \in Checkpoint /\ ckpt \in KnownCheckpoints /\ Flow!Sound(ckpt)
      BY HasMoved
    <2> QED BY <2>1, <2>2, <2>3, <2>4, <2>5 DEF Checkpoint
  <1>2. Begun(n)
    <2>1. PICK f \in DOMAIN Rank : <<f, n>> \in runtime
      BY <1>1 DEF Artifacts, ModelFiles
    <2>2. CASE f = "correction_request"
      <3>1. <<"validator", n>> \in runtime
        BY <1>1, <2>1, <2>2 DEF InOrder, Has
      <3> QED BY <3>1 DEF Begun
    <2>3. CASE f # "correction_request"
      BY <2>1, <2>3 DEF Begun
    <2> QED BY <2>2, <2>3
  <1>3. consent[1].selection = "approve"
    BY <1>1 DEF InOrder
  <1>4. ~ConsumedSilently(n) /\ ~UnfrozenRefusal(n) /\ (UnseamedError(n) <=> ckpt.failed)
    BY <1>1, <1>2, <1>3, HasMoved DEF ConsumedSilently, UnfrozenRefusal, UnseamedError
  <1>5. Gap <=> \/ ckpt.next \in TerminalNodes
                \/ ~Moved(n)
                \/ ckpt.next \in RoleNodes /\ ~(Interrupted(n) \subseteq {ckpt.next})
                \/ ckpt.failed
                \/ <<"failure", n>> \in portable
    BY <1>2, <1>4, OpenLoads DEF UnrecordedQuestion, LaggingCheckpoint, UnfrozenFailure
  <1>6. ASSUME InFlightVerified(n) PROVE ~Gap
    <2>1. /\ ckpt.attempt = n
          /\ ckpt.next = "end" \/ ckpt.next \in RoleNodes
          /\ ~ckpt.failed
          /\ ckpt.next # "end" => Interrupted(n) \subseteq {ckpt.next}
      BY <1>1, <1>6 DEF InFlightVerified, InFlightProjection
    <2>2. Moved(n)
      <3> SUFFICES ASSUME ~Moved(n) PROVE FALSE
        OBVIOUS
      <3>1. n = 1 /\ ckpt = PlannedCheckpoint
        BY <1>1, <2>1, HasMoved
      <3> QED BY <2>1, <3>1 DEF PlannedCheckpoint, StartedCheckpoint, RoleNodes
    <2>3. <<"failure", n>> \notin portable
      BY <1>1, <2>1 DEF Failing
    <2>4. ckpt.next \notin TerminalNodes
      BY <2>1 DEF TerminalNodes, RoleNodes
    <2> QED BY <1>5, <2>1, <2>2, <2>3, <2>4 DEF RoleNodes
  <1>7. ASSUME ~Gap PROVE InFlightVerified(n)
    <2>1. /\ Moved(n) /\ ~ckpt.failed /\ <<"failure", n>> \notin portable
          /\ ckpt.next \notin TerminalNodes
          /\ ckpt.next \in RoleNodes => Interrupted(n) \subseteq {ckpt.next}
      BY <1>5, <1>7
    <2>2. /\ ckpt.attempt = n /\ ckpt.approval = consent[1]
          /\ ckpt.next \notin {"architect", "approval_gate"}
          /\ ckpt.correction = IF n = 1 THEN None ELSE consent[2]
      BY <2>1, HasMoved
    <2>3. ckpt.next \in RoleNodes \/ ckpt.next = "end"
      BY <1>1, <2>1, <2>2 DEF Nodes, RoleNodes, TerminalNodes
    <2>4. ckpt.next = "validator" => ckpt.change # 0
      BY <1>1, <2>2, SameConstants DEF Flow!Sound
    <2>5. ckpt.next = "end" =>
            /\ Interrupted(n) = {}
            /\ ckpt.status \in {"completed", "decision_required"}
            /\ TerminalVerified(n)
      BY <2>1, EndedWith
    <2>6. InFlightProjection(n, FALSE)
      BY <1>1, <1>3, <2>1, <2>2, <2>3, <2>4, <2>5 DEF InFlightProjection
    <2>7. \E r \in RoleNodes : Interrupted(n) \subseteq {r}
      BY <2>1, <2>3, <2>5 DEF RoleNodes
    <2>8. runtime \cap index[LatestKind] \subseteq portable
      BY <1>1 DEF Indexed
    <2>9. \A f \in Unbound : f[2] = n
      BY <1>1 DEF Artifacts
    <2> QED BY <2>1, <2>6, <2>7, <2>8, <2>9, ClosesInOrder DEF InFlightVerified
  <1> QED BY <1>6, <1>7, OpenLoads

(* After any crash, any error and any write, the next load accepts the run *)
(* exactly when it was not cut off in one of the gaps the controller       *)
(* documents.  (_load_components with everything it verifies)              *)
THEOREM ReadExceptInGaps == Spec => []ReadableExceptInGaps
  <1>1. RecoveryInv => ReadableExceptInGaps
    <2> SUFFICES ASSUME RecoveryInv PROVE Readable <=> ~Gap
      BY DEF ReadableExceptInGaps
    <2>1. CASE Temporary \in Stored
      <3>1. Control
        BY DEF RecoveryInv, EvidenceInv, RunInv
      <3>2. ~Readable
        BY <2>1, <3>1, VerifiedIsClean, InFlightIsClean DEF Readable
      <3> QED BY <2>1, <3>2 DEF Gap, LeftTemporary
    <2>2. CASE Temporary \notin Stored
      <3>1. Tidy
        BY <2>2 DEF RecoveryInv, Tidy
      <3> QED BY <3>1, WaitingIsReadable, SilentIsReadable, BegunIsReadable, OverIsReadable
    <2> QED BY <2>1, <2>2
  <1> QED BY <1>1, RecoveryInvariance, PTL

-----------------------------------------------------------------------------
(* The readers of the run's evidence.                                       *)

(* A stored answer is that of a call that was made. *)
Answered ==
  /\ pc = "engineer_outcome" => dispatched["engineer"][This] > 0
  /\ pc = "assessment" /\ call.result = "assessed" => dispatched["validator"][This] > 0
  /\ \A n \in Attempts : Has("engineer", n) => dispatched["engineer"][n] > 0
  /\ \A n \in Attempts : Has("validator", n) =>
       advice[n] # "none" /\ (advice[n] = "assessed" => dispatched["validator"][n] > 0)

(* The attempt a completed run ended with. *)
Last(t) == IF t.kind = "retried" THEN 2 ELSE 1
Completed(t) == t.status = "completed"
Told(t) ==
  /\ t # None /\ t.kind \in EndingKinds /\ t.status \in Ended
  /\ t.status = "decision_required" => t.disposition = "decision_required"
  /\ Completed(t) =>
       /\ t.kind = SuccessKind(Last(t)) /\ t.kind \in anchors
       /\ Triplet(Last(t)) \subseteq portable
       /\ verdict[Last(t)] \in Verdicts /\ t.disposition = verdict[Last(t)].disposition

Weighed(b) ==
  /\ Told(b.terminal)
  /\ b.attempts \in 0..2 /\ (b.attempts = 2 => Triplet(2) \subseteq portable)
  /\ Completed(b.terminal) =>
       b.attempts > 0 /\ (b.terminal.kind = "retried" => b.attempts = 2)
  /\ b.terminal.status = "decision_required" => b.attempts = 0
  /\ b.calls.complete => b.calls.count \in 1..5

ReaderInv ==
  /\ reader.pc \in {"terminal", "planning", "inventory", "inventories", "recheck", "rubric"}
  /\ reader.pc \in {"planning", "inventory", "inventories"} => Told(reader.terminal)
  /\ reader.pc = "inventories" =>
       /\ reader.first.complete \in BOOLEAN /\ reader.first.any \in BOOLEAN
       /\ reader.first.complete => reader.first.any
  /\ reader.pc \in {"recheck", "rubric"} => Weighed(reader.bundle)
  /\ reader.pc = "rubric" /\ Completed(reader.bundle.terminal) =>
       reader.bundle.attempts = Last(reader.bundle.terminal)

Issued(r) ==
  /\ Told(r.terminal) /\ r.rubric = r.terminal
  /\ r.disposition = WorkflowDisposition(r.terminal)
  /\ r.attempts \in 0..2
  /\ Completed(r.terminal) => r.attempts = Last(r.terminal)
  /\ r.terminal.status = "decision_required" => r.attempts = 0
  /\ r.checks \in {"some", "none", "either", "unavailable"}
  /\ r.disposition = "environment_unavailable" => r.checks = "some"
  /\ r.calls \subseteq 1..5 /\ Cardinality(r.calls) <= 1

ReadersInv ==
  /\ plan \in Plans /\ (Planned \/ Init)
  /\ \A t \in reviewed : Told(t)
  /\ ReaderInv
  /\ \A r \in receipts : Issued(r)
-----------------------------------------------------------------------------
(* A provider call comes before what is stored of its answer.              *)
LEMMA AnsweredStep == ASSUME RecoveryInv, Answered, [Next]_vars PROVE Answered'
  <1>0. /\ Control /\ Leases /\ TypeOK /\ CallOK
        /\ This \in {1, 2} /\ This \in Attempts /\ "engineer" \in RoleNodes /\ "validator" \in RoleNodes
        /\ "engineer" \in DOMAIN Rank /\ "validator" \in DOMAIN Rank
    BY AtWork DEF RecoveryInv, RoleNodes, Rank
  <1>1. ASSUME NEW r \in RoleNodes, Dispatch(r)
        PROVE  /\ dispatched'[r][This] > 0
               /\ \A q \in RoleNodes, n \in Attempts : dispatched[q][n] > 0 => dispatched'[q][n] > 0
    <2>1. /\ dispatched \in [RoleNodes -> [Attempts -> 0..DispatchCap]]
          /\ \A q \in RoleNodes, n \in Attempts : dispatched[q][n] \in 0..2
      BY <1>0 DEF TypeOK, DispatchCap
    <2>2. \A q \in RoleNodes, n \in Attempts :
            dispatched'[q][n] = IF q = r /\ n = This /\ dispatched[q][n] < 2
                                THEN dispatched[q][n] + 1 ELSE dispatched[q][n]
      BY <1>0, <1>1, <2>1, DispatchCounts DEF DispatchCap
    <2> QED BY <1>0, <2>1, <2>2
  <1>2. \A r \in RoleNodes, n \in Attempts : dispatched[r][n] > 0 => dispatched'[r][n] > 0
    BY <1>0, <1>1, Frames DEF CallEngineer, CallValidator
  <1>3. pc' = "engineer_outcome" => dispatched'["engineer"][This'] > 0
    <2> SUFFICES ASSUME pc' = "engineer_outcome" PROVE dispatched'["engineer"][This] > 0 /\ This' = This
      OBVIOUS
    <2>1. /\ This' = This
          /\ InsideNode \/ UNCHANGED <<portable, runtime, dispatched, outcome, verdict, advice, pc, call>>
      BY <1>0, NodeSteps DEF EngineerPcs, ValidatorPcs, RoleNodes
    <2>2. CASE InsideNode
      <3>1. CallEngineer
        BY <1>0, <2>2 DEF InsideNode, EngineerStart, PrepareCorrection, ClaimEngineer, StoreEngineerOutcome,
           ValidatorStart, Advise, ClaimValidator, CallValidator, StoreAssessment, RunChecks, Goto
      <3> QED BY <1>0, <1>1, <2>1, <3>1 DEF CallEngineer
    <2> QED BY <1>0, <2>1, <2>2 DEF Answered
  <1>4. pc' = "assessment" /\ call'.result = "assessed" => dispatched'["validator"][This'] > 0
    <2> SUFFICES ASSUME pc' = "assessment", call'.result = "assessed"
                 PROVE  dispatched'["validator"][This] > 0 /\ This' = This
      OBVIOUS
    <2>1. /\ This' = This
          /\ InsideNode \/ UNCHANGED <<portable, runtime, dispatched, outcome, verdict, advice, pc, call>>
      BY <1>0, NodeSteps DEF EngineerPcs, ValidatorPcs, RoleNodes
    <2>2. CASE InsideNode
      <3>1. CallValidator \/ Advise
        BY <1>0, <2>2 DEF InsideNode, EngineerStart, PrepareCorrection, ClaimEngineer, StoreEngineerOutcome,
           ValidatorStart, ClaimValidator, CallEngineer, StoreAssessment, RunChecks, Goto
      <3>2. ~Advise
        BY <1>0 DEF Advise, Goto, CallOK
      <3> QED BY <1>0, <1>1, <2>1, <3>1, <3>2 DEF CallValidator
    <2> QED BY <1>0, <2>1, <2>2 DEF Answered
  <1>5. \A n \in Attempts : Has("engineer", n)' => dispatched'["engineer"][n] > 0
    BY <1>0, <1>2, NewArtifact DEF Answered
  <1>6. ASSUME NEW n \in Attempts, Has("validator", n)'
        PROVE  /\ advice'[n] # "none"
               /\ advice'[n] = "assessed" => dispatched'["validator"][n] > 0
    <2>1. CASE Has("validator", n)
      BY <1>0, <1>2, <1>6, <2>1, ContentsStay DEF Answered, Has, Stored
    <2>2. CASE ~Has("validator", n)
      <3>1. pc = "assessment" /\ n = This /\ advice'[n] = call.result
        BY <1>0, <1>6, <2>2, NewArtifact
      <3> QED BY <1>0, <1>2, <3>1 DEF Answered, CallOK
    <2> QED BY <2>1, <2>2
  <1> QED BY <1>3, <1>4, <1>5, <1>6 DEF Answered, Has

LEMMA InitAnswered == Init => Answered
  BY DEF Init, Answered, Has

-----------------------------------------------------------------------------
(* What a reader learns of a run that ended.                               *)

(* A run that can be read and has ended has promoted all it made. *)
LEMMA Settled ==
  ASSUME RecoveryInv, Readable, LatestKind \in EndingKinds
  PROVE  Tidy /\ runtime \subseteq portable /\ portable \cap ModelFiles = runtime
  <1>1. Control /\ EvidenceInv /\ Copied
    BY AtWork DEF RecoveryInv, Leases
  <1>2. Temporary \notin Stored
    BY <1>1, VerifiedIsClean, InFlightIsClean DEF Readable
  <1>3. Tidy
    BY <1>2 DEF RecoveryInv, Tidy
  <1>4. \A n \in Attempts : ~Open(n)
    <2>1. \A n \in Attempts : AuthorizedKind(n) \notin EndingKinds
      BY DEF AuthorizedKind, EndingKinds
    <2> QED BY <1>1, <2>1, StageOf
  <1> QED BY <1>1, <1>3, <1>4, ArtifactsOf, Found DEF Copied

(* An attempt of which the assessment is stored has all of its triplet. *)
LEMMA AssessedIsWhole ==
  ASSUME RecoveryInv, NEW n \in Attempts, Has("validator", n)
  PROVE  Triplet(n) \subseteq runtime
  BY DEF RecoveryInv, Roles, InOrder, Has, Triplet

(* A completed run is at its last attempt's report. *)
LEMMA CompletedAttempt ==
  ASSUME RecoveryInv, Readable, LatestKind \in EndingKinds, LatestStatus = "completed"
  PROVE  \E n \in Attempts :
           /\ LatestKind = SuccessKind(n) /\ SuccessKind(n) \in anchors
           /\ Has("validator", n) /\ verdict[n] \in Verdicts
           /\ frozen[LatestKind].report.verdict = verdict[n]
  <1>1. /\ Tidy /\ EvidenceInv /\ Closed /\ Rest /\ Roles /\ TypeOK /\ ReportsTyped
        /\ frozen["planned"] = PlannedCheckpoint
    BY Settled, Found DEF Pending, Control
  <1>2. LatestKind \in anchors
    BY <1>1, StageOf
  <1>3. PICK n \in Attempts : LatestKind = SuccessKind(n)
    <2>1. LatestKind # "failed"
      BY DEF LatestStatus
    <2>2. LatestKind # "planned"
      BY <1>1, <2>1 DEF LatestStatus, PlannedCheckpoint, StartedCheckpoint
    <2> QED BY <2>1, <2>2 DEF EndingKinds, SuccessKind, Attempts
  <1>4. frozen[LatestKind].status = "completed"
    BY <1>3 DEF LatestStatus, SuccessKind
  <1>5. <<"report", n>> \in runtime /\ frozen[LatestKind].report = [attempt |-> n, verdict |-> verdict[n]]
    BY <1>1, <1>2, <1>3, <1>4 DEF Closed
  <1>6. verdict[n] \in Verdicts
    BY <1>1, <1>5 DEF ReportsTyped, Stored
  <1>7. frozen[LatestKind].report # None
    BY <1>5, <1>6 DEF Reports
  <1>8. ckpt = frozen[LatestKind]
    <2>1. CASE n = 1
      <3>1. "correction_authorized" \notin anchors
        BY <1>1, <1>3, <2>1, StageOf DEF SuccessKind, Kinds, Age
      <3> QED BY <1>1, <1>2, <1>3, <2>1, <3>1 DEF Rest, SuccessKind
    <2>2. CASE n = 2
      BY <1>1, <1>2, <1>3, <2>2 DEF Rest, SuccessKind
    <2> QED BY <2>1, <2>2 DEF Attempts
  <1>9. Has("validator", n)
    BY <1>1, <1>5, <1>7, <1>8 DEF Roles, Backed, KnownCheckpoints
  <1> QED BY <1>2, <1>3, <1>5, <1>6, <1>9

(* Which terminal states there are. *)
LEMMA TerminalIs ==
  ASSUME TerminalEvidence # None
  PROVE  \/ /\ ~Planned
            /\ TerminalEvidence = Terminal(IF plan.status = "failed" THEN "failed" ELSE "planned",
                                           plan.status, plan.status)
         \/ /\ Planned /\ Readable /\ LatestKind \in EndingKinds /\ LatestStatus \in Ended
            /\ TerminalEvidence.kind = LatestKind /\ TerminalEvidence.status = LatestStatus
            /\ TerminalEvidence.disposition =
                 IF LatestStatus = "completed" THEN frozen[LatestKind].report.verdict.disposition
                 ELSE LatestStatus
  BY DEF TerminalEvidence, Terminal

LEMMA UnplannedIs ==
  ASSUME plan \in Plans, ~Planned
  PROVE  plan.status \in {"failed", "decision_required"}
  BY DEF Plans, Planned

LEMMA EvidenceTold ==
  ASSUME RecoveryInv, plan \in Plans, TerminalEvidence # None
  PROVE  Told(TerminalEvidence)
  <1>1. CASE ~Planned
    BY <1>1, TerminalIs, UnplannedIs DEF Told, Terminal, EndingKinds, Ended, ControlledFailures, Completed
  <1>2. CASE Planned
    <2> DEFINE t == TerminalEvidence
    <2>1. /\ Readable /\ LatestKind \in EndingKinds /\ LatestStatus \in Ended
          /\ t.kind = LatestKind /\ t.status = LatestStatus
          /\ t.disposition = IF LatestStatus = "completed" THEN frozen[LatestKind].report.verdict.disposition
                             ELSE LatestStatus
      BY <1>2, TerminalIs
    <2>2. CASE LatestStatus # "completed"
      BY <2>1, <2>2 DEF Told, Completed
    <2>3. CASE LatestStatus = "completed"
      <3>1. PICK n \in Attempts :
              /\ LatestKind = SuccessKind(n) /\ SuccessKind(n) \in anchors
              /\ Has("validator", n) /\ verdict[n] \in Verdicts
              /\ frozen[LatestKind].report.verdict = verdict[n]
        BY <2>1, <2>3, CompletedAttempt
      <3>2. Triplet(n) \subseteq portable
        BY <2>1, <3>1, AssessedIsWhole, Settled
      <3>3. Last(t) = n
        BY <2>1, <3>1 DEF Last, SuccessKind, Attempts
      <3> QED BY <2>1, <2>3, <3>1, <3>2, <3>3 DEF Told, Completed
    <2> QED BY <2>2, <2>3
  <1> QED BY <1>1, <1>2

(* It stays true, whatever the run does next. *)
LEMMA ToldStays ==
  ASSUME RecoveryInv, [Next]_vars
  PROVE  /\ portable \subseteq portable'
         /\ \A t : Told(t) => Told(t)'
  <1>1. Control /\ Leases
    BY AtWork DEF RecoveryInv
  <1>2. portable \subseteq portable' /\ anchors \subseteq anchors'
    BY <1>1, StorageGrows, Frames DEF BindAnchor
  <1>3. \A n \in Attempts : Triplet(n) \subseteq portable => verdict'[n] = verdict[n]
    BY <1>1, ContentsStay DEF Stored, Triplet
  <1>4. \A t : Last(t) \in Attempts
    BY DEF Last, Attempts
  <1>5. \A n : Triplet(n)' = Triplet(n)
    BY DEF Triplet
  <1> QED BY <1>2, <1>3, <1>4, <1>5 DEF Told, Completed, Last, SuccessKind, Triplet

-----------------------------------------------------------------------------
(* The reader goes on with what is still true of the run.                  *)

(* A step of a reader leaves the run alone, and nothing changes the plan. *)
LEMMA BundleSteps ==
  ASSUME [BundleNext]_allVars
  PROVE  [Next]_vars /\ plan' = plan /\ (~Planned => UNCHANGED vars)
  BY DEF BundleNext, allVars, bundleVars, RunStep, Review, ReadTerminal, ReadPlanning,
         ReadFirstInventory, ReadAttempts, RecheckTerminal, Extract

(* What is complete is there. *)
LEMMA CompleteIsAny ==
  ASSUME NEW n \in Attempts
  PROVE  /\ Inventory1(n).complete <=> Triplet(n) \subseteq portable
         /\ Inventory1(n).any <=> Related(n) \cap portable # {}
         /\ Inventory1(n).complete \in BOOLEAN /\ Inventory1(n).any \in BOOLEAN
         /\ Inventory1(n).complete => Inventory1(n).any
  BY DEF Inventory1, Triplet, Related

(* The attempts up to the last. *)
LEMMA IntervalCount ==
  ASSUME NEW m \in 0..2
  PROVE  IsFiniteSet(1..m) /\ Cardinality(1..m) = m
  <1>1. 1 \in Int /\ m \in Int
    OBVIOUS
  <1>2. IsFiniteSet(1..m) /\ Cardinality(1..m) = IF 1 > m THEN 0 ELSE m - 1 + 1
    BY <1>1, FS_Interval
  <1> QED BY <1>2

LEMMA AssessmentsCounted ==
  ASSUME NEW m \in 0..2
  PROVE  Cardinality({n \in 1..m : advice[n] = "assessed"}) \in 0..m
  <1> DEFINE S == {n \in 1..m : advice[n] = "assessed"}
  <1>1. IsFiniteSet(1..m) /\ Cardinality(1..m) = m
    BY IntervalCount
  <1>2. IsFiniteSet(S) /\ Cardinality(S) <= Cardinality(1..m)
    BY <1>1, FS_Subset
  <1>3. Cardinality(S) \in Nat
    BY <1>2, FS_CardinalityType
  <1> QED BY <1>1, <1>2, <1>3

(* A bundle that is accepted has the attempts its terminal state tells of. *)
LEMMA AcceptedIsWeighed ==
  ASSUME NEW t, Told(t), NEW f, f.complete \in BOOLEAN, f.any \in BOOLEAN, f.complete => f.any,
         NEW p, Accepted(t, p, Attempted(t, <<f, Inventory1(2)>>))
  PROVE  Weighed(Bundle(t, p, Attempted(t, <<f, Inventory1(2)>>)))
  <1> DEFINE inv == <<f, Inventory1(2)>>
             done == Attempted(t, inv)
             b == Bundle(t, p, done)
  <1>1. inv[1] = f /\ inv[2] = Inventory1(2) /\ 2 \in Attempts
    BY DEF Attempts
  <1>2. /\ done.count = IF Inventory1(2).complete THEN 2 ELSE IF f.complete THEN 1 ELSE 0
        /\ done.ok => /\ t.status = "decision_required" => ~f.any /\ ~Inventory1(2).any
                      /\ done.count = 0 => t.status # "completed"
    BY <1>1 DEF Attempted, Attempts
  <1>3. done.ok
    BY DEF Accepted
  <1>4. b.terminal = t /\ b.attempts = done.count /\ b.calls = Calls(p, done)
    BY DEF Bundle
  <1>5. done.count \in 0..2 /\ (done.count = 2 => Triplet(2) \subseteq portable)
    BY <1>1, <1>2, CompleteIsAny
  <1>6. Completed(t) => done.count > 0 /\ (t.kind = "retried" => done.count = 2)
    <2>1. Completed(t) => done.count # 0
      BY <1>2, <1>3 DEF Completed
    <2>2. Completed(t) /\ t.kind = "retried" => Inventory1(2).complete
      BY <1>1, CompleteIsAny DEF Told, Last
    <2> QED BY <1>2, <1>5, <2>1, <2>2
  <1>7. t.status = "decision_required" => done.count = 0
    BY <1>1, <1>2, <1>3, CompleteIsAny
  <1>8. b.calls.complete => b.calls.count \in 1..5
    <2> DEFINE a == Cardinality({n \in 1..done.count : advice[n] = "assessed"})
    <2>1. a \in 0..done.count
      BY <1>5, AssessmentsCounted
    <2> HIDE DEF a, done
    <2>2. b.calls.complete => b.calls.count = 1 + done.count + a
      BY <1>4, <1>5 DEF Calls, a
    <2> QED BY <1>5, <2>1, <2>2
  <1> HIDE DEF b, done
  <1> QED BY <1>4, <1>5, <1>6, <1>7, <1>8 DEF Weighed, b, done

(* The second reading tells that no attempt was missed. *)
LEMMA RecheckedIsLast ==
  ASSUME RecoveryInv, plan \in Plans, NEW b, Weighed(b), TerminalEvidence = b.terminal, Completed(b.terminal)
  PROVE  b.attempts = Last(b.terminal)
  <1> DEFINE t == b.terminal
  <1>1. Told(t) /\ t # None
    BY DEF Weighed, Told
  <1>2. /\ Planned /\ Readable /\ LatestKind \in EndingKinds /\ LatestKind = t.kind
    <2>1. ~Planned => t.status \in {"failed", "decision_required"}
      BY <1>1, TerminalIs, UnplannedIs DEF Terminal
    <2> QED BY <1>1, <2>1, TerminalIs DEF Completed
  <1>3. CASE t.kind = "retried"
    BY <1>3 DEF Weighed, Last
  <1>4. CASE t.kind # "retried"
    <2>1. t.kind = "resumed" /\ Last(t) = 1
      BY <1>1, <1>4 DEF Told, Last, SuccessKind
    <2>2. Tidy /\ EvidenceInv /\ portable \cap ModelFiles = runtime
      BY <1>2, Settled DEF Tidy
    <2>3. "correction_authorized" \notin anchors
      BY <1>2, <2>1, <2>2, StageOf DEF Kinds, Age
    <2>4. <<"engineer", 2>> \notin portable
      BY <2>2, <2>3 DEF RecoveryInv, Roles, InOrder, Artifacts, AuthorizedKind, Attempts, ModelFiles, Rank
    <2> QED BY <2>1, <2>4 DEF Weighed, Triplet
  <1> QED BY <1>3, <1>4

(* A receipt says what its bundle does. *)
LEMMA ReceiptIsIssued ==
  ASSUME NEW b, Weighed(b), Completed(b.terminal) => b.attempts = Last(b.terminal)
  PROVE  Issued(Receipt(b, b.terminal))
  <1> DEFINE t == b.terminal
             r == Receipt(b, t)
  <1>1. /\ r.terminal = t /\ r.rubric = t /\ r.disposition = WorkflowDisposition(t)
        /\ r.attempts = b.attempts /\ r.checks = UnavailableChecks(b) /\ r.calls = Usage(b)
    BY DEF Receipt
  <1>2. /\ UnavailableChecks(b) \in {"some", "none", "either", "unavailable"}
        /\ b.attempts # 0 /\ verdict[b.attempts].disposition = "environment_unavailable" =>
             UnavailableChecks(b) = "some"
    BY DEF UnavailableChecks, ChecksOf
  <1>3. WorkflowDisposition(t) = "environment_unavailable" => UnavailableChecks(b) = "some"
    <2> SUFFICES ASSUME WorkflowDisposition(t) = "environment_unavailable"
                 PROVE  UnavailableChecks(b) = "some"
      OBVIOUS
    <2>1. Completed(t)
      BY DEF WorkflowDisposition, Controlled, Weighed, Told, Ended, Completed
    <2>2. b.attempts # 0 /\ t.disposition = verdict[b.attempts].disposition
      BY <2>1 DEF Weighed, Told, Last
    <2>3. t.disposition = "environment_unavailable"
      BY DEF WorkflowDisposition
    <2> QED BY <1>2, <2>2, <2>3
  <1>4. Usage(b) \subseteq 1..5 /\ Cardinality(Usage(b)) <= 1
    <2>1. CASE b.calls.complete
      <3>1. Usage(b) = {b.calls.count} /\ b.calls.count \in 1..5
        BY <2>1 DEF Usage, Weighed
      <3>2. Cardinality(Usage(b)) = 1
        BY <3>1, FS_Singleton
      <3> QED BY <3>1, <3>2
    <2>2. CASE ~b.calls.complete
      BY <2>2, FS_EmptySet DEF Usage
    <2> QED BY <2>1, <2>2
  <1> HIDE DEF r
  <1> QED BY <1>1, <1>2, <1>3, <1>4 DEF Issued, Weighed, r

(* Every step of the run and of its readers keeps what they know true. *)
LEMMA ReadersStep ==
  ASSUME RecoveryInv, ReadersInv, [BundleNext]_allVars
  PROVE  ReadersInv'
  <1>0. /\ [Next]_vars /\ plan' = plan /\ plan \in Plans
        /\ \A t : Told(t) => Told(t)'
        /\ portable \subseteq portable'
    BY BundleSteps, ToldStays DEF ReadersInv
  <1>1. plan' \in Plans /\ (Planned \/ Init)'
    <2>1. CASE Planned
      BY <1>0, <2>1 DEF Planned
    <2>2. CASE ~Planned
      BY <1>0, <2>2, BundleSteps DEF ReadersInv, Init, vars
    <2> QED BY <1>0, <2>1, <2>2
  <1>2. \A b : Weighed(b) => Weighed(b)'
    BY <1>0 DEF Weighed, Completed, Triplet
  <1>3. \A r : Issued(r) => Issued(r)'
    BY <1>0 DEF Issued, Completed, Last, WorkflowDisposition, Controlled
  <1>4. \A t \in reviewed' : Told(t)'
    <2>1. CASE Review
      BY <1>0, <2>1, EvidenceTold DEF Review, ReadersInv
    <2>2. CASE ~Review
      BY <1>0, <2>2 DEF ReadersInv, BundleNext, allVars, bundleVars, RunStep, ReadTerminal, ReadPlanning,
         ReadFirstInventory, ReadAttempts, RecheckTerminal, Extract
    <2> QED BY <2>1, <2>2
  <1>5. \A r \in receipts' : Issued(r)'
    <2>1. CASE Extract
      <3>1. Weighed(reader.bundle)
            /\ (Completed(reader.bundle.terminal) => reader.bundle.attempts = Last(reader.bundle.terminal))
        BY <2>1 DEF Extract, ReadersInv, ReaderInv
      <3>2. Issued(Receipt(reader.bundle, reader.bundle.terminal))
        BY <3>1, ReceiptIsIssued
      <3>3. \A r \in receipts' : r \in receipts \/ r = Receipt(reader.bundle, reader.bundle.terminal)
        BY <2>1 DEF Extract
      <3>4. \A r \in receipts' : Issued(r)
        BY <3>2, <3>3 DEF ReadersInv
      <3> QED BY <1>3, <3>4
    <2>2. CASE ~Extract
      <3>1. receipts' = receipts
        BY <2>2 DEF BundleNext, allVars, bundleVars, RunStep, ReadTerminal, ReadPlanning,
           ReadFirstInventory, ReadAttempts, RecheckTerminal, Review
      <3> QED BY <1>3, <3>1 DEF ReadersInv
    <2> QED BY <2>1, <2>2
  <1>6. ReaderInv'
    <2>1. CASE UNCHANGED reader
      BY <1>0, <1>2, <2>1 DEF ReadersInv, ReaderInv, Completed, Last
    <2>2. CASE reader' = Start
      BY <2>2 DEF ReaderInv, Start
    <2>3. CASE ReadTerminal
      <3>1. Told(TerminalEvidence)
        BY <1>0, <2>3, EvidenceTold DEF ReadTerminal
      <3>2. reader'.pc = "planning" /\ reader'.terminal = TerminalEvidence
        BY <2>3 DEF ReadTerminal
      <3> QED BY <1>0, <3>1, <3>2 DEF ReaderInv
    <2>4. CASE ReadPlanning /\ reader' # Start
      <3>1. reader'.pc = "inventory" /\ reader'.terminal = reader.terminal /\ Told(reader.terminal)
        BY <2>4 DEF ReadPlanning, ReadersInv, ReaderInv
      <3> QED BY <1>0, <3>1 DEF ReaderInv
    <2>5. CASE ReadFirstInventory
      <3>1. /\ reader'.pc = "inventories" /\ reader'.terminal = reader.terminal
            /\ reader'.first = Inventory1(1) /\ Told(reader.terminal)
        BY <2>5 DEF ReadFirstInventory, ReadersInv, ReaderInv
      <3> QED BY <1>0, <3>1, CompleteIsAny DEF ReaderInv, Attempts
    <2>6. CASE ReadAttempts /\ reader' # Start
      <3> DEFINE t == reader.terminal
                 done == Attempted(t, <<reader.first, Inventory1(2)>>)
                 b == Bundle(t, reader.planning, done)
      <3>1. /\ Told(t) /\ reader.first.complete \in BOOLEAN /\ reader.first.any \in BOOLEAN
            /\ reader.first.complete => reader.first.any
        BY <2>6 DEF ReadAttempts, ReadersInv, ReaderInv
      <3>2. Accepted(t, reader.planning, done) /\ reader' = [pc |-> "recheck", bundle |-> b]
        BY <2>6 DEF ReadAttempts
      <3>3. Weighed(b)
        BY <3>1, <3>2, AcceptedIsWeighed
      <3>4. reader'.pc = "recheck" /\ reader'.bundle = b
        BY <3>2
      <3> HIDE DEF b
      <3> QED BY <1>2, <3>3, <3>4 DEF ReaderInv
    <2>7. CASE RecheckTerminal /\ reader' # Start
      <3>1. /\ reader'.pc = "rubric" /\ reader'.bundle = reader.bundle /\ Weighed(reader.bundle)
            /\ TerminalEvidence = reader.bundle.terminal
        BY <2>7 DEF RecheckTerminal, ReadersInv, ReaderInv
      <3>2. Completed(reader.bundle.terminal) => reader.bundle.attempts = Last(reader.bundle.terminal)
        BY <1>0, <3>1, RecheckedIsLast
      <3> QED BY <1>2, <3>1, <3>2 DEF ReaderInv, Completed, Last
    <2> QED BY <2>1, <2>2, <2>3, <2>4, <2>5, <2>6, <2>7
            DEF BundleNext, allVars, bundleVars, RunStep, Review, Extract
  <1> QED BY <1>1, <1>4, <1>5, <1>6 DEF ReadersInv

LEMMA InitReaders == BundleInit => ReadersInv
  BY DEF BundleInit, ReadersInv, ReaderInv, Start

-----------------------------------------------------------------------------
(* The bundle of a run that stands still.                                  *)

(* A run that was not planned has nothing to inventory. *)
LEMMA NothingMade ==
  ASSUME Init, NEW n \in Attempts
  PROVE  /\ ~Inventory1(n).any /\ ~Inventory1(n).complete
         /\ \A r \in RoleNodes : dispatched[r][n] = 0
  <1>1. Related(n) \cap portable = {}
    BY DEF Init, PlannedFiles, FreezeOrder, Related, Triplet, Lease
  <1>2. \A r \in RoleNodes : dispatched[r][n] = 0
    BY DEF Init
  <1> QED BY <1>1, <1>2, CompleteIsAny

(* A run that can be read has each attempt whole, or cut off as the last,  *)
(* and each call that was made has its lease.                              *)
LEMMA Inventoried ==
  ASSUME RecoveryInv, Readable, LatestKind \in EndingKinds
  PROVE  /\ Inventory1(2).any => Inventory1(1).complete
         /\ \A n \in Attempts, r \in RoleNodes : dispatched[r][n] > 0 => Inventory1(n).any
         /\ \A n \in Attempts : Inventory1(n).complete => AttemptVerified(n) /\ Has("validator", n)
         /\ LatestStatus = "completed" =>
              /\ Inventory1(1).complete
              /\ IF LatestKind = "retried" THEN Inventory1(2).complete ELSE ~Inventory1(2).any
  <1>0. /\ Tidy /\ EvidenceInv /\ runtime \subseteq portable /\ portable \cap ModelFiles = runtime
        /\ InOrder /\ Leases /\ ReportsTyped /\ Chain /\ 1 \in Attempts /\ 2 \in Attempts
    BY Settled, Found DEF Control, Attempts
  <1>1. \A n \in Attempts : Related(n) \cup Triplet(n) \subseteq ModelFiles
    BY DEF Related, Triplet, ModelFiles, Rank, Lease, Attempts
  <1>2. \A n \in Attempts : Inventory1(n).any => Artifacts(n) # {}
    <2>1. ASSUME NEW n \in Attempts, NEW f \in Related(n) PROVE f[2] = n
      BY <2>1 DEF Related, Triplet, Lease
    <2> QED BY <1>0, <1>1, <2>1, CompleteIsAny DEF Artifacts
  <1>3. \A n \in Attempts : Inventory1(n).complete <=> Triplet(n) \subseteq runtime
    BY <1>0, <1>1, CompleteIsAny
  <1>4. Artifacts(2) # {} => "correction_authorized" \in anchors /\ Inventory1(1).complete
    <2> SUFFICES ASSUME Artifacts(2) # {} PROVE "correction_authorized" \in anchors /\ Inventory1(1).complete
      OBVIOUS
    <2>1. "correction_authorized" \in anchors
      BY <1>0 DEF InOrder, AuthorizedKind
    <2>2. Has("validator", 1)
      BY <1>0, <2>1 DEF Chain, Offered, InOrder, Has
    <2> QED BY <1>0, <1>3, <2>1, <2>2, AssessedIsWhole
  <1>5. ASSUME NEW n \in Attempts, NEW r \in RoleNodes, dispatched[r][n] > 0
        PROVE  Inventory1(n).any
    <2>1. Lease(r, n) \in runtime
      BY <1>0, <1>5 DEF Leases, Leased
    <2>2. Lease(r, n) \in Related(n)
      BY DEF Related, RoleNodes
    <2> QED BY <1>0, <2>1, <2>2, CompleteIsAny
  <1>6. ASSUME NEW n \in Attempts, Inventory1(n).complete
        PROVE  AttemptVerified(n) /\ Has("validator", n)
    <2>1. Has("validator", n) /\ Has("report", n) /\ Has("engineer", n)
      BY <1>3, <1>6 DEF Triplet, Has
    <2>2. verdict[n] # None
      BY <1>0, <2>1, VerdictsAreComputed DEF ReportsTyped, Stored, Has
    <2>3. /\ outcome[n] = "change" /\ Has("engineer_lease", n)
          /\ advice[n] = "deferred" <=> ~Has("validator_lease", n)
      BY <1>0, <2>1 DEF InOrder
    <2>4. /\ Lease("engineer", n) \in portable <=> Has("engineer_lease", n)
          /\ Lease("validator", n) \in portable <=> Has("validator_lease", n)
      BY <1>0, <1>1 DEF Lease, Related, Has
    <2> QED BY <2>1, <2>2, <2>3, <2>4 DEF AttemptVerified
  <1>7. ASSUME LatestStatus = "completed"
        PROVE  /\ Inventory1(1).complete
               /\ IF LatestKind = "retried" THEN Inventory1(2).complete ELSE ~Inventory1(2).any
    <2>1. PICK n \in Attempts : LatestKind = SuccessKind(n) /\ Has("validator", n)
      BY <1>7, CompletedAttempt
    <2>2. Inventory1(n).complete
      BY <1>3, <2>1, AssessedIsWhole
    <2>3. CASE n = 1
      <3>1. "correction_authorized" \notin anchors
        BY <1>0, <2>1, <2>3, StageOf DEF SuccessKind, Kinds, Age
      <3> QED BY <1>0, <1>2, <1>4, <2>1, <2>2, <2>3, <3>1 DEF SuccessKind
    <2>4. CASE n = 2
      BY <1>0, <1>2, <1>4, <2>1, <2>2, <2>4, CompleteIsAny DEF SuccessKind
    <2> QED BY <2>3, <2>4 DEF Attempts
  <1> QED BY <1>0, <1>2, <1>4, <1>5, <1>6, <1>7

(* The attempts a reader finds, where the inventories are in order. *)
LEMMA AttemptedIs ==
  ASSUME NEW t, NEW done, done = Attempted(t, Inventories),
         Inventory1(2).any => Inventory1(1).complete
  PROVE  /\ done.count = IF Inventory1(2).complete THEN 2 ELSE IF Inventory1(1).complete THEN 1 ELSE 0
         /\ done.partial = IF Inventory1(1).any /\ ~Inventory1(1).complete THEN 1
                           ELSE IF Inventory1(2).any /\ ~Inventory1(2).complete THEN 2 ELSE 0
         /\ done.ok <=>
              /\ t.status = "decision_required" => ~Inventory1(1).any /\ ~Inventory1(2).any
              /\ done.partial # 0 => Controlled(t)
              /\ done.count = 0 => t.status # "completed"
  <1>1. Inventories[1] = Inventory1(1) /\ Inventories[2] = Inventory1(2)
    BY DEF Inventories, Attempts
  <1>2. (\A n \in Attempts : ~Inventories[n].any) <=> ~Inventory1(1).any /\ ~Inventory1(2).any
    BY <1>1 DEF Attempts
  <1>3. done.count = IF Inventory1(2).complete THEN 2 ELSE IF Inventory1(1).complete THEN 1 ELSE 0
    BY <1>1 DEF Attempted
  <1>4. done.partial = IF Inventory1(1).any /\ ~Inventory1(1).complete THEN 1
                       ELSE IF Inventory1(2).any /\ ~Inventory1(2).complete THEN 2 ELSE 0
    <2>1. done.partial = CASE Inventory1(1).any /\ ~Inventory1(1).complete -> 1
                           [] Inventory1(2).any /\ ~Inventory1(2).complete -> 2
                           [] OTHER -> 0
      BY <1>1 DEF Attempted
    <2>2. Inventory1(2).any => Inventory1(1).complete
      OBVIOUS
    <2> QED BY <2>1, <2>2
  <1>5. done.ok <=> /\ Inventory1(2).any => Inventory1(1).complete
                    /\ t.status = "decision_required" => \A n \in Attempts : ~Inventories[n].any
                    /\ done.partial # 0 => Controlled(t)
                    /\ done.count = 0 => t.status # "completed"
    BY <1>1 DEF Attempted
  <1> QED BY <1>2, <1>3, <1>4, <1>5

(* A bundle is no refusal. *)
LEMMA BundleOrRefused ==
  ASSUME NEW t, NEW p, NEW d
  PROVE  Bundle(t, p, d) # Refused
  BY DEF Bundle, Refused

(* The bundle, named part by part. *)
LEMMA BundleNowIs ==
  ASSUME NEW t, t = TerminalEvidence, NEW p, p = Planning(t), NEW d, d = Attempted(t, Inventories)
  PROVE  /\ BundleNow = Refused <=> ~Accepted(t, p, d)
         /\ BundleNow # Refused => BundleNow.calls = Calls(p, d) /\ Accepted(t, p, d)
  <1>1. BundleNow = IF Accepted(t, p, d) THEN Bundle(t, p, d) ELSE Refused
    BY DEF BundleNow
  <1>2. Bundle(t, p, d).calls = Calls(p, d)
    BY DEF Bundle
  <1> QED BY <1>1, <1>2, BundleOrRefused

(* A run that was not planned is refused for its question before the       *)
(* Architect was called, and for nothing else.                             *)
LEMMA UnplannedIsMeasurable ==
  ASSUME Init, plan \in Plans, ~Planned, TerminalEvidence # None,
         NEW d, d = Attempted(TerminalEvidence, Inventories)
  PROVE  /\ d.count = 0 /\ d.partial = 0
         /\ Accepted(TerminalEvidence, Planning(TerminalEvidence), d) <=> ~Questioned
         /\ Planning(TerminalEvidence) \in {"verified", "rejected"} => ArchitectCalls = {1}
  <1> DEFINE t == TerminalEvidence
  <1>1. t.status = plan.status /\ plan.status \in {"failed", "decision_required"}
    BY TerminalIs, UnplannedIs DEF Terminal
  <1>2. \A n \in Attempts : ~Inventory1(n).any /\ ~Inventory1(n).complete
    BY NothingMade
  <1>3. 1 \in Attempts /\ 2 \in Attempts
    BY DEF Attempts
  <1>4. d.count = 0 /\ d.partial = 0 /\ d.ok
    BY <1>1, <1>2, <1>3, AttemptedIs
  <1>5. Accepted(t, Planning(t), d) <=> Planning(t) # "refused"
    BY <1>4 DEF Accepted
  <1>6. Questioned <=> "architect_preflight" \in plan.files
    BY DEF Questioned
  <1>7. /\ Planning(t) = "refused" <=> "architect_preflight" \in plan.files
        /\ Planning(t) \in {"verified", "rejected"} => ArchitectCalls = {1}
    <2> USE <1>1 DEF Planning, ManifestUndecided, Controlled, ControlledFailures, ArchitectCalls
    <2>0. InputFiles = {"dependency_graph", "graph_assurance_report", "wiki_trace", "architect_context"}
      BY DEF InputFiles, ArchitectInputs
    <2>1. CASE plan = [files |-> {"architect_preflight"}, status |-> "decision_required"]
      BY <2>0, <2>1
    <2>2. CASE \E m \in 0..Len(ArchitectInputs) :
                 plan = [files |-> {ArchitectInputs[i] : i \in 1..m}, status |-> "failed"]
      <3>1. plan.files \subseteq InputFiles /\ plan.status = "failed"
        BY <2>2 DEF InputFiles, ArchitectInputs
      <3>2. plan.files \cap {"architect", "architect_policy_rejection", "architect_preflight"} = {}
        BY <2>0, <3>1
      <3> QED BY <3>1, <3>2
    <2>3. CASE plan = [files |-> InputFiles \cup {"architect_policy_rejection"}, status |-> "failed"]
      BY <2>0, <2>3
    <2>4. CASE \E s \in {"awaiting_approval", "decision_required", "failed"} :
                 plan = [files |-> InputFiles \cup {"architect"}, status |-> s]
      BY <2>0, <2>4
    <2> QED BY <2>1, <2>2, <2>3, <2>4 DEF Plans
  <1> QED BY <1>4, <1>5, <1>6, <1>7

(* A planned run is refused for the Engineer's question, and nothing else. *)
LEMMA PlannedIsMeasurable ==
  ASSUME RecoveryInv, plan \in Plans, Planned, TerminalEvidence # None,
         NEW d, d = Attempted(TerminalEvidence, Inventories)
  PROVE  /\ Accepted(TerminalEvidence, Planning(TerminalEvidence), d) <=> ~Questioned
         /\ ArchitectCalls = {1}
  <1> DEFINE t == TerminalEvidence
  <1>1. /\ plan.files \cap {"architect", "architect_policy_rejection", "architect_preflight"} = {"architect"}
        /\ plan.status = "awaiting_approval" /\ plan.files \cap InputFiles # {}
        /\ plan.files # InputFiles
    <2>1. plan = [files |-> InputFiles \cup {"architect"}, status |-> "awaiting_approval"]
      BY DEF Plans, Planned
    <2> QED BY <2>1 DEF InputFiles, ArchitectInputs
  <1>2. /\ Questioned <=> t.status = "decision_required"
        /\ Planning(t) = IF t.status = "decision_required" THEN "refused" ELSE "verified"
        /\ ArchitectCalls = {1}
    <2>1. Questioned <=> t.status = "decision_required"
      BY <1>1 DEF Questioned
    <2>2. Planning(t) = IF t.status = "decision_required" THEN "refused" ELSE "verified"
      BY <1>1 DEF Planning, ManifestUndecided
    <2>3. ArchitectCalls = {1}
      <3>1. plan.files \cap {"architect", "architect_policy_rejection"} # {}
        BY <1>1
      <3> QED BY <1>1, <3>1 DEF ArchitectCalls
    <2> QED BY <2>1, <2>2, <2>3
  <1>3. /\ Readable /\ LatestKind \in EndingKinds /\ LatestStatus \in Ended /\ t.status = LatestStatus
    BY TerminalIs
  <1>4. Inventory1(2).any => Inventory1(1).complete
    BY <1>3, Inventoried
  <1>5. \A n \in 1..d.count : n \in Attempts /\ Inventory1(n).complete
    <2>1. d.count = IF Inventory1(2).complete THEN 2 ELSE IF Inventory1(1).complete THEN 1 ELSE 0
      BY <1>4, AttemptedIs
    <2> QED BY <1>4, <2>1, CompleteIsAny DEF Attempts
  <1>6. \A n \in 1..d.count : AttemptVerified(n)
    BY <1>3, <1>5, Inventoried
  <1>7. t.status # "decision_required" => d.ok
    <2>1. CASE LatestStatus = "completed"
      <3>1. /\ Inventory1(1).complete
            /\ Inventory1(2).complete \/ ~Inventory1(2).any
        BY <1>3, <2>1, Inventoried
      <3> QED BY <1>3, <1>4, <2>1, <3>1, AttemptedIs
    <2>2. CASE LatestStatus \in ControlledFailures
      <3>1. Controlled(t) /\ t.status # "completed"
        BY <1>3, <2>2 DEF Controlled, ControlledFailures
      <3> QED BY <1>4, <3>1, AttemptedIs
    <2> QED BY <1>3, <2>1, <2>2 DEF Ended
  <1> QED BY <1>2, <1>6, <1>7 DEF Accepted

LEMMA Measurable ==
  ASSUME RecoveryInv, plan \in Plans, Planned \/ Init
  PROVE  MeasurableUnlessQuestioned
  BY BundleNowIs, UnplannedIsMeasurable, PlannedIsMeasurable DEF MeasurableUnlessQuestioned

-----------------------------------------------------------------------------
(* The count of the calls.                                                 *)

(* A role was called as often as there are attempts it was called for. *)
LEMMA CallsOf ==
  ASSUME NEW r, NEW A, IsFiniteSet(A), NEW M,
         \A c : c \in M <=> \E i \in A : c = <<r, i>>
  PROVE  IsFiniteSet(M) /\ Cardinality(M) = Cardinality(A)
  <1> DEFINE f == [i \in A |-> <<r, i>>]
  <1>1. f \in [A -> M]
    OBVIOUS
  <1>2. \A i, j \in A : f[i] = f[j] => i = j
    OBVIOUS
  <1>3. \A c \in M : \E i \in A : f[i] = c
    OBVIOUS
  <1> HIDE DEF f
  <1>4. f \in Bijection(A, M)
    BY <1>1, <1>2, <1>3 DEF Bijection, Injection, IsInjective, Surjection
  <1> QED BY <1>4, FS_Bijection DEF ExistsBijection

(* The Engineer was called for every attempt, the Validator for some. *)
LEMMA MadeCount ==
  ASSUME NEW m \in 0..2, NEW A, A \subseteq 1..m,
         NEW M, M = {c \in RoleNodes \X Attempts :
                       IF c[1] = "engineer" THEN c[2] \in 1..m ELSE c[2] \in A}
  PROVE  Cardinality(A) \in Nat /\ Cardinality(M) = m + Cardinality(A)
  <1> DEFINE E == {<<"engineer", i>> : i \in 1..m}
             V == {<<"validator", i>> : i \in A}
  <1>1. IsFiniteSet(1..m) /\ Cardinality(1..m) = m
    BY IntervalCount
  <1>2. IsFiniteSet(A) /\ Cardinality(A) \in Nat
    BY <1>1, FS_Subset, FS_CardinalityType
  <1>3. /\ \A c : c \in E <=> \E i \in 1..m : c = <<"engineer", i>>
        /\ \A c : c \in V <=> \E i \in A : c = <<"validator", i>>
    OBVIOUS
  <1> HIDE DEF E, V
  <1>4. /\ IsFiniteSet(E) /\ Cardinality(E) = m
        /\ IsFiniteSet(V) /\ Cardinality(V) = Cardinality(A)
    <2>1. IsFiniteSet(E) /\ Cardinality(E) = Cardinality(1..m)
      BY <1>1, <1>3, CallsOf
    <2>2. IsFiniteSet(V) /\ Cardinality(V) = Cardinality(A)
      BY <1>2, <1>3, CallsOf
    <2> QED BY <1>1, <2>1, <2>2
  <1>5. E \cap V = {}
    BY <1>3
  <1>6. M = E \cup V
    <2>1. \A i \in 1..m : i \in Attempts
      BY DEF Attempts
    <2>2. ASSUME NEW c PROVE c \in M <=> c \in E \/ c \in V
      <3>1. c \in M <=> \/ \E i \in 1..m : c = <<"engineer", i>>
                        \/ \E i \in A : c = <<"validator", i>>
        <4>1. ASSUME c \in M
              PROVE  (\E i \in 1..m : c = <<"engineer", i>>) \/ (\E i \in A : c = <<"validator", i>>)
          <5>1. PICK r \in RoleNodes, i \in Attempts : c = <<r, i>>
            BY <4>1
          <5>2. c[1] = r /\ c[2] = i
            BY <5>1
          <5> QED BY <4>1, <5>1, <5>2 DEF RoleNodes
        <4>2. ASSUME NEW i \in 1..m PROVE <<"engineer", i>> \in M
          BY <2>1 DEF RoleNodes
        <4>3. ASSUME NEW i \in A PROVE <<"validator", i>> \in M
          BY <2>1 DEF RoleNodes
        <4> QED BY <4>1, <4>2, <4>3
      <3> QED BY <1>3, <3>1
    <2> QED BY <2>2
  <1>7. Cardinality(M) = Cardinality(E) + Cardinality(V) - Cardinality(E \cap V)
    BY <1>4, <1>6, FS_Union
  <1>8. Cardinality(E \cap V) = 0
    BY <1>5, FS_EmptySet
  <1> QED BY <1>2, <1>4, <1>7, <1>8

(* What was called, of a run whose evidence of the calls is complete. *)
LEMMA CallsCounted ==
  ASSUME RecoveryInv, Answered, plan \in Plans, Planned \/ Init
  PROVE  CompleteEvidenceCountsEveryCall
  <1> SUFFICES ASSUME TerminalEvidence # None, BundleNow # Refused, BundleNow.calls.complete
               PROVE  ArchitectCalls = {BundleNow.calls.count - Cardinality(Made)}
    BY DEF CompleteEvidenceCountsEveryCall
  <1> DEFINE t == TerminalEvidence
             p == Planning(t)
             d == Attempted(t, Inventories)
             A == {n \in 1..d.count : advice[n] = "assessed"}
  <1>1. BundleNow.calls = Calls(p, d) /\ Accepted(t, p, d)
    BY BundleNowIs
  <1>2. /\ p \in {"verified", "rejected"} /\ d.partial = 0
        /\ \A n \in 1..d.count : advice[n] # "unavailable"
        /\ BundleNow.calls.count = 1 + d.count + Cardinality(A)
    BY <1>1 DEF Calls
  <1>3. ArchitectCalls = {1}
    BY <1>2, UnplannedIsMeasurable, PlannedIsMeasurable
  <1>4. /\ d.count \in 0..2
        /\ \A r \in RoleNodes, n \in Attempts :
             dispatched[r][n] > 0 <=> IF r = "engineer" THEN n \in 1..d.count ELSE n \in A
    <2>1. CASE ~Planned
      <3>1. d.count = 0
        BY <2>1, UnplannedIsMeasurable
      <3>2. A = {} /\ 1..d.count = {}
        BY <3>1
      <3>3. \A r \in RoleNodes, n \in Attempts : dispatched[r][n] = 0
        BY <2>1, NothingMade
      <3> QED BY <3>1, <3>2, <3>3
    <2>2. CASE Planned
      <3>1. Readable /\ LatestKind \in EndingKinds
        BY <2>2, TerminalIs
      <3>2. TypeOK /\ InOrder /\ 1 \in Attempts /\ 2 \in Attempts
        BY <3>1, Settled, Found DEF Attempts
      <3>3. Inventory1(2).any => Inventory1(1).complete
        BY <3>1, Inventoried
      <3>4. /\ d.count = IF Inventory1(2).complete THEN 2 ELSE IF Inventory1(1).complete THEN 1 ELSE 0
            /\ d.partial = IF Inventory1(1).any /\ ~Inventory1(1).complete THEN 1
                           ELSE IF Inventory1(2).any /\ ~Inventory1(2).complete THEN 2 ELSE 0
        BY <3>3, AttemptedIs
      <3>5. \A n \in Attempts : Inventory1(n).complete => Inventory1(n).any
        BY CompleteIsAny
      <3>6. d.count \in 0..2
        BY <3>4
      <3>7. \A n \in Attempts : /\ n \in 1..d.count <=> Inventory1(n).any
                                /\ n \in 1..d.count => Inventory1(n).complete
        BY <1>2, <3>2, <3>3, <3>4, <3>5 DEF Attempts
      <3> HIDE DEF d, t, p
      <3>8. ASSUME NEW n \in Attempts, NEW r \in RoleNodes, dispatched[r][n] > 0
            PROVE  IF r = "engineer" THEN n \in 1..d.count ELSE n \in A
        <4>1. n \in 1..d.count
          BY <3>1, <3>7, <3>8, Inventoried
        <4>2. CASE r = "validator"
          <5>1. Has("validator_lease", n)
            BY <3>1, <3>8, <4>2, Settled, Found DEF Leases, Leased, Lease, Has
          <5>2. Has("validator", n)
            BY <3>1, <3>7, <4>1, Inventoried
          <5>3. advice[n] # "deferred" /\ advice[n] # "none"
            BY <3>2, <5>1, <5>2 DEF InOrder, Answered
          <5>4. advice[n] = "assessed"
            BY <1>2, <3>2, <4>1, <5>3 DEF TypeOK
          <5> QED BY <4>1, <4>2, <5>4
        <4> QED BY <4>1, <4>2 DEF RoleNodes
      <3>9. ASSUME NEW n \in 1..d.count
            PROVE  /\ n \in Attempts /\ dispatched["engineer"][n] > 0
                   /\ advice[n] = "assessed" => dispatched["validator"][n] > 0
        <4>1. n \in Attempts
          BY <3>6 DEF Attempts
        <4>2. Has("validator", n)
          BY <3>1, <3>7, <4>1, Inventoried
        <4>3. Has("engineer", n)
          BY <4>1, <4>2, AssessedIsWhole DEF Triplet, Has
        <4> QED BY <4>1, <4>2, <4>3 DEF Answered
      <3> QED BY <3>6, <3>8, <3>9 DEF RoleNodes
    <2> QED BY <2>1, <2>2
  <1>5. Cardinality(A) \in Nat /\ Cardinality(Made) = d.count + Cardinality(A)
    <2>1. Made = {c \in RoleNodes \X Attempts : IF c[1] = "engineer" THEN c[2] \in 1..d.count ELSE c[2] \in A}
      BY <1>4 DEF Made
    <2>2. A \subseteq 1..d.count
      OBVIOUS
    <2> HIDE DEF A, d
    <2> QED BY <1>4, <2>1, <2>2, MadeCount
  <1> HIDE DEF A, d
  <1>6. BundleNow.calls.count - Cardinality(Made) = 1
    BY <1>2, <1>4, <1>5
  <1> QED BY <1>3, <1>6

-----------------------------------------------------------------------------
(* Readers, reviewers and receipts leave the run as it is: whatever is     *)
(* proved of RunLifecycle holds while it is read. (run_query.py)           *)
THEOREM ReadersOnlyRead == BundleSpec => Spec
  <1>1. BundleInit => Init
    BY DEF BundleInit
  <1>2. [BundleNext]_allVars => [Next]_vars
    BY BundleSteps
  <1> QED BY <1>1, <1>2, PTL DEF BundleSpec, Spec

(* What holds of the run, of its readers and of the receipts. *)
BundleInv == ReadersInv /\ Answered
THEOREM BundleInvariance == BundleSpec => [](RecoveryInv /\ BundleInv)
  <1>1. BundleInit => BundleInv
    BY InitReaders, InitAnswered DEF BundleInv, BundleInit
  <1>2. RecoveryInv /\ BundleInv /\ [BundleNext]_allVars => BundleInv'
    BY ReadersStep, AnsweredStep, BundleSteps DEF BundleInv
  <1> QED BY <1>1, <1>2, ReadersOnlyRead, RecoveryInvariance, PTL DEF BundleSpec

(* What was issued is typed, of one moment, and admitted. *)
LEMMA IssuedIsSound ==
  ASSUME NEW r, Issued(r)
  PROVE  /\ r.disposition \in Dispositions \cup {"controlled_failure"}
         /\ r.terminal.status = "completed" => r.disposition = verdict[r.attempts].disposition
         /\ r.disposition \in {"ready_for_human_review", "recoverable_failure",
                               "environment_unavailable"} => r.attempts > 0
         /\ r.disposition = "decision_required" => r.attempts = 0
  <1> DEFINE t == r.terminal
  <1>1. Told(t) /\ r.disposition = WorkflowDisposition(t) /\ t.status \in Ended
    BY DEF Issued, Told
  <1>2. \A v \in Verdicts : v.disposition \in Dispositions
    BY DEF AllVerdicts, Dispositions
  <1>3. CASE Controlled(t)
    BY <1>1, <1>3 DEF WorkflowDisposition, Controlled, ControlledFailures
  <1>4. CASE t.status = "decision_required"
    BY <1>1, <1>4 DEF WorkflowDisposition, Controlled, ControlledFailures, Told, Issued, Dispositions
  <1>5. CASE t.status = "completed"
    <2>1. /\ r.attempts = Last(t) /\ r.attempts > 0
          /\ verdict[Last(t)] \in Verdicts /\ t.disposition = verdict[Last(t)].disposition
      BY <1>1, <1>5 DEF Issued, Told, Completed, Last
    <2>2. r.disposition = t.disposition
      BY <1>1, <1>5 DEF WorkflowDisposition, Controlled, ControlledFailures
    <2> QED BY <1>2, <2>1, <2>2, VerdictsAreComputed
  <1> QED BY <1>1, <1>3, <1>4, <1>5 DEF Ended, Controlled

(* The evidence of every run that ended can be read back unless it ended   *)
(* with the Engineer's question, complete evidence of the model calls      *)
(* counts them all, and a receipt is of one moment of its run and passes   *)
(* the aggregate's rules. (load_verified_benchmark_run_bundle,             *)
(* _bundle_model_calls, _load_bound_human_rubric, _verified_receipts)      *)
THEOREM EveryBundleIsOfTheRun == BundleSpec => []BundleIsOfTheRun
  <1>1. ASSUME RecoveryInv, BundleInv PROVE BundleIsOfTheRun
    <2>1. TypeOK
      BY <1>1, AtWork DEF RecoveryInv
    <2>2. /\ plan \in Plans /\ (Planned \/ Init) /\ Answered /\ ReaderInv
          /\ \A t \in reviewed : Told(t)
          /\ \A r \in receipts : Issued(r)
      BY <1>1 DEF BundleInv, ReadersInv
    <2>3. BundleTypeOK
      BY <2>2, IssuedIsSound DEF BundleTypeOK, Told, ReaderInv, Issued
    <2>4. MeasurableUnlessQuestioned /\ CompleteEvidenceCountsEveryCall
      BY <1>1, <2>2, Measurable, CallsCounted
    <2>5. ReceiptIsOfOneMoment
      BY <2>2, IssuedIsSound DEF ReceiptIsOfOneMoment, Issued, Completed, Last
    <2>6. ReceiptsAreAdmitted
      BY <2>2, IssuedIsSound DEF ReceiptsAreAdmitted, Issued
    <2> QED BY <2>1, <2>3, <2>4, <2>5, <2>6 DEF BundleIsOfTheRun
  <1> QED BY <1>1, BundleInvariance, PTL

=============================================================================
