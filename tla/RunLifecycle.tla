----------------------------- MODULE RunLifecycle -----------------------------
(***************************************************************************)
(* The durable life of one agent run after planning (agent_run.py,         *)
(* agent_run_lifecycle.py, run_session.py, model_workflow.py): a human     *)
(* decision is bound, frozen and consumed; the Engineer and the Validator  *)
(* run behind write-once invocation leases; and every operation ends by    *)
(* freezing the evidence it produced.  A crash may fall between any two    *)
(* writes, and whatever it leaves behind is judged by the next load.       *)
(*                                                                         *)
(* Durable state is three trees of write-once JSON files and the LangGraph *)
(* checkpoint.  A file is a pair: an artifact of an attempt, or a          *)
(* projection of a lifecycle kind.  The operator's lock admits one         *)
(* operation at a time; RoleInvocation models competing callers.           *)
(***************************************************************************)
EXTENDS WorkflowGraph, Sequences

VARIABLES
  portable,    \* portable evidence files
  runtime,     \* in-flight model artifacts under state/
  anchors,     \* lifecycle kinds with a runtime anchor
  intent,      \* authorization intents anchored, by attempt
  consent,     \* approval files, by attempt
  index,       \* inventory frozen in a kind's lifecycle index
  frozen,      \* checkpoint frozen in a kind's projections
  outcome,     \* what the Engineer artifact of an attempt says
  verdict,     \* what the validation report of an attempt says
  advice,      \* what the Validator assessment of an attempt says
  ckpt, queue, \* the workflow checkpoint, as in MigrationWorkflow
  pc,          \* where the running operation is
  call,        \* its arguments and local state
  dispatched   \* history: provider calls made, by role and attempt

durable == <<portable, runtime, anchors, intent, consent, index, frozen,
             outcome, verdict, advice, ckpt>>
vars == <<portable, runtime, anchors, intent, consent, index, frozen,
          outcome, verdict, advice, ckpt, queue, pc, call, dispatched>>

-----------------------------------------------------------------------------
(* Lifecycle kinds, files and their orders. *)

AuthorizedKind(n) == IF n = 1 THEN "manifest_authorized" ELSE "correction_authorized"
SuccessKind(n) == IF n = 1 THEN "resumed" ELSE "retried"
BaseKind(n) == IF n = 1 THEN "planned" ELSE "resumed"

(* Later lifecycles supersede earlier ones. *)
Age == [planned |-> 1, manifest_authorized |-> 2, resumed |-> 3,
        correction_authorized |-> 4, retried |-> 5, failed |-> 6]
Kinds == DOMAIN Age

(* Attempt-scoped model artifacts, ranked by the sorted order of their     *)
(* paths, in which promotion copies them.                                  *)
Rank == [correction_request |-> 1, correction_wiki |-> 2, engineer |-> 3,
         engineer_correction |-> 4, engineer_lease |-> 5, report |-> 6,
         validator |-> 7, validator_lease |-> 8]
ModelFiles == (DOMAIN Rank) \X Attempts

Lease(role, n) == <<IF role = "engineer" THEN "engineer_lease" ELSE "validator_lease", n>>
Outcome(role, n) == <<role, n>>

(* The writes of an authorization transaction and of a freeze, in order. *)
FreezeOrder(kind) ==
  <<<<"status", kind>>, <<"workflow", kind>>, <<"checkpoint", kind>>, <<"index", kind>>>>
AuthorizationOrder(n) == <<<<"approval", n>>>> \o FreezeOrder(AuthorizedKind(n))
Prefixes(order) == {{order[i] : i \in 1..m} : m \in 0..Len(order)}

Files == ModelFiles
         \cup {"approval", "decision", "failure"} \X Attempts
         \cup {"status", "workflow", "checkpoint", "index"} \X Kinds
         \cup {<<"plan", 0>>}

(* write_json publishes complete bytes by linking a temporary file into     *)
(* place; a crash in between leaves that file in the tree, and every scan  *)
(* of the tree refuses a file that is not JSON.                            *)
Temporary == <<"temporary", 0>>

-----------------------------------------------------------------------------
NoCall == [attempt |-> 1, decision |-> None, seam |-> "none", kind |-> "planned",
           result |-> "none"]

(* A planned run: the plan and the manifest decision request are frozen    *)
(* and anchored, and the workflow is paused at the approval gate.          *)
PlannedFiles == {<<"plan", 0>>} \cup {FreezeOrder("planned")[i] : i \in 1..4}

Init ==
  /\ portable = PlannedFiles
  /\ runtime = {}
  /\ anchors = {"planned"}
  /\ intent = [n \in Attempts |-> None]
  /\ consent = [n \in Attempts |-> None]
  /\ index = [k \in Kinds |-> IF k = "planned" THEN PlannedFiles \ {<<"index", k>>} ELSE {}]
  /\ frozen = [k \in Kinds |-> IF k = "planned" THEN PlannedCheckpoint ELSE None]
  /\ outcome = [n \in Attempts |-> "none"]
  /\ verdict = [n \in Attempts |-> None]
  /\ advice = [n \in Attempts |-> "none"]
  /\ ckpt = PlannedCheckpoint
  /\ queue = <<>>
  /\ pc = "idle"
  /\ call = NoCall
  /\ dispatched = [r \in RoleNodes |-> [n \in Attempts |-> 0]]

-----------------------------------------------------------------------------
(* Loading a run: what is verified before any operation, in layers. *)

LatestKind == CHOOSE k \in anchors : \A j \in anchors : Age[j] <= Age[k]
Inventory(kind) == portable \ {<<"index", kind>>}
Extras(kind) == Inventory(kind) \ index[kind]
Stored == runtime \cup portable

IndexVerified(kind, exact) ==
  /\ <<"index", kind>> \in portable
  /\ index[kind] \subseteq portable
  /\ exact => Extras(kind) = {}

(* An authorization transaction that has an intent but no anchor yet. *)
PartialAttempts == {n \in Attempts : intent[n] # None /\ AuthorizedKind(n) \notin anchors}

(* In-flight model artifacts that the latest lifecycle does not cover. *)
Unbound == runtime \ index[LatestKind]

CompletedAuthorizations(required) ==
  \A n \in Attempts :
    IF n \in required
    THEN /\ AuthorizedKind(n) \in anchors
         /\ consent[n] # None /\ intent[n] = consent[n]
    ELSE AuthorizedKind(n) \notin anchors

(* m, d: the attempt and decision presented; d = None when only reading. *)
PartialVerified(n, m, d) ==
  /\ LatestKind = BaseKind(n)
  /\ d # None => m = n /\ intent[n] = d
  /\ consent[n] # None => intent[n] = consent[n]
  /\ Extras(LatestKind) \in Prefixes(AuthorizationOrder(n))
  /\ <<"status", AuthorizedKind(n)>> \in portable =>
       frozen[AuthorizedKind(n)] = frozen[LatestKind]
  /\ <<"index", AuthorizedKind(n)>> \in portable => IndexVerified(AuthorizedKind(n), TRUE)

LifecycleVerified(m, d) ==
  IF LatestKind = "failed"
  THEN /\ IndexVerified("failed", TRUE)
       /\ \E n \in Attempts : <<"failure", n>> \in portable /\ CompletedAuthorizations(1..n)
  ELSE /\ \A n \in Attempts : consent[n] # None => intent[n] # None
       /\ PartialAttempts # Attempts
       /\ IndexVerified(LatestKind, PartialAttempts = {} /\ Unbound = {})
       /\ CompletedAuthorizations({n \in Attempts : Age[AuthorizedKind(n)] <= Age[LatestKind]})
       /\ \A n \in PartialAttempts : PartialVerified(n, m, d)

(* A claimed provider call whose outcome was never stored. *)
Interrupted(n) == {r \in RoleNodes : Lease(r, n) \in Unbound /\ Outcome(r, n) \notin Stored}

(* Mutant: a freeze that was cut off is not recognized. *)
UnfrozenInventory(n) ==
  LET promoted == Unbound \cap portable
      decisions == Extras(LatestKind) \cap ({"decision"} \X Attempts)
  IN /\ \A f \in promoted, g \in Unbound : Rank[g[1]] <= Rank[f[1]] => g \in promoted
     /\ Extras(LatestKind) \subseteq promoted \cup decisions

InFlightInventory(n) ==
  LET promoted == Unbound \cap portable
      decisions == Extras(LatestKind) \cap ({"decision"} \X Attempts)
      writes == Extras(LatestKind) \ (promoted \cup decisions)
  IN /\ \A f \in promoted, g \in Unbound : Rank[g[1]] <= Rank[f[1]] => g \in promoted
     /\ decisions \in {{}} \cup {{<<"decision", i>>} : i \in Attempts}
     /\ writes \in Prefixes(FreezeOrder(SuccessKind(n)))
     /\ writes # {} => promoted = Unbound

(* The artifacts a terminal attempt must have left behind. *)
EngineerFiles(n) ==
  {Lease("engineer", n), <<"engineer", n>>}
  \cup (IF n = 2 THEN {<<"engineer_correction", n>>, <<"correction_wiki", n>>} ELSE {})
ValidatorFiles(n) ==
  {<<"report", n>>, <<"validator", n>>}
  \cup (IF advice[n] = "deferred" THEN {} ELSE {Lease("validator", n)})

TerminalVerified(n) ==
  /\ IF ckpt.intervention
     THEN /\ ckpt.status = "decision_required"
          /\ Unbound = EngineerFiles(n)
          /\ outcome[n] = "intervention"
          /\ Extras(LatestKind) \cap ({"decision"} \X Attempts) \subseteq {<<"decision", n>>}
     ELSE /\ ckpt.report = [attempt |-> n, verdict |-> verdict[n]]
          /\ ReportMatches(ckpt)
          /\ Unbound \ {<<"correction_request", n>>} = EngineerFiles(n) \cup ValidatorFiles(n)
          /\ outcome[n] = "change"
          /\ Extras(LatestKind) \cap ({"decision"} \X Attempts) = {}
  /\ <<"status", SuccessKind(n)>> \in portable => frozen[SuccessKind(n)] = ckpt
  /\ <<"index", SuccessKind(n)>> \in portable => IndexVerified(SuccessKind(n), TRUE)

(* The one checkpoint advance accepted after an authorized interruption.   *)
(* controllerFailed: the recovery of attempt two's failed first step.      *)
InFlightProjection(n, controllerFailed) ==
  /\ LatestKind = AuthorizedKind(n)
  /\ ckpt.attempt = n
  /\ ckpt.next = "end" =>
       /\ Interrupted(n) = {}
       /\ ckpt.status \in {"completed", "decision_required"}
       /\ ~ckpt.failed
  /\ ckpt.next # "end" =>
       /\ ckpt.next \in RoleNodes
       /\ Interrupted(n) \subseteq {ckpt.next}
       /\ ckpt.failed = controllerFailed
  /\ ckpt.approval = consent[1] /\ ckpt.approval.selection = "approve"
  /\ ckpt.next = "validator" => ckpt.change # 0
  /\ ckpt.correction = IF n = 1 THEN None ELSE consent[2]
  /\ ckpt.next = "end" => TerminalVerified(n)

InFlightVerified(n) ==
  /\ runtime \cap index[LatestKind] \subseteq portable
  /\ \A f \in Unbound : f[2] = n
  /\ \E r \in RoleNodes : Interrupted(n) \subseteq {r}
  /\ InFlightInventory(n)
  /\ InFlightProjection(n, FALSE)

(* Only attempt two's authorized engineer step that failed before any      *)
(* artifact was written may be entered again.                              *)
ControllerFailure ==
  /\ LatestKind = "correction_authorized"
  /\ Unbound = {}
  /\ CorrectionAction(frozen[LatestKind].report) = "retry"
  /\ ckpt.next = "engineer" /\ ckpt.attempt = 2 /\ ckpt.failed
  /\ InFlightProjection(2, TRUE)

Unchanged == ckpt = frozen[LatestKind]

(* get_agent_run_status succeeds. *)
Readable ==
  /\ LifecycleVerified(0, None)
  /\ IF Unbound = {} THEN Unchanged \/ ControllerFailure
     ELSE \E n \in Attempts : InFlightVerified(n)

-----------------------------------------------------------------------------
(* Submitting a decision: resume_agent_run (attempt 1) and retry_agent_run *)
(* (attempt 2).  A refused submission changes nothing.                     *)

Decisions(n) == IF n = 1 THEN Approvals ELSE Corrections

Boundary(n) ==       \* what the decision must answer, exactly as frozen
  IF n = 1
  THEN ckpt.next = "approval_gate"
  ELSE /\ ckpt.next # "approval_gate"
       /\ ckpt.report # None
       /\ <<"correction_request", ckpt.report.attempt>> \in Stored
       /\ CorrectionAction(ckpt.report) = "retry"

Enter(n, d, seam, where) ==
  /\ call' = [NoCall EXCEPT !.attempt = n, !.decision = d, !.seam = seam,
                            !.kind = AuthorizedKind(n)]
  /\ pc' = where
  /\ UNCHANGED <<durable, queue, dispatched>>

SubmitFresh(n, d) ==
  /\ pc = "idle" /\ "failed" \notin anchors
  /\ LifecycleVerified(n, d)
  /\ Unbound = {} /\ Unchanged
  /\ Boundary(n)
  /\ Enter(n, d, "none", "intent")

(* Mutant: a decision whose workflow already ended is not taken up again. *)
SubmitPendingOnly(n, d) ==
  /\ pc = "idle" /\ "failed" \notin anchors
  /\ LifecycleVerified(n, d)
  /\ Unbound # {} /\ InFlightVerified(n)
  /\ consent[n] = d
  /\ ckpt.next # "end"
  /\ LET seam == IF Interrupted(n) = {} THEN "none" ELSE CHOOSE r \in Interrupted(n) : TRUE
     IN Enter(n, d, seam, "loop")

SubmitInFlight(n, d) ==
  /\ pc = "idle" /\ "failed" \notin anchors
  /\ LifecycleVerified(n, d)
  /\ Unbound # {} /\ InFlightVerified(n)
  /\ consent[n] = d
  /\ LET seam == IF Interrupted(n) = {} THEN "none" ELSE CHOOSE r \in Interrupted(n) : TRUE
     IN Enter(n, d, seam, IF ckpt.next = "end" THEN "decision" ELSE "loop")

SubmitRecovery(d) ==
  /\ pc = "idle" /\ "failed" \notin anchors
  /\ LifecycleVerified(2, d)
  /\ Unbound = {} /\ ~Unchanged /\ ControllerFailure
  /\ consent[2] = d
  /\ Enter(2, d, "none", "loop")

-----------------------------------------------------------------------------
(* Persisting authority before anything is executed. *)

Goto(where) == pc' = where /\ UNCHANGED call

(* The call ends; the process keeps nothing of it. *)
Finish == pc' = "idle" /\ call' = NoCall

(* Mutant: the intent is checked but not anchored. *)
CheckIntentOnly ==
  /\ pc = "intent"
  /\ intent[call.attempt] \in {None, call.decision}
  /\ Goto("approval")
  /\ UNCHANGED <<durable, queue, dispatched>>

BindIntent ==
  /\ pc = "intent"
  /\ intent[call.attempt] \in {None, call.decision}
  /\ intent' = [intent EXCEPT ![call.attempt] = call.decision]
  /\ Goto("approval")
  /\ UNCHANGED <<portable, runtime, anchors, consent, index, frozen, outcome,
                 verdict, advice, ckpt, queue, dispatched>>

(* Mutant: the workflow is invoked as soon as the approval is filed. *)
PersistApprovalAndInvoke ==
  /\ pc = "approval"
  /\ consent[call.attempt] \in {None, call.decision}
  /\ consent' = [consent EXCEPT ![call.attempt] = call.decision]
  /\ portable' = portable \cup {<<"approval", call.attempt>>}
  /\ Goto("invoke")
  /\ UNCHANGED <<runtime, anchors, intent, index, frozen, outcome, verdict,
                 advice, ckpt, queue, dispatched>>

PersistApproval ==
  /\ pc = "approval"
  /\ consent[call.attempt] \in {None, call.decision}
  /\ consent' = [consent EXCEPT ![call.attempt] = call.decision]
  /\ portable' = portable \cup {<<"approval", call.attempt>>}
  /\ Goto("status")
  /\ UNCHANGED <<runtime, anchors, intent, index, frozen, outcome, verdict,
                 advice, ckpt, queue, dispatched>>

-----------------------------------------------------------------------------
(* Freezing a lifecycle: promotion, projections, index, anchor.  Every     *)
(* write is idempotent for equal bytes and refused for different ones.     *)

Promote ==
  /\ pc = "promote"
  /\ LET waiting == runtime \ portable IN
     IF waiting = {}
     THEN Goto("status") /\ UNCHANGED portable
     ELSE /\ \E f \in waiting :
               /\ \A g \in waiting : Rank[f[1]] <= Rank[g[1]]
               /\ portable' = portable \cup {f}
          /\ UNCHANGED <<pc, call>>
  /\ UNCHANGED <<runtime, anchors, intent, consent, index, frozen, outcome,
                 verdict, advice, ckpt, queue, dispatched>>

WriteStatus ==
  /\ pc = "status"
  /\ <<"status", call.kind>> \in portable => frozen[call.kind] = ckpt
  /\ portable' = portable \cup {<<"status", call.kind>>}
  /\ frozen' = [frozen EXCEPT ![call.kind] = ckpt]
  /\ Goto("workflow")
  /\ UNCHANGED <<runtime, anchors, intent, consent, index, outcome, verdict,
                 advice, ckpt, queue, dispatched>>

WriteProjection ==
  /\ pc \in {"workflow", "checkpoint"}
  /\ portable' = portable \cup {<<pc, call.kind>>}
  /\ Goto(IF pc = "workflow" THEN "checkpoint" ELSE "index")
  /\ UNCHANGED <<runtime, anchors, intent, consent, index, frozen, outcome,
                 verdict, advice, ckpt, queue, dispatched>>

WriteIndex ==
  /\ pc = "index"
  /\ <<"index", call.kind>> \in portable => index[call.kind] = Inventory(call.kind)
  /\ index' = [index EXCEPT ![call.kind] = Inventory(call.kind)]
  /\ portable' = portable \cup {<<"index", call.kind>>}
  /\ Goto("anchor")
  /\ UNCHANGED <<runtime, anchors, intent, consent, frozen, outcome, verdict,
                 advice, ckpt, queue, dispatched>>

BindAnchor ==
  /\ pc = "anchor"
  /\ anchors' = anchors \cup {call.kind}
  /\ IF call.kind = AuthorizedKind(call.attempt) THEN Goto("invoke") ELSE Finish
  /\ UNCHANGED <<portable, runtime, intent, consent, index, frozen, outcome,
                 verdict, advice, ckpt, queue, dispatched>>

(* A write refused because immutable bytes differ ends the call. *)
Conflict ==
  \/ pc = "intent" /\ intent[call.attempt] \notin {None, call.decision}
  \/ pc = "approval" /\ consent[call.attempt] \notin {None, call.decision}
  \/ pc = "status" /\ <<"status", call.kind>> \in portable /\ frozen[call.kind] # ckpt
  \/ /\ pc = "index" /\ <<"index", call.kind>> \in portable
     /\ index[call.kind] # Inventory(call.kind)

RefuseWrite ==
  /\ Conflict
  /\ Finish
  /\ UNCHANGED <<durable, queue, dispatched>>

-----------------------------------------------------------------------------
(* Invoking the workflow and walking its nodes. *)

Current == IF queue = <<>> THEN ckpt ELSE queue[Len(queue)]

Invoke ==
  /\ pc = "invoke"
  /\ IF call.attempt = 1
     THEN /\ ckpt.next = "approval_gate"
          /\ queue' = <<AfterApproval(ckpt, call.decision)>>
          /\ UNCHANGED ckpt
     ELSE /\ RetryOffered(ckpt)
          /\ ckpt' = AfterRetryAuthorized(ckpt, call.decision)
          /\ UNCHANGED queue
  /\ Goto("loop")
  /\ UNCHANGED <<portable, runtime, anchors, intent, consent, index, frozen,
                 outcome, verdict, advice, dispatched>>

Unwritten == UNCHANGED <<portable, runtime, anchors, intent, consent, index, frozen,
                         outcome, verdict, advice, ckpt>>

Route ==
  /\ pc = "loop"
  /\ \/ /\ Current.next \in RoleNodes
        /\ Goto(Current.next)
        /\ UNCHANGED queue
     \/ /\ Current.next \in TerminalNodes
        /\ queue' = Append(queue, AfterTerminalNode(Current))
        /\ UNCHANGED <<pc, call>>
     \/ /\ Current.next = "end"
        /\ Goto("return")
        /\ UNCHANGED queue
  /\ Unwritten /\ UNCHANGED dispatched

Flush ==
  /\ queue # <<>>
  /\ ckpt' = Head(queue)
  /\ queue' = Tail(queue)
  /\ UNCHANGED <<portable, runtime, anchors, intent, consent, index, frozen,
                 outcome, verdict, advice, pc, call, dispatched>>

(* The loop hands control back once every checkpoint is durable. *)
Return ==
  /\ pc = "return" /\ queue = <<>>
  /\ Goto("decision")
  /\ UNCHANGED <<durable, queue, dispatched>>

-----------------------------------------------------------------------------
(* The Engineer of the current attempt: replay its stored outcome, or      *)
(* prepare the correction, claim the invocation, call the provider once    *)
(* and store what it answered.                                             *)

This == Current.attempt
StoreRuntime(f) == runtime' = runtime \cup {f}

EngineerStart ==
  /\ pc = "engineer"
  /\ EngineerAuthorized(Current)
  /\ Goto(CASE Outcome("engineer", This) \in Stored -> "engineered"
            [] Outcome("engineer", This) \notin Stored /\ This = 1 -> "engineer_lease"
            [] Outcome("engineer", This) \notin Stored /\ This = 2 -> "correction_wiki")
  /\ UNCHANGED <<durable, queue, dispatched>>

PrepareCorrection ==
  /\ pc \in {"correction_wiki", "engineer_correction"}
  /\ StoreRuntime(<<pc, This>>)
  /\ Goto(IF pc = "correction_wiki" THEN "engineer_correction" ELSE "engineer_lease")
  /\ UNCHANGED <<portable, anchors, intent, consent, index, frozen, outcome,
                 verdict, advice, ckpt, queue, dispatched>>

(* Mutant: the lease is written, but nobody looks for an earlier one. *)
ClaimEngineerAgain ==
  /\ pc = "engineer_lease"
  /\ StoreRuntime(Lease("engineer", This))
  /\ Goto("implement")
  /\ UNCHANGED <<portable, anchors, intent, consent, index, frozen, outcome,
                 verdict, advice, ckpt, queue, dispatched>>

ClaimEngineer ==
  /\ pc = "engineer_lease"
  /\ Lease("engineer", This) \notin Stored
  /\ StoreRuntime(Lease("engineer", This))
  /\ Goto("implement")
  /\ UNCHANGED <<portable, anchors, intent, consent, index, frozen, outcome,
                 verdict, advice, ckpt, queue, dispatched>>

(* A lease without an outcome is never dispatched again. *)
RefuseDuplicateDispatch ==
  /\ pc = "engineer_lease"
  /\ Lease("engineer", This) \in Stored
  /\ Goto("raise")
  /\ UNCHANGED <<durable, queue, dispatched>>

DispatchCap == 2    \* the history counts up to here: once, or more than once
Dispatch(role) ==
  dispatched' = [dispatched EXCEPT ![role][This] = IF @ < DispatchCap THEN @ + 1 ELSE @]

CallEngineer ==
  /\ pc = "implement"
  /\ Dispatch("engineer")
  /\ \/ \E answer \in {"change", "intervention"} :
          /\ pc' = "engineer_outcome"
          /\ call' = [call EXCEPT !.seam = "engineer", !.result = answer]
     \/ /\ pc' = "raise"                       \* provider or policy failure
        /\ call' = [call EXCEPT !.seam = "engineer"]
  /\ UNCHANGED <<durable, queue>>

StoreEngineerOutcome ==
  /\ pc = "engineer_outcome"
  /\ StoreRuntime(<<"engineer", This>>)
  /\ outcome' = [outcome EXCEPT ![This] = call.result]
  /\ Goto("engineered")
  /\ UNCHANGED <<portable, anchors, intent, consent, index, frozen, verdict,
                 advice, ckpt, queue, dispatched>>

EngineerDone ==
  /\ pc = "engineered"
  /\ queue' = Append(queue, IF outcome[This] = "change" THEN AfterChange(Current)
                            ELSE AfterIntervention(Current))
  /\ Goto("loop")
  /\ Unwritten /\ UNCHANGED dispatched

-----------------------------------------------------------------------------
(* The Validator of the current attempt: deterministic checks decide, the  *)
(* model only advises, and its failure never blocks the report.            *)

(* Mutant: the checks run again although a report is stored. *)
ValidatorRerun ==
  /\ pc = "validator"
  /\ Outcome("engineer", This) \in Stored
  /\ Goto("checks")
  /\ UNCHANGED <<durable, queue, dispatched>>

ValidatorStart ==
  /\ pc = "validator"
  /\ Outcome("engineer", This) \in Stored
  /\ Goto(IF <<"report", This>> \in Stored THEN "advise" ELSE "checks")
  /\ UNCHANGED <<durable, queue, dispatched>>

RunChecks ==
  /\ pc = "checks"
  /\ call' = [call EXCEPT !.seam = "deterministic_validator"]
  /\ \/ \E v \in Verdicts :
          /\ verdict' = [verdict EXCEPT ![This] = v]
          /\ StoreRuntime(<<"report", This>>)
          /\ pc' = "advise"
     \/ /\ pc' = "raise"
        /\ UNCHANGED <<verdict, runtime>>
  /\ UNCHANGED <<portable, anchors, intent, consent, index, frozen, outcome,
                 advice, ckpt, queue, dispatched>>

Deferred == This = 1 /\ verdict[This].disposition = "recoverable_failure"

(* Mutant: a call that was cut off leaves no assessment.                   *)
AdviseSilently ==
  /\ pc = "advise"
  /\ \/ /\ Outcome("validator", This) \in Stored \/ Lease("validator", This) \in Stored
        /\ Goto("validated")
     \/ /\ Outcome("validator", This) \notin Stored
        /\ Deferred
        /\ pc' = "assessment" /\ call' = [call EXCEPT !.result = "deferred"]
     \/ /\ Outcome("validator", This) \notin Stored
        /\ ~Deferred /\ Lease("validator", This) \notin Stored
        /\ Goto("validator_lease")
  /\ UNCHANGED <<durable, queue, dispatched>>

Advise ==
  /\ pc = "advise"
  /\ \/ /\ Outcome("validator", This) \in Stored
        /\ Goto("validated")
     \/ /\ Outcome("validator", This) \notin Stored
        /\ Deferred
        /\ pc' = "assessment" /\ call' = [call EXCEPT !.result = "deferred"]
     \/ /\ Outcome("validator", This) \notin Stored
        /\ ~Deferred /\ Lease("validator", This) \in Stored
        /\ pc' = "assessment" /\ call' = [call EXCEPT !.result = "unavailable"]
     \/ /\ Outcome("validator", This) \notin Stored
        /\ ~Deferred /\ Lease("validator", This) \notin Stored
        /\ Goto("validator_lease")
  /\ UNCHANGED <<durable, queue, dispatched>>

ClaimValidator ==
  /\ pc = "validator_lease"
  /\ StoreRuntime(Lease("validator", This))
  /\ Goto("assess")
  /\ UNCHANGED <<portable, anchors, intent, consent, index, frozen, outcome,
                 verdict, advice, ckpt, queue, dispatched>>

CallValidator ==
  /\ pc = "assess"
  /\ Dispatch("validator")
  /\ \E answer \in {"assessed", "unavailable"} :
       call' = [call EXCEPT !.seam = "validator", !.result = answer]
  /\ pc' = "assessment"
  /\ UNCHANGED <<durable, queue>>

StoreAssessment ==
  /\ pc = "assessment"
  /\ StoreRuntime(<<"validator", This>>)
  /\ advice' = [advice EXCEPT ![This] = call.result]
  /\ Goto("validated")
  /\ UNCHANGED <<portable, anchors, intent, consent, index, frozen, outcome,
                 verdict, ckpt, queue, dispatched>>

ValidatorDone ==
  /\ pc = "validated"
  /\ queue' = Append(queue, AfterReport(Current, [attempt |-> This, verdict |-> verdict[This]]))
  /\ Goto("loop")
  /\ Unwritten /\ UNCHANGED dispatched

-----------------------------------------------------------------------------
(* Errors of a node: the task error becomes durable once the queue has     *)
(* drained; it ends in a frozen failure only when a trusted seam was       *)
(* reached, otherwise the exception leaves nothing else behind.            *)

RolePcs == {"engineer", "correction_wiki", "engineer_correction", "engineer_lease",
            "implement", "engineer_outcome", "engineered", "validator", "checks",
            "advise", "validator_lease", "assessment", "validated"}

RoleError ==
  /\ pc \in RolePcs
  /\ Goto("raise")
  /\ UNCHANGED <<durable, queue, dispatched>>

(* Mutant: the error is recorded before earlier checkpoints are durable. *)
RecordErrorEarly ==
  /\ pc = "raise"
  /\ ckpt' = [ckpt EXCEPT !.failed = TRUE]
  /\ IF call.seam = "none" THEN Finish
     ELSE pc' = "failure" /\ call' = [call EXCEPT !.kind = "failed", !.result = "none"]
  /\ UNCHANGED <<portable, runtime, anchors, intent, consent, index, frozen,
                 outcome, verdict, advice, queue, dispatched>>

RecordTaskError ==
  /\ pc = "raise" /\ queue = <<>>
  /\ ckpt' = [ckpt EXCEPT !.failed = TRUE]
  /\ IF call.seam = "none" THEN Finish
     ELSE pc' = "failure" /\ call' = [call EXCEPT !.kind = "failed", !.result = "none"]
  /\ UNCHANGED <<portable, runtime, anchors, intent, consent, index, frozen,
                 outcome, verdict, advice, queue, dispatched>>

PersistFailure ==
  /\ pc = "failure"
  /\ portable' = portable \cup {<<"failure", call.attempt>>}
  /\ Goto("promote")
  /\ UNCHANGED <<runtime, anchors, intent, consent, index, frozen, outcome,
                 verdict, advice, ckpt, queue, dispatched>>

-----------------------------------------------------------------------------
(* After the workflow: its decisions become control evidence, then the     *)
(* success lifecycle is frozen.                                            *)

PersistDecision ==
  /\ pc = "decision"
  /\ portable' = IF ckpt.intervention THEN portable \cup {<<"decision", ckpt.attempt>>}
                 ELSE portable
  /\ Goto("correction")
  /\ UNCHANGED <<runtime, anchors, intent, consent, index, frozen, outcome,
                 verdict, advice, ckpt, queue, dispatched>>

(* Mutant: the freeze begins without promoting anything. *)
PersistCorrectionUnpromoted ==
  /\ pc = "correction"
  /\ runtime' = IF ckpt.report # None /\ <<"correction_request", ckpt.report.attempt>> \notin Stored
                THEN runtime \cup {<<"correction_request", ckpt.report.attempt>>}
                ELSE runtime
  /\ pc' = "status"
  /\ call' = [call EXCEPT !.kind = SuccessKind(call.attempt), !.result = "none"]
  /\ UNCHANGED <<portable, anchors, intent, consent, index, frozen, outcome,
                 verdict, advice, ckpt, queue, dispatched>>

PersistCorrection ==
  /\ pc = "correction"
  /\ runtime' = IF ckpt.report # None /\ <<"correction_request", ckpt.report.attempt>> \notin Stored
                THEN runtime \cup {<<"correction_request", ckpt.report.attempt>>}
                ELSE runtime
  /\ pc' = "promote"
  /\ call' = [call EXCEPT !.kind = SuccessKind(call.attempt), !.result = "none"]
  /\ UNCHANGED <<portable, anchors, intent, consent, index, frozen, outcome,
                 verdict, advice, ckpt, queue, dispatched>>

(* The process dies: memory is lost, every file written so far remains,    *)
(* and a write cut off before its link leaves a temporary file behind.     *)
NextPortable ==
  CASE pc \in {"status", "workflow", "checkpoint", "index"} -> {<<pc, call.kind>>}
    [] pc \in {"approval", "failure"} -> {<<pc, call.attempt>>}
    [] pc = "promote" -> runtime
    [] pc = "decision" /\ ckpt.intervention -> {<<"decision", ckpt.attempt>>}
    [] OTHER -> {}
NextRuntime ==
  CASE pc \in {"correction_wiki", "engineer_correction", "engineer_lease",
               "validator_lease"} -> {<<pc, This>>}
    [] pc = "engineer_outcome" -> {<<"engineer", This>>}
    [] pc = "checks" -> {<<"report", This>>}
    [] pc = "assessment" -> {<<"validator", This>>}
    [] pc = "correction" /\ ckpt.report # None ->
         {<<"correction_request", ckpt.report.attempt>>}
    [] OTHER -> {}

Die ==
  /\ pc # "idle"
  /\ Finish
  /\ queue' = <<>>
  /\ UNCHANGED <<anchors, intent, consent, index, frozen, outcome, verdict,
                 advice, ckpt, dispatched>>

Crash ==
  /\ Die
  /\ \/ UNCHANGED <<portable, runtime>>
     \/ /\ NextPortable \ portable # {}
        /\ portable' = portable \cup {Temporary}
        /\ UNCHANGED runtime
     \/ /\ NextRuntime \ Stored # {}
        /\ runtime' = runtime \cup {Temporary}
        /\ UNCHANGED portable

-----------------------------------------------------------------------------
Submit(n, d) ==
  \/ SubmitFresh(n, d)
  \/ SubmitInFlight(n, d)
  \/ n = 2 /\ SubmitRecovery(d)

Authorize == BindIntent \/ PersistApproval
Freeze == Promote \/ WriteStatus \/ WriteProjection \/ WriteIndex \/ BindAnchor
Workflow == Invoke \/ Route \/ Flush \/ Return
Engineer == EngineerStart \/ PrepareCorrection \/ ClaimEngineer \/ RefuseDuplicateDispatch
            \/ CallEngineer \/ StoreEngineerOutcome \/ EngineerDone
Validator == ValidatorStart \/ RunChecks \/ Advise \/ ClaimValidator \/ CallValidator
             \/ StoreAssessment \/ ValidatorDone
Conclude == RecordTaskError \/ PersistFailure \/ PersistDecision \/ PersistCorrection
Program == Authorize \/ Freeze \/ RefuseWrite \/ Workflow \/ Engineer \/ Validator \/ Conclude

Next ==
  \/ \E n \in Attempts : \E d \in Decisions(n) : Submit(n, d)
  \/ Program
  \/ RoleError
  \/ Crash

Spec == Init /\ [][Next]_vars

(* Dying with nothing left to do, or raising where the program refuses, is *)
(* the program's own step.                                                 *)
Fault == (Crash \/ RoleError) /\ ~Program

(* The process runs on while it is alive, crashes and role errors end at   *)
(* some point, and the operator keeps resubmitting the decision already    *)
(* bound: other decisions, presented and refused meanwhile, do not keep    *)
(* the operator's lock from it for ever.                                   *)
Resubmit == \E n \in Attempts : intent[n] # None /\ Submit(n, intent[n])
FairSpec ==
  /\ Spec
  /\ WF_vars(Program)
  /\ SF_vars(Resubmit)
  /\ <>[][~Fault]_vars

-----------------------------------------------------------------------------
(* Properties *)

Pcs == {"idle", "intent", "approval", "promote", "status", "workflow", "checkpoint",
        "index", "anchor", "invoke", "loop", "return", "assess", "raise", "failure",
        "decision", "correction"} \cup RolePcs

TypeOK ==
  /\ portable \subseteq Files \cup {Temporary}
  /\ runtime \subseteq ModelFiles \cup {Temporary}
  /\ anchors \subseteq Kinds /\ "planned" \in anchors
  /\ intent \in [Attempts -> Approvals \cup Corrections \cup {None}]
  /\ consent \in [Attempts -> Approvals \cup Corrections \cup {None}]
  /\ \A n \in Attempts : /\ intent[n] \in Decisions(n) \cup {None}
                         /\ consent[n] \in Decisions(n) \cup {None}
  /\ index \in [Kinds -> SUBSET Files]
  /\ frozen \in [Kinds -> Checkpoint \cup {None}]
  /\ outcome \in [Attempts -> {"none", "change", "intervention"}]
  /\ verdict \in [Attempts -> Verdicts \cup {None}]
  /\ advice \in [Attempts -> {"none", "deferred", "unavailable", "assessed"}]
  /\ ckpt \in Checkpoint /\ queue \in Seq(Checkpoint)
  /\ pc \in Pcs
  /\ call.attempt \in Attempts /\ call.kind \in Kinds
  /\ dispatched \in [RoleNodes -> [Attempts -> 0..DispatchCap]]

(* No role's provider is called twice for one attempt, whatever crashes,   *)
(* errors and resubmissions happen in between. (_claim_role_invocation)    *)
AtMostOneDispatch == \A r \in RoleNodes, n \in Attempts : dispatched[r][n] <= 1

(* A provider is called only under the exact human decision that was       *)
(* anchored, filed, frozen and consumed first, and for attempt two only    *)
(* after attempt one's retryable report was itself frozen.                 *)
(* (_persist_authorization_boundary before invoke)                         *)
DispatchAuthorized ==
  \A r \in RoleNodes, n \in Attempts : dispatched[r][n] > 0 =>
    /\ \A i \in 1..n : /\ AuthorizedKind(i) \in anchors
                       /\ consent[i] # None /\ intent[i] = consent[i]
    /\ consent[1].selection = "approve"
    /\ n = 2 => /\ "resumed" \in anchors
                /\ CorrectionAction(frozen["resumed"].report) = "retry"

(* The decision the workflow consumed is the one whose intent was anchored *)
(* first, in every checkpoint, durable or not.                             *)
(* (_bind_authorization_intent, MigrationWorkflow.resume)                  *)
ConsumedDecisionIsAnchored ==
  \A s \in {ckpt} \cup {queue[i] : i \in 1..Len(queue)} :
    /\ s.approval # None => s.approval = intent[1] /\ s.approval = consent[1]
    /\ s.correction # None => s.correction = intent[2] /\ s.correction = consent[2]

Closing(n) == {SuccessKind(n), "failed"} \cap anchors

(* Once an attempt is closed, every provider call made for it is on the    *)
(* closing record: its lease, and the outcome of the role that was called, *)
(* which only a run that failed may have to do without.                    *)
(* (_freeze_operation_evidence promotes before it indexes)                 *)
CallsAreAccountedFor ==
  \A n \in Attempts, r \in RoleNodes : \A k \in Closing(n) :
    dispatched[r][n] > 0 =>
      /\ Lease(r, n) \in index[k]
      /\ k # "failed" \/ Outcome(r, n) \in runtime => Outcome(r, n) \in index[k]

(* A lifecycle that closes an attempt freezes exactly what was decided:    *)
(* its checkpoint is terminal, its report is the stored verdict, and its   *)
(* index covers every runtime artifact of the attempt.                     *)
ClosedEvidenceIsComplete ==
  \A n \in Attempts : SuccessKind(n) \in anchors =>
    LET k == SuccessKind(n) IN
    /\ frozen[k].next = "end" /\ frozen[k].attempt = n
    /\ {f \in runtime : f[2] = n} \subseteq index[k]
    /\ frozen[k].status = "completed" =>
         frozen[k].report = [attempt |-> n, verdict |-> verdict[n]]

Final == \/ {"retried", "failed"} \cap anchors # {}
         \/ "resumed" \in anchors /\ ~RetryOffered(frozen["resumed"])

(* Evidence is write-once: across any retries no step removes a file or    *)
(* changes what a stored one says; and a run that failed, or that closed   *)
(* without an offer to retry, never changes again, whatever is submitted.  *)
(* (ArtifactStore.write_json, replay; _load_components and the             *)
(* authorization boundary)                                                 *)
EvidenceIsWriteOnce ==
  [][/\ Final => UNCHANGED durable
     /\ portable \subseteq portable' /\ runtime \subseteq runtime' /\ anchors \subseteq anchors'
     /\ \A n \in Attempts :
          /\ intent[n] # None => intent'[n] = intent[n]
          /\ consent[n] # None => consent'[n] = consent[n]
          /\ <<"engineer", n>> \in Stored => outcome'[n] = outcome[n]
          /\ <<"report", n>> \in Stored => verdict'[n] = verdict[n]
          /\ <<"validator", n>> \in Stored => advice'[n] = advice[n]
     /\ \A k \in Kinds :
          /\ <<"status", k>> \in portable => frozen'[k] = frozen[k]
          /\ <<"index", k>> \in portable => index'[k] = index[k]]_vars

-----------------------------------------------------------------------------
(* Where a run may be left that no load accepts any more.  The controller  *)
(* documents that it fails closed there; these are all the places.         *)

Open(n) == AuthorizedKind(n) \in anchors /\ Closing(n) = {}
Begun(n) == {f \in runtime : f[2] = n} \ {<<"correction_request", n>>} # {}
Moved(n) == ckpt # frozen[AuthorizedKind(n)]

(* the decision was consumed, but no artifact of the attempt exists yet *)
ConsumedSilently(n) ==
  Moved(n) /\ ckpt.next \in RoleNodes /\ ~ckpt.failed /\ ~Begun(n)
(* a rejection or a request to modify was consumed, but not frozen *)
UnfrozenRefusal(n) == Moved(n) /\ ckpt.approval.selection # "approve"
(* the graph was about to record a question of the Engineer *)
UnrecordedQuestion == ckpt.next \in TerminalNodes
(* the durable checkpoint is older than a claimed call *)
LaggingCheckpoint(n) ==
  \/ Begun(n) /\ ~Moved(n)
  \/ ckpt.next \in RoleNodes /\ ~ (Interrupted(n) \subseteq {ckpt.next})
(* a task error outside every seam, except before attempt two began *)
UnseamedError(n) == ckpt.failed /\ (n = 2 => Begun(2))
(* the failure was written, but its lifecycle not anchored *)
UnfrozenFailure(n) == <<"failure", n>> \in portable

(* a write was cut off before its link, whatever file it was to become *)
LeftTemporary == Temporary \in Stored

Gap == LeftTemporary \/ \E n \in Attempts :
  /\ Open(n)
  /\ \/ ConsumedSilently(n) \/ UnfrozenRefusal(n) \/ UnrecordedQuestion
     \/ LaggingCheckpoint(n) \/ UnseamedError(n) \/ UnfrozenFailure(n)

(* After any crash, any error and any write, the next load accepts the run *)
(* exactly when it was not cut off in one of the gaps above.               *)
(* (_load_components with everything it verifies)                          *)
ReadableExceptInGaps == pc = "idle" => (Readable <=> ~Gap)

(* Once crashes and errors stop, a bound decision is carried through to a  *)
(* closed lifecycle by resubmitting it, unless a crash hit a gap.          *)
(* (resume_agent_run, retry_agent_run)                                     *)
DecisionsAreCarriedThrough ==
  \A n \in Attempts : intent[n] # None ~> (Closing(n) # {} \/ (pc = "idle" /\ Gap))

(* The run controller moves the checkpoint only by operations and nodes of *)
(* MigrationWorkflow, in the states where that workflow allows them.       *)
Engine == INSTANCE MigrationWorkflow WITH
  op <- CASE pc \in RolePcs \cup {"loop", "assess"} -> "running"
          [] pc = "return" -> "returning"
          [] pc = "raise" -> "raising"
          [] OTHER -> "idle"
DrivesTheWorkflow == [][Engine!Next]_(Engine!vars)
==============================================================================
