----------------------------- MODULE CorrectionPath -----------------------------
(***************************************************************************)
(* The way from a failed validation to a second attempt of the Engineer:   *)
(* the Salesforce validator runs its commands, CorrectionController        *)
(* classifies the report (correction.py), the reviewer approves a retry    *)
(* where one is offered, and the retry is prepared from the same report    *)
(* by require_repair_contract (model_agent_correction.py). The second and  *)
(* the third step read the report by rules of their own.                   *)
(*                                                                         *)
(* What the commands find is arbitrary, and so is what this host offers.   *)
(***************************************************************************)
EXTENDS SalesforceResults, Sequences

CONSTANT MaximumAttempts     \* RetryBudget.maximum_attempts

BudgetAssumption == MaximumAttempts \in Nat \ {0}

VARIABLES
  host,        \* what the host offers
  attempt,
  results,     \* by_command
  clean,       \* history: every command ran, exited zero and reported success
  phase,
  action,      \* CorrectionRequest.action
  signals      \* EngineerCorrectionContext.repair_signal_ids

vars == <<host, attempt, results, clean, phase, action, signals>>

-----------------------------------------------------------------------------
(* correction.py                                                           *)

ControllerEnvironment == {"toolchain", "probe"}
ControllerIntegrity == {"fingerprint"}
ControllerOwned == ControllerEnvironment \cup ControllerIntegrity
NotRepairable == {"inventory", "unclassified"}
LwcLoad == {"lwc_load"}

(* validation_failure_dependencies: both suites failed before any test,    *)
(* and the bundle was already known not to load.                           *)
LoadFailed ==
  /\ results["candidate"].status = "failed"
  /\ results["candidate"].diagnostics \cap LwcLoad # {}
  /\ results["candidate"].code \in results["candidate"].diagnostics \cap LwcLoad
SuiteNeverRan(c, diagnostic) ==
  results[c].status = "failed" /\ results[c].diagnostics = {diagnostic} /\ results[c].notests

Dependants ==
  IF /\ LoadFailed
     /\ SuiteNeverRan("jest", "candidate_jest")
     /\ SuiteNeverRan("controller", "controller_execution")
  THEN {"jest", "controller"} ELSE {}

(* implementation_failure_ids *)
UnrepairableCandidate(c) ==
  /\ c = "candidate" /\ results[c].diagnostics # {}
  /\ results[c].diagnostics \subseteq NotRepairable

ImplementationChecks ==
  {c \in With(results, "failed") \ (ControllerOwned \cup Dependants) :
     ~UnrepairableCandidate(c)}
ImplementationFailures ==
  ImplementationChecks \cup UNION {results[c].diagnostics : c \in ImplementationChecks}

(* CorrectionController.evaluate *)
IntegrityFailed == \E c \in ControllerIntegrity : results[c].status # "passed"
StructurallyInvalid ==
  /\ results["candidate"].status = "failed"
  /\ results["candidate"].diagnostics \cap NotRepairable # {}

(* Mutant: whatever failed can be retried. *)
RetryAnyFailure ==
  IF Disposition(results) = "recoverable_failure" /\ attempt < MaximumAttempts
  THEN "retry_implementation" ELSE "stop_environment"

ActionOfFailure ==
  IF ImplementationFailures = {} THEN "stop_environment"
  ELSE IF attempt < MaximumAttempts THEN "retry_implementation" ELSE "stop_exhausted"

Action ==
  LET d == Disposition(results) IN
  CASE d = "ready_for_human_review" -> "complete"
    [] d # "ready_for_human_review" /\ (IntegrityFailed \/ StructurallyInvalid) ->
         "replan_with_new_approval"
    [] d = "environment_unavailable" /\ ~IntegrityFailed -> "stop_environment"
    [] d = "plan_invalid" /\ ~IntegrityFailed /\ ~StructurallyInvalid ->
         "replan_with_new_approval"
    [] OTHER -> ActionOfFailure

-----------------------------------------------------------------------------
(* model_agent_correction.py                                               *)

(* _repair_signal_specs: the diagnostics that have guidance, and the files *)
(* each of them opens to the Engineer.                                     *)
RepairPaths ==
  [lwc_load |-> {"component"}, lwc_capability |-> {"component"},
   other_stage |-> {"apex"}, apex_interface |-> {"apex"},
   candidate_jest |-> {"test"},
   controller_execution |-> {"component"}, behavior |-> {"component"}]

(* _expected_repair_signal_ids: the candidate's own tests are passed over  *)
(* when the controller's suite has failed too.                             *)
RepairSignals ==
  LET controller == ImplementationFailures \cap {"controller_execution", "behavior"} IN
  (ImplementationFailures \cap DOMAIN RepairPaths)
    \ (IF controller # {} THEN {"candidate_jest"} ELSE {})

(* _allowed_correction_paths *)
AllowedPaths == UNION {RepairPaths[s] : s \in signals}

-----------------------------------------------------------------------------
(* The validation                                                          *)

Init ==
  /\ host \in [python : BOOLEAN, toolchain : BOOLEAN, backend : BOOLEAN, node : BOOLEAN]
  /\ attempt = 1 /\ results = << >> /\ clean = TRUE
  /\ phase = "checks" /\ action = "none" /\ signals = {}

(* _command_specs *)
Available(c) ==
  CASE c = "toolchain" -> host.python /\ host.toolchain
    [] c = "probe" -> host.backend
    [] c \in {"jest", "controller"} -> host.python /\ host.backend /\ host.node
    [] OTHER -> host.python

Following(c) ==
  /\ phase = "checks" /\ c \notin DOMAIN results
  /\ \A i \in DOMAIN Commands : Commands[i] = c =>
       DOMAIN results = {Commands[j] : j \in 1..(i - 1)}
Blocked(c) == ~Available(c) \/ Unmet(results, c)

Put(c, result) ==
  results' = [d \in DOMAIN results \cup {c} |-> IF d = c THEN result ELSE results[d]]

(* _validate_with_package_boundary: the next command, in the plan's order. *)
Block(c) ==
  /\ Following(c) /\ Blocked(c)
  /\ Put(c, Unavailable) /\ clean' = FALSE
  /\ UNCHANGED <<host, attempt, phase, action, signals>>

Execute(c, exit, out) ==
  /\ Following(c) /\ ~Blocked(c)
  /\ Put(c, ResultOf(c, exit, out))
  /\ clean' = (clean /\ exit = "zero" /\
       IF c \in {"jest", "controller"}
       THEN out.kind = "jest" /\ out.success /\ out.failed = 0 /\ out.pending = 0
       ELSE out.kind = "complete")
  /\ UNCHANGED <<host, attempt, phase, action, signals>>

Evaluate ==
  /\ phase = "checks" /\ DOMAIN results = CommandIds
  /\ action' = Action
  /\ phase' = IF Action = "retry_implementation" THEN "offered" ELSE "closed"
  /\ UNCHANGED <<host, attempt, results, clean, signals>>

-----------------------------------------------------------------------------
(* The retry                                                               *)

Approve ==
  /\ phase = "offered"
  /\ phase' = "approved"
  /\ UNCHANGED <<host, attempt, results, clean, action, signals>>

(* require_repair_contract, EngineerCorrectionContext.freeze *)
Prepare ==
  /\ phase = "approved" /\ RepairSignals # {}
  /\ signals' = RepairSignals /\ phase' = "prepared"
  /\ UNCHANGED <<host, attempt, results, clean, action>>

Refuse ==
  /\ phase = "approved" /\ RepairSignals = {}
  /\ phase' = "refused"
  /\ UNCHANGED <<host, attempt, results, clean, action, signals>>

(* The second attempt is validated from the start.                         *)
Correct ==
  /\ phase = "prepared"
  /\ attempt' = attempt + 1 /\ results' = << >> /\ clean' = TRUE
  /\ phase' = "checks" /\ action' = "none" /\ signals' = {}
  /\ UNCHANGED host

Next ==
  \/ \E c \in CommandIds :
       \/ Block(c)
       \/ \E exit \in {"zero", "nonzero"}, out \in Outputs(c) : Execute(c, exit, out)
  \/ Evaluate \/ Approve \/ Prepare \/ Refuse \/ Correct

Spec == Init /\ [][Next]_vars

-----------------------------------------------------------------------------
(* Properties *)

TypeOK ==
  /\ host \in [python : BOOLEAN, toolchain : BOOLEAN, backend : BOOLEAN, node : BOOLEAN]
  /\ attempt \in 1..MaximumAttempts /\ clean \in BOOLEAN
  /\ DOMAIN results \subseteq CommandIds
  /\ \A c \in DOMAIN results : results[c] \in CheckResults
  /\ phase \in {"checks", "offered", "approved", "prepared", "refused", "closed"}
  /\ action \in {"none", "complete", "retry_implementation", "replan_with_new_approval",
                 "stop_environment", "stop_exhausted"}
  /\ signals \subseteq DOMAIN RepairPaths

(* A run is complete only when every one of the seven commands ran, exited *)
(* zero and reported success, down to the last test of both suites.        *)
(* (salesforce_result_parsing.py, CorrectionController.evaluate)           *)
CompleteIsProven == action = "complete" => clean

(* A retry that was offered and approved can be prepared, unless nothing   *)
(* failed but the dependency closure, whose failures carry no diagnostic:  *)
(* the offer and the preparation read the report by different rules.       *)
(* (implementation_failure_ids, require_repair_contract)                   *)
RefusedOnlyForClosure ==
  phase = "refused" => ImplementationChecks = {"closure"}

(* A failing suite that gives the Engineer no signal of its own is         *)
(* explained by a failure that does.                                       *)
(* (validation_failure_dependencies, _expected_repair_signal_ids)          *)
MaskedFailuresHaveACause ==
  phase = "prepared" => \A c \in {"jest", "controller"} :
    results[c].status = "failed" /\ results[c].diagnostics \cap signals = {} =>
      \/ results[c].notests /\ signals \cap LwcLoad # {}
      \/ c = "jest" /\ signals \cap {"controller_execution", "behavior"} # {}

(* A behavior that the controller's suite saw fail opens the component to  *)
(* the Engineer, whatever else failed beside it.                           *)
(* (_expected_repair_signal_ids, _allowed_correction_paths)                *)
BehaviorOpensTheComponent ==
  phase = "prepared" /\ "behavior" \in results["controller"].diagnostics =>
    "component" \in AllowedPaths

(* Nothing that the host lacks, and no failure of the controller's own     *)
(* tools, costs a retry: it takes a command that ran to its failure on the *)
(* candidate. (CorrectionController.evaluate)                              *)
RetryRestsOnTheCandidate ==
  phase = "offered" =>
    \E c \in {"candidate", "closure", "jest", "controller"} :
      results[c].status = "failed" /\ results[c].receipt = "nonzero"

(* Checked as a contract of the code's words: a retry is offered only when *)
(* the Engineer can be given a repair. (correction.py:150)                 *)
RetryIsRepairable == phase # "refused"

-----------------------------------------------------------------------------
(* Why they hold: an inductive invariant, in parts *)

(* What a result says: only a command that ran to its failure has failed,  *)
(* and only a failure has diagnostics, each command its own.               *)
OwnDiagnostics(c) ==
  CASE c = "candidate" -> (SUBSET StaticDiagnostics) \ {{}}
    [] c = "jest" -> {{"candidate_jest"}}
    [] c = "controller" -> {{"controller_execution"}, {"behavior"}}
    [] OTHER -> {{}}

ResultsFit ==
  \A c \in DOMAIN results :
    IF results[c].status = "failed"
    THEN results[c].receipt = "nonzero" /\ results[c].diagnostics \in OwnDiagnostics(c)
    ELSE results[c].diagnostics = {}

(* What did not succeed shows in a result.                                 *)
FailureShows == clean \/ \E c \in DOMAIN results : results[c].status # "passed"

(* The action and the signals are those of the report, which is whole.     *)
Decided ==
  /\ phase = "checks" <=> action = "none"
  /\ phase # "checks" => DOMAIN results = CommandIds /\ action = Action
  /\ phase \in {"offered", "approved", "prepared", "refused"} =>
       action = "retry_implementation"
  /\ phase = "prepared" => signals = RepairSignals
  /\ phase = "refused" => RepairSignals = {}

Inv == TypeOK /\ ResultsFit /\ FailureShows /\ Decided
==============================================================================
