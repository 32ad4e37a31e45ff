--------------------------- MODULE SalesforceResults ---------------------------
(***************************************************************************)
(* From the executions of the seven local Salesforce commands to the       *)
(* CheckResults of a ValidationReport and its disposition:                 *)
(* salesforce_result_parsing.py, with the commands' own side of the        *)
(* candidate contract (local_checks.py).                                   *)
(*                                                                         *)
(* Diagnostic identifiers are collapsed to the classes the rules tell      *)
(* apart: the stages whose failure keeps the LWC bundle from loading, all  *)
(* other stages, the two an Engineer cannot repair, one bounded diagnostic *)
(* within each of the first two, and the Jest signals.                     *)
(***************************************************************************)
EXTENDS Integers

CONSTANT MinTests      \* SALESFORCE_MIN_CANDIDATE_LWC_JEST_TESTS

ResultsAssumption == MinTests \in Nat \ {0}

Commands == <<"candidate", "closure", "toolchain", "probe", "jest", "controller",
              "fingerprint">>
CommandIds == {Commands[i] : i \in DOMAIN Commands}

Stages == {"lwc_load", "other_stage", "inventory", "unclassified"}
StageOf == [lwc_capability |-> "lwc_load", apex_interface |-> "other_stage"]
StaticDiagnostics == Stages \cup DOMAIN StageOf
GraphDiagnostics == {"graph_omission", "graph_incorrect"}

-----------------------------------------------------------------------------
(* What a command may leave on its standard output                         *)

Complete == [kind |-> "complete"]    \* every required field has its value
Garbled == [kind |-> "garbled"]      \* cut off, or not what the parser requires

(* _candidate_stage and main: a stage fails with its own code or with      *)
(* bounded diagnostics; a failure outside the stages has no code.          *)
CandidateOutputs ==
  {Complete, Garbled}
    \cup {[kind |-> "failure", code |-> s, diagnostics |-> {s}] : s \in Stages}
    \cup {[kind |-> "failure", code |-> StageOf[d], diagnostics |-> {d}] : d \in DOMAIN StageOf}
    \cup {[kind |-> "failure", code |-> "unclassified", diagnostics |-> {}]}

JestOutputs ==
  {Garbled} \cup
  [kind : {"jest"}, success : BOOLEAN, interrupted : BOOLEAN,
   passed : {0, MinTests}, failed : 0..1, pending : 0..1, suite : {"passed", "failed"}]

Outputs(c) ==
  CASE c = "candidate" -> CandidateOutputs
    [] c \in {"jest", "controller"} -> JestOutputs
    [] OTHER -> {Complete, Garbled}

-----------------------------------------------------------------------------
(* CheckResult                                                             *)

CheckResults == [status : {"passed", "failed", "unavailable"},
                 receipt : {"none", "zero", "nonzero"},
                 diagnostics : SUBSET (StaticDiagnostics \cup GraphDiagnostics \cup
                   {"candidate_jest", "controller_execution", "behavior"}),
                 code : Stages \cup {"none"},
                 notests : BOOLEAN]

Result(status, receipt) ==
  [status |-> status, receipt |-> receipt, diagnostics |-> {}, code |-> "none",
   notests |-> FALSE]
Unavailable == Result("unavailable", "none")

(* _candidate_failure_evidence: the diagnostics count only when all are    *)
(* known and one of them belongs to the failure code.                      *)
FailureCode(out) == IF out.kind = "failure" THEN out.code ELSE "unclassified"
Accepted(out) ==
  /\ out.kind = "failure" /\ out.diagnostics # {}
  /\ out.diagnostics \subseteq StaticDiagnostics
  /\ \E d \in out.diagnostics :
       d = out.code \/ (d \in DOMAIN StageOf /\ StageOf[d] = out.code)
CandidateFailure(out) ==
  [Result("failed", "nonzero") EXCEPT
     !.code = FailureCode(out),
     !.diagnostics = IF Accepted(out) THEN out.diagnostics ELSE {FailureCode(out)}]

JestComplete(out, success) ==
  out.kind = "jest" /\ out.success = success /\ ~out.interrupted

JestPassed(out) ==
  /\ JestComplete(out, TRUE)
  /\ out.suite = "passed" /\ out.failed = 0 /\ out.pending = 0
  /\ out.passed >= MinTests

JestFailed(out) ==
  JestComplete(out, FALSE) /\ (out.suite = "failed" \/ out.failed > 0)

NoTests(out) ==
  out.passed = 0 /\ out.failed = 0 /\ out.pending = 0 /\ out.suite = "failed"

ControllerDiagnostics(out) ==
  IF out.failed > 0 THEN {"behavior"} ELSE {"controller_execution"}

(* _result_from_execution *)
Passed(c, out) == IF c \in {"jest", "controller"} THEN JestPassed(out) ELSE out = Complete

ExitedZero(c, out) == Result(IF Passed(c, out) THEN "passed" ELSE "unavailable", "zero")

ExitedNonzero(c, out) ==
  CASE c = "candidate" -> CandidateFailure(out)
    [] c = "probe" -> Result("unavailable", "nonzero")
    [] c \in {"jest", "controller"} /\ ~JestFailed(out) -> Result("unavailable", "nonzero")
    [] c = "jest" /\ JestFailed(out) ->
         [Result("failed", "nonzero") EXCEPT !.diagnostics = {"candidate_jest"},
                                             !.notests = NoTests(out)]
    [] c = "controller" /\ JestFailed(out) ->
         [Result("failed", "nonzero") EXCEPT !.diagnostics = ControllerDiagnostics(out),
                                             !.notests = NoTests(out)]
    [] OTHER -> Result("failed", "nonzero")

ResultOf(c, exit, out) ==
  IF exit = "zero" THEN ExitedZero(c, out) ELSE ExitedNonzero(c, out)

-----------------------------------------------------------------------------
(* The report; results is a function on the commands                       *)

(* _unmet_runtime_prerequisite *)
Prerequisites(c) ==
  CASE c = "probe" -> {"toolchain"}
    [] c \in {"jest", "controller"} -> {"toolchain", "probe"}
    [] OTHER -> {}
Unmet(results, c) == \E p \in Prerequisites(c) : results[p].status # "passed"

With(results, status) == {c \in DOMAIN results : results[c].status = status}

(* _disposition *)
Disposition(results) ==
  CASE \E c \in With(results, "failed") :
         results[c].diagnostics \cap GraphDiagnostics # {} -> "plan_invalid"
    [] With(results, "failed") # {} /\ (\A c \in With(results, "failed") :
         results[c].diagnostics \cap GraphDiagnostics = {}) -> "recoverable_failure"
    [] With(results, "failed") = {} /\ With(results, "unavailable") # {} ->
         "environment_unavailable"
    [] OTHER -> "ready_for_human_review"
==============================================================================
