---------------------------- MODULE Attempt_proofs ----------------------------
(* Theorems about what an attempt consists of, for any manifest, files, edits *)
(* and budget: the candidate that is validated is the approved one, its       *)
(* reports rest on one environment, and what a report leads to is justified   *)
(* by what the commands did.                                                  *)
(*                                                                            *)
(* A part of MCAttempt acts alone on v1, v2, ..., so the proof of each is of  *)
(* its own invariant (Inv of each part's module, which says why it is         *)
(* needed): it holds at the start, is kept by every action, a lemma per       *)
(* action, and implies the properties.                                        *)
(*   Correction: results and what was decided of them; a retry rests on a     *)
(*     failure, and a failure shows its own diagnostics.                      *)
(*   Workspace: what a scan read is no newer than the source, so two scans    *)
(*     that agree read a state the source was in.                             *)
(*   Engineer: attempt two rests on the persisted plan and the reported       *)
(*     signals of attempt one, which no step changes any more.                *)
(*   Salesforce: what was looked at is of versions no newer than now, and of   *)
(*     the bound ones once all that was looked at agreed with them.            *)
(*   Mule: how far the lifecycle of a container is tells what it was, when it  *)
(*     was created and whether it runs; an attempt is consumed before.         *)
(*   Runner: a nonce is consumed before its process; a file keeps its inode,   *)
(*     and what was read of it is what it has, unless its time is another one. *)
EXTENDS MCAttempt, Integers, Sequences, FiniteSetTheorems, TLAPS


-----------------------------------------------------------------------------
(* The way to a correction.                                                 *)

USE CorrectionAssumption

(* The seven commands. *)
LEMMA Named ==
  Correction!CommandIds = {"candidate", "closure", "toolchain", "probe", "jest",
                           "controller", "fingerprint"}
  BY DEF Correction!CommandIds, Correction!Commands

(* Every result of a command that ran is one, and fits. *)
LEMMA ResultsAreResults ==
  ASSUME NEW c \in Correction!CommandIds, NEW exit \in {"zero", "nonzero"},
         NEW out \in Correction!Outputs(c), NEW r, r = Correction!ResultOf(c, exit, out)
  PROVE  /\ r \in Correction!CheckResults
         /\ r.status = "failed" =>
              r.receipt = "nonzero" /\ r.diagnostics \in Correction!OwnDiagnostics(c)
         /\ r.status # "failed" => r.diagnostics = {}
<1>1. CASE exit = "zero"
  BY <1>1 DEF Correction!ResultOf, Correction!ExitedZero, Correction!Result,
     Correction!CheckResults
<1>2. CASE exit = "nonzero" /\ c = "candidate"
  <2>1. r = Correction!CandidateFailure(out) /\ out \in Correction!CandidateOutputs
    BY <1>2 DEF Correction!ResultOf, Correction!ExitedNonzero, Correction!Outputs
  <2>2. /\ Correction!FailureCode(out) \in Correction!Stages
        /\ Correction!Accepted(out) => out.diagnostics # {}
        /\ Correction!Accepted(out) => out.diagnostics \subseteq Correction!StaticDiagnostics
    BY <2>1 DEF Correction!FailureCode, Correction!Accepted, Correction!CandidateOutputs,
       Correction!Stages, Correction!StageOf, Correction!Complete, Correction!Garbled
  <2>3. /\ r.status = "failed" /\ r.receipt = "nonzero" /\ r.notests = FALSE
        /\ r.code = Correction!FailureCode(out)
        /\ r.diagnostics = IF Correction!Accepted(out) THEN out.diagnostics
                           ELSE {Correction!FailureCode(out)}
        /\ r = [status |-> r.status, receipt |-> r.receipt, diagnostics |-> r.diagnostics,
                code |-> r.code, notests |-> r.notests]
    BY <2>1 DEF Correction!CandidateFailure, Correction!Result
  <2> DEFINE d == r.diagnostics
  <2>4. d \subseteq Correction!StaticDiagnostics /\ d # {}
    BY <2>2, <2>3 DEF Correction!StaticDiagnostics
  <2>5. r \in Correction!CheckResults
    BY <2>2, <2>3, <2>4 DEF Correction!CheckResults
  <2> QED BY <1>2, <2>3, <2>4, <2>5 DEF Correction!OwnDiagnostics
<1>3. CASE exit = "nonzero" /\ c # "candidate"
  BY <1>3, Named DEF Correction!ResultOf, Correction!ExitedNonzero, Correction!Result,
     Correction!CheckResults, Correction!OwnDiagnostics, Correction!NoTests,
     Correction!ControllerDiagnostics
<1> QED BY <1>1, <1>2, <1>3

(* A command whose result is passed exited zero and said so. *)
LEMMA PassedIsClean ==
  ASSUME NEW c \in Correction!CommandIds, NEW exit \in {"zero", "nonzero"},
         NEW out \in Correction!Outputs(c),
         Correction!ResultOf(c, exit, out).status = "passed"
  PROVE  /\ exit = "zero"
         /\ IF c \in {"jest", "controller"}
            THEN out.kind = "jest" /\ out.success /\ out.failed = 0 /\ out.pending = 0
            ELSE out.kind = "complete"
<1>1. exit = "zero"
  <2>1. CASE c = "candidate"
    BY <2>1 DEF Correction!ResultOf, Correction!ExitedNonzero, Correction!Result,
       Correction!CandidateFailure
  <2>2. CASE c # "candidate"
    BY <2>2, Named DEF Correction!ResultOf, Correction!ExitedNonzero, Correction!Result
  <2> QED BY <2>1, <2>2
<1>2. Correction!Passed(c, out)
  BY <1>1 DEF Correction!ResultOf, Correction!ExitedZero, Correction!Result
<1> QED BY <1>1, <1>2 DEF Correction!Passed, Correction!JestPassed, Correction!JestComplete,
     Correction!Complete

(* The whole report, as Inv has it: v3 are the results, v7 the signals. *)
Whole == Correction!TypeOK /\ Correction!ResultsFit /\ DOMAIN v3 = Correction!CommandIds

(* Only what failed has diagnostics, and each command its own. *)
LEMMA Fits ==
  ASSUME Whole
  PROVE  /\ \A c \in Correction!CommandIds :
              /\ v3[c] \in Correction!CheckResults
              /\ v3[c].status # "failed" => v3[c].diagnostics = {}
              /\ v3[c].status = "failed" => v3[c].receipt = "nonzero"
         /\ v3["candidate"].status = "failed" =>
              /\ v3["candidate"].diagnostics # {}
              /\ v3["candidate"].diagnostics \subseteq Correction!StaticDiagnostics
         /\ v3["jest"].status = "failed" => v3["jest"].diagnostics = {"candidate_jest"}
         /\ v3["controller"].status = "failed" =>
              v3["controller"].diagnostics \in {{"controller_execution"}, {"behavior"}}
  BY Named DEF Whole, Correction!TypeOK, Correction!ResultsFit, Correction!OwnDiagnostics

(* What the implementation failures are made of. *)
LEMMA Checks ==
  ASSUME Whole
  PROVE  /\ Correction!ImplementationChecks \subseteq
              {"candidate", "closure", "jest", "controller"}
         /\ \A c \in Correction!ImplementationChecks :
              /\ v3[c].status = "failed"
              /\ v3[c].diagnostics \subseteq Correction!ImplementationFailures
         /\ \A c \in {"jest", "controller"} \ Correction!Dependants :
              v3[c].status = "failed" => c \in Correction!ImplementationChecks
         /\ v3["candidate"].status = "failed" /\
              ~(v3["candidate"].diagnostics \subseteq Correction!NotRepairable) =>
                "candidate" \in Correction!ImplementationChecks
<1>1. Correction!ImplementationChecks \subseteq {"candidate", "closure", "jest", "controller"}
  BY Named DEF Whole, Correction!ImplementationChecks, Correction!With,
     Correction!ControllerOwned, Correction!ControllerEnvironment,
     Correction!ControllerIntegrity
<1>2. \A c \in Correction!ImplementationChecks :
        /\ v3[c].status = "failed"
        /\ v3[c].diagnostics \subseteq Correction!ImplementationFailures
  BY DEF Correction!ImplementationChecks, Correction!With, Correction!ImplementationFailures
<1>3. \A c \in {"jest", "controller"} \ Correction!Dependants :
        v3[c].status = "failed" => c \in Correction!ImplementationChecks
  BY Named DEF Whole, Correction!ImplementationChecks, Correction!With,
     Correction!ControllerOwned, Correction!ControllerEnvironment,
     Correction!ControllerIntegrity, Correction!UnrepairableCandidate
<1>4. "candidate" \notin Correction!Dependants
  BY DEF Correction!Dependants
<1>5. v3["candidate"].status = "failed" /\
        ~(v3["candidate"].diagnostics \subseteq Correction!NotRepairable) =>
          "candidate" \in Correction!ImplementationChecks
  BY <1>4, Named DEF Whole, Correction!ImplementationChecks, Correction!With,
     Correction!ControllerOwned, Correction!ControllerEnvironment,
     Correction!ControllerIntegrity, Correction!UnrepairableCandidate
<1> QED BY <1>1, <1>2, <1>3, <1>5

(* The diagnostics that can be repaired. *)
LEMMA Repairable ==
  DOMAIN Correction!RepairPaths =
    {"lwc_load", "lwc_capability", "other_stage", "apex_interface", "candidate_jest",
     "controller_execution", "behavior"}
  BY DEF Correction!RepairPaths

(* Every repairable diagnostic is a signal but the candidate's own tests', *)
(* and those are one unless the controller's suite gave one.                *)
LEMMA Signalled ==
  /\ (Correction!ImplementationFailures \cap DOMAIN Correction!RepairPaths)
        \ {"candidate_jest"} \subseteq Correction!RepairSignals
  /\ "candidate_jest" \in Correction!ImplementationFailures =>
        \/ "candidate_jest" \in Correction!RepairSignals
        \/ Correction!RepairSignals \cap {"controller_execution", "behavior"} # {}
  BY Repairable DEF Correction!RepairSignals

(* A retry is offered of a report in which a command ran to its failure,    *)
(* and the candidate has nothing but what can be repaired.                  *)
LEMMA RetryMeans ==
  ASSUME Whole, Correction!Action = "retry_implementation"
  PROVE  /\ v2 < MaximumAttempts
         /\ Correction!ImplementationChecks # {}
         /\ v3["candidate"].status = "failed" =>
              v3["candidate"].diagnostics \cap Correction!NotRepairable = {}
<1>1. /\ Correction!Action = Correction!ActionOfFailure
      /\ Correction!Disposition(v3) # "ready_for_human_review"
      /\ ~(Correction!IntegrityFailed \/ Correction!StructurallyInvalid)
  BY DEF Correction!Action
<1>2. Correction!ImplementationFailures # {} /\ v2 < MaximumAttempts
  BY <1>1 DEF Correction!ActionOfFailure
<1>3. Correction!ImplementationChecks # {}
  BY <1>2 DEF Correction!ImplementationFailures
<1> QED BY <1>1, <1>2, <1>3 DEF Correction!StructurallyInvalid

(* A run is complete only of a report in which everything passed. *)
LEMMA CompleteMeans ==
  ASSUME Whole, Correction!Action = "complete"
  PROVE  \A c \in DOMAIN v3 : v3[c].status = "passed"
<1>1. Correction!Disposition(v3) = "ready_for_human_review"
  BY DEF Correction!Action, Correction!ActionOfFailure
<1>2. Correction!With(v3, "failed") = {} /\ Correction!With(v3, "unavailable") = {}
  BY <1>1 DEF Correction!Disposition
<1>3. \A c \in DOMAIN v3 : v3[c].status \in {"passed", "failed", "unavailable"}
  BY DEF Whole, Correction!TypeOK, Correction!CheckResults
<1> QED BY <1>2, <1>3 DEF Correction!With

(* The properties follow from the invariant. *)
LEMMA CorrectionHolds ==
  ASSUME Correction!Inv
  PROVE  /\ Correction!TypeOK /\ Correction!CompleteIsProven
         /\ Correction!RefusedOnlyForClosure /\ Correction!MaskedFailuresHaveACause
         /\ Correction!BehaviorOpensTheComponent /\ Correction!RetryRestsOnTheCandidate
<1> USE DEF Correction!Inv
<1>1. Correction!TypeOK
  OBVIOUS
<1>2. ASSUME v5 # "checks" PROVE Whole
  BY <1>2 DEF Whole, Correction!Decided
<1>3. Correction!CompleteIsProven
  BY <1>2, CompleteMeans DEF Correction!CompleteIsProven, Correction!Decided,
     Correction!FailureShows
<1>4. ASSUME v5 \in {"offered", "approved", "prepared", "refused"}
      PROVE  Whole /\ Correction!Action = "retry_implementation"
  BY <1>2, <1>4 DEF Correction!Decided
<1>5. Correction!RefusedOnlyForClosure
  <2> SUFFICES ASSUME v5 = "refused"
               PROVE  Correction!ImplementationChecks = {"closure"}
    BY DEF Correction!RefusedOnlyForClosure
  <2>1. Whole /\ Correction!RepairSignals = {} /\ Correction!ImplementationChecks # {}
    BY <1>4, RetryMeans DEF Correction!Decided
  <2>2. "candidate_jest" \notin Correction!ImplementationFailures
        /\ Correction!ImplementationFailures \cap DOMAIN Correction!RepairPaths = {}
    BY <2>1, Signalled
  <2>3. "jest" \notin Correction!ImplementationChecks
        /\ "controller" \notin Correction!ImplementationChecks
    BY <2>1, <2>2, Checks, Fits, Repairable
  <2>4. "candidate" \notin Correction!ImplementationChecks
    <3> SUFFICES ASSUME "candidate" \in Correction!ImplementationChecks PROVE FALSE
      OBVIOUS
    <3>1. /\ v3["candidate"].status = "failed"
          /\ v3["candidate"].diagnostics \subseteq Correction!ImplementationFailures
      BY <2>1, Checks
    <3>2. /\ v3["candidate"].diagnostics # {}
          /\ v3["candidate"].diagnostics \subseteq Correction!StaticDiagnostics
          /\ v3["candidate"].diagnostics \cap Correction!NotRepairable = {}
      BY <3>1, <1>4, <2>1, Fits, RetryMeans
    <3>3. Correction!StaticDiagnostics \ Correction!NotRepairable \subseteq
            DOMAIN Correction!RepairPaths
      BY Repairable DEF Correction!StaticDiagnostics, Correction!Stages,
         Correction!StageOf, Correction!NotRepairable
    <3> QED BY <2>2, <3>1, <3>2, <3>3
  <2> QED BY <2>1, <2>3, <2>4, Checks
<1>6. ASSUME v5 = "prepared"
      PROVE  Whole /\ v7 = Correction!RepairSignals
  BY <1>4, <1>6 DEF Correction!Decided
<1>7. Correction!MaskedFailuresHaveACause
  <2> SUFFICES ASSUME v5 = "prepared", NEW c \in {"jest", "controller"},
                      v3[c].status = "failed", v3[c].diagnostics \cap v7 = {}
               PROVE  \/ v3[c].notests /\ v7 \cap Correction!LwcLoad # {}
                      \/ c = "jest" /\ v7 \cap {"controller_execution", "behavior"} # {}
    BY DEF Correction!MaskedFailuresHaveACause
  <2>1. CASE c \in Correction!Dependants
    <3>1. v3[c].notests /\ Correction!LoadFailed
      BY <2>1 DEF Correction!Dependants, Correction!SuiteNeverRan
    <3>2. "lwc_load" \in Correction!ImplementationFailures
      BY <3>1, <1>6, Checks DEF Correction!LoadFailed, Correction!LwcLoad,
         Correction!NotRepairable
    <3> QED BY <1>6, <3>1, <3>2, Signalled, Repairable DEF Correction!LwcLoad
  <2>2. CASE c \notin Correction!Dependants
    <3>1. v3[c].diagnostics \subseteq Correction!ImplementationFailures
      BY <1>6, <2>2, Checks
    <3> QED BY <1>6, <3>1, Fits, Signalled, Repairable
  <2> QED BY <2>1, <2>2
<1>8. Correction!BehaviorOpensTheComponent
  <2> SUFFICES ASSUME v5 = "prepared", "behavior" \in v3["controller"].diagnostics
               PROVE  "component" \in Correction!AllowedPaths
    BY DEF Correction!BehaviorOpensTheComponent
  <2>1. v3["controller"].status = "failed" /\ v3["controller"].diagnostics = {"behavior"}
    BY <1>6, Fits, Named
  <2>2. "controller" \notin Correction!Dependants
    BY <2>1 DEF Correction!Dependants, Correction!SuiteNeverRan
  <2>3. "behavior" \in v7
    BY <1>6, <2>1, <2>2, Checks, Signalled, Repairable
  <2>4. Correction!RepairPaths["behavior"] = {"component"}
    BY DEF Correction!RepairPaths
  <2> QED BY <2>3, <2>4 DEF Correction!AllowedPaths
<1>9. Correction!RetryRestsOnTheCandidate
  <2> SUFFICES ASSUME v5 = "offered"
               PROVE  \E c \in {"candidate", "closure", "jest", "controller"} :
                        v3[c].status = "failed" /\ v3[c].receipt = "nonzero"
    BY DEF Correction!RetryRestsOnTheCandidate
  <2> QED BY <1>4, RetryMeans, Checks, Fits, Named
<1> QED BY <1>1, <1>3, <1>5, <1>7, <1>8, <1>9

-----------------------------------------------------------------------------
(* The steps. *)

(* Before any command there are no results. *)
LEMMA CorrectionStart == Correction!Init => Correction!Inv
  BY DEF Correction!Init, Correction!Inv, Correction!TypeOK, Correction!ResultsFit,
     Correction!FailureShows, Correction!Decided, Correction!ResultsAssumption,
     Correction!BudgetAssumption

(* The next command's result is put beside the others. *)
LEMMA CorrectionPut ==
  ASSUME Correction!Inv, NEW c \in Correction!CommandIds, Correction!Following(c),
         NEW r \in Correction!CheckResults, Correction!Put(c, r),
         r.status = "failed" =>
           r.receipt = "nonzero" /\ r.diagnostics \in Correction!OwnDiagnostics(c),
         r.status # "failed" => r.diagnostics = {},
         v4' \in BOOLEAN, (v4 /\ r.status = "passed") => v4', UNCHANGED <<v1, v2, v5, v6, v7>>
  PROVE  Correction!Inv'
<1>1. /\ DOMAIN v3' = DOMAIN v3 \cup {c} /\ v3'[c] = r
      /\ \A d \in DOMAIN v3 : d # c /\ v3'[d] = v3[d]
  BY DEF Correction!Put, Correction!Following
<1>2. Correction!TypeOK'
  BY <1>1 DEF Correction!Inv, Correction!TypeOK
<1>3. Correction!ResultsFit'
  BY <1>1 DEF Correction!Inv, Correction!ResultsFit, Correction!OwnDiagnostics
<1>4. Correction!FailureShows'
  BY <1>1 DEF Correction!Inv, Correction!FailureShows
<1>5. Correction!Decided'
  BY DEF Correction!Inv, Correction!Decided, Correction!Following
<1> QED BY <1>2, <1>3, <1>4, <1>5 DEF Correction!Inv

(* What is decided of a report is decided of the same report again. *)
LEMMA ReportKept ==
  ASSUME UNCHANGED <<v2, v3>>
  PROVE  /\ Correction!Action' = Correction!Action
         /\ Correction!RepairSignals' = Correction!RepairSignals
  BY DEF Correction!Action, Correction!ActionOfFailure, Correction!IntegrityFailed,
     Correction!StructurallyInvalid, Correction!ImplementationFailures,
     Correction!ImplementationChecks, Correction!Dependants, Correction!LoadFailed,
     Correction!SuiteNeverRan, Correction!UnrepairableCandidate, Correction!RepairSignals

(* Every action keeps the invariant. *)
LEMMA CorrectionStep == ASSUME Correction!Inv, Correction!Next PROVE Correction!Inv'
<1>1. ASSUME NEW c \in Correction!CommandIds, Correction!Block(c)  PROVE Correction!Inv'
  <2>1. /\ Correction!Following(c) /\ Correction!Put(c, Correction!Unavailable)
        /\ v4' = FALSE /\ UNCHANGED <<v1, v2, v5, v6, v7>>
    BY <1>1 DEF Correction!Block
  <2>2. /\ Correction!Unavailable \in Correction!CheckResults
        /\ Correction!Unavailable.status = "unavailable"
        /\ Correction!Unavailable.diagnostics = {}
    BY DEF Correction!Unavailable, Correction!Result, Correction!CheckResults
  <2> QED BY <2>1, <2>2, CorrectionPut
<1>2. ASSUME NEW c \in Correction!CommandIds, NEW exit \in {"zero", "nonzero"},
             NEW out \in Correction!Outputs(c), Correction!Execute(c, exit, out)
      PROVE  Correction!Inv'
  <2> DEFINE r == Correction!ResultOf(c, exit, out)
  <2>1. /\ Correction!Following(c) /\ Correction!Put(c, r)
        /\ v4' = (v4 /\ exit = "zero" /\
             IF c \in {"jest", "controller"}
             THEN out.kind = "jest" /\ out.success /\ out.failed = 0 /\ out.pending = 0
             ELSE out.kind = "complete")
        /\ UNCHANGED <<v1, v2, v5, v6, v7>>
    BY <1>2 DEF Correction!Execute
  <2>2. v4' \in BOOLEAN
    <3> HIDE DEF r
    <3> QED BY <2>1
  <2>3. v4 /\ r.status = "passed" => v4'
    BY <2>1, PassedIsClean
  <2> HIDE DEF r
  <2>4. /\ r \in Correction!CheckResults
        /\ r.status = "failed" =>
             r.receipt = "nonzero" /\ r.diagnostics \in Correction!OwnDiagnostics(c)
        /\ r.status # "failed" => r.diagnostics = {}
    BY ResultsAreResults DEF r
  <2> QED BY <2>1, <2>2, <2>3, <2>4, CorrectionPut
<1>3. CASE Correction!Evaluate
  <2>1. /\ v5 = "checks" /\ DOMAIN v3 = Correction!CommandIds
        /\ v6' = Correction!Action /\ UNCHANGED <<v1, v2, v3, v4, v7>>
        /\ v5' = IF Correction!Action = "retry_implementation" THEN "offered" ELSE "closed"
    BY <1>3 DEF Correction!Evaluate
  <2>2. Correction!Action \in {"complete", "retry_implementation", "stop_environment",
                               "replan_with_new_approval", "stop_exhausted"}
    BY DEF Correction!Action, Correction!ActionOfFailure
  <2>3. Correction!Action' = Correction!Action
    BY <2>1, ReportKept
  <2> QED BY <2>1, <2>2, <2>3 DEF Correction!Inv, Correction!TypeOK, Correction!ResultsFit,
       Correction!FailureShows, Correction!Decided
<1>4. ASSUME UNCHANGED <<v1, v2, v3, v4, v6>>, v5 # "checks", v5' # "checks", v5' # "closed",
             v5 \in {"offered", "approved"},
             v5' \in {"approved", "prepared", "refused"},
             v5' = "prepared" => v7' = Correction!RepairSignals,
             v5' # "prepared" => v7' = v7,
             v5' = "refused" => Correction!RepairSignals = {}
      PROVE  Correction!Inv'
  <2>1. Correction!Action' = Correction!Action
        /\ Correction!RepairSignals' = Correction!RepairSignals
    BY <1>4, ReportKept
  <2>2. Correction!RepairSignals \subseteq DOMAIN Correction!RepairPaths
    BY DEF Correction!RepairSignals
  <2> QED BY <1>4, <2>1, <2>2 DEF Correction!Inv, Correction!TypeOK, Correction!ResultsFit,
       Correction!FailureShows, Correction!Decided
<1>5. CASE Correction!Approve
  BY <1>4, <1>5 DEF Correction!Approve
<1>6. CASE Correction!Prepare
  BY <1>4, <1>6 DEF Correction!Prepare
<1>7. CASE Correction!Refuse
  BY <1>4, <1>7 DEF Correction!Refuse
<1>8. CASE Correction!Correct
  <2>1. /\ v5 = "prepared" /\ v2' = v2 + 1 /\ v3' = << >> /\ v4' = TRUE
        /\ v5' = "checks" /\ v6' = "none" /\ v7' = {} /\ v1' = v1
    BY <1>8 DEF Correction!Correct
  <2>2. v2 \in 1 .. MaximumAttempts /\ MaximumAttempts \in Nat
    BY DEF Correction!Inv, Correction!TypeOK, Correction!BudgetAssumption
  <2>3. v2 < MaximumAttempts
    BY <2>1, RetryMeans DEF Correction!Inv, Correction!Decided, Whole
  <2> QED BY <2>1, <2>2, <2>3 DEF Correction!Inv, Correction!TypeOK, Correction!ResultsFit,
       Correction!FailureShows, Correction!Decided
<1> QED BY <1>1, <1>2, <1>3, <1>5, <1>6, <1>7, <1>8 DEF Correction!Next

(* A step of another part keeps it. *)
LEMMA CorrectionKept ==
  ASSUME Correction!Inv, UNCHANGED <<v1, v2, v3, v4, v5, v6, v7>> PROVE Correction!Inv'
  BY ReportKept DEF Correction!Inv, Correction!TypeOK, Correction!ResultsFit,
     Correction!FailureShows, Correction!Decided

CorrectionInv == part = "correction" => Correction!Inv

(* What a report leads to is justified by what the commands did, for any   *)
(* number of attempts and any least number of tests.                       *)
(* (CorrectionController.evaluate, require_repair_contract)                *)
THEOREM CorrectionGrounded == Spec => []CorrectionIsGrounded
<1>1. Init => CorrectionInv
  BY CorrectionStart DEF Init, CorrectionInv
<1>2. CorrectionInv /\ [Next]_all => CorrectionInv'
  <2> SUFFICES ASSUME CorrectionInv, [Next]_all, part' = "correction"
               PROVE  Correction!Inv'
    BY DEF CorrectionInv
  <2>1. CASE CorrectionActs
    BY <2>1, CorrectionStep DEF CorrectionActs, CorrectionInv
  <2>2. CASE UNCHANGED all
    BY <2>2, CorrectionKept DEF all, CorrectionInv
  <2> QED BY <2>1, <2>2 DEF Next, EngineerActs, WorkspaceActs, RunnerActs, SalesforceActs,
       MuleActs, Rest11, Rest15
<1>3. CorrectionInv => CorrectionIsGrounded
  BY CorrectionHolds DEF CorrectionInv, CorrectionIsGrounded
<1> QED BY <1>1, <1>2, <1>3, PTL DEF Spec

HIDE CorrectionAssumption


-----------------------------------------------------------------------------
(* The private workspace: v1 is the source, v3 the plan, v4 the pinned tree, *)
(* v6 the step, v7 the files still to be read or written, v8 what the scan   *)
(* has read, v9 the base, v10 the copy, v12 the moments, v13 the source when *)
(* the scan began, v14 the results.                                          *)

USE CandidateAssumption DEF Workspace!Inv

(* Contents are numbers, and those of the source have an order. *)
LEMMA Versions ==
  /\ MaxVersion \in Nat /\ MaxVersion > 0 /\ MaxEdits \in Nat
  /\ Approved \subseteq Files /\ Approved # {}
  /\ Workspace!Missing = 0 /\ Workspace!Deleted = MaxVersion + 1
  /\ Workspace!New = MaxVersion + 2
  /\ \A v : v \in Workspace!Contents <=> (v \in 1 .. MaxVersion \/ v = MaxVersion + 2)
  /\ \A v : Workspace!Exists(v) <=> v # 0 /\ v # MaxVersion + 1
  BY DEF Workspace!WorkspaceAssumption, Workspace!Missing, Workspace!Deleted, Workspace!New,
     Workspace!Contents, Workspace!Exists

(* What Inv says of each variable. *)
LEMMA TreesFit ==
  ASSUME Workspace!Inv
  PROVE  /\ v1 \in [Files -> 0 .. MaxVersion + 1] /\ v2 \in 0 .. MaxEdits
         /\ v3 \in [Approved -> Workspace!Contents]
         /\ v8 \in [Files -> Workspace!Contents \cup {0}]
         /\ \A p \in Files : v1[p] \in Int /\ v8[p] \in Int
         /\ \A p \in Approved : p \in Files /\ v3[p] \in Workspace!Contents /\ v3[p] \in Int
         /\ v7 \subseteq Files
  BY Versions DEF Workspace!TypeOK, Workspace!Trees

(* A scan begins with the names of the files that exist. *)
LEMMA ScanBegins ==
  ASSUME Workspace!Inv, NEW step \in Workspace!Scans, Workspace!ScanAs(step), UNCHANGED v1
  PROVE  /\ Workspace!ScanIsOrdered' /\ v6' = step /\ v13' = v1
         /\ v7' \subseteq Files /\ v8' \in Workspace!Trees
         /\ v13' \in [Files -> 0 .. Workspace!Deleted]
<1>1. /\ v6' = step /\ v13' = v1 /\ v8' = [p \in Files |-> 0]
      /\ v7' = {p \in Files : Workspace!Exists(v1[p])}
  BY Versions DEF Workspace!ScanAs, Workspace!Empty
<1>2. v13' # Workspace!NoTree
  <2>1. DOMAIN v13' = Files /\ Files # {} /\ DOMAIN Workspace!NoTree = {}
    BY <1>1, TreesFit, Versions DEF Workspace!NoTree
  <2> QED BY <2>1
<1>3. Workspace!ScanIsOrdered'
  BY <1>1, <1>2, TreesFit, Versions DEF Workspace!ScanIsOrdered
<1> QED BY <1>1, <1>3, TreesFit, Versions DEF Workspace!Trees

(* Two scans that read the same: the source was so when the second began. *)
LEMMA ScannedTwice ==
  ASSUME Workspace!Inv, v6 \in {"confirm", "exit"}, v7 = {}, v8 = v9
  PROVE  v9 = Workspace!AsTree(v13)
<1>1. /\ v9 \in Workspace!Trees
      /\ \A p \in Files : v9[p] <= v13[p]
      /\ v13 \in [Files -> 0 .. Workspace!Deleted]
  BY DEF Workspace!BaseIsOlder, Workspace!Using, Workspace!Scans, Workspace!ScanIsOrdered,
     Workspace!TypeOK
<1>2. ASSUME NEW p \in Files
      PROVE  v9[p] = IF Workspace!Exists(v13[p]) THEN v13[p] ELSE Workspace!Missing
  <2>1. v9[p] \in Int /\ v13[p] \in Int /\ v9[p] <= v13[p]
    BY <1>1, TreesFit, Versions
  <2>2. CASE Workspace!Exists(v13[p])
    BY <2>1, <2>2 DEF Workspace!ScanIsOrdered, Workspace!Scans
  <2>3. CASE ~Workspace!Exists(v13[p])
    BY <2>3 DEF Workspace!ScanIsOrdered, Workspace!Scans
  <2> QED BY <2>2, <2>3
<1> QED BY <1>1, <1>2 DEF Workspace!AsTree, Workspace!Trees

(* At first there is no scan, no copy and no result. *)
LEMMA WorkspaceStart == Workspace!Init => Workspace!Inv
<1> SUFFICES ASSUME Workspace!Init PROVE Workspace!Inv
  OBVIOUS
<1>1. Workspace!TypeOK
  <2>1. v1 \in [Files -> 0 .. Workspace!Deleted]
    BY Versions DEF Workspace!Init
  <2>2. v8 \in Workspace!Trees
    BY Versions DEF Workspace!Init, Workspace!Trees, Workspace!Empty
  <2>3. v2 \in 0 .. MaxEdits
    BY Versions DEF Workspace!Init
  <2> QED BY <2>1, <2>2, <2>3 DEF Workspace!Init, Workspace!TypeOK
<1> QED BY <1>1 DEF Workspace!Init, Workspace!ScanIsOrdered, Workspace!BaseIsOlder,
     Workspace!PinnedOnce, Workspace!BaseWasTheSource, Workspace!CopyIsOfThePlan,
     Workspace!ResultsAreOfThePlan, Workspace!Using, Workspace!Scans

(* Whatever closes the workspace leaves no trace but the results. *)
LEMMA WorkspaceCloses ==
  ASSUME Workspace!Inv, Workspace!Close, UNCHANGED <<v1, v2, v3, v4, v8, v13>>,
         v14' = v14 \/ (v4 # Workspace!NoTree /\ Workspace!ResultsAreOfThePlan' /\
           v14' \subseteq [candidate : Workspace!Trees, base : Workspace!Trees,
                           still : [Files -> 0 .. Workspace!Deleted]])
  PROVE  Workspace!Inv'
<1> USE DEF Workspace!Close
<1>1. Workspace!TypeOK'
  BY DEF Workspace!TypeOK
<1>2. Workspace!ResultsAreOfThePlan'
  BY DEF Workspace!ResultsAreOfThePlan, Workspace!Overlay, Workspace!PlanChanges,
     Workspace!AsTree
<1>3. Workspace!PinnedOnce'
  BY DEF Workspace!PinnedOnce
<1> QED BY <1>1, <1>2, <1>3 DEF Workspace!ScanIsOrdered, Workspace!BaseIsOlder,
     Workspace!BaseWasTheSource, Workspace!CopyIsOfThePlan, Workspace!Using, Workspace!Scans

(* The user edits a file: its content is newer than any before. *)
LEMMA WorkspaceEdit ==
  ASSUME Workspace!Inv, NEW p \in Files, Workspace!Edit(p) PROVE Workspace!Inv'
<1>1. /\ UNCHANGED <<v3, v4, v5, v6, v7, v8, v9, v10, v11, v13, v14>>
      /\ v2 < MaxEdits /\ v2' = v2 + 1
      /\ v12' = IF v6 = "idle" THEN {} ELSE v12 \cup {v1'}
  BY DEF Workspace!Edit
<1>2. PICK v \in (v1[p] + 1) .. Workspace!Deleted : v1' = [v1 EXCEPT ![p] = v]
  BY DEF Workspace!Edit
<1>3. /\ v1' \in [Files -> 0 .. MaxVersion + 1]
      /\ \A f \in Files : v1[f] <= v1'[f] /\ v1[f] \in Int /\ v1'[f] \in Int
  BY <1>2, TreesFit, Versions
<1>4. Workspace!TypeOK'
  BY <1>1, <1>3, Versions DEF Workspace!TypeOK
<1>5. Workspace!ScanIsOrdered'
  <2> SUFFICES ASSUME v6 \in Workspace!Scans, NEW f \in Files
               PROVE  v13[f] <= v1'[f] /\ v8[f] <= v1'[f]
    BY <1>1 DEF Workspace!ScanIsOrdered
  <2>1. v13[f] \in Int /\ v8[f] \in Int
    BY TreesFit, Versions DEF Workspace!ScanIsOrdered, Workspace!TypeOK
  <2> QED BY <1>3, <2>1 DEF Workspace!ScanIsOrdered
<1>6. Workspace!BaseIsOlder'
  <2>1. ASSUME v6 \in Workspace!Using \cup {"confirm"}, NEW f \in Files
        PROVE  v9[f] <= v1'[f]
    <3>1. v9[f] \in Int /\ v9[f] <= v1[f]
      BY <2>1, Versions DEF Workspace!BaseIsOlder, Workspace!Trees
    <3> QED BY <1>3, <3>1
  <2> QED BY <1>1, <2>1 DEF Workspace!BaseIsOlder
<1>7. Workspace!BaseWasTheSource'
  BY <1>1 DEF Workspace!BaseWasTheSource, Workspace!Using, Workspace!Scans, Workspace!AsTree
<1> QED BY <1>1, <1>4, <1>5, <1>6, <1>7 DEF Workspace!PinnedOnce, Workspace!CopyIsOfThePlan,
     Workspace!ResultsAreOfThePlan, Workspace!Overlay, Workspace!PlanChanges, Workspace!AsTree

(* A scan reads a file, which is as it is now. *)
LEMMA WorkspaceRead ==
  ASSUME Workspace!Inv, NEW p \in Files, Workspace!Read(p) PROVE Workspace!Inv'
<1>1. /\ UNCHANGED <<v1, v2, v3, v4, v5, v6, v9, v10, v11, v12, v13, v14>>
      /\ v6 \in Workspace!Scans /\ p \in v7 /\ Workspace!Exists(v1[p])
      /\ v8' = [v8 EXCEPT ![p] = v1[p]] /\ v7' = v7 \ {p}
  BY DEF Workspace!Read, Workspace!user
<1>2. v8' \in Workspace!Trees
  BY <1>1, TreesFit, Versions DEF Workspace!Trees
<1>3. Workspace!TypeOK'
  BY <1>1, <1>2 DEF Workspace!TypeOK
<1>4. Workspace!ScanIsOrdered'
  <2>1. ASSUME NEW f \in Files
        PROVE  /\ v13[f] <= v1[f] /\ v8'[f] <= v1[f]
               /\ Workspace!Exists(v13[f]) =>
                    f \in v7' \/ (v13[f] <= v8'[f] /\ Workspace!Exists(v8'[f]))
               /\ ~Workspace!Exists(v13[f]) => f \notin v7' /\ v8'[f] = Workspace!Missing
    BY <1>1, TreesFit DEF Workspace!ScanIsOrdered
  <2> QED BY <1>1, <2>1 DEF Workspace!ScanIsOrdered
<1> QED BY <1>1, <1>3, <1>4 DEF Workspace!BaseIsOlder, Workspace!BaseWasTheSource,
     Workspace!PinnedOnce, Workspace!CopyIsOfThePlan, Workspace!Scans,
     Workspace!ResultsAreOfThePlan, Workspace!Overlay, Workspace!PlanChanges, Workspace!AsTree
(* A file of the plan is written into the copy. *)
LEMMA WorkspaceWrite ==
  ASSUME Workspace!Inv, NEW p \in Files, Workspace!Write(p) PROVE Workspace!Inv'
<1>1. /\ UNCHANGED <<v1, v2, v3, v4, v5, v6, v8, v9, v11, v12, v13, v14>>
      /\ v6 = "write" /\ p \in v7
      /\ v10' = [v10 EXCEPT ![p] = v3[p]] /\ v7' = v7 \ {p}
  BY DEF Workspace!Write, Workspace!user
<1>2. /\ v7 \subseteq Approved /\ v9 \in Workspace!Trees
      /\ v10 = [f \in Files |-> IF f \in Approved \ v7 THEN v3[f] ELSE v9[f]]
  BY <1>1 DEF Workspace!CopyIsOfThePlan, Workspace!BaseIsOlder, Workspace!Using
<1>3. v10' = [f \in Files |-> IF f \in Approved \ v7' THEN v3[f] ELSE v9[f]]
  BY <1>1, <1>2
<1>4. v10' \in Workspace!Trees
  BY <1>2, <1>3, TreesFit DEF Workspace!Trees
<1>5. Workspace!TypeOK'
  BY <1>1, <1>4 DEF Workspace!TypeOK
<1> QED BY <1>1, <1>2, <1>3, <1>4, <1>5 DEF Workspace!ScanIsOrdered, Workspace!BaseIsOlder,
     Workspace!BaseWasTheSource, Workspace!PinnedOnce, Workspace!CopyIsOfThePlan,
     Workspace!Scans, Workspace!Using, Workspace!ResultsAreOfThePlan, Workspace!Overlay,
     Workspace!PlanChanges, Workspace!AsTree

(* A tool writes into the copy. *)
LEMMA WorkspaceTool ==
  ASSUME Workspace!Inv, NEW p \in Files, Workspace!ToolWrites(p) PROVE Workspace!Inv'
<1>1. /\ UNCHANGED <<v1, v2, v3, v4, v5, v6, v7, v8, v9, v11, v12, v13, v14>>
      /\ v6 = "tools"
      /\ \E v \in {0, MaxVersion + 2} : v10' = [v10 EXCEPT ![p] = v]
  BY Versions DEF Workspace!ToolWrites, Workspace!user
<1>2. v10' \in Workspace!Trees
  BY <1>1, Versions DEF Workspace!CopyIsOfThePlan, Workspace!Using, Workspace!Trees
<1>3. Workspace!TypeOK'
  BY <1>1, <1>2 DEF Workspace!TypeOK
<1> QED BY <1>1, <1>2, <1>3 DEF Workspace!ScanIsOrdered, Workspace!BaseIsOlder,
     Workspace!BaseWasTheSource, Workspace!PinnedOnce, Workspace!CopyIsOfThePlan,
     Workspace!Scans, Workspace!Using, Workspace!ResultsAreOfThePlan, Workspace!Overlay,
     Workspace!PlanChanges, Workspace!AsTree

(* The plan was applied to the base, or the tools left it so: the source is *)
(* scanned again.                                                           *)
LEMMA WorkspaceRescans ==
  ASSUME Workspace!Inv, NEW step \in {"check", "recheck", "exit"}, Workspace!ScanAs(step),
         v6 \in Workspace!Using, UNCHANGED <<v1, v2, v3, v4, v5, v9, v12, v14>>,
         v10' \in Workspace!Trees, v11' \in BOOLEAN,
         v11' = FALSE \/ step # "exit" =>
           v10' = Workspace!Overlay(v9) /\ Workspace!PlanChanges(v9)
  PROVE  Workspace!Inv'
<1>1. /\ Workspace!ScanIsOrdered' /\ v6' = step /\ v13' = v1
      /\ v7' \subseteq Files /\ v8' \in Workspace!Trees
      /\ v13' \in [Files -> 0 .. Workspace!Deleted]
  BY ScanBegins DEF Workspace!Scans
<1>2. Workspace!TypeOK'
  BY <1>1 DEF Workspace!TypeOK, Workspace!Scans
<1>3. Workspace!BaseIsOlder'
  BY <1>1 DEF Workspace!BaseIsOlder, Workspace!Using
<1>4. Workspace!CopyIsOfThePlan'
  BY <1>1 DEF Workspace!CopyIsOfThePlan, Workspace!Overlay, Workspace!PlanChanges
<1> QED BY <1>1, <1>2, <1>3, <1>4 DEF Workspace!BaseWasTheSource, Workspace!PinnedOnce,
     Workspace!Using, Workspace!ResultsAreOfThePlan, Workspace!Overlay,
     Workspace!PlanChanges, Workspace!AsTree

(* The request, and the construction up to the copy. *)
LEMMA WorkspaceRequest == ASSUME Workspace!Inv, Workspace!Request PROVE Workspace!Inv'
<1>1. /\ v6 = "idle" /\ v4 = Workspace!NoTree /\ Workspace!ScanAs("pin")
      /\ UNCHANGED <<v1, v2, v3, v4, v5, v9, v10, v11, v12, v14>>
  BY DEF Workspace!Request, Workspace!user
<1>2. /\ Workspace!ScanIsOrdered' /\ v6' = "pin" /\ v13' = v1
      /\ v7' \subseteq Files /\ v8' \in Workspace!Trees
      /\ v13' \in [Files -> 0 .. Workspace!Deleted]
  BY <1>1, ScanBegins DEF Workspace!Scans
<1>3. Workspace!TypeOK'
  BY <1>1, <1>2 DEF Workspace!TypeOK, Workspace!Scans
<1> QED BY <1>1, <1>2, <1>3 DEF Workspace!BaseIsOlder, Workspace!BaseWasTheSource,
     Workspace!PinnedOnce, Workspace!CopyIsOfThePlan, Workspace!Using, Workspace!Scans,
     Workspace!ResultsAreOfThePlan, Workspace!Overlay, Workspace!PlanChanges, Workspace!AsTree

(* What the request pins is what its scan has read. *)
LEMMA WorkspacePin == ASSUME Workspace!Inv, Workspace!Pin PROVE Workspace!Inv'
<1>1. /\ v6 = "pin" /\ v4' = v8 /\ v6' = "idle" /\ v8 \in Workspace!Trees
      /\ UNCHANGED <<v1, v2, v3, v5, v7, v8, v9, v10, v11, v12, v13, v14>>
  BY DEF Workspace!Pin, Workspace!Scanned, Workspace!user, Workspace!TypeOK
<1>2. v14 = {}
  BY <1>1 DEF Workspace!PinnedOnce
<1>3. Workspace!TypeOK'
  BY <1>1 DEF Workspace!TypeOK
<1> QED BY <1>1, <1>2, <1>3 DEF Workspace!ScanIsOrdered, Workspace!BaseIsOlder,
     Workspace!BaseWasTheSource, Workspace!PinnedOnce, Workspace!CopyIsOfThePlan,
     Workspace!Scans, Workspace!Using, Workspace!ResultsAreOfThePlan

(* A workspace is opened with a scan of its own. *)
LEMMA WorkspaceOpen ==
  ASSUME Workspace!Inv, NEW r \in {"engineer", "validator"}, Workspace!Open(r)
  PROVE  Workspace!Inv'
<1>1. /\ v6 = "idle" /\ v4 # Workspace!NoTree /\ Workspace!ScanAs("capture") /\ v5' = r
      /\ v11' = FALSE /\ v12' = {v1} /\ UNCHANGED <<v1, v2, v3, v4, v9, v10, v14>>
  BY DEF Workspace!Open
<1>2. /\ Workspace!ScanIsOrdered' /\ v6' = "capture" /\ v13' = v1
      /\ v7' \subseteq Files /\ v8' \in Workspace!Trees
      /\ v13' \in [Files -> 0 .. Workspace!Deleted]
  BY <1>1, ScanBegins DEF Workspace!Scans
<1>3. Workspace!TypeOK'
  BY <1>1, <1>2 DEF Workspace!TypeOK, Workspace!Scans
<1> QED BY <1>1, <1>2, <1>3 DEF Workspace!BaseIsOlder, Workspace!BaseWasTheSource,
     Workspace!PinnedOnce, Workspace!CopyIsOfThePlan, Workspace!Using, Workspace!Scans,
     Workspace!ResultsAreOfThePlan, Workspace!Overlay, Workspace!PlanChanges, Workspace!AsTree

(* The base is what was pinned, and is scanned a second time. *)
LEMMA WorkspaceCapture == ASSUME Workspace!Inv, Workspace!Capture PROVE Workspace!Inv'
<1>1. /\ v6 = "capture" /\ v8 = v4 /\ v9' = v8 /\ v10' = v8 /\ Workspace!ScanAs("confirm")
      /\ UNCHANGED <<v1, v2, v3, v4, v5, v11, v12, v14>>
  BY DEF Workspace!Capture, Workspace!Scanned, Workspace!user
<1>2. /\ Workspace!ScanIsOrdered' /\ v6' = "confirm" /\ v13' = v1
      /\ v7' \subseteq Files /\ v8' \in Workspace!Trees
      /\ v13' \in [Files -> 0 .. Workspace!Deleted]
  BY <1>1, ScanBegins DEF Workspace!Scans
<1>3. v8 \in Workspace!Trees /\ \A p \in Files : v8[p] <= v1[p]
  BY <1>1 DEF Workspace!ScanIsOrdered, Workspace!Scans, Workspace!TypeOK
<1>4. Workspace!TypeOK'
  BY <1>1, <1>2, <1>3 DEF Workspace!TypeOK, Workspace!Scans
<1>5. Workspace!BaseIsOlder'
  BY <1>1, <1>2, <1>3 DEF Workspace!BaseIsOlder, Workspace!Using
<1> QED BY <1>1, <1>2, <1>3, <1>4, <1>5 DEF Workspace!BaseWasTheSource,
     Workspace!PinnedOnce, Workspace!CopyIsOfThePlan, Workspace!Using,
     Workspace!ResultsAreOfThePlan, Workspace!Overlay, Workspace!PlanChanges, Workspace!AsTree

(* The second scan agrees: the source was in that state when it began. *)
LEMMA WorkspaceConfirm == ASSUME Workspace!Inv, Workspace!Confirm PROVE Workspace!Inv'
<1>1. /\ v6 = "confirm" /\ v7 = {} /\ v8 = v9 /\ v6' = "write" /\ v7' = Approved
      /\ UNCHANGED <<v1, v2, v3, v4, v5, v8, v9, v10, v11, v12, v13, v14>>
  BY DEF Workspace!Confirm, Workspace!Scanned, Workspace!user
<1>2. v9 = Workspace!AsTree(v13) /\ v13 \in v12
  BY <1>1, ScannedTwice DEF Workspace!BaseIsOlder
<1>3. Workspace!BaseWasTheSource'
  BY <1>1, <1>2 DEF Workspace!BaseWasTheSource, Workspace!AsTree
<1>4. Workspace!TypeOK'
  BY <1>1, Versions DEF Workspace!TypeOK, Workspace!Using
<1>5. v9 \in Workspace!Trees /\ v10 = v9
  BY <1>1 DEF Workspace!BaseIsOlder, Workspace!CopyIsOfThePlan
<1>6. v10 = [f \in Files |-> IF f \in Approved \ Approved THEN v3[f] ELSE v9[f]]
  BY <1>5 DEF Workspace!Trees
<1> QED BY <1>1, <1>3, <1>4, <1>5, <1>6 DEF Workspace!ScanIsOrdered, Workspace!BaseIsOlder,
     Workspace!PinnedOnce, Workspace!CopyIsOfThePlan, Workspace!Scans, Workspace!Using,
     Workspace!ResultsAreOfThePlan, Workspace!Overlay, Workspace!PlanChanges, Workspace!AsTree

(* The audit finds all of the plan in the copy, or the copy is rolled back. *)
LEMMA WorkspaceAudit ==
  ASSUME Workspace!Inv, Workspace!Audit \/ Workspace!Rollback PROVE Workspace!Inv'
<1>1. CASE Workspace!Audit
  <2>1. /\ v6 = "write" /\ v7 = {} /\ Workspace!Changed = Approved
        /\ Workspace!ScanAs("check") /\ UNCHANGED <<v1, v2, v3, v4, v5, v9, v10, v11, v12, v14>>
    BY <1>1 DEF Workspace!Audit, Workspace!Scanned, Workspace!user
  <2>2. v10 = Workspace!Overlay(v9) /\ v10 \in Workspace!Trees
    BY <2>1 DEF Workspace!CopyIsOfThePlan, Workspace!Overlay, Workspace!Using
  <2>3. Workspace!PlanChanges(v9)
    BY <2>1, <2>2, TreesFit DEF Workspace!PlanChanges, Workspace!Changed, Workspace!Overlay
  <2>4. v11' \in BOOLEAN
    BY <2>1 DEF Workspace!TypeOK
  <2> QED BY <2>1, <2>2, <2>3, <2>4, WorkspaceRescans DEF Workspace!Using
<1>2. CASE Workspace!Rollback
  <2>1. /\ v6 \in {"write", "check"} /\ v10' = v9 /\ v11' = TRUE /\ Workspace!ScanAs("exit")
        /\ UNCHANGED <<v1, v2, v3, v4, v5, v9, v12, v14>>
    BY <1>2 DEF Workspace!Rollback, Workspace!Scanned, Workspace!user
  <2>2. v9 \in Workspace!Trees
    BY <2>1 DEF Workspace!BaseIsOlder, Workspace!Using
  <2> QED BY <2>1, <2>2, WorkspaceRescans DEF Workspace!Using
<1> QED BY <1>1, <1>2

(* The source is as it was: the tools may run, or the Engineer is done. *)
LEMMA WorkspaceApplied == ASSUME Workspace!Inv, Workspace!Applied PROVE Workspace!Inv'
<1>1. /\ v6 = "check" /\ v7 = {} /\ v8 = v9
      /\ UNCHANGED <<v1, v2, v3, v4, v5, v9, v10, v11, v12, v14>>
      /\ Workspace!ScanAs("exit") \/ (v6' = "tools" /\ UNCHANGED <<v7, v8, v13>>)
  BY DEF Workspace!Applied, Workspace!Scanned, Workspace!user
<1>2. /\ v10 = Workspace!Overlay(v9) /\ v10 \in Workspace!Trees /\ Workspace!PlanChanges(v9)
      /\ v11 \in BOOLEAN
  BY <1>1 DEF Workspace!CopyIsOfThePlan, Workspace!Using, Workspace!TypeOK
<1>3. CASE Workspace!ScanAs("exit")
  BY <1>1, <1>2, <1>3, WorkspaceRescans DEF Workspace!Using
<1>4. CASE v6' = "tools" /\ UNCHANGED <<v7, v8, v13>>
  <2>1. Workspace!TypeOK'
    BY <1>1, <1>4 DEF Workspace!TypeOK, Workspace!Using
  <2> QED BY <1>1, <1>2, <1>4, <2>1 DEF Workspace!ScanIsOrdered, Workspace!BaseIsOlder,
       Workspace!BaseWasTheSource, Workspace!PinnedOnce, Workspace!CopyIsOfThePlan,
       Workspace!Scans, Workspace!Using, Workspace!ResultsAreOfThePlan, Workspace!Overlay,
       Workspace!PlanChanges, Workspace!AsTree
<1> QED BY <1>1, <1>3, <1>4

(* The copy is audited and the source checked after the tools. *)
LEMMA WorkspaceTools ==
  ASSUME Workspace!Inv, Workspace!AuditTools \/ Workspace!Rechecked \/ Workspace!Reject
  PROVE  Workspace!Inv'
<1>1. v11 \in BOOLEAN
  BY DEF Workspace!TypeOK
<1>2. CASE Workspace!AuditTools
  <2>1. /\ v6 = "tools" /\ v10 = Workspace!Overlay(v9) /\ Workspace!ScanAs("recheck")
        /\ UNCHANGED <<v1, v2, v3, v4, v5, v9, v10, v11, v12, v14>>
    BY <1>2 DEF Workspace!AuditTools, Workspace!user
  <2>2. v10 \in Workspace!Trees /\ Workspace!PlanChanges(v9)
    BY <2>1 DEF Workspace!CopyIsOfThePlan, Workspace!Using
  <2> QED BY <1>1, <2>1, <2>2, WorkspaceRescans DEF Workspace!Using
<1>3. CASE Workspace!Rechecked
  <2>1. /\ v6 = "recheck" /\ Workspace!ScanAs("exit")
        /\ UNCHANGED <<v1, v2, v3, v4, v5, v9, v10, v11, v12, v14>>
    BY <1>3 DEF Workspace!Rechecked, Workspace!Scanned, Workspace!user
  <2>2. v10 = Workspace!Overlay(v9) /\ v10 \in Workspace!Trees /\ Workspace!PlanChanges(v9)
    BY <2>1 DEF Workspace!CopyIsOfThePlan, Workspace!Using
  <2> QED BY <1>1, <2>1, <2>2, WorkspaceRescans DEF Workspace!Using
<1>4. CASE Workspace!Reject
  <2>1. /\ v6 \in {"tools", "recheck"} /\ v11' = TRUE /\ Workspace!ScanAs("exit")
        /\ UNCHANGED <<v1, v2, v3, v4, v5, v9, v10, v12, v14>>
    BY <1>4 DEF Workspace!Reject, Workspace!Scanned, Workspace!user
  <2>2. v10 \in Workspace!Trees
    BY <2>1 DEF Workspace!CopyIsOfThePlan, Workspace!Using
  <2> QED BY <2>1, <2>2, WorkspaceRescans DEF Workspace!Using
<1> QED BY <1>2, <1>3, <1>4

(* What is returned was made while the source stood still. *)
LEMMA WorkspaceExit == ASSUME Workspace!Inv, Workspace!Exit PROVE Workspace!Inv'
<1> DEFINE r == [candidate |-> v10, base |-> v9, still |-> v13]
<1>1. /\ v6 = "exit" /\ Workspace!Close /\ UNCHANGED <<v1, v2, v3, v4, v8, v13>>
      /\ \/ v14' = v14
         \/ v7 = {} /\ ~v11 /\ v8 = v9 /\ v14' = v14 \cup {r}
  BY DEF Workspace!Exit
<1>2. CASE v14' = v14
  BY <1>1, <1>2, WorkspaceCloses
<1>3. CASE v7 = {} /\ ~v11 /\ v8 = v9 /\ v14' = v14 \cup {r}
  <2>1. /\ v9 = v4 /\ v9 \in Workspace!Trees /\ v10 = Workspace!Overlay(v9)
        /\ v10 \in Workspace!Trees /\ Workspace!PlanChanges(v9) /\ v4 # Workspace!NoTree
    BY <1>1, <1>3 DEF Workspace!BaseIsOlder, Workspace!CopyIsOfThePlan, Workspace!Using,
       Workspace!PinnedOnce
  <2>2. v9 = Workspace!AsTree(v13)
    BY <1>1, <1>3, ScannedTwice
  <2>3. v13 \in [Files -> 0 .. Workspace!Deleted]
    BY <1>1 DEF Workspace!ScanIsOrdered, Workspace!Scans, Workspace!TypeOK
  <2>4. /\ r.candidate = v10 /\ r.base = v9 /\ r.still = v13
        /\ r \in [candidate : Workspace!Trees, base : Workspace!Trees,
                  still : [Files -> 0 .. Workspace!Deleted]]
    BY <2>1, <2>3
  <2> HIDE DEF r
  <2>5. Workspace!ResultsAreOfThePlan'
    <3>1. /\ Workspace!PlanChanges(v9) /\ v9 = v4
          /\ r.candidate = Workspace!Overlay(v4) /\ r.base = v4
          /\ Workspace!AsTree(r.still) = r.base
      BY <2>1, <2>2, <2>4
    <3>2. \A tree : /\ Workspace!Overlay(tree)' = Workspace!Overlay(tree)
                    /\ Workspace!PlanChanges(tree)' <=> Workspace!PlanChanges(tree)
      BY <1>1 DEF Workspace!Overlay, Workspace!PlanChanges
    <3>3. \A q \in v14 :
              /\ q.base = v4 /\ q.candidate = Workspace!Overlay(v4)
              /\ Workspace!PlanChanges(q.base) /\ Workspace!AsTree(q.still) = q.base
      BY DEF Workspace!ResultsAreOfThePlan
    <3>4. \A q \in v14' :
              /\ q.base = v4 /\ q.candidate = Workspace!Overlay(v4)
              /\ Workspace!PlanChanges(q.base) /\ Workspace!AsTree(q.still) = q.base
      BY <1>3, <3>1, <3>3
    <3>5. v4' = v4
      BY <1>1
    <3>6. \A tree : Workspace!AsTree(tree)' = Workspace!AsTree(tree)
      BY DEF Workspace!AsTree
    <3> QED BY <3>2, <3>4, <3>5, <3>6 DEF Workspace!ResultsAreOfThePlan
  <2>6. v14' \subseteq [candidate : Workspace!Trees, base : Workspace!Trees,
                        still : [Files -> 0 .. Workspace!Deleted]]
    BY <1>3, <2>4 DEF Workspace!TypeOK
  <2> QED BY <1>1, <2>1, <2>5, <2>6, WorkspaceCloses
<1> QED BY <1>1, <1>2, <1>3

(* A refusal and a crash leave only what was returned before. *)
LEMMA WorkspaceStops ==
  ASSUME Workspace!Inv, Workspace!Refuse \/ Workspace!Crash PROVE Workspace!Inv'
<1>1. Workspace!Close /\ UNCHANGED <<v1, v2, v3, v4, v8, v13, v14>>
  BY DEF Workspace!Refuse, Workspace!Crash
<1> QED BY <1>1, WorkspaceCloses

(* Every action keeps the invariant. *)
LEMMA WorkspaceStep == ASSUME Workspace!Inv, Workspace!Next PROVE Workspace!Inv'
<1> HIDE DEF Workspace!Inv
<1> QED BY WorkspaceEdit, WorkspaceRead, WorkspaceWrite, WorkspaceTool, WorkspaceOpen,
     WorkspaceRequest, WorkspacePin, WorkspaceCapture, WorkspaceConfirm, WorkspaceAudit,
     WorkspaceApplied, WorkspaceTools, WorkspaceExit, WorkspaceStops DEF Workspace!Next

(* A step of another part keeps it. *)
LEMMA WorkspaceKept ==
  ASSUME Workspace!Inv, UNCHANGED <<v1, v2, v3, v4, v5, v6, v7, v8, v9, v10, v11, v12, v13, v14>>
  PROVE  Workspace!Inv'
  BY DEF Workspace!TypeOK, Workspace!ScanIsOrdered, Workspace!BaseIsOlder,
     Workspace!BaseWasTheSource, Workspace!PinnedOnce, Workspace!CopyIsOfThePlan,
     Workspace!ResultsAreOfThePlan, Workspace!Overlay, Workspace!PlanChanges,
     Workspace!AsTree

(* The properties follow from the invariant. *)
LEMMA WorkspaceHolds ==
  ASSUME Workspace!Inv
  PROVE  /\ Workspace!TypeOK /\ Workspace!BaseWasTheSource /\ Workspace!CandidatesAgree
         /\ Workspace!SourceHeldStill /\ Workspace!ExactlyThePlan
<1>1. Workspace!ExactlyThePlan
  <2> SUFFICES ASSUME NEW r \in v14
               PROVE  {p \in Files : r.candidate[p] # r.base[p]} = Approved
    BY DEF Workspace!ExactlyThePlan
  <2>1. r.base = v4 /\ r.candidate = Workspace!Overlay(v4) /\ Workspace!PlanChanges(r.base)
    BY DEF Workspace!ResultsAreOfThePlan
  <2> QED BY <2>1, TreesFit DEF Workspace!Overlay, Workspace!PlanChanges
<1> QED BY <1>1 DEF Workspace!CandidatesAgree, Workspace!SourceHeldStill,
     Workspace!ResultsAreOfThePlan

HIDE DEF Workspace!Inv


-----------------------------------------------------------------------------
(* The Engineer's candidate: v1 is the source, v2 the node, v3 the phase,    *)
(* v4 what was made, v5 leases, v6 calls, v7 runs, v8 the correction, v9 the *)
(* reports, v10 the change set in the graph.                                 *)

USE DEF Engineer!Inv, Engineer!Attempt

(* Plans are partial functions; one that applies covers every path. *)
LEMMA PlansFit ==
  /\ \A d \in Engineer!Plans : \A p \in DOMAIN d : p \in Components /\ d[p] \in Texts
  /\ \A d \in Engineer!Plans : DOMAIN d = Components => d \in [Components -> Texts]
  BY DEF Engineer!Plans

(* What an answer to the first attempt is. *)
LEMMA FirstFits ==
  ASSUME v1 \in Engineer!Trees, NEW run \in Engineer!FirstAnswers
  PROVE  /\ run.proposed \in Engineer!Plans
         /\ Engineer!FilePlan(run) \in [Components -> Texts]
         /\ Engineer!Applies(Engineer!FilePlan(run))
         /\ run.candidate = Engineer!Overlay(Engineer!FilePlan(run), v1)
         /\ run.candidate = Engineer!FilePlan(run)
<1>1. PICK plan \in Engineer!Plans : Engineer!Applies(plan) /\ run = Engineer!FirstRun(plan)
  BY DEF Engineer!FirstAnswers
<1>2. /\ run.proposed = plan /\ run.effective = None
      /\ run.candidate = Engineer!Overlay(plan, v1) /\ Engineer!FilePlan(run) = plan
  BY <1>1 DEF Engineer!FirstRun, Engineer!FilePlan
<1>3. DOMAIN plan = Components /\ plan \in [Components -> Texts]
  BY <1>1, PlansFit DEF Engineer!Applies
<1>4. Engineer!Overlay(plan, v1) = plan
  BY <1>3 DEF Engineer!Overlay, Engineer!Trees
<1> QED BY <1>1, <1>2, <1>3, <1>4

(* What an answer to the second attempt is, of a prior plan and signals.    *)
LEMMA SecondFits ==
  ASSUME v1 \in Engineer!Trees, NEW prior \in [Components -> Texts], NEW signals,
         NEW delta \in Engineer!Plans, Engineer!AppliesOn(delta, prior, signals),
         NEW run, run = Engineer!SecondRun(delta, prior)
  PROVE  /\ run.proposed \in Engineer!Plans
         /\ Engineer!FilePlan(run) \in [Components -> Texts]
         /\ run.candidate = Engineer!FilePlan(run)
         /\ LET repaired == {p \in Components : run.candidate[p] # prior[p]} IN
            /\ \A s \in signals : repaired \cap SignalPaths[s] # {}
            /\ repaired \subseteq Engineer!Allowed(signals)
<1> DEFINE D == {p \in DOMAIN delta : delta[p] # prior[p]}
           material == Engineer!Material(delta, prior)
           effective == Engineer!Overlay(material, prior)
<1>1. /\ DOMAIN material = D /\ \A p \in D : material[p] = delta[p]
      /\ D \subseteq Components /\ \A p \in D : delta[p] \in Texts
  BY PlansFit DEF Engineer!Material
<1>2. /\ effective \in [Components -> Texts]
      /\ \A p \in Components : effective[p] = IF p \in D THEN delta[p] ELSE prior[p]
  BY <1>1 DEF Engineer!Overlay
<1>3. effective # None
  BY <1>2 DEF Engineer!SignalsAssumption
<1>4. /\ run.proposed = delta /\ run.effective = effective
      /\ run.candidate = Engineer!Overlay(effective, v1)
  BY DEF Engineer!SecondRun
<1> HIDE DEF effective
<1>5. Engineer!Overlay(effective, v1) = effective
  BY <1>2 DEF Engineer!Overlay, Engineer!Trees
<1>6. Engineer!FilePlan(run) = effective
  BY <1>3, <1>4 DEF Engineer!FilePlan
<1>7. {p \in Components : run.candidate[p] # prior[p]} = D
  BY <1>1, <1>2, <1>4, <1>5
<1>8. /\ D \subseteq Engineer!Allowed(signals)
      /\ \A s \in signals : D \cap SignalPaths[s] # {}
  BY <1>1 DEF Engineer!AppliesOn
<1> QED BY <1>2, <1>4, <1>5, <1>6, <1>7, <1>8

(* Once attempt one is reported on, its plan is what attempt two rests on. *)
LEMMA PriorFits ==
  ASSUME Engineer!Inv, v9[1] # None
  PROVE  /\ v1 \in Engineer!Trees /\ Engineer!Planned(1)
         /\ Engineer!Expected.prior = Engineer!FilePlan(v7[1])
         /\ Engineer!Expected.signals = v9[1].signals
         /\ Engineer!Expected.prior \in [Components -> Texts]
         /\ v7[1].candidate = Engineer!Expected.prior
<1>1. v1 \in Engineer!Trees /\ Engineer!Planned(1) /\ v7[1] \in Engineer!FirstAnswers
  BY DEF Engineer!TypeOK, Engineer!FirstComesFirst, Engineer!RunsFit, Engineer!Attempts
<1>2. /\ Engineer!Expected.prior = Engineer!FilePlan(v7[1])
      /\ Engineer!Expected.signals = v9[1].signals
  BY DEF Engineer!Expected
<1> QED BY <1>1, <1>2, FirstFits

(* An answer to the second attempt fits what it rests on. *)
LEMMA SecondAnswersFit ==
  ASSUME Engineer!Inv, v9[1] # None, NEW run \in Engineer!SecondAnswers
  PROVE  /\ run.proposed \in Engineer!Plans
         /\ Engineer!FilePlan(run) \in [Components -> Texts]
         /\ run.candidate = Engineer!FilePlan(run)
         /\ LET repaired == {p \in Components : run.candidate[p] # Engineer!Expected.prior[p]}
            IN  /\ \A s \in Engineer!Expected.signals : repaired \cap SignalPaths[s] # {}
                /\ repaired \subseteq Engineer!Allowed(Engineer!Expected.signals)
<1> DEFINE prior == Engineer!Expected.prior
           signals == Engineer!Expected.signals
<1>1. PICK delta \in Engineer!Plans : /\ Engineer!AppliesOn(delta, prior, signals)
                                      /\ run = Engineer!SecondRun(delta, prior)
  BY DEF Engineer!SecondAnswers
<1>2. v1 \in Engineer!Trees /\ prior \in [Components -> Texts]
  BY PriorFits
<1> HIDE DEF prior, signals
<1>3. /\ run.proposed \in Engineer!Plans
      /\ Engineer!FilePlan(run) \in [Components -> Texts]
      /\ run.candidate = Engineer!FilePlan(run)
      /\ LET repaired == {p \in Components : run.candidate[p] # prior[p]} IN
         /\ \A s \in signals : repaired \cap SignalPaths[s] # {}
         /\ repaired \subseteq Engineer!Allowed(signals)
  BY <1>1, <1>2, SecondFits
<1> QED BY <1>3 DEF prior, signals

(* What is an answer stays one while attempt one's evidence does. *)
LEMMA AnswersKept ==
  ASSUME v1' = v1, v7'[1] = v7[1], v9'[1] = v9[1]
  PROVE  /\ Engineer!Expected' = Engineer!Expected
         /\ Engineer!FirstAnswers' = Engineer!FirstAnswers
         /\ Engineer!SecondAnswers' = Engineer!SecondAnswers
<1>1. Engineer!Expected' = Engineer!Expected
  BY DEF Engineer!Expected, Engineer!FilePlan
<1>2. Engineer!FirstAnswers' = Engineer!FirstAnswers
  BY DEF Engineer!FirstAnswers, Engineer!FirstRun, Engineer!Applies, Engineer!Changed,
     Engineer!Overlay
<1>3. Engineer!SecondAnswers' = Engineer!SecondAnswers
  BY <1>1 DEF Engineer!SecondAnswers, Engineer!SecondRun, Engineer!AppliesOn,
     Engineer!Material, Engineer!Applies, Engineer!Changed, Engineer!Overlay, Engineer!Allowed
<1> QED BY <1>1, <1>2, <1>3

-----------------------------------------------------------------------------
(* The node moves, or starts again, and nothing is persisted. *)
Names == {"engineer", "validator", "review", "ended", "failed", "decision_required"}

LEMMA EngineerMoves ==
  ASSUME Engineer!Inv, UNCHANGED <<v1, v5, v6, v7, v8, v9>>,
         v2' \in Names \X Engineer!Attempts, v3' \in {"start", "rebuilt"},
         v3' = "rebuilt" => v2' \in Engineer!Validators,
         v2'[2] = v2[2] \/ (v2'[2] = 2 /\ v9[1] # None),
         v2'[1] = "review" => v9[1] # None,
         v2' \in Engineer!Validators =>
           Engineer!Planned(v2'[2]) /\ v7[v2'[2]].candidate = v10',
         v10' \in Engineer!Trees \cup {None}
  PROVE  Engineer!Inv'
<1>1. /\ Engineer!Expected' = Engineer!Expected
      /\ Engineer!FirstAnswers' = Engineer!FirstAnswers
      /\ Engineer!SecondAnswers' = Engineer!SecondAnswers
      /\ v2' \in Names \X Engineer!Attempts /\ v2'[2] \in Engineer!Attempts
  BY AnswersKept
<1>2. Engineer!TypeOK'
  BY <1>1 DEF Engineer!TypeOK, Engineer!Trees, Engineer!FilePlan, Engineer!Plans
<1>3. Engineer!NodesFit'
  BY DEF Engineer!NodesFit, Names, Engineer!Validators
<1>4. Engineer!LeasedOnce'
  BY DEF Engineer!LeasedOnce
<1>5. Engineer!FirstComesFirst'
  BY <1>1 DEF Engineer!FirstComesFirst, Engineer!Planned, Engineer!Attempts,
     Engineer!Intervention
<1>6. Engineer!RunsFit'
  BY <1>1 DEF Engineer!RunsFit, Engineer!Planned, Engineer!Intervention
<1>7. Engineer!HandedOver' /\ Engineer!ThreadIsPersisted'
  BY DEF Engineer!HandedOver, Engineer!ThreadIsPersisted, Engineer!Planned,
     Engineer!Intervention, Engineer!Validators
<1> QED BY <1>2, <1>3, <1>4, <1>5, <1>6, <1>7 DEF Engineer!ReportIsOfTheCandidate

(* Before the first attempt nothing is persisted. *)
LEMMA EngineerStart == Engineer!Init => Engineer!Inv
<1> SUFFICES ASSUME Engineer!Init PROVE Engineer!Inv
  OBVIOUS
<1>1. /\ v2 = <<"engineer", 1>> /\ v2[1] = "engineer" /\ v2[2] = 1 /\ v3 = "start"
      /\ v5 = {} /\ v8 = None /\ v10 = None /\ v1 \in Engineer!Trees
      /\ v6 = [a \in Engineer!Attempts |-> 0]
      /\ v7 = [a \in Engineer!Attempts |-> None] /\ v9 = [a \in Engineer!Attempts |-> None]
  BY DEF Engineer!Init
<1>2. Engineer!Attempts = {1, 2}
  BY DEF Engineer!Attempts
<1>3. \A a \in {1, 2} : ~Engineer!Planned(a) /\ v9[a] = None /\ v6[a] = 0
  BY <1>1, <1>2 DEF Engineer!Planned
<1>4. Engineer!TypeOK
  BY <1>1, <1>2, <1>3 DEF Engineer!TypeOK, Engineer!Planned
<1> QED BY <1>1, <1>2, <1>3, <1>4 DEF Engineer!NodesFit, Engineer!LeasedOnce,
     Engineer!FirstComesFirst, Engineer!RunsFit, Engineer!HandedOver,
     Engineer!ReportIsOfTheCandidate, Engineer!ThreadIsPersisted, Engineer!Validators

(* A step of another part keeps it. *)
LEMMA EngineerKept ==
  ASSUME Engineer!Inv, UNCHANGED <<v1, v2, v3, v4, v5, v6, v7, v8, v9, v10>>
  PROVE  Engineer!Inv'
<1>1. /\ Engineer!Expected' = Engineer!Expected
      /\ Engineer!FirstAnswers' = Engineer!FirstAnswers
      /\ Engineer!SecondAnswers' = Engineer!SecondAnswers
  BY AnswersKept
<1> QED BY <1>1 DEF Engineer!TypeOK, Engineer!NodesFit, Engineer!LeasedOnce,
     Engineer!FirstComesFirst, Engineer!RunsFit, Engineer!HandedOver, Engineer!Planned,
     Engineer!ReportIsOfTheCandidate, Engineer!ThreadIsPersisted, Engineer!Intervention,
     Engineer!FilePlan

(* The context of attempt two is written once. *)
LEMMA EngineerPrepares ==
  ASSUME Engineer!Inv, Engineer!PrepareEngineer PROVE Engineer!Inv'
<1>1. /\ v2 \in Engineer!Engineers /\ v3 = "start" /\ v3' = "prepared"
      /\ UNCHANGED <<v1, v2, v4, v5, v6, v7, v9, v10>>
      /\ v8' = v8 \/ (v2[2] = 2 /\ v8' = Engineer!Expected)
  BY DEF Engineer!PrepareEngineer
<1>2. /\ Engineer!Expected' = Engineer!Expected
      /\ Engineer!FirstAnswers' = Engineer!FirstAnswers
      /\ Engineer!SecondAnswers' = Engineer!SecondAnswers
  BY <1>1, AnswersKept
<1>3. v8' # v8 => Engineer!Expected.prior \in [Components -> Texts]
  BY <1>1, PriorFits DEF Engineer!FirstComesFirst
<1>4. Engineer!TypeOK'
  BY <1>1, <1>3 DEF Engineer!TypeOK, Engineer!FilePlan, Engineer!Intervention
<1>5. Engineer!FirstComesFirst'
  BY <1>1, <1>2 DEF Engineer!FirstComesFirst, Engineer!Planned, Engineer!Intervention
<1> QED BY <1>1, <1>2, <1>4, <1>5 DEF Engineer!NodesFit, Engineer!LeasedOnce,
     Engineer!RunsFit, Engineer!HandedOver, Engineer!Planned, Engineer!Engineers,
     Engineer!ReportIsOfTheCandidate, Engineer!ThreadIsPersisted, Engineer!Intervention

(* A lease is claimed once for an attempt, on its evidence. *)
LEMMA EngineerClaims == ASSUME Engineer!Inv, Engineer!Claim PROVE Engineer!Inv'
<1>1. /\ v2 \in Engineer!Engineers /\ v3 = "prepared" /\ v3' = "claimed" /\ v7[v2[2]] = None
      /\ v2[2] = 2 => v8 = Engineer!Expected
      /\ v2[2] \notin v5 /\ v5' = v5 \cup {v2[2]}
      /\ UNCHANGED <<v1, v2, v4, v6, v7, v8, v9, v10>>
  BY DEF Engineer!Claim, Engineer!CorrectionStands, Engineer!Unclaimed
<1>2. /\ Engineer!Expected' = Engineer!Expected
      /\ Engineer!FirstAnswers' = Engineer!FirstAnswers
      /\ Engineer!SecondAnswers' = Engineer!SecondAnswers
  BY <1>1, AnswersKept
<1>3. v2[2] \in Engineer!Attempts /\ v2[2] \in {1, 2}
  BY DEF Engineer!TypeOK, Engineer!Attempts
<1>4. Engineer!TypeOK'
  BY <1>1, <1>3 DEF Engineer!TypeOK, Engineer!FilePlan, Engineer!Intervention
<1>5. Engineer!FirstComesFirst'
  BY <1>1, <1>2, <1>3 DEF Engineer!FirstComesFirst, Engineer!Planned, Engineer!Intervention
<1>6. Engineer!LeasedOnce'
  BY <1>1, <1>3 DEF Engineer!LeasedOnce
<1> QED BY <1>1, <1>2, <1>4, <1>5, <1>6 DEF Engineer!NodesFit, Engineer!RunsFit,
     Engineer!HandedOver, Engineer!Planned, Engineer!Engineers,
     Engineer!ReportIsOfTheCandidate, Engineer!ThreadIsPersisted, Engineer!Intervention

(* The model is asked, for the first time in this attempt. *)
LEMMA EngineerImplements == ASSUME Engineer!Inv, Engineer!Implement PROVE Engineer!Inv'
<1>1. /\ v2 \in Engineer!Engineers /\ v3 = "claimed" /\ v3' = "made"
      /\ v4' \in Engineer!Answers /\ v6' = [v6 EXCEPT ![v2[2]] = @ + 1]
      /\ UNCHANGED <<v1, v2, v5, v7, v8, v9, v10>>
  BY DEF Engineer!Implement
<1>2. /\ Engineer!Expected' = Engineer!Expected
      /\ Engineer!FirstAnswers' = Engineer!FirstAnswers
      /\ Engineer!SecondAnswers' = Engineer!SecondAnswers
  BY <1>1, AnswersKept
<1>3. v2[2] \in Engineer!Attempts /\ v2[2] \in {1, 2}
  BY DEF Engineer!TypeOK, Engineer!Attempts
<1>4. v4' \in IF v2[2] = 1 THEN Engineer!FirstAnswers \cup {Engineer!Intervention}
              ELSE Engineer!SecondAnswers
  BY <1>1, <1>3 DEF Engineer!Answers, Engineer!FirstAnswers, Engineer!SecondAnswers,
     Engineer!FirstComesFirst
<1>5. v6' \in [Engineer!Attempts -> Nat] /\ Engineer!LeasedOnce'
  BY <1>1, <1>3 DEF Engineer!LeasedOnce, Engineer!TypeOK
<1>6. Engineer!TypeOK'
  BY <1>1, <1>3, <1>5 DEF Engineer!TypeOK, Engineer!FilePlan, Engineer!Intervention
<1>7. Engineer!FirstComesFirst'
  BY <1>1, <1>2, <1>3 DEF Engineer!FirstComesFirst, Engineer!Planned, Engineer!Intervention
<1>8. Engineer!RunsFit'
  BY <1>1, <1>2, <1>4 DEF Engineer!RunsFit, Engineer!Planned, Engineer!Intervention
<1> QED BY <1>1, <1>2, <1>5, <1>6, <1>7, <1>8 DEF Engineer!NodesFit,
     Engineer!HandedOver, Engineer!Planned, Engineer!Engineers,
     Engineer!ReportIsOfTheCandidate, Engineer!ThreadIsPersisted, Engineer!Intervention

(* What is persisted is an answer, and nothing was reported on it yet. *)
LEMMA EngineerPersists == ASSUME Engineer!Inv, Engineer!PersistRun PROVE Engineer!Inv'
<1>1. /\ v2 \in Engineer!Engineers /\ v3 = "made" /\ v3' = "persisted"
      /\ v7' = [v7 EXCEPT ![v2[2]] = v4]
      /\ UNCHANGED <<v1, v2, v4, v5, v6, v8, v9, v10>>
  BY DEF Engineer!PersistRun
<1>2. v2[2] \in Engineer!Attempts /\ v2[2] \in {1, 2} /\ Engineer!Attempts = {1, 2}
  BY DEF Engineer!TypeOK, Engineer!Attempts
<1>3. /\ v7 = [a \in Engineer!Attempts |-> v7[a]] /\ v7[v2[2]] = None
      /\ v4 \in IF v2[2] = 1 THEN Engineer!FirstAnswers \cup {Engineer!Intervention}
                ELSE Engineer!SecondAnswers
  BY <1>1 DEF Engineer!RunsFit
<1>4. /\ v7'[v2[2]] = v4 /\ \A a \in Engineer!Attempts : a # v2[2] => v7'[a] = v7[a]
      /\ v7' = [a \in Engineer!Attempts |-> v7'[a]]
  BY <1>1, <1>2, <1>3
<1>5. v9[v2[2]] = None
  BY <1>2, <1>3 DEF Engineer!FirstComesFirst, Engineer!Planned
<1>6. v4 # Engineer!Intervention =>
        /\ v4.proposed \in Engineer!Plans /\ Engineer!FilePlan(v4) \in [Components -> Texts]
  <2>1. v1 \in Engineer!Trees
    BY DEF Engineer!TypeOK
  <2>2. CASE v2[2] = 1
    BY <1>3, <2>1, <2>2, FirstFits
  <2>3. CASE v2[2] = 2
    BY <1>3, <2>3, SecondAnswersFit DEF Engineer!FirstComesFirst
  <2> QED BY <1>2, <2>2, <2>3
<1>7. Engineer!TypeOK'
  BY <1>1, <1>2, <1>4, <1>6 DEF Engineer!TypeOK, Engineer!FilePlan, Engineer!Intervention
<1>8. CASE v2[2] = 1
  <2>1. /\ Engineer!FirstAnswers' = Engineer!FirstAnswers
        /\ v7[2] = None /\ v9[1] = None /\ v9[2] = None /\ v8 = None
    BY <1>1, <1>5, <1>8 DEF Engineer!FirstComesFirst, Engineer!FirstAnswers,
       Engineer!FirstRun, Engineer!Applies, Engineer!Changed, Engineer!Overlay
  <2>2. Engineer!FirstComesFirst'
    BY <1>1, <1>2, <1>4, <1>8, <2>1 DEF Engineer!FirstComesFirst
  <2>3. Engineer!RunsFit'
    BY <1>1, <1>2, <1>3, <1>4, <1>8, <2>1 DEF Engineer!RunsFit, Engineer!Planned,
       Engineer!Intervention
  <2> QED BY <1>1, <1>2, <1>4, <1>5, <1>7, <1>8, <2>1, <2>2, <2>3 DEF Engineer!NodesFit,
       Engineer!LeasedOnce, Engineer!HandedOver, Engineer!Engineers, Engineer!Validators,
       Engineer!ReportIsOfTheCandidate, Engineer!ThreadIsPersisted
<1>9. CASE v2[2] = 2
  <2>1. /\ Engineer!Expected' = Engineer!Expected
        /\ Engineer!FirstAnswers' = Engineer!FirstAnswers
        /\ Engineer!SecondAnswers' = Engineer!SecondAnswers
        /\ v7'[1] = v7[1]
    BY <1>1, <1>2, <1>4, <1>9, AnswersKept
  <2>2. Engineer!FirstComesFirst'
    BY <1>1, <1>2, <1>4, <1>5, <1>9, <2>1 DEF Engineer!FirstComesFirst, Engineer!Planned,
       Engineer!Intervention
  <2>3. Engineer!RunsFit'
    BY <1>1, <1>2, <1>3, <1>4, <1>9, <2>1 DEF Engineer!RunsFit, Engineer!Planned,
       Engineer!Intervention
  <2> QED BY <1>1, <1>2, <1>4, <1>5, <1>7, <1>9, <2>1, <2>2, <2>3 DEF Engineer!NodesFit,
       Engineer!LeasedOnce, Engineer!HandedOver, Engineer!Engineers, Engineer!Validators,
       Engineer!ReportIsOfTheCandidate, Engineer!ThreadIsPersisted
<1> QED BY <1>2, <1>8, <1>9

(* A report is of the candidate that was handed over. *)
LEMMA EngineerValidates == ASSUME Engineer!Inv, Engineer!Validate PROVE Engineer!Inv'
<1>1. /\ v2 \in Engineer!Validators /\ v3 = "rebuilt" /\ v3' = "reported" /\ v4 = v10
      /\ UNCHANGED <<v1, v2, v4, v5, v6, v7, v8, v10>>
  BY DEF Engineer!Validate, Engineer!Audited
<1>2. PICK v \in Engineer!Verdicts :
        v9' = [v9 EXCEPT ![v2[2]] =
                 [disposition |-> v.disposition, signals |-> v.signals, candidate |-> v4]]
  BY DEF Engineer!Validate
<1>3. v.signals \subseteq Signals
  BY DEF Engineer!Verdicts
<1>4. v2[2] \in Engineer!Attempts /\ v2[2] \in {1, 2} /\ Engineer!Attempts = {1, 2}
  BY DEF Engineer!TypeOK, Engineer!Attempts
<1>5. /\ v9' = [a \in Engineer!Attempts |-> v9'[a]]
      /\ \A a \in Engineer!Attempts : a # v2[2] => v9'[a] = v9[a]
      /\ v9'[v2[2]].signals = v.signals /\ v9'[v2[2]].candidate = v4
  BY <1>2, <1>4 DEF Engineer!RunsFit
<1>6. Engineer!Planned(v2[2]) /\ v7[v2[2]].candidate = v10
  BY <1>1 DEF Engineer!HandedOver, Engineer!ThreadIsPersisted
<1>7. Engineer!TypeOK'
  BY <1>1 DEF Engineer!TypeOK, Engineer!FilePlan, Engineer!Intervention
<1>8. /\ v2[2] = 1 => v7[2] = None /\ v8 = None
      /\ v2[2] = 2 => /\ Engineer!Expected' = Engineer!Expected
                      /\ Engineer!SecondAnswers' = Engineer!SecondAnswers
  BY <1>1, <1>4, <1>5, AnswersKept DEF Engineer!FirstComesFirst
<1>9. Engineer!FirstAnswers' = Engineer!FirstAnswers
  BY <1>1 DEF Engineer!FirstAnswers, Engineer!FirstRun, Engineer!Applies,
     Engineer!Changed, Engineer!Overlay
<1>10. Engineer!FirstComesFirst'
  <2>1. v2[2] = 2 => v9'[1] = v9[1] /\ v9[1] # None
    BY <1>4, <1>5 DEF Engineer!FirstComesFirst
  <2>2. v2[1] = "validator"
    BY <1>1 DEF Engineer!Validators
  <2> QED BY <1>1, <1>4, <1>5, <1>6, <1>8, <2>1, <2>2 DEF Engineer!FirstComesFirst,
       Engineer!Planned, Engineer!Intervention
<1>11. Engineer!RunsFit'
  BY <1>1, <1>3, <1>4, <1>5, <1>8, <1>9 DEF Engineer!RunsFit, Engineer!Planned,
     Engineer!Intervention
<1> QED BY <1>1, <1>4, <1>5, <1>6, <1>7, <1>10, <1>11 DEF Engineer!NodesFit,
     Engineer!LeasedOnce, Engineer!HandedOver, Engineer!Planned, Engineer!Intervention,
     Engineer!ReportIsOfTheCandidate, Engineer!ThreadIsPersisted

(* Every action keeps the invariant. *)
LEMMA EngineerStep == ASSUME Engineer!Inv, Engineer!Next PROVE Engineer!Inv'
<1>1. v2 \in Names \X Engineer!Attempts /\ v2[2] \in Engineer!Attempts
  BY DEF Engineer!NodesFit, Names
<1>2. v10 \in Engineer!Trees \cup {None} /\ v1 \in Engineer!Trees
  BY DEF Engineer!TypeOK
<1>3. CASE Engineer!ReturnRun
  <2>1. PICK w \in {"decision_required", "validator"} :
          /\ v2' = <<w, v2[2]>> /\ v3' = "start"
          /\ UNCHANGED <<v1, v5, v6, v7, v8, v9>>
          /\ w = "validator" => Engineer!Planned(v2[2]) /\ v10' = v7[v2[2]].candidate
          /\ w = "decision_required" => v10' = v10
    BY <1>3 DEF Engineer!ReturnRun, Engineer!Outcome, Engineer!Planned
  <2>2. Engineer!Planned(v2[2]) => v7[v2[2]].candidate \in Engineer!Trees
    <3>1. ASSUME NEW f \in [Components -> Texts] PROVE f \in Engineer!Trees
      BY DEF Engineer!Trees
    <3>2. Engineer!Planned(1) => v7[1].candidate \in Engineer!Trees
      BY <1>2, <3>1, FirstFits DEF Engineer!RunsFit
    <3>3. v2[2] = 2 /\ Engineer!Planned(2) => v7[2].candidate \in Engineer!Trees
      BY <3>1, SecondAnswersFit DEF Engineer!RunsFit, Engineer!FirstComesFirst
    <3> QED BY <1>1, <3>2, <3>3 DEF Engineer!Attempts
  <2> QED BY <1>1, <1>2, <2>1, <2>2, EngineerMoves DEF Names, Engineer!Validators
<1>4. CASE Engineer!Rebuild \/ Engineer!Disturb
  BY <1>1, <1>2, <1>4, EngineerMoves DEF Engineer!Rebuild, Engineer!Disturb,
     Engineer!HandedOver, Engineer!ThreadIsPersisted, Engineer!FirstComesFirst
<1>5. CASE Engineer!ReturnReport
  <2>1. PICK w \in {"review", "ended"} :
          /\ v2' = <<w, v2[2]>> /\ v3' = "start"
          /\ UNCHANGED <<v1, v5, v6, v7, v8, v9, v10>>
          /\ w = "review" => v9[1] # None
    BY <1>5 DEF Engineer!ReturnReport
  <2> QED BY <1>1, <1>2, <2>1, EngineerMoves DEF Names, Engineer!Validators
<1>6. CASE Engineer!Review
  <2>1. /\ v2 = <<"review", 1>> /\ v2[1] = "review" /\ v9[1] # None
        /\ v2' \in {<<"engineer", 2>>, <<"ended", 1>>}
        /\ UNCHANGED <<v1, v3, v5, v6, v7, v8, v9, v10>>
    BY <1>6 DEF Engineer!Review, Engineer!FirstComesFirst
  <2>2. v3 = "start"
    BY <2>1 DEF Engineer!NodesFit, Engineer!TypeOK, Engineer!Engineers, Engineer!Validators
  <2> QED BY <1>1, <1>2, <2>1, <2>2, EngineerMoves DEF Names, Engineer!Validators,
       Engineer!Attempts
<1>7. CASE Engineer!Raise
  BY <1>1, <1>2, <1>7, EngineerMoves DEF Engineer!Raise, Names, Engineer!Validators
<1>8. CASE Engineer!Crash
  BY <1>1, <1>2, <1>8, EngineerMoves DEF Engineer!Crash, Engineer!HandedOver,
     Engineer!ThreadIsPersisted, Engineer!FirstComesFirst
<1> HIDE DEF Engineer!Inv
<1> QED BY <1>3, <1>4, <1>5, <1>6, <1>7, <1>8, EngineerPrepares, EngineerClaims,
     EngineerImplements, EngineerPersists, EngineerValidates DEF Engineer!Next

(* The properties follow from the invariant. *)
LEMMA EngineerHolds ==
  ASSUME Engineer!Inv
  PROVE  /\ Engineer!TypeOK /\ Engineer!OneModelCall /\ Engineer!RetryRepairsEverySignal
         /\ Engineer!ReportIsOfTheCandidate /\ Engineer!ThreadIsPersisted
<1>1. Engineer!OneModelCall
  BY DEF Engineer!OneModelCall, Engineer!LeasedOnce
<1>2. Engineer!RetryRepairsEverySignal
  <2> SUFFICES ASSUME Engineer!Planned(2)
               PROVE  LET repaired == {p \in Components : v7[2].candidate[p] # v7[1].candidate[p]}
                      IN  /\ \A s \in v9[1].signals : repaired \cap SignalPaths[s] # {}
                          /\ repaired \subseteq Engineer!Allowed(v9[1].signals)
    BY DEF Engineer!RetryRepairsEverySignal
  <2>1. v9[1] # None
    BY DEF Engineer!FirstComesFirst, Engineer!TypeOK, Engineer!Attempts, Engineer!Planned
  <2>2. v7[2] \in Engineer!SecondAnswers
    BY DEF Engineer!RunsFit
  <2> QED BY <2>1, <2>2, SecondAnswersFit, PriorFits
<1> QED BY <1>1, <1>2

HIDE CandidateAssumption DEF Engineer!Inv, Engineer!Attempt

-----------------------------------------------------------------------------
(* The two parts together. *)
CandidateInv == /\ part = "engineer" => Engineer!Inv
                /\ part = "workspace" => Workspace!Inv

(* The candidate that is validated is the approved one: for any manifest,    *)
(* any signals, any source and any edits of it to new contents, across       *)
(* crashes, the model is asked once for each attempt, its plan is rebuilt as *)
(* persisted, a correction repairs every signal and nothing else, and a      *)
(* workspace is a copy of a state the source was in, plus exactly the plan.  *)
(* (_engineer_outcome, apply_engineer_correction_delta, IsolatedWorkspace)   *)
THEOREM CandidateApproved == Spec => []CandidateIsTheApproved
<1>1. Init => CandidateInv
  BY EngineerStart, WorkspaceStart DEF Init, CandidateInv
<1>2. CandidateInv /\ [Next]_all => CandidateInv'
  <2>1. ASSUME CandidateInv, [Next]_all, part' = "engineer" PROVE Engineer!Inv'
    <3>1. CASE EngineerActs
      BY <2>1, <3>1, EngineerStep DEF EngineerActs, Rest11, Rest15, CandidateInv
    <3>2. CASE UNCHANGED all
      BY <2>1, <3>2, EngineerKept DEF all, CandidateInv
    <3> QED BY <2>1, <3>1, <3>2 DEF Next, WorkspaceActs, RunnerActs, CorrectionActs,
         SalesforceActs, MuleActs, Rest11, Rest15
  <2>2. ASSUME CandidateInv, [Next]_all, part' = "workspace" PROVE Workspace!Inv'
    <3>1. CASE WorkspaceActs
      BY <2>2, <3>1, WorkspaceStep DEF WorkspaceActs, Rest15, CandidateInv
    <3>2. CASE UNCHANGED all
      BY <2>2, <3>2, WorkspaceKept DEF all, CandidateInv
    <3> QED BY <2>2, <3>1, <3>2 DEF Next, EngineerActs, RunnerActs, CorrectionActs,
         SalesforceActs, MuleActs, Rest11, Rest15
  <2> QED BY <2>1, <2>2 DEF CandidateInv
<1>3. CandidateInv => CandidateIsTheApproved
  BY EngineerHolds, WorkspaceHolds DEF CandidateInv, CandidateIsTheApproved
<1> QED BY <1>1, <1>2, <1>3, PTL DEF Spec

-----------------------------------------------------------------------------
(* The Salesforce validations.                                              *)

USE ValidationAssumption DEF Salesforce!EpochsAssumption

(* The seven commands, in their order. *)
LEMMA SalesforceCommands ==
  /\ Salesforce!CommandIds = {"candidate", "closure", "toolchain", "probe", "jest",
                              "controller", "fingerprint"}
  /\ DOMAIN Salesforce!Commands = 1..7
  /\ \A i \in 1..7 : /\ Salesforce!Commands[i] = "probe" <=> i = 4
                     /\ Salesforce!Commands[i] = "toolchain" <=> i = 3
                     /\ Salesforce!Commands[i] \in Salesforce!CommandIds
BY DEF Salesforce!CommandIds, Salesforce!Commands

(* The cardinality the theorems are about. *)
LEMMA SameCardinality == \A S : Salesforce!Cardinality(S) = Cardinality(S)
BY DEF Salesforce!Cardinality, Cardinality

(* At first nothing was looked at or reported. *)
LEMMA SalesforceStart == Salesforce!Init => Salesforce!Inv
<1> SUFFICES ASSUME Salesforce!Init PROVE Salesforce!Inv
  OBVIOUS
<1> USE DEF Salesforce!Init
<1>1. Salesforce!TypeOK
  BY DEF Salesforce!TypeOK, Salesforce!Hosts, Salesforce!Things
<1>2. Salesforce!EpochsBounded
  BY FS_EmptySet, SameCardinality DEF Salesforce!EpochsBounded
<1> QED BY <1>1, <1>2 DEF Salesforce!Inv, Salesforce!ChangesAreCounted, Salesforce!InOrder,
     Salesforce!BindingFits, Salesforce!SeenFits, Salesforce!ReportsFit,
     Salesforce!CandidateHeldStill, Salesforce!Things

(* A step of another part keeps it. *)
LEMMA SalesforceKept ==
  ASSUME Salesforce!Inv, UNCHANGED Salesforce!vars PROVE Salesforce!Inv'
BY DEF Salesforce!Inv, Salesforce!vars, Salesforce!TypeOK, Salesforce!ChangesAreCounted,
   Salesforce!InOrder, Salesforce!BindingFits, Salesforce!SeenFits, Salesforce!ReportsFit,
   Salesforce!CandidateHeldStill, Salesforce!EpochsBounded, Salesforce!Capacity

(* What changes under a validation gets a version no look had. *)
LEMMA SalesforceChanges ==
  ASSUME Salesforce!Inv, NEW t \in Salesforce!Things, Salesforce!Change(t)
  PROVE  Salesforce!Inv'
<1> USE DEF Salesforce!Inv, Salesforce!Change
<1>1. /\ v3 < HostChanges /\ v3 \in Nat /\ v3' = v3 + 1
      /\ v2 \in [Salesforce!Things -> 0..HostChanges]
      /\ v2' = [v2 EXCEPT ![t] = @ + 1]
      /\ UNCHANGED <<v1, v4, v5, v6, v7, v8, v9, v10, v11, v12, v13, v14, v15, v16, v17, v18>>
  BY DEF Salesforce!TypeOK
<1>2. \A s \in Salesforce!Things :
        v2[s] \in 0..HostChanges /\ v2'[s] \in v2[s]..v2[s] + 1 /\ v2'[s] <= v3'
  BY <1>1 DEF Salesforce!ChangesAreCounted
<1>3. Salesforce!TypeOK'
  BY <1>1 , <1>2 DEF Salesforce!TypeOK, Salesforce!ChangesAreCounted
<1>4. Salesforce!InOrder' /\ Salesforce!ReportsFit' /\ Salesforce!CandidateHeldStill'
      /\ Salesforce!EpochsBounded' /\ Salesforce!ChangesAreCounted'
  BY <1>1, <1>2 DEF Salesforce!InOrder, Salesforce!ReportsFit, Salesforce!CandidateHeldStill,
     Salesforce!EpochsBounded, Salesforce!ChangesAreCounted
<1>5. Salesforce!BindingFits'
  BY <1>1, <1>2 DEF Salesforce!BindingFits, Salesforce!Capacity, Salesforce!Things
<1>6. Salesforce!SeenFits'
  BY <1>1, <1>2 DEF Salesforce!SeenFits, Salesforce!Things
<1> QED BY <1>3, <1>4, <1>5, <1>6

(* The policy is another one. *)
LEMMA SalesforceSubstitutes ==
  ASSUME Salesforce!Inv, Salesforce!Substitute PROVE Salesforce!Inv'
<1> USE DEF Salesforce!Inv, Salesforce!Substitute
<1>1. /\ v3 < HostChanges /\ v3 \in Nat /\ v3' = v3 + 1 /\ v13' \in {"none", "other"}
      /\ UNCHANGED <<v1, v2, v4, v5, v6, v7, v8, v9, v10, v11, v12, v14, v15, v16, v17, v18>>
  BY DEF Salesforce!TypeOK
<1>2. Salesforce!TypeOK' /\ Salesforce!ChangesAreCounted'
  BY <1>1 DEF Salesforce!TypeOK, Salesforce!ChangesAreCounted, Salesforce!Things
<1> QED BY <1>1, <1>2 DEF Salesforce!InOrder, Salesforce!BindingFits, Salesforce!Capacity,
     Salesforce!SeenFits, Salesforce!ReportsFit, Salesforce!CandidateHeldStill,
     Salesforce!EpochsBounded

(* A validator binds what it finds, or what is bound already. *)
LEMMA SalesforceBuilds ==
  ASSUME Salesforce!Inv, Salesforce!Build PROVE Salesforce!Inv'
<1> USE DEF Salesforce!Inv, Salesforce!Build
<1>1. /\ v8 = None /\ v8'.node \in Nat \cup {None} /\ v9 = "idle"
      /\ UNCHANGED <<v1, v2, v3, v5, v6, v7, v9, v10, v11, v12, v13, v14, v15, v16, v17, v18>>
  BY DEF Salesforce!TypeOK, Salesforce!Things
<1>2. v17 = {} /\ v16 = {} /\ v14 = None
  BY <1>1 DEF Salesforce!InOrder
<1> QED BY <1>1, <1>2 DEF Salesforce!TypeOK, Salesforce!ChangesAreCounted, Salesforce!InOrder,
     Salesforce!BindingFits, Salesforce!Capacity,
     Salesforce!SeenFits, Salesforce!ReportsFit, Salesforce!CandidateHeldStill,
     Salesforce!EpochsBounded

(* An epoch begins. *)
LEMMA SalesforcePrepares ==
  ASSUME Salesforce!Inv, Salesforce!Prepare PROVE Salesforce!Inv'
<1> USE DEF Salesforce!Inv, Salesforce!Prepare
<1>1. /\ v8 # None /\ v9 = "idle" /\ v9' = "prepared" /\ v10' = v10 + 1 /\ v13' = "ours"
      /\ v2' = [v2 EXCEPT !["candidate"] = 0] /\ v11'.candidate = 0
      /\ v12' = None /\ v15' = 1 /\ v16' = {} /\ v17' = {}
      /\ v2 \in [Salesforce!Things -> 0..HostChanges]
      /\ UNCHANGED <<v1, v3, v4, v5, v6, v7, v8, v14, v18>>
  BY DEF Salesforce!TypeOK, Salesforce!NewEpoch, Salesforce!CreateBoundary
<1>2. /\ \A s \in Salesforce!Things : v2'[s] \in {v2[s], 0}
      /\ v2' \in [Salesforce!Things -> 0..HostChanges]
  <2>1. HostChanges \in Nat /\ 0 \in 0..HostChanges
    OBVIOUS
  <2> QED BY <1>1, <2>1
<1>3. v14 = None /\ v10 \in Nat
  BY <1>1 DEF Salesforce!InOrder
<1>4. Salesforce!TypeOK' /\ Salesforce!ChangesAreCounted'
  BY <1>1, <1>2, <1>3 DEF Salesforce!TypeOK, Salesforce!ChangesAreCounted
<1> QED BY <1>1, <1>2, <1>3, <1>4 DEF Salesforce!InOrder, Salesforce!BindingFits,
     Salesforce!SeenFits, Salesforce!ReportsFit, Salesforce!CandidateHeldStill,
     Salesforce!EpochsBounded

(* What is looked at is specified of what is bound. *)
LEMMA SalesforceSpecifies ==
  ASSUME Salesforce!Inv, Salesforce!Specify PROVE Salesforce!Inv'
<1> USE DEF Salesforce!Inv, Salesforce!Specify
<1>1. /\ v9 = "prepared" /\ v9' = "commands"
      /\ v12' = None \/ (v12' = Salesforce!Binding /\ Salesforce!Capacity)
      /\ v8 # None /\ v8.node \in Nat \cup {None} /\ v11.candidate = 0
      /\ UNCHANGED <<v1, v2, v3, v4, v5, v6, v7, v8, v10, v11, v13, v14, v15, v16, v17, v18>>
  BY DEF Salesforce!TypeOK, Salesforce!BindingFits, Salesforce!InOrder
<1>2. /\ Salesforce!Binding \in [Salesforce!Bound -> Nat \cup {None}]
      /\ Salesforce!Binding["toolchain"] = v2["toolchain"]
      /\ v2["toolchain"] \in Nat
  BY <1>1 DEF Salesforce!Binding, Salesforce!Bound, Salesforce!TypeOK, Salesforce!Things
<1>3. v16 = {} /\ v17 = {} /\ v14 = None
  BY <1>1 DEF Salesforce!InOrder
<1>4. Salesforce!Capacity => Salesforce!Capacity'
  BY <1>1 DEF Salesforce!Capacity
<1> QED BY <1>1, <1>2, <1>3, <1>4 DEF Salesforce!TypeOK, Salesforce!ChangesAreCounted,
     Salesforce!InOrder, Salesforce!BindingFits,
     Salesforce!SeenFits, Salesforce!ReportsFit, Salesforce!CandidateHeldStill,
     Salesforce!EpochsBounded

(* A command that is blocked passes nothing. *)
LEMMA SalesforceBlocks ==
  ASSUME Salesforce!Inv, NEW c \in Salesforce!CommandIds, Salesforce!Block(c)
  PROVE  Salesforce!Inv'
<1> USE DEF Salesforce!Inv, Salesforce!Block
<1>1. /\ v9 = "commands" /\ v14 = None /\ v15 \in 1..7 /\ v15' = v15 + 1
      /\ UNCHANGED <<v1, v2, v3, v4, v5, v6, v7, v8, v9, v10, v11, v12, v13, v14, v16, v17, v18>>
  BY SalesforceCommands DEF Salesforce!Following
<1> QED BY <1>1 DEF Salesforce!TypeOK, Salesforce!ChangesAreCounted, Salesforce!Capacity,
     Salesforce!InOrder, Salesforce!BindingFits,
     Salesforce!SeenFits, Salesforce!ReportsFit, Salesforce!CandidateHeldStill,
     Salesforce!EpochsBounded

(* What a command looks at fits, if it is verified at that moment. *)
LEMMA LookFits ==
  ASSUME Salesforce!Inv, NEW c \in Salesforce!CommandIds, v9 = "commands",
         Salesforce!Verified(c), NEW x \in Salesforce!Look(c),
         c \in Salesforce!Jest \cup {"probe"} => v12 # None,
         c \in Salesforce!Jest => v8.node # None,
         c = "toolchain" => "probe" \notin v16
  PROVE  /\ x[2] \in Salesforce!Bound \cup {"boundary"}
         /\ x[2] = "python" => x[3] = v8.python
         /\ x[2] = "node" => x[3] = v8.node
         /\ x[2] = "boundary" => x[3] = "ours"
         /\ x[2] = "backend" => v12 # None /\ x[3] = v12["backend"]
         /\ x[2] = "candidate" => x[3] \in 0..v2["candidate"]
         /\ x[2] = "toolchain" =>
              /\ x[3] \in 0..v2["toolchain"]
              /\ v12 # None => v12["toolchain"] <= x[3]
              /\ "probe" \in v16 => x[3] = v12["toolchain"]
<1>1. /\ v2 \in [Salesforce!Things -> 0..HostChanges] /\ HostChanges \in Nat
      /\ v12 # None => v12["toolchain"] \in 0..v2["toolchain"]
  BY DEF Salesforce!Inv, Salesforce!TypeOK, Salesforce!BindingFits
<1>2. PICK t \in Salesforce!Uses(c) \cup {"boundary"} :
        /\ x = <<c, t, IF t = "boundary" THEN v13 ELSE v2[t]>>
        /\ t = "boundary" => c \in Salesforce!Jest
  BY DEF Salesforce!Look, Salesforce!Uses, Salesforce!Jest
<1>3. x[2] = t /\ x[3] = IF t = "boundary" THEN v13 ELSE v2[t]
  BY <1>2
<1>4. /\ Salesforce!Uses(c) \subseteq Salesforce!Bound
      /\ "node" \in Salesforce!Uses(c) => c \in Salesforce!Jest
      /\ "backend" \in Salesforce!Uses(c) => c \in Salesforce!Jest \cup {"probe"}
      /\ "toolchain" \in Salesforce!Uses(c) => c \in Salesforce!Jest \cup {"probe", "toolchain"}
  BY DEF Salesforce!Uses, Salesforce!Bound, Salesforce!Jest
<1>5. Salesforce!PythonVerified
  BY DEF Salesforce!Verified, Salesforce!ProbeVerified
<1>6. c \in Salesforce!Jest \cup {"probe"} => Salesforce!ProbeVerified
  BY DEF Salesforce!Verified
<1>7. c \in Salesforce!Jest \cup {"probe"} =>
        v2["backend"] = v12["backend"] /\ v2["toolchain"] = v12["toolchain"] /\ v13 = "ours"
  BY <1>6 DEF Salesforce!ProbeVerified, Salesforce!Bound, Salesforce!BoundaryVerified
<1>8. c \in Salesforce!Jest => v2["node"] = v8.node
  BY <1>6 DEF Salesforce!ProbeVerified, Salesforce!NodeVerified
<1>9. v2["python"] = v8.python
  BY <1>5 DEF Salesforce!PythonVerified
<1>10. v2["candidate"] \in Nat /\ v2["toolchain"] \in Nat
  BY <1>1 DEF Salesforce!Things
<1> QED BY <1>1, <1>2, <1>3, <1>4, <1>7, <1>8, <1>9, <1>10

(* A command is launched. *)
LEMMA SalesforceLaunches ==
  ASSUME Salesforce!Inv, NEW c \in Salesforce!CommandIds, Salesforce!Launch(c)
  PROVE  Salesforce!Inv'
<1> USE DEF Salesforce!Inv, Salesforce!Launch
<1>1. /\ v9 = "commands" /\ v14 = None /\ v15 \in 1..7 /\ v14' = c
      /\ Salesforce!Commands[v15] = c /\ v15 \in DOMAIN Salesforce!Commands
      /\ v17' = v17 \cup Salesforce!Look(c) /\ Salesforce!Verified(c)
      /\ UNCHANGED <<v1, v2, v3, v4, v5, v6, v7, v8, v9, v10, v11, v12, v13, v15, v16, v18>>
  BY SalesforceCommands DEF Salesforce!Following
<1>2. /\ c \in Salesforce!Jest \cup {"probe"} => v12 # None
      /\ c \in Salesforce!Jest => v8.node # None
  BY DEF Salesforce!BlockedBefore
<1>3. c = "toolchain" => "probe" \notin v16
  BY <1>1, SalesforceCommands DEF Salesforce!InOrder
<1>4. Salesforce!SeenFits'
  BY <1>1, <1>2, <1>3, LookFits DEF Salesforce!SeenFits
<1>5. Salesforce!InOrder'
  BY <1>1, <1>2 DEF Salesforce!InOrder
<1> QED BY <1>1, <1>4, <1>5 DEF Salesforce!TypeOK, Salesforce!ChangesAreCounted,
     Salesforce!Capacity, Salesforce!BindingFits, Salesforce!ReportsFit,
     Salesforce!CandidateHeldStill, Salesforce!EpochsBounded

(* The probe writes in its own workspace. *)
LEMMA SalesforceProbeWrites ==
  ASSUME Salesforce!Inv, Salesforce!ProbeWrites PROVE Salesforce!Inv'
<1> USE DEF Salesforce!Inv, Salesforce!ProbeWrites
<1>1. /\ v14 = "probe" /\ v10 \notin v7 /\ v7' = v7 \cup {v10}
      /\ UNCHANGED <<v1, v2, v3, v4, v5, v6, v8, v9, v10, v11, v12, v13, v14, v15, v16, v17, v18>>
  OBVIOUS
<1>2. "probe" # None
  BY SalesforceCommands
<1>3. v9 = "commands" /\ v12 # None /\ Salesforce!Capacity
  BY <1>1, <1>2 DEF Salesforce!InOrder, Salesforce!BindingFits
<1>4. v10 \in Nat /\ v7 \subseteq 1..v10 /\ v6 \subseteq v7
  BY DEF Salesforce!InOrder, Salesforce!TypeOK
<1>5. /\ (v6 \cup v7)' = ((v6 \cup v7) \ {v10}) \cup {v10}
      /\ ((v6 \cup v7) \ {v10})' = (v6 \cup v7) \ {v10}
  BY <1>1, <1>4
<1>6. Salesforce!EpochsBounded'
  <2> DEFINE others == (v6 \cup v7) \ {v10}
  <2>1. IsFiniteSet(1..v10) /\ others \subseteq 1..v10
    BY <1>4, FS_Interval
  <2>2. IsFiniteSet(others)
    BY <2>1, FS_Subset
  <2>3. Cardinality(others) \in Nat /\ Cardinality(others) < MaxEpochs
    BY <1>3, <2>2, FS_CardinalityType, SameCardinality DEF Salesforce!Capacity
  <2>4. Cardinality(others \cup {v10}) = Cardinality(others) + 1
    BY <2>2, FS_AddElement
  <2>5. Cardinality((v6 \cup v7)') <= MaxEpochs
    BY <1>5, <2>3, <2>4
  <2> QED BY <2>5, SameCardinality DEF Salesforce!EpochsBounded
<1>7. Salesforce!TypeOK' /\ Salesforce!BindingFits'
  <2>1. v10 \in 1..v10
    BY <1>3, <1>4 DEF Salesforce!InOrder
  <2> QED BY <1>1, <1>3, <1>4, <1>5, <2>1 DEF Salesforce!TypeOK, Salesforce!BindingFits, Salesforce!Capacity
<1> QED BY <1>1, <1>6, <1>7 DEF Salesforce!ChangesAreCounted, Salesforce!InOrder,
     Salesforce!SeenFits, Salesforce!ReportsFit, Salesforce!CandidateHeldStill

(* A command ends: what it looked at, and, of the probe, what is anchored. *)
LEMMA SalesforceFinishes ==
  ASSUME Salesforce!Inv, NEW c \in Salesforce!CommandIds, Salesforce!Finish(c)
  PROVE  Salesforce!Inv'
<1> USE DEF Salesforce!Inv, Salesforce!Finish
<1>1. /\ v14 = c /\ c # None /\ v14' = None /\ v15' = v15 + 1 /\ Salesforce!Verified(c)
      /\ v17' = v17 \cup Salesforce!Look(c)
      /\ \/ v16' = v16 \cup {c} /\ Salesforce!Anchor(c)
         \/ UNCHANGED <<v16, v5, v6>>
      /\ UNCHANGED <<v1, v2, v3, v4, v7, v8, v9, v10, v11, v12, v13, v18>>
  BY SalesforceCommands
<1>2. /\ v9 = "commands" /\ v15 \in 1..7 /\ Salesforce!Commands[v15] = c
      /\ c \in Salesforce!Jest \cup {"probe"} => v12 # None
      /\ c \in Salesforce!Jest => v8.node # None
  BY <1>1, SalesforceCommands DEF Salesforce!InOrder
<1>3. /\ c = "probe" <=> v15 = 4
      /\ c = "toolchain" => "probe" \notin v16
  BY <1>2, SalesforceCommands DEF Salesforce!InOrder
<1>4. /\ v16 \subseteq v16' /\ v16' \subseteq v16 \cup {c}
      /\ v6 \subseteq v6' /\ v6' \subseteq v6 \cup {v10} /\ v6' \subseteq v7
      /\ v5' \in {v5, v12}
      /\ "probe" \in v16' \ v16 => c = "probe" /\ v5' = v12
      /\ v5' # v5 => v5 = None /\ c = "probe"
  BY <1>1 DEF Salesforce!Anchor, Salesforce!Binds, Salesforce!TypeOK
<1>5. "probe" \in v16 => v5' = v5
  BY <1>3, <1>4, SalesforceCommands DEF Salesforce!InOrder
<1>6. Salesforce!TypeOK'
  BY <1>1, <1>4 DEF Salesforce!TypeOK
<1>7. Salesforce!InOrder'
  BY <1>1, <1>2, <1>3, <1>4 DEF Salesforce!InOrder
<1>8. ((v6 \cup v7) \ {v10})' = (v6 \cup v7) \ {v10} /\ (v6 \cup v7)' = v6 \cup v7
  BY <1>1, <1>4 DEF Salesforce!TypeOK
<1>9. Salesforce!BindingFits' /\ Salesforce!EpochsBounded'
  BY <1>1, <1>2, <1>4, <1>5, <1>8 DEF Salesforce!BindingFits, Salesforce!Capacity,
     Salesforce!EpochsBounded
<1>10. Salesforce!SeenFits'
  <2> SUFFICES ASSUME NEW x \in v17'
               PROVE  /\ x[2] \in Salesforce!Bound \cup {"boundary"}
                      /\ x[2] = "python" => x[3] = v8.python
                      /\ x[2] = "node" => x[3] = v8.node
                      /\ x[2] = "boundary" => x[3] = "ours"
                      /\ x[2] = "backend" => v12 # None /\ x[3] = v12["backend"]
                      /\ x[2] = "candidate" => x[3] \in 0..v2["candidate"]
                      /\ x[2] = "toolchain" =>
                           /\ x[3] \in 0..v2["toolchain"]
                           /\ v12 # None => v12["toolchain"] <= x[3]
                           /\ "probe" \in v16' => x[3] = v12["toolchain"]
    BY <1>1 DEF Salesforce!SeenFits
  <2>1. CASE x \in Salesforce!Look(c) /\ ("probe" \in v16' => "probe" \in v16)
    BY <1>2, <1>1, <1>3, <2>1, LookFits
  <2>2. CASE x \in v17 /\ ("probe" \in v16' => "probe" \in v16)
    BY <2>2 DEF Salesforce!SeenFits
  <2>3. CASE "probe" \in v16' \ v16
    <3>1. c = "probe" /\ v12 # None /\ v12["toolchain"] = v2["toolchain"] /\ v2["toolchain"] \in Nat
      BY <1>1, <1>2, <1>4, <2>3 DEF Salesforce!Verified, Salesforce!ProbeVerified,
         Salesforce!Bound, Salesforce!TypeOK, Salesforce!Things
    <3>2. CASE x \in Salesforce!Look(c)
      <4>1. /\ x[2] \in Salesforce!Bound \cup {"boundary"}
            /\ x[2] = "python" => x[3] = v8.python
            /\ x[2] = "node" => x[3] = v8.node
            /\ x[2] = "boundary" => x[3] = "ours"
            /\ x[2] = "backend" => v12 # None /\ x[3] = v12["backend"]
            /\ x[2] = "candidate" => x[3] \in 0..v2["candidate"]
            /\ x[2] = "toolchain" => x[3] \in 0..v2["toolchain"] /\ v12["toolchain"] <= x[3]
        BY <1>2, <1>1, <1>3, <3>1, <3>2, LookFits
      <4> QED BY <3>1, <4>1
    <3>3. CASE x \in v17
      BY <3>1, <3>3 DEF Salesforce!SeenFits
    <3> QED BY <1>1, <3>2, <3>3
  <2> QED BY <1>1, <2>1, <2>2, <2>3
<1> QED BY <1>1, <1>2, <1>4, <1>6, <1>7, <1>9, <1>10 DEF Salesforce!ChangesAreCounted,
     Salesforce!ReportsFit, Salesforce!CandidateHeldStill

(* A report, or an exception, or a crash. *)
LEMMA SalesforceEnds ==
  ASSUME Salesforce!Inv, Salesforce!Close \/ Salesforce!Raise \/ Salesforce!Crash
  PROVE  Salesforce!Inv'
<1> USE DEF Salesforce!Inv
<1>1. CASE Salesforce!Close
  <2>1. /\ v9 = "commands" /\ v9' = "report" /\ v14 = None
        /\ v2["candidate"] = 0
        /\ UNCHANGED <<v1, v2, v3, v4, v5, v6, v7, v8, v10, v11, v12, v13, v14, v15, v16, v17, v18>>
    BY <1>1 DEF Salesforce!Close, Salesforce!Unchanged, Salesforce!InOrder
  <2>2. Salesforce!CandidateHeldStill'
    BY <2>1 DEF Salesforce!CandidateHeldStill, Salesforce!SeenFits, Salesforce!InOrder
  <2> QED BY <2>1, <2>2 DEF Salesforce!TypeOK, Salesforce!ChangesAreCounted, Salesforce!InOrder,
       Salesforce!BindingFits, Salesforce!SeenFits, Salesforce!ReportsFit, Salesforce!EpochsBounded
<1>2. CASE Salesforce!Raise
  BY <1>2 DEF Salesforce!Raise, Salesforce!TypeOK, Salesforce!ChangesAreCounted,
     Salesforce!InOrder, Salesforce!BindingFits, Salesforce!SeenFits, Salesforce!ReportsFit,
     Salesforce!CandidateHeldStill, Salesforce!EpochsBounded
<1>3. CASE Salesforce!Crash
  BY <1>3 DEF Salesforce!Crash, Salesforce!TypeOK, Salesforce!ChangesAreCounted,
     Salesforce!InOrder, Salesforce!BindingFits, Salesforce!SeenFits, Salesforce!ReportsFit,
     Salesforce!CandidateHeldStill, Salesforce!EpochsBounded
<1> QED BY <1>1, <1>2, <1>3

(* What is left of an epoch goes. *)
LEMMA SalesforceRemoves ==
  ASSUME Salesforce!Inv, Salesforce!Remove PROVE Salesforce!Inv'
<1> USE DEF Salesforce!Inv, Salesforce!Remove
<1>1. /\ v9 \in {"report", "raised"} /\ v9' = "idle" /\ v16' = {} /\ v17' = {}
      /\ v13' \in {v13, "none"} /\ v14 = None
      /\ v18' \in {v18, v18 \cup {v12}} /\ (v18' # v18 => "probe" \in v16)
      /\ UNCHANGED <<v1, v2, v3, v4, v5, v6, v7, v8, v10, v11, v12, v14, v15>>
  BY SalesforceCommands DEF Salesforce!InOrder
<1>2. Salesforce!ReportsFit'
  BY <1>1 DEF Salesforce!ReportsFit, Salesforce!BindingFits
<1> QED BY <1>1, <1>2 DEF Salesforce!TypeOK, Salesforce!ChangesAreCounted, Salesforce!InOrder,
     Salesforce!BindingFits, Salesforce!SeenFits, Salesforce!CandidateHeldStill,
     Salesforce!EpochsBounded

(* Every action keeps the invariant. *)
LEMMA SalesforceStep == ASSUME Salesforce!Inv, Salesforce!Next PROVE Salesforce!Inv'
<1> HIDE DEF Salesforce!Inv
<1> QED BY SalesforceChanges, SalesforceSubstitutes, SalesforceBuilds, SalesforcePrepares,
     SalesforceSpecifies, SalesforceProbeWrites, SalesforceBlocks, SalesforceLaunches,
     SalesforceFinishes, SalesforceEnds, SalesforceRemoves DEF Salesforce!Next

(* The properties follow from the invariant. *)
LEMMA SalesforceHolds ==
  ASSUME Salesforce!Inv
  PROVE  /\ Salesforce!TypeOK /\ Salesforce!OneEnvironment /\ Salesforce!CandidateHeldStill
         /\ Salesforce!ReadyReportsAgree /\ Salesforce!EpochsBounded
<1> USE DEF Salesforce!Inv
<1>1. Salesforce!OneEnvironment
  <2> SUFFICES ASSUME v9 = "report", v16 = Salesforce!CommandIds,
                      NEW x \in v17, NEW y \in v17, x[2] = y[2]
               PROVE  x[3] = y[3]
    BY DEF Salesforce!OneEnvironment
  <2>1. "probe" \in v16
    BY SalesforceCommands
  <2> QED BY <2>1 DEF Salesforce!SeenFits, Salesforce!CandidateHeldStill, Salesforce!Bound
<1>2. Salesforce!ReadyReportsAgree
  <2>1. IsFiniteSet({v5}) /\ Cardinality({v5}) = 1 /\ v18 \subseteq {v5}
    BY FS_Singleton DEF Salesforce!ReportsFit
  <2>2. Cardinality(v18) <= 1
    BY <2>1, FS_Subset
  <2> QED BY <2>2, SameCardinality DEF Salesforce!ReadyReportsAgree
<1> QED BY <1>1, <1>2

HIDE DEF Salesforce!EpochsAssumption

-----------------------------------------------------------------------------
(* The Mule validations.                                                    *)

USE DEF Mule!NoneAssumption

(* At first no validator was built and no container created. *)
LEMMA MuleStart == Mule!Init => Mule!Inv
<1> SUFFICES ASSUME Mule!Init PROVE Mule!Inv
  OBVIOUS
<1> USE DEF Mule!Init
<1>1. 0 \in 0..MuleChanges /\ 0 \in 0..MaxValidators
  OBVIOUS
<1>2. Mule!NoContainer \in Mule!Containers
  BY DEF Mule!NoContainer, Mule!Containers, Mule!Suites
<1>3. Mule!TypeOK
  BY <1>1 DEF Mule!TypeOK, Mule!Running, Mule!Modes, Mule!CommandIds, Mule!NoContainer
<1>4. Mule!VersionsFit
  BY <1>1, <1>2 DEF Mule!VersionsFit, Mule!Things, Mule!Attempts
<1>5. Mule!ConsumedFirst
  BY DEF Mule!ConsumedFirst, Mule!Fresh, Mule!CommandIds, Mule!Modes
<1> QED BY <1>3, <1>4, <1>5 DEF Mule!Inv, Mule!LifecycleFits, Mule!Running, Mule!Modes,
     Mule!OutcomeFits, Mule!ReportsFit, Mule!PassedRanInContainers, Mule!OneCandidate

(* A step of another part keeps it. *)
LEMMA MuleKept == ASSUME Mule!Inv, UNCHANGED Mule!vars PROVE Mule!Inv'
<1> USE DEF Mule!Inv, Mule!vars, Mule!daemon, Mule!run, Mule!lifecycle
<1>1. Mule!TypeOK' /\ Mule!VersionsFit' /\ Mule!ConsumedFirst'
  BY DEF Mule!TypeOK, Mule!VersionsFit, Mule!ConsumedFirst, Mule!Fresh, Mule!Running
<1>2. Mule!LifecycleFits'
  BY DEF Mule!LifecycleFits, Mule!Running, Mule!Ran, Mule!Ours, Mule!Here
<1>3. Mule!OutcomeFits' /\ Mule!ReportsFit'
  BY DEF Mule!OutcomeFits, Mule!PassedFits, Mule!Quiet, Mule!Ran, Mule!Ours, Mule!ReportsFit
<1> QED BY <1>1, <1>2, <1>3 DEF Mule!PassedRanInContainers, Mule!OneCandidate

(* The host changes a version: it grows, and no container changes. *)
LEMMA MuleHostChanges ==
  ASSUME Mule!Inv, NEW t \in Mule!Things, Mule!Change(t) PROVE Mule!Inv'
<1> USE DEF Mule!Inv, Mule!Change
<1>1. /\ v2 < MuleChanges /\ v2 \in Nat /\ v2' = v2 + 1
      /\ v1 \in [Mule!Things -> 0..MuleChanges] /\ v1' = [v1 EXCEPT ![t] = @ + 1]
      /\ UNCHANGED <<v3, v4, v5, v6, v7, v8, v9, v10, v11, v12, v13, v14, v15, v16, v17, v18, v19>>
  BY DEF Mule!TypeOK, Mule!run, Mule!lifecycle
<1>2. /\ \A s \in Mule!Things : v1[s] \in 0..v2 /\ v1'[s] \in v1[s]..v1[s] + 1 /\ v1'[s] <= v2'
      /\ "candidate" \in Mule!Things /\ "authority" \in Mule!Things
  BY <1>1 DEF Mule!VersionsFit, Mule!Things
<1>3. Mule!TypeOK'
  BY <1>1, <1>2 DEF Mule!TypeOK, Mule!Running
<1>4. Mule!VersionsFit'
  BY <1>1, <1>2 DEF Mule!VersionsFit
<1>5. \A c : Mule!Ours(c) => Mule!Ours(c)'
  BY <1>1, <1>2 DEF Mule!Ours
<1>6. Mule!LifecycleFits'
  BY <1>1, <1>2, <1>5 DEF Mule!LifecycleFits, Mule!Running, Mule!Ran, Mule!Here
<1>7. Mule!OutcomeFits'
  BY <1>1, <1>5 DEF Mule!OutcomeFits, Mule!PassedFits, Mule!Quiet, Mule!Ran
<1> QED BY <1>1, <1>3, <1>4, <1>6, <1>7 DEF Mule!ConsumedFirst, Mule!Fresh, Mule!ReportsFit,
     Mule!Quiet, Mule!PassedRanInContainers, Mule!OneCandidate

(* A container that is not running does not change by itself. *)
LEMMA MuleExits ==
  ASSUME Mule!Inv, NEW a \in Mule!Attempts, NEW m \in Mule!Modes, Mule!Exits(a, m)
  PROVE  Mule!Inv'
<1> USE DEF Mule!Inv
<1>1. PICK code \in 0..1, suite \in Mule!Suites :
        /\ v5[a][m].status = "running"
        /\ v5' = [v5 EXCEPT ![a][m].status = "exited", ![a][m].code = code, ![a][m].suite = suite]
        /\ UNCHANGED <<v1, v2, v3, v4, v6, v7, v8, v9, v10, v11, v12, v13, v14, v15, v16, v17, v18, v19>>
  BY DEF Mule!Exits, Mule!run, Mule!lifecycle, Mule!Suites
<1> DEFINE c == [v5[a][m] EXCEPT !.status = "exited", !.code = code, !.suite = suite]
<1>2. /\ v5 \in [Mule!Attempts -> [Mule!Modes -> Mule!Containers]]
      /\ c \in Mule!Containers /\ c.status = "exited"
      /\ c.starts = v5[a][m].starts /\ c.authority = v5[a][m].authority
      /\ c.candidate = v5[a][m].candidate
  <2>1. v5 \in [Mule!Attempts -> [Mule!Modes -> Mule!Containers]]
    BY DEF Mule!VersionsFit
  <2>2. v5[a][m] \in Mule!Containers
    BY <2>1
  <2> QED BY <2>1, <2>2 DEF Mule!Containers
<1>3. v5' = [v5 EXCEPT ![a] = [v5[a] EXCEPT ![m] = c]]
  BY <1>1, <1>2
<1>4. /\ v5' \in [Mule!Attempts -> [Mule!Modes -> Mule!Containers]]
      /\ \A b \in Mule!Attempts, n \in Mule!Modes :
           v5'[b][n] = IF b = a /\ n = m THEN c ELSE v5[b][n]
  BY <1>2, <1>3
<1>5. \A b \in Mule!Attempts, n \in Mule!Modes :
        v5[b][n].status # "running" => v5'[b][n] = v5[b][n]
  BY <1>1, <1>4
<1>16. UNCHANGED <<v1, v2, v3, v4, v6, v7, v8, v9, v10, v11, v12, v13, v14, v15, v16, v17, v18, v19>>
  BY <1>1
<1>6. \A b \in Mule!Attempts : /\ Mule!Fresh(b) => Mule!Fresh(b)'
                               /\ Mule!Quiet(b) => Mule!Quiet(b)'
  BY <1>5 DEF Mule!Fresh, Mule!Quiet, Mule!NoContainer
<1>7. v8 \in Mule!Attempts /\ "probe" \in Mule!Modes /\ "validate" \in Mule!Modes
  BY DEF Mule!VersionsFit, Mule!Modes
<1>8. \A n \in Mule!Modes : /\ v5'[v8][n].starts = v5[v8][n].starts
                             /\ v5'[v8][n].authority = v5[v8][n].authority
                             /\ v5'[v8][n].candidate = v5[v8][n].candidate
                             /\ v5'[v8][n].status \in {v5[v8][n].status, "exited"}
  BY <1>2, <1>4, <1>7
<1>10. Mule!TypeOK'
  BY <1>1, <1>4, <1>2 DEF Mule!TypeOK, Mule!Running
<1>11. Mule!VersionsFit' /\ Mule!ConsumedFirst'
  BY <1>1, <1>4, <1>6, <1>7 DEF Mule!VersionsFit, Mule!ConsumedFirst
<1>12. Mule!LifecycleFits'
  <2> SUFFICES ASSUME Mule!Running PROVE Mule!LifecycleFits'
    BY <1>1 DEF Mule!LifecycleFits, Mule!Running
  <2>1. v9 \in Mule!Modes
    BY DEF Mule!Running
  <2>2. /\ v5'[v8][v9].starts = v5[v8][v9].starts
        /\ v5'[v8][v9].authority = v5[v8][v9].authority
        /\ v5'[v8][v9].candidate = v5[v8][v9].candidate
        /\ v5[v8][v9].status # "running" => v5'[v8][v9] = v5[v8][v9]
        /\ v5[v8]["probe"].status # "running" => v5'[v8]["probe"] = v5[v8]["probe"]
        /\ v5[v8]["validate"].status # "running" => v5'[v8]["validate"] = v5[v8]["validate"]
    BY <1>5, <1>7, <1>8, <2>1
  <2> QED
    BY <1>16, <2>1, <2>2 DEF Mule!LifecycleFits, Mule!Ran, Mule!Ours, Mule!Here,
       Mule!NoContainer, Mule!Running
<1>13. Mule!OutcomeFits'
  <2>1. Mule!PassedFits => Mule!PassedFits'
    BY <1>16, <1>5, <1>7 DEF Mule!PassedFits, Mule!Ran, Mule!Ours
  <2> QED BY <1>1, <1>6, <1>7, <2>1 DEF Mule!OutcomeFits
<1>14. Mule!ReportsFit' 
  BY <1>1, <1>6 DEF Mule!ReportsFit
<1>15. Mule!PassedRanInContainers'
  <2>1. v9 = "report" => \A n \in Mule!Modes : v5'[v8][n] = v5[v8][n]
    BY <1>5, <1>7 DEF Mule!OutcomeFits, Mule!Quiet
  <2>2. v9 = "report" => v5'[v8]["validate"] = v5[v8]["validate"]
    BY <1>7, <2>1
  <2> QED BY <1>16, <2>1, <2>2 DEF Mule!PassedRanInContainers
<1> QED BY <1>1, <1>10, <1>11, <1>12, <1>13, <1>14, <1>15 DEF Mule!OneCandidate

(* A validator binds what it discovered, or finds it bound. *)
LEMMA MuleBuilds == ASSUME Mule!Inv, Mule!Build PROVE Mule!Inv'
<1> USE DEF Mule!Inv
<1>1. /\ v7 = None /\ v6 < MaxValidators /\ v6' = v6 + 1
      /\ UNCHANGED <<v1, v2, v5, v4, v19, v8, v9, v10, v11, v12, v13, v14, v15, v16, v17, v18>>
      /\ v3 = None \/ v3 = v3'
      /\ v7' = v3' /\ v7'.authority \in {None, v1["authority"]}
  BY DEF Mule!Build, Mule!Binds, Mule!daemon, Mule!lifecycle
<1>2. v9 = "idle" /\ ~Mule!Running /\ ~Mule!Running' /\ v10 = None
  BY <1>1 DEF Mule!TypeOK, Mule!Running, Mule!Modes
<1>3. v6 \in 0..MaxValidators /\ v6' \in 1..MaxValidators /\ v1["authority"] \in Nat
  BY <1>1 DEF Mule!VersionsFit, Mule!TypeOK, Mule!Things
<1>4. Mule!TypeOK'
  BY <1>1, <1>2 DEF Mule!TypeOK
<1>5. Mule!VersionsFit'
  BY <1>1, <1>2, <1>3 DEF Mule!VersionsFit
<1> QED BY <1>1, <1>2, <1>4, <1>5 DEF Mule!ConsumedFirst, Mule!Fresh, Mule!LifecycleFits,
     Mule!OutcomeFits, Mule!ReportsFit, Mule!Quiet, Mule!PassedRanInContainers,
     Mule!OneCandidate

(* An attempt is consumed, and its candidate is the one approved. *)
LEMMA MuleCalls ==
  ASSUME Mule!Inv, NEW a \in Mule!Attempts, Mule!Call(a) PROVE Mule!Inv'
<1> USE DEF Mule!Inv
<1>1. /\ v7 # None /\ v9 = "idle" /\ v4[a] = None /\ v8' = a /\ v9' = "candidate"
      /\ v4' = [v4 EXCEPT ![a] = v6] /\ v11'.candidate = 0 /\ v18' = {}
      /\ v12' = [c \in Mule!CommandIds |-> None]
      /\ UNCHANGED <<v2, v5, v3, v6, v7, v19, v10, v13, v14, v15, v16, v17>>
  BY DEF Mule!Call, Mule!Consumable, Mule!lifecycle
<1>2. v1' = [v1 EXCEPT !["candidate"] = 0] /\ v1 \in [Mule!Things -> 0..MuleChanges]
  BY DEF Mule!Call, Mule!TypeOK
<1>3. /\ v1' \in [Mule!Things -> 0..MuleChanges] /\ "candidate" \in Mule!Things
      /\ \A t \in Mule!Things : v1'[t] = IF t = "candidate" THEN 0 ELSE v1[t]
      /\ v1'["authority"] = v1["authority"] /\ v2 \in Nat
  <2>1. 0 \in 0..MuleChanges
    OBVIOUS
  <2> QED BY <1>2, <2>1 DEF Mule!Things, Mule!TypeOK
<1>4. /\ v6 \in 1..MaxValidators /\ v4 \in [Mule!Attempts -> 1..MaxValidators \cup {None}]
      /\ v4'[a] = v6 /\ \A b \in Mule!Attempts : b # a => v4'[b] = v4[b]
      /\ v4' \in [Mule!Attempts -> 1..MaxValidators \cup {None}]
      /\ v6 # None
  BY <1>1 DEF Mule!VersionsFit, Mule!TypeOK
<1>5. /\ v16 = "no" /\ Mule!Fresh(a) /\ ~Mule!Running /\ ~Mule!Running' /\ v10 = None
  BY <1>1 DEF Mule!ConsumedFirst, Mule!Running, Mule!Modes, Mule!TypeOK
<1>6. "munit" \in Mule!CommandIds /\ "candidate" \in Mule!CommandIds
      /\ v12' \in [Mule!CommandIds -> {"passed", "failed", "unavailable", None}]
      /\ v12'["munit"] # "passed"
  BY <1>1 DEF Mule!CommandIds
<1>7. Mule!TypeOK'
  BY <1>1, <1>3, <1>4, <1>5, <1>6 DEF Mule!TypeOK
<1>8. Mule!VersionsFit'
  BY <1>1, <1>3, <1>4 DEF Mule!VersionsFit
<1>9. Mule!ConsumedFirst'
  BY <1>1, <1>4, <1>5, <1>6 DEF Mule!ConsumedFirst, Mule!Fresh
<1>10. Mule!ReportsFit'
  BY <1>1, <1>4 DEF Mule!ReportsFit, Mule!Quiet
<1> QED BY <1>1, <1>5, <1>7, <1>8, <1>9, <1>10 DEF Mule!LifecycleFits, Mule!OutcomeFits,
     Mule!PassedRanInContainers, Mule!OneCandidate

(* Before the containers: nothing of this attempt is with the daemon. *)
LEMMA MuleChecks ==
  ASSUME Mule!Inv, v9 \in Mule!CommandIds,
         UNCHANGED <<v1, v2, v3, v4, v5, v6, v7, v8, v10, v11, v13, v14, v15, v16, v17, v19>>,
         v18' \subseteq v18 \cup {v1["candidate"]},
         v12' \in [Mule!CommandIds -> {"passed", "failed", "unavailable", None}],
         v12'["munit"] # "passed", v9' \in Mule!CommandIds \cup {"post"}
  PROVE  Mule!Inv'
<1> USE DEF Mule!Inv
<1>1. ~Mule!Running /\ ~Mule!Running' /\ v16 = "no" /\ Mule!Fresh(v8) /\ v9 \notin {"idle", "report"}
      /\ v9' \notin {"idle", "report"} /\ v9' \notin Mule!Modes
  BY DEF Mule!Running, Mule!Modes, Mule!CommandIds, Mule!ConsumedFirst
<1>2. Mule!Quiet(v8)
  BY <1>1 DEF Mule!Fresh, Mule!Quiet, Mule!NoContainer
<1>3. v1["candidate"] \in Nat
  BY DEF Mule!TypeOK, Mule!Things
<1>4. Mule!TypeOK'
  BY <1>1 DEF Mule!TypeOK, Mule!Running
<1>5. Mule!VersionsFit'
  BY <1>1, <1>3 DEF Mule!VersionsFit
<1>6. Mule!ConsumedFirst' /\ Mule!ReportsFit'
  BY <1>1 DEF Mule!ConsumedFirst, Mule!Fresh, Mule!ReportsFit, Mule!Quiet
<1> QED BY <1>1, <1>2, <1>4, <1>5, <1>6 DEF Mule!LifecycleFits, Mule!OutcomeFits,
     Mule!PassedFits, Mule!Quiet, Mule!PassedRanInContainers, Mule!OneCandidate

(* The checks before the containers only add results and what they saw. *)
LEMMA MuleBegins ==
  ASSUME Mule!Inv,
         Mule!CandidateContractCheck \/ Mule!DependencyClosureCheck \/ Mule!ToolchainCheck
           \/ Mule!SkipMUnit
  PROVE  Mule!Inv'
<1> USE DEF Mule!Inv
<1>1. v12 \in [Mule!CommandIds -> {"passed", "failed", "unavailable", None}]
  BY DEF Mule!TypeOK
<1>2. \A c \in Mule!CommandIds \ {"munit"}, following \in Mule!CommandIds :
        Mule!StaticCheck(c, following) => Mule!Inv'
  <2> SUFFICES ASSUME NEW c \in Mule!CommandIds \ {"munit"}, NEW following \in Mule!CommandIds,
                      Mule!StaticCheck(c, following)
               PROVE  Mule!Inv'
    OBVIOUS
  <2> HIDE DEF Mule!Inv
  <2>1. /\ v9 = c /\ v9' = following
        /\ UNCHANGED <<v1, v2, v3, v4, v5, v6, v7, v8, v10, v11, v13, v14, v15, v16, v17, v19>>
        /\ v18' = v18 \cup {v1["candidate"]}
    BY DEF Mule!StaticCheck, Mule!daemon, Mule!run, Mule!lifecycle
  <2>2. PICK r \in {"passed", "failed"} : v12' = [v12 EXCEPT ![c] = r]
    BY DEF Mule!StaticCheck
  <2>3. v12["munit"] # "passed"
    BY <2>1 DEF Mule!Inv, Mule!ConsumedFirst
  <2>4. /\ v12' \in [Mule!CommandIds -> {"passed", "failed", "unavailable", None}]
        /\ v12'["munit"] # "passed"
    BY <1>1, <2>2, <2>3
  <2> QED BY <2>1, <2>4, MuleChecks
<1>3. CASE Mule!CandidateContractCheck \/ Mule!DependencyClosureCheck
  BY <1>2, <1>3 DEF Mule!CandidateContractCheck, Mule!DependencyClosureCheck, Mule!CommandIds
<1> HIDE DEF Mule!Inv
<1>4. CASE Mule!ToolchainCheck
  <2>1. /\ v9 = "toolchain" /\ v9' = "munit"
        /\ UNCHANGED <<v1, v2, v3, v4, v5, v6, v7, v8, v10, v11, v13, v14, v15, v16, v17, v19>>
        /\ v18' = v18
    BY <1>4 DEF Mule!ToolchainCheck, Mule!daemon, Mule!run, Mule!lifecycle
  <2>2. PICK r \in {"passed", "unavailable"} : v12' = [v12 EXCEPT !["toolchain"] = r]
    BY <1>4 DEF Mule!ToolchainCheck
  <2>3. v12["munit"] # "passed" /\ v9 \in Mule!CommandIds /\ v9' \in Mule!CommandIds
    BY <2>1 DEF Mule!Inv, Mule!ConsumedFirst, Mule!CommandIds
  <2>4. /\ v12' \in [Mule!CommandIds -> {"passed", "failed", "unavailable", None}]
        /\ v12'["munit"] # "passed"
    BY <1>1, <2>2, <2>3 DEF Mule!CommandIds
  <2> QED BY <2>1, <2>3, <2>4, MuleChecks
<1>5. CASE Mule!SkipMUnit
  <2>1. /\ v9 = "munit" /\ v9' = "post"
        /\ UNCHANGED <<v1, v2, v3, v4, v5, v6, v7, v8, v10, v11, v13, v14, v15, v16, v17, v19>>
        /\ v18' = v18 /\ v12' = [v12 EXCEPT !["munit"] = "unavailable"]
    BY <1>5 DEF Mule!SkipMUnit, Mule!daemon, Mule!run, Mule!lifecycle
  <2>2. v9 \in Mule!CommandIds /\ "munit" \in Mule!CommandIds
    BY <2>1 DEF Mule!CommandIds
  <2>4. /\ v12' \in [Mule!CommandIds -> {"passed", "failed", "unavailable", None}]
        /\ v12'["munit"] # "passed"
    BY <1>1, <2>1, <2>2
  <2> QED BY <2>1, <2>2, <2>4, MuleChecks
<1> QED BY <1>3, <1>4, <1>5

(* The probe begins, of a candidate that is copied and seen. *)
LEMMA MulePrepares == ASSUME Mule!Inv, Mule!PrepareMUnit PROVE Mule!Inv'
<1> USE DEF Mule!Inv
<1>1. /\ v9 = "munit" /\ v9' = "probe" /\ v10' = "create" /\ v7.authority # None
      /\ v17' = v1["candidate"] /\ v18' = v18 \cup {v1["candidate"]}
      /\ v13' = FALSE /\ v14' = FALSE /\ v15' = 0
      /\ UNCHANGED <<v1, v2, v3, v4, v5, v6, v7, v8, v11, v12, v16, v19>>
  BY DEF Mule!PrepareMUnit, Mule!Unprepared, Mule!daemon, Mule!run
<1>2. /\ v7 # None /\ v16 = "no" /\ Mule!Fresh(v8) /\ v12["munit"] # "passed"
      /\ v7.authority \in 0..v1["authority"] /\ v1["candidate"] \in Nat
      /\ Mule!Running' /\ "create" # None
  BY <1>1 DEF Mule!Running, Mule!Modes, Mule!CommandIds, Mule!ConsumedFirst, Mule!TypeOK,
     Mule!VersionsFit, Mule!Things, Mule!Steps
<1>3. Mule!TypeOK'
  BY <1>1, <1>2 DEF Mule!TypeOK, Mule!Modes
<1>4. Mule!VersionsFit'
  <2>1. v18 \subseteq 0..v1["candidate"] /\ v1["candidate"] \in 0..v1["candidate"]
    BY <1>2 DEF Mule!VersionsFit
  <2>2. v18' \subseteq 0..v1'["candidate"]
    BY <1>1, <2>1
  <2> QED BY <1>1, <1>2, <2>2 DEF Mule!VersionsFit
<1>6. Mule!ConsumedFirst' /\ Mule!ReportsFit'
  BY <1>1, <1>2 DEF Mule!ConsumedFirst, Mule!Fresh, Mule!ReportsFit, Mule!Quiet, Mule!CommandIds
<1>5. Mule!LifecycleFits'
  BY <1>1, <1>2 DEF Mule!LifecycleFits, Mule!Fresh, Mule!Here, Mule!Modes
<1> QED BY <1>1, <1>3, <1>4, <1>5, <1>6 DEF Mule!OutcomeFits, Mule!PassedRanInContainers,
     Mule!OneCandidate

(* A step of the lifecycle: the container becomes c, and the next command *)
(* may rely on that.                                                      *)
LEMMA MuleMoves ==
  ASSUME Mule!Inv, Mule!Running, NEW c \in Mule!Containers,
         UNCHANGED <<v1, v2, v3, v4, v6, v7, v8, v9, v11, v12, v17, v18, v19>>,
         v5' = [v5 EXCEPT ![v8] = [v5[v8] EXCEPT ![v9] = c]],
         v10' \in Mule!Steps \ {"create"}, v16' \in {"no", "raise", "unavailable"},
         v10' \in {"inspect", "start"} =>
           v13' /\ v16' = "no" /\ Mule!Ours(c) /\ c.status = "created" /\ c.starts = 0,
         v10' \in {"wait", "kill"} =>
           v13' /\ v16' = "no" /\ (v10' = "kill" => v14') /\ Mule!Ours(c) /\ c.starts = 1,
         v10' = "remove" /\ v16' = "no" =>
           /\ v13' /\ Mule!Ours(c) /\ c.starts = 1
           /\ v14' \/ (c.status = "exited" /\ v15' = c.code),
         v10' = "conclude" /\ v16' = "no" =>
           IF v13' THEN Mule!Ran(c) /\ (v14' \/ v15' = c.code)
           ELSE c.status \in {"none", "created"} /\ (v14' \/ v15' # 0),
         v10' = "conclude" /\ v16' = "unavailable" => c.status = "none"
  PROVE  Mule!Inv'
<1> USE DEF Mule!Inv
<1>1. /\ v8 \in Mule!Attempts /\ v9 \in Mule!Modes /\ Mule!Running'
      /\ v5 \in [Mule!Attempts -> [Mule!Modes -> Mule!Containers]]
      /\ v9 \notin {"idle", "post", "report"} \cup Mule!CommandIds
      /\ v10' # None
      /\ "probe" \in Mule!Modes /\ "validate" \in Mule!Modes
  BY DEF Mule!VersionsFit, Mule!Running, Mule!Modes, Mule!CommandIds, Mule!Steps
<1>2. /\ v5' \in [Mule!Attempts -> [Mule!Modes -> Mule!Containers]]
      /\ \A b \in Mule!Attempts, n \in Mule!Modes :
           v5'[b][n] = IF b = v8 /\ n = v9 THEN c ELSE v5[b][n]
      /\ v5'[v8][v9] = c
  BY <1>1
<1>3. \A b \in Mule!Attempts : b # v8 => /\ Mule!Fresh(b) => Mule!Fresh(b)'
                                         /\ Mule!Quiet(b) => Mule!Quiet(b)'
  BY <1>2 DEF Mule!Fresh, Mule!Quiet
<1>4. v4[v8] = v6 /\ v6 \in 1..MaxValidators /\ v4[v8] # None
  BY <1>1 DEF Mule!TypeOK, Mule!VersionsFit
<1>5. Mule!TypeOK'
  <2>1. \A x \in Mule!Containers : x.status \in {"none", "created", "running", "exited"}
    BY DEF Mule!Containers
  <2>2. \A b \in Mule!Attempts, n \in Mule!Modes : v5'[b][n] \in Mule!Containers
    BY <1>2
  <2>3. \A b \in Mule!Attempts, n \in Mule!Modes :
          v5'[b][n].status \in {"none", "created", "running", "exited"}
    BY <2>1, <2>2
  <2> HIDE DEF Mule!Inv
  <2> QED BY <1>1, <2>3 DEF Mule!TypeOK, Mule!Inv
<1>6. Mule!VersionsFit'
  BY <1>2 DEF Mule!VersionsFit
<1>7. Mule!ConsumedFirst'
  BY <1>1, <1>3, <1>4 DEF Mule!ConsumedFirst, Mule!Modes, Mule!CommandIds
<1>8. Mule!ReportsFit'
  BY <1>1, <1>3 DEF Mule!ReportsFit
<1>9. Mule!LifecycleFits'
  <2>1. /\ v9 = "probe" => v5'[v8]["validate"] = v5[v8]["validate"]
        /\ v9 = "validate" => v5'[v8]["probe"] = v5[v8]["probe"]
        /\ v5'[v8][v9] = c
    BY <1>1, <1>2
  <2> QED BY <1>1, <2>1 DEF Mule!LifecycleFits, Mule!Ran, Mule!Ours, Mule!Here, Mule!Running
<1> QED BY <1>1, <1>5, <1>6, <1>7, <1>8, <1>9 DEF Mule!OutcomeFits,
     Mule!PassedRanInContainers, Mule!OneCandidate

(* The container of the current step, and how the commands change it. *)
LEMMA MuleHere ==
  ASSUME Mule!Inv, Mule!Running
  PROVE  /\ v8 \in Mule!Attempts /\ v9 \in Mule!Modes
         /\ v5 \in [Mule!Attempts -> [Mule!Modes -> Mule!Containers]]
         /\ Mule!Here = v5[v8][v9] /\ Mule!Here \in Mule!Containers
         /\ v5 = [v5 EXCEPT ![v8] = [v5[v8] EXCEPT ![v9] = Mule!Here]]
         /\ v16 \in {"no", "raise", "unavailable"}
         /\ v7.authority \in 0..v1["authority"] /\ v1["authority"] \in Nat
         /\ v17 \in Nat
<1>1. /\ v8 \in Mule!Attempts /\ v9 \in Mule!Modes
      /\ v5 \in [Mule!Attempts -> [Mule!Modes -> Mule!Containers]]
      /\ Mule!Here = v5[v8][v9]
      /\ v16 \in {"no", "raise", "unavailable"}
  BY DEF Mule!Inv, Mule!VersionsFit, Mule!Running, Mule!Here, Mule!TypeOK
<1>2. /\ v7.authority \in 0..v1["authority"] /\ v1["authority"] \in Nat
      /\ v17 \in v18 /\ v18 \subseteq 0..v1["candidate"]
  BY DEF Mule!Inv, Mule!VersionsFit, Mule!TypeOK, Mule!LifecycleFits, Mule!Things
<1>3. v5[v8] \in [Mule!Modes -> Mule!Containers] /\ v5[v8][v9] \in Mule!Containers
  BY <1>1
<1>4. v5 = [v5 EXCEPT ![v8] = [v5[v8] EXCEPT ![v9] = v5[v8][v9]]]
  BY <1>1, <1>3
<1> QED BY <1>1, <1>2, <1>3, <1>4

(* A command that succeeded had its effect, one that failed had none. *)
LEMMA EffectOf ==
  ASSUME NEW r \in Mule!Commands, NEW effect \in Mule!WithEffect(r)
  PROVE  /\ r = "succeeded" => effect = TRUE
         /\ r = "failed" => effect = FALSE
         /\ r \in {"succeeded", "failed", "timed_out"}
         /\ effect \in BOOLEAN
<1>1. r \in {"succeeded", "failed", "timed_out"}
  BY DEF Mule!Commands
<1>2. CASE r = "succeeded"
  <2>1. effect \in {TRUE}
    BY <1>2 DEF Mule!WithEffect
  <2> QED BY <1>2, <2>1
<1>3. CASE r = "failed"
  <2>1. effect \in {FALSE}
    BY <1>3 DEF Mule!WithEffect
  <2> QED BY <1>3, <2>1
<1>4. CASE r = "timed_out"
  <2>1. effect \in BOOLEAN
    BY <1>4 DEF Mule!WithEffect
  <2> QED BY <1>4, <2>1
<1> QED BY <1>1, <1>2, <1>3, <1>4

(* A container is created for this attempt, or not known to be. *)
LEMMA MuleCreates == ASSUME Mule!Inv, Mule!Create PROVE Mule!Inv'
<1>1. /\ Mule!Running /\ v10 = "create"
      /\ UNCHANGED <<v1, v2, v3, v4, v6, v7, v8, v9, v11, v12, v16, v17, v18, v19>>
  BY DEF Mule!Create, Mule!run
<1>2. PICK r \in Mule!Commands, effect \in BOOLEAN :
        /\ effect \in Mule!WithEffect(r)
        /\ v5' = IF effect THEN [v5 EXCEPT ![v8][v9] = Mule!NewContainer] ELSE v5
        /\ v13' = (r = "succeeded") /\ v14' = (r = "timed_out")
        /\ v15' = (IF r = "succeeded" THEN 0 ELSE 1)
        /\ v10' = IF r = "succeeded" THEN "inspect" ELSE "conclude"
  BY DEF Mule!Create, Mule!WithEffect
<1>3. Mule!Here = Mule!NoContainer /\ v16 = "no"
  BY <1>1 DEF Mule!Inv, Mule!LifecycleFits
<1> DEFINE c == IF effect THEN Mule!NewContainer ELSE Mule!Here
<1>4. /\ Mule!NewContainer \in Mule!Containers
      /\ Mule!NewContainer.status = "created" /\ Mule!NewContainer.starts = 0
      /\ Mule!NewContainer.authority = v1["authority"] /\ Mule!NewContainer.candidate = v17
  BY <1>1, <1>3, MuleHere DEF Mule!NewContainer, Mule!NoContainer, Mule!Containers
<1>5. Mule!Ours(Mule!NewContainer)
  BY <1>1, <1>4, MuleHere DEF Mule!Ours
<1>6. c \in Mule!Containers /\ v5' = [v5 EXCEPT ![v8] = [v5[v8] EXCEPT ![v9] = c]]
  BY <1>1, <1>2, <1>4, MuleHere
<1>7. /\ r = "succeeded" => effect = TRUE
      /\ r = "failed" => effect = FALSE
      /\ r \in {"succeeded", "failed", "timed_out"}
  BY <1>2, EffectOf
<1>8. c.status \in {"none", "created"}
  BY <1>3, <1>4 DEF Mule!NoContainer
<1>9. r = "succeeded" => Mule!Ours(c) /\ c.status = "created" /\ c.starts = 0
  BY <1>4, <1>5, <1>7
<1>10. v10' \in Mule!Steps \ {"create"}
  BY <1>2 DEF Mule!Steps
<1>11. /\ v13' <=> r = "succeeded"
       /\ v14' <=> r = "timed_out"
       /\ r # "succeeded" => v15' = 1
  BY <1>2
<1> HIDE DEF c
<1>12. v10' = IF r = "succeeded" THEN "inspect" ELSE "conclude"
  BY <1>2
<1>13. CASE r = "succeeded"
  BY <1>1, <1>3, <1>6, <1>9, <1>10, <1>11, <1>12, <1>13, MuleMoves
<1>14. CASE r # "succeeded"
  <2>1. v10' = "conclude" /\ ~v13' /\ v15' # 0 /\ v16' = "no"
    BY <1>1, <1>3, <1>11, <1>12, <1>14
  <2> QED BY <1>1, <1>6, <1>8, <1>10, <2>1, MuleMoves
<1> QED BY <1>13, <1>14

(* An inspection accepts or refuses the container. *)
LEMMA MuleInspects == ASSUME Mule!Inv, Mule!Inspect PROVE Mule!Inv'
<1>1. /\ Mule!Running /\ v10 = "inspect"
      /\ UNCHANGED <<v1, v2, v3, v4, v5, v6, v7, v8, v9, v11, v12, v13, v14, v15, v17, v18, v19>>
      /\ \/ v10' = "start" /\ v16' = v16
         \/ v10' = "remove" /\ v16' \in {"raise", "unavailable"}
  BY DEF Mule!Inspect, Mule!daemon, Mule!run, Mule!Proceed, Mule!Break
<1>2. /\ v13 /\ v16 = "no" /\ Mule!Ours(Mule!Here)
      /\ Mule!Here.status = "created" /\ Mule!Here.starts = 0
  BY <1>1 DEF Mule!Inv, Mule!LifecycleFits
<1>3. v5' = [v5 EXCEPT ![v8] = [v5[v8] EXCEPT ![v9] = Mule!Here]]
  BY <1>1, MuleHere
<1>4. v10' \in Mule!Steps \ {"create"}
  BY <1>1 DEF Mule!Steps
<1> QED BY <1>1, <1>2, <1>3, <1>4, MuleHere, MuleMoves

(* A container that was created is started, for the first time. *)
LEMMA MuleStarts == ASSUME Mule!Inv, Mule!Start PROVE Mule!Inv'
<1>1. /\ Mule!Running /\ v10 = "start"
      /\ UNCHANGED <<v1, v2, v3, v4, v6, v7, v8, v9, v11, v12, v13, v14, v15, v17, v18, v19>>
  BY DEF Mule!Start, Mule!run
<1>2. PICK r \in Mule!Commands, effect \in BOOLEAN :
        /\ effect \in Mule!WithEffect(r)
        /\ v5' = IF effect
                 THEN [v5 EXCEPT ![v8][v9] = [Mule!Here EXCEPT !.status = "running",
                                                              !.starts = @ + 1]]
                 ELSE v5
        /\ IF r = "succeeded" THEN v10' = "wait" /\ v16' = v16
           ELSE v10' = "remove" /\ v16' = "raise"
  BY DEF Mule!Start, Mule!WithEffect, Mule!Untouched, Mule!Proceed, Mule!Break
<1>3. /\ v13 /\ v16 = "no" /\ Mule!Ours(Mule!Here)
      /\ Mule!Here.status = "created" /\ Mule!Here.starts = 0
  BY <1>1 DEF Mule!Inv, Mule!LifecycleFits
<1> DEFINE begun == [Mule!Here EXCEPT !.status = "running", !.starts = @ + 1]
           c == IF effect THEN begun ELSE Mule!Here
<1>11. 0 + 1 = 1 /\ 1 \in 0..1 /\ Mule!Here \in Mule!Containers
  BY <1>1, MuleHere
<1>4. /\ begun \in Mule!Containers /\ begun.starts = 1
      /\ begun.authority = Mule!Here.authority /\ begun.candidate = Mule!Here.candidate
  BY <1>3, <1>11 DEF Mule!Containers
<1>5. Mule!Ours(begun)
  BY <1>3, <1>4 DEF Mule!Ours
<1>6. c \in Mule!Containers /\ v5' = [v5 EXCEPT ![v8] = [v5[v8] EXCEPT ![v9] = c]]
  <2>1. effect => v5' = [v5 EXCEPT ![v8] = [v5[v8] EXCEPT ![v9] = begun]]
    BY <1>1, <1>2, MuleHere
  <2> HIDE DEF begun
  <2> QED BY <1>1, <1>2, <1>4, <2>1, MuleHere
<1>7. r = "succeeded" => Mule!Ours(c) /\ c.starts = 1
  BY <1>2, <1>4, <1>5, EffectOf
<1>8. v10' \in Mule!Steps \ {"create"}
  BY <1>2 DEF Mule!Steps
<1> HIDE DEF c
<1>9. CASE r = "succeeded"
  BY <1>1, <1>2, <1>3, <1>6, <1>7, <1>8, <1>9, MuleMoves
<1>10. CASE r # "succeeded"
  BY <1>1, <1>2, <1>6, <1>8, <1>10, MuleMoves
<1> QED BY <1>9, <1>10

(* What is waited for ends, or is killed, or is removed. *)
LEMMA MuleWaits == ASSUME Mule!Inv, Mule!Wait PROVE Mule!Inv'
<1>1. /\ Mule!Running /\ v10 = "wait"
      /\ UNCHANGED <<v1, v2, v3, v4, v5, v6, v7, v8, v9, v11, v12, v13, v17, v18, v19>>
      /\ \/ /\ Mule!Here.status = "exited" /\ v15' = Mule!Here.code /\ v14' = v14
            /\ v10' = "remove" /\ v16' = v16
         \/ v14' = TRUE /\ v15' = 1 /\ v10' = "kill" /\ v16' = v16
         \/ v15' = v15 /\ v14' = v14 /\ v10' = "remove" /\ v16' = "raise"
  BY DEF Mule!Wait, Mule!daemon, Mule!run, Mule!Proceed, Mule!Break
<1>2. v13 /\ v16 = "no" /\ Mule!Ours(Mule!Here) /\ Mule!Here.starts = 1
  BY <1>1 DEF Mule!Inv, Mule!LifecycleFits
<1>3. v5' = [v5 EXCEPT ![v8] = [v5[v8] EXCEPT ![v9] = Mule!Here]]
  BY <1>1, MuleHere
<1>4. v10' \in Mule!Steps \ {"create"}
  BY <1>1 DEF Mule!Steps
<1>5. Mule!Here \in Mule!Containers
  BY <1>1, MuleHere
<1>6. CASE v10' = "kill"
  BY <1>1, <1>2, <1>3, <1>4, <1>5, <1>6, MuleMoves
<1>7. CASE v10' = "remove"
  BY <1>1, <1>2, <1>3, <1>4, <1>5, <1>7, MuleMoves
<1> QED BY <1>1, <1>6, <1>7

(* A container that did not end is stopped. *)
LEMMA MuleKills == ASSUME Mule!Inv, Mule!Kill PROVE Mule!Inv'
<1>1. /\ Mule!Running /\ v10 = "kill"
      /\ UNCHANGED <<v1, v2, v3, v4, v6, v7, v8, v9, v11, v12, v13, v14, v15, v17, v18, v19>>
  BY DEF Mule!Kill, Mule!run
<1>2. PICK r \in Mule!Commands, effect \in BOOLEAN :
        /\ v5' = IF effect THEN [v5 EXCEPT ![v8][v9].status = "exited"] ELSE v5
        /\ v10' = "remove" /\ v16' \in {v16, "raise"}
  BY DEF Mule!Kill, Mule!WithEffect, Mule!Untouched, Mule!Becomes, Mule!Proceed, Mule!Break
<1>3. v13 /\ v16 = "no" /\ v14 /\ Mule!Ours(Mule!Here) /\ Mule!Here.starts = 1
  BY <1>1 DEF Mule!Inv, Mule!LifecycleFits
<1> DEFINE ended == [Mule!Here EXCEPT !.status = "exited"]
           c == IF effect THEN ended ELSE Mule!Here
<1>4. /\ ended \in Mule!Containers /\ ended.starts = 1
      /\ ended.authority = Mule!Here.authority /\ ended.candidate = Mule!Here.candidate
  BY <1>1, <1>3, MuleHere DEF Mule!Containers
<1>5. Mule!Ours(ended)
  BY <1>3, <1>4 DEF Mule!Ours
<1>6. c \in Mule!Containers /\ v5' = [v5 EXCEPT ![v8] = [v5[v8] EXCEPT ![v9] = c]]
  BY <1>1, <1>2, <1>4, MuleHere
<1>7. Mule!Ours(c) /\ c.starts = 1
  BY <1>3, <1>4, <1>5
<1>8. v10' \in Mule!Steps \ {"create"}
  BY <1>2 DEF Mule!Steps
<1> HIDE DEF c
<1> QED BY <1>1, <1>2, <1>3, <1>6, <1>7, <1>8, MuleMoves

(* Whatever happened, the container is removed. *)
LEMMA MuleRemoves == ASSUME Mule!Inv, Mule!Remove PROVE Mule!Inv'
<1>1. /\ Mule!Running /\ v10 = "remove" /\ v10' = "conclude"
      /\ UNCHANGED <<v1, v2, v3, v4, v6, v7, v8, v9, v11, v12, v13, v14, v15, v17, v18, v19>>
  BY DEF Mule!Remove, Mule!run
<1>2. PICK r \in Mule!Commands, effect \in BOOLEAN :
        /\ effect \in Mule!WithEffect(r)
        /\ v5' = IF effect THEN [v5 EXCEPT ![v8][v9].status = "none"] ELSE v5
        /\ v16' = IF r = "succeeded" THEN v16 ELSE "raise"
  BY DEF Mule!Remove, Mule!WithEffect, Mule!Untouched, Mule!Becomes
<1>3. v16 = "no" =>
        /\ v13 /\ Mule!Ours(Mule!Here) /\ Mule!Here.starts = 1
        /\ v14 \/ (Mule!Here.status = "exited" /\ v15 = Mule!Here.code)
  BY <1>1 DEF Mule!Inv, Mule!LifecycleFits
<1> DEFINE gone == [Mule!Here EXCEPT !.status = "none"]
           c == IF effect THEN gone ELSE Mule!Here
<1>4. /\ gone \in Mule!Containers /\ gone.starts = Mule!Here.starts /\ gone.code = Mule!Here.code
      /\ gone.authority = Mule!Here.authority /\ gone.candidate = Mule!Here.candidate
      /\ gone.status = "none"
  BY <1>1, MuleHere DEF Mule!Containers
<1>5. Mule!Ours(Mule!Here) => Mule!Ours(gone)
  BY <1>4 DEF Mule!Ours
<1>6. c \in Mule!Containers /\ v5' = [v5 EXCEPT ![v8] = [v5[v8] EXCEPT ![v9] = c]]
  BY <1>1, <1>2, <1>4, MuleHere
<1>7. r = "succeeded" => c = gone
  BY <1>2, EffectOf
<1>8. v10' \in Mule!Steps \ {"create"} /\ v16 \in {"no", "raise", "unavailable"}
  BY <1>1, MuleHere DEF Mule!Steps
<1> HIDE DEF c, gone
<1>9. CASE v16' = "raise"
  BY <1>1, <1>6, <1>8, <1>9, MuleMoves
<1>10. CASE v16' = "no"
  <2>1. c = gone /\ v16 = "no"
    BY <1>2, <1>7, <1>10
  <2>2. Mule!Ran(c) /\ v13 /\ (v14 \/ v15 = c.code)
    BY <2>1, <1>3, <1>4, <1>5 DEF Mule!Ran
  <2> QED BY <1>1, <1>6, <1>8, <1>10, <2>2, MuleMoves
<1>11. CASE v16' = "unavailable"
  <2>1. c.status = "none"
    BY <1>2, <1>4, <1>7, <1>11
  <2> QED BY <1>1, <1>6, <1>8, <1>11, <2>1, MuleMoves
<1> QED BY <1>2, <1>8, <1>9, <1>10, <1>11

(* The checks end: nothing of the attempt runs, or something raised. *)
LEMMA MulePosts ==
  ASSUME Mule!Inv, v9 \in Mule!CommandIds \cup Mule!Modes,
         UNCHANGED <<v1, v2, v3, v4, v5, v6, v7, v8, v11, v13, v14, v15, v17, v18, v19>>,
         v9' = "post", v10' = None, v16' \in {"no", "raise"},
         v12' \in [Mule!CommandIds -> {"passed", "failed", "unavailable", None}],
         v16' = "no" => Mule!Quiet(v8) /\ Mule!PassedFits'
  PROVE  Mule!Inv'
<1> USE DEF Mule!Inv
<1>1. /\ ~Mule!Running' /\ v9 \notin {"idle", "report"}
      /\ v9' \notin {"idle", "report"} \cup Mule!CommandIds \cup Mule!Modes
  BY DEF Mule!Running, Mule!Modes, Mule!CommandIds
<1>2. Mule!TypeOK'
  BY <1>1 DEF Mule!TypeOK
<1>3. Mule!VersionsFit' /\ Mule!ReportsFit'
  BY <1>1 DEF Mule!VersionsFit, Mule!ReportsFit, Mule!Quiet
<1>4. Mule!ConsumedFirst'
  BY <1>1 DEF Mule!ConsumedFirst, Mule!Fresh
<1>5. Mule!OutcomeFits'
  BY <1>1 DEF Mule!OutcomeFits, Mule!Quiet
<1> QED BY <1>1, <1>2, <1>3, <1>4, <1>5 DEF Mule!LifecycleFits,
     Mule!PassedRanInContainers, Mule!OneCandidate

(* Nothing of the attempt runs when its container does not. *)
LEMMA QuietWhenOver ==
  ASSUME Mule!Inv, Mule!Running, v5[v8][v9].status \in {"none", "created"}
  PROVE  Mule!Quiet(v8)
BY DEF Mule!Inv, Mule!Running, Mule!LifecycleFits, Mule!Quiet, Mule!Modes, Mule!Ran,
   Mule!NoContainer

(* An exception, or evidence that is unavailable, ends the checks. *)
LEMMA MuleFails == ASSUME Mule!Inv, Mule!Fail \/ Mule!Raise PROVE Mule!Inv'
<1>1. v12 \in [Mule!CommandIds -> {"passed", "failed", "unavailable", None}]
      /\ "munit" \in Mule!CommandIds
  BY DEF Mule!Inv, Mule!TypeOK, Mule!CommandIds
<1>2. CASE Mule!Fail
  <2>1. /\ Mule!Running /\ v10 = "conclude" /\ v16 # "no" /\ v9' = "post" /\ v10' = None
        /\ UNCHANGED <<v1, v2, v3, v4, v5, v6, v7, v8, v11, v13, v14, v15, v17, v18, v19>>
        /\ IF v16 = "unavailable"
           THEN v16' = "no" /\ v12' = [v12 EXCEPT !["munit"] = "unavailable"]
           ELSE v16' = v16 /\ v12' = v12
    BY <1>2 DEF Mule!Fail, Mule!Ends, Mule!daemon, Mule!run
  <2>2. v16 \in {"raise", "unavailable"} /\ v9 \in Mule!Modes
    BY <2>1, MuleHere
  <2>3. CASE v16 = "raise"
    BY <1>1, <2>1, <2>2, <2>3, MulePosts
  <2>4. CASE v16 = "unavailable"
    <3>1. Mule!Quiet(v8)
      BY <2>1, <2>4, MuleHere, QuietWhenOver DEF Mule!Inv, Mule!LifecycleFits
    <3>2. /\ v12' \in [Mule!CommandIds -> {"passed", "failed", "unavailable", None}]
          /\ v12'["munit"] # "passed"
      BY <1>1, <2>1, <2>4
    <3>3. Mule!PassedFits'
      BY <3>2 DEF Mule!PassedFits
    <3> QED BY <2>1, <2>2, <2>4, <3>1, <3>2, <3>3, MulePosts
  <2> QED BY <2>2, <2>3, <2>4
<1>3. CASE Mule!Raise
  <2>1. v9 \in Mule!CommandIds \cup Mule!Modes /\ v9' = "post" /\ v16' = "raise"
        /\ v10' = None /\ v12' = v12
        /\ UNCHANGED <<v1, v2, v3, v4, v5, v6, v7, v8, v11, v13, v14, v15, v17, v18, v19>>
    BY <1>3 DEF Mule!Raise, Mule!Running, Mule!daemon, Mule!run
  <2> QED BY <1>1, <2>1, MulePosts
<1> QED BY <1>2, <1>3

(* What a concluded lifecycle shows. *)
LEMMA Concluded ==
  ASSUME Mule!Inv, Mule!Running, v10 = "conclude", v16 = "no"
  PROVE  /\ Mule!Quiet(v8)
         /\ IF v13 THEN Mule!Ran(v5[v8][v9]) /\ (v14 \/ v15 = v5[v8][v9].code)
            ELSE v14 \/ v15 # 0
<1>1. IF v13 THEN Mule!Ran(v5[v8][v9]) /\ (v14 \/ v15 = v5[v8][v9].code)
      ELSE v5[v8][v9].status \in {"none", "created"} /\ (v14 \/ v15 # 0)
  BY MuleHere DEF Mule!Inv, Mule!LifecycleFits
<1> QED BY <1>1, QuietWhenOver DEF Mule!Ran

(* Only a probe that succeeded lets the validation begin. *)
LEMMA MuleConcludesProbe == ASSUME Mule!Inv, Mule!ConcludeProbe PROVE Mule!Inv'
<1>1. /\ v9 = "probe" /\ v10 = "conclude" /\ v16 = "no" /\ v16' = v16
      /\ Mule!Running /\ v9 \in Mule!Modes
      /\ UNCHANGED <<v1, v2, v3, v4, v5, v6, v7, v8, v11, v17, v18, v19>>
  BY DEF Mule!ConcludeProbe, Mule!Running, Mule!Modes, Mule!daemon, Mule!run
<1>2. v12 \in [Mule!CommandIds -> {"passed", "failed", "unavailable", None}]
      /\ "munit" \in Mule!CommandIds
  BY DEF Mule!Inv, Mule!TypeOK, Mule!CommandIds
<1>3. CASE v14 \/ v15 # 0
  <2>1. /\ v12' = [v12 EXCEPT !["munit"] = "unavailable"] /\ v9' = "post" /\ v10' = None
        /\ UNCHANGED <<v13, v14, v15>>
    BY <1>3 DEF Mule!ConcludeProbe, Mule!Ends
  <2>2. /\ v12' \in [Mule!CommandIds -> {"passed", "failed", "unavailable", None}]
        /\ v12'["munit"] # "passed"
    BY <1>2, <2>1
  <2>3. Mule!PassedFits'
    BY <2>2 DEF Mule!PassedFits
  <2> QED BY <1>1, <2>1, <2>2, <2>3, Concluded, MulePosts
<1>4. CASE ~(v14 \/ v15 # 0)
  <2> USE DEF Mule!Inv
  <2>1. /\ v9' = "validate" /\ v10' = "create" /\ v12' = v12
        /\ v13' = FALSE /\ v14' = FALSE /\ v15' = 0
    BY <1>4 DEF Mule!ConcludeProbe
  <2>2. Mule!Ran(v5[v8]["probe"]) /\ v5[v8]["probe"].code = 0
    BY <1>1, <1>4, Concluded
  <2>3. /\ v5[v8]["validate"] = Mule!NoContainer /\ v17 \in v18
        /\ v7.authority \in 0..v1["authority"] /\ v12["munit"] # "passed"
    BY <1>1 DEF Mule!LifecycleFits, Mule!ConsumedFirst
  <2>4. /\ Mule!Running' /\ "create" # None /\ v9' \in Mule!Modes
        /\ v9 \notin {"idle", "post", "report"} \cup Mule!CommandIds
        /\ v9' \notin {"idle", "post", "report"} \cup Mule!CommandIds
    BY <1>1, <2>1 DEF Mule!Running, Mule!Modes, Mule!CommandIds, Mule!Steps
  <2>5. Mule!TypeOK'
    BY <1>1, <2>1, <2>4 DEF Mule!TypeOK
  <2>6. Mule!VersionsFit' /\ Mule!ReportsFit'
    BY <1>1, <2>1, <2>4 DEF Mule!VersionsFit, Mule!ReportsFit, Mule!Quiet
  <2>7. Mule!ConsumedFirst'
    BY <1>1, <2>1, <2>3, <2>4 DEF Mule!ConsumedFirst, Mule!Fresh
  <2>8. Mule!LifecycleFits'
    BY <1>1, <2>1, <2>2, <2>3 DEF Mule!LifecycleFits, Mule!Ran, Mule!Ours, Mule!Here
  <2> QED BY <1>1, <2>1, <2>4, <2>5, <2>6, <2>7, <2>8 DEF Mule!OutcomeFits,
       Mule!PassedRanInContainers, Mule!OneCandidate
<1> QED BY <1>3, <1>4

(* MUnit passed only with its own exit code and complete reports. *)
LEMMA MUnitVerdict == ASSUME NEW suite
  PROVE /\ Mule!MUnitResult(suite) \in {"passed", "failed", "unavailable"}
        /\ Mule!MUnitResult(suite) = "passed" => ~v14 /\ suite = "passed" /\ v15 = 0
BY DEF Mule!MUnitResult

(* And then its two containers ran, on the candidate that was seen. *)
LEMMA MuleConcludesValidation == ASSUME Mule!Inv, Mule!ConcludeValidation PROVE Mule!Inv'
<1>1. /\ v9 = "validate" /\ v10 = "conclude" /\ v16 = "no" /\ v16' = "no"
      /\ Mule!Running /\ v9 \in Mule!Modes /\ v9' = "post" /\ v10' = None
      /\ UNCHANGED <<v1, v2, v3, v4, v5, v6, v7, v8, v11, v13, v14, v15, v17, v18, v19>>
  BY DEF Mule!ConcludeValidation, Mule!Ends, Mule!Running, Mule!Modes, Mule!daemon, Mule!run,
     Mule!lifecycle
<1>2. v12 \in [Mule!CommandIds -> {"passed", "failed", "unavailable", None}]
      /\ "munit" \in Mule!CommandIds
  BY DEF Mule!Inv, Mule!TypeOK, Mule!CommandIds
<1> DEFINE suite == IF v13 THEN v5[v8]["validate"].suite ELSE "none"
           result == Mule!MUnitResult(suite)
<1>3. v12' = [v12 EXCEPT !["munit"] = result]
  BY <1>1 DEF Mule!ConcludeValidation, Mule!Ends, Mule!Here
<1>4. /\ result \in {"passed", "failed", "unavailable"}
      /\ result = "passed" => ~v14 /\ suite = "passed" /\ v15 = 0
  BY MUnitVerdict
<1>5. /\ v12' \in [Mule!CommandIds -> {"passed", "failed", "unavailable", None}]
      /\ v12'["munit"] = result
  <2> HIDE DEF result
  <2> QED BY <1>2, <1>3, <1>4
<1>6. result = "passed" =>
        /\ Mule!Ran(v5[v8]["validate"]) /\ v5[v8]["validate"].code = 0
        /\ v5[v8]["validate"].suite = "passed"
  BY <1>1, <1>4, Concluded
<1>7. /\ Mule!Ran(v5[v8]["probe"]) /\ v5[v8]["probe"].code = 0 /\ v17 \in v18
  BY <1>1 DEF Mule!Inv, Mule!LifecycleFits
<1>8. Mule!PassedFits'
  BY <1>1, <1>5, <1>6, <1>7 DEF Mule!PassedFits, Mule!Ran, Mule!Ours, Mule!Modes
<1> HIDE DEF result
<1> QED BY <1>1, <1>5, <1>8, Concluded, MulePosts

(* A report is made where nothing moved since the attempt began. *)
LEMMA MuleReports == ASSUME Mule!Inv, Mule!Report PROVE Mule!Inv'
<1> USE DEF Mule!Inv
<1>1. /\ v9 = "post" /\ v9' = "report" /\ v16 = "no" /\ v1["candidate"] = v11.candidate
      /\ v7.authority # None => v1["authority"] = v7.authority
      /\ v19' = v19 \cup {[attempt |-> v8, results |-> v12, bound |-> v7]}
      /\ UNCHANGED <<v1, v2, v3, v4, v5, v6, v7, v8, v10, v11, v12, v13, v14, v15, v16, v17, v18>>
  BY DEF Mule!Report, Mule!Postconditions, Mule!AuthorityVerified, Mule!daemon, Mule!lifecycle
<1>2. /\ v7 # None /\ v7 = v3 /\ v4[v8] = v6 /\ v6 \in 1..MaxValidators /\ v8 \in Mule!Attempts
      /\ v11.candidate = 0 /\ v18 \subseteq {0} /\ v10 = None /\ v6 # None
      /\ ~Mule!Running /\ ~Mule!Running'
  BY <1>1 DEF Mule!TypeOK, Mule!VersionsFit, Mule!Running, Mule!Modes
<1>3. Mule!Quiet(v8) /\ Mule!PassedFits
  BY <1>1 DEF Mule!OutcomeFits
<1>4. Mule!TypeOK'
  BY <1>1, <1>2 DEF Mule!TypeOK
<1>5. Mule!VersionsFit'
  BY <1>1 DEF Mule!VersionsFit
<1>6. Mule!ConsumedFirst'
  BY <1>1 DEF Mule!ConsumedFirst, Mule!Fresh, Mule!CommandIds, Mule!Modes
<1>7. Mule!ReportsFit'
  BY <1>1, <1>2, <1>3 DEF Mule!ReportsFit, Mule!Quiet
<1>8. Mule!PassedRanInContainers'
  <2> SUFFICES ASSUME v12["munit"] = "passed"
               PROVE  /\ \A m \in Mule!Modes :
                           /\ v5[v8][m].starts = 1 /\ v5[v8][m].code = 0
                           /\ v5[v8][m].authority = v7.authority
                      /\ v5[v8]["validate"].suite = "passed"
                      /\ v18 = {v5[v8]["validate"].candidate}
    BY <1>1 DEF Mule!PassedRanInContainers
  <2>1. /\ v17 \in v18 /\ v5[v8]["validate"].suite = "passed" /\ "validate" \in Mule!Modes
        /\ \A m \in Mule!Modes : Mule!Ran(v5[v8][m]) /\ v5[v8][m].code = 0
    BY <1>3 DEF Mule!PassedFits, Mule!Modes
  <2>2. ASSUME NEW m \in Mule!Modes
        PROVE  v5[v8][m].starts = 1 /\ v5[v8][m].authority = v7.authority
               /\ v5[v8][m].candidate = v17
    BY <1>1, <2>1 DEF Mule!Ran, Mule!Ours
  <2> QED BY <1>2, <2>1, <2>2
<1>9. Mule!OneCandidate' /\ Mule!OutcomeFits'
  BY <1>1, <1>2, <1>3 DEF Mule!OneCandidate, Mule!OutcomeFits, Mule!Quiet
<1> QED BY <1>2, <1>4, <1>5, <1>6, <1>7, <1>8, <1>9 DEF Mule!LifecycleFits

(* The attempt is over, or the process died. *)
LEMMA MuleReturns == ASSUME Mule!Inv, Mule!Return \/ Mule!Crash PROVE Mule!Inv'
<1> USE DEF Mule!Inv
<1>1. /\ v9' = "idle" /\ v16' = "no" /\ v7' \in {v7, None}
      /\ (v7' = v7 /\ v10' = v10 /\ v9 \in {"report", "post"}) \/ (v7' = None /\ v10' = None)
      /\ UNCHANGED <<v1, v2, v3, v4, v5, v6, v8, v11, v12, v13, v14, v15, v17, v18, v19>>
  BY DEF Mule!Return, Mule!Crash, Mule!daemon, Mule!run
<1>2. ~Mule!Running' /\ v10' = None
  BY <1>1 DEF Mule!Running, Mule!Modes, Mule!TypeOK
<1>3. Mule!TypeOK'
  BY <1>1, <1>2 DEF Mule!TypeOK
<1>4. Mule!VersionsFit'
  BY <1>1 DEF Mule!VersionsFit
<1>5. Mule!ConsumedFirst'
  BY <1>1 DEF Mule!ConsumedFirst, Mule!Fresh, Mule!CommandIds, Mule!Modes
<1> QED BY <1>1, <1>2, <1>3, <1>4, <1>5 DEF Mule!LifecycleFits, Mule!OutcomeFits,
     Mule!ReportsFit, Mule!Quiet, Mule!PassedRanInContainers, Mule!OneCandidate

(* Every action keeps the invariant. *)
LEMMA MuleStep == ASSUME Mule!Inv, Mule!Next PROVE Mule!Inv'
<1> HIDE DEF Mule!Inv
<1> QED BY MuleHostChanges, MuleExits, MuleBuilds, MuleCalls, MuleChecks, MuleBegins,
     MulePrepares, MuleCreates, MuleInspects, MuleStarts, MuleWaits, MuleKills, MuleRemoves,
     MuleFails, MuleConcludesProbe, MuleConcludesValidation, MuleReports, MuleReturns
     DEF Mule!Next

(* The properties follow from the invariant. *)
LEMMA MuleHolds ==
  ASSUME Mule!Inv
  PROVE  /\ Mule!TypeOK /\ Mule!StartedOnce /\ Mule!PassedRanInContainers
         /\ Mule!ReportLeavesNothingRunning /\ Mule!ReportsAgree /\ Mule!OneCandidate
<1> USE DEF Mule!Inv
<1>1. Mule!StartedOnce
  <2> SUFFICES ASSUME NEW a \in Mule!Attempts, NEW m \in Mule!Modes PROVE v5[a][m].starts <= 1
    BY DEF Mule!StartedOnce
  <2>1. v5[a][m] \in Mule!Containers
    BY DEF Mule!VersionsFit
  <2> QED BY <2>1 DEF Mule!Containers
<1>2. Mule!ReportLeavesNothingRunning /\ Mule!ReportsAgree
  BY DEF Mule!ReportsFit, Mule!ReportLeavesNothingRunning, Mule!ReportsAgree, Mule!Quiet
<1> QED BY <1>1, <1>2

HIDE DEF Mule!NoneAssumption

-----------------------------------------------------------------------------
(* The commands.                                                            *)

USE DEF Runner!CommandRunnerAssumption

(* At first no nonce is consumed and nothing is read. *)
LEMMA RunnerStart == Runner!Init => Runner!Inv
<1> SUFFICES ASSUME Runner!Init PROVE Runner!Inv
  OBVIOUS
<1> USE DEF Runner!Init
<1>1. Runner!TypeOK /\ Runner!NoncesFit /\ Runner!ReadsFit /\ Runner!DigestIsOfThePath
  BY DEF Runner!TypeOK, Runner!NoncesFit, Runner!ReadsFit, Runner!DigestIsOfThePath,
     Runner!Doing, Runner!Idle
<1>2. Runner!Link \in Runner!FileStates /\ [inode |-> 1, mtime |-> 0, parts |-> <<1, 1>>] \in Runner!FileStates
  BY DEF Runner!Link, Runner!FileStates
<1>3. Runner!FilesFit
  BY <1>2 DEF Runner!FilesFit, Runner!OnDisk, Runner!Link
<1> QED BY <1>1, <1>3 DEF Runner!Inv

(* A step of another part keeps it. *)
LEMMA RunnerKept == ASSUME Runner!Inv, UNCHANGED Runner!vars PROVE Runner!Inv'
BY DEF Runner!Inv, Runner!vars, Runner!TypeOK, Runner!NoncesFit, Runner!ReadsFit, Runner!ReadFits,
   Runner!FilesFit, Runner!DigestIsOfThePath, Runner!Doing, Runner!OnDisk, Runner!Matches,
   Runner!WasThere

(* What a thread may be doing, and when it has a file open. *)
Pcs == {"idle", "consume", "spawn", "run", "look", "open", "read", "compare", "place"}
Reading == {"read", "compare", "place"}

(* A thread goes on, and no file changes. *)
LEMMA RunnerMoves ==
  ASSUME Runner!Inv, NEW t \in Threads, NEW s, v1' = [v1 EXCEPT ![t] = s], s.pc \in Pcs,
         s.pc \in {"consume", "spawn"} => s.attempt \in 1..MaximumAttempts,
         s.pc \in Reading => Runner!ReadFits(s),
         UNCHANGED <<v3, v4, v6, v7, v9, v10>>, Runner!NoncesFit',
         v2' \subseteq Nonces, v5' \subseteq Threads, v8' \in [Nonces -> Nat]
  PROVE  Runner!Inv'
<1> USE DEF Runner!Inv
<1>1. /\ v1' = [u \in Threads |-> IF u = t THEN s ELSE v1[u]]
  BY DEF Runner!NoncesFit
<1>2. Runner!TypeOK'
  BY <1>1 DEF Runner!TypeOK, Runner!Doing, Pcs
<1>3. Runner!FilesFit' /\ Runner!DigestIsOfThePath'
  BY DEF Runner!FilesFit, Runner!OnDisk, Runner!DigestIsOfThePath
<1>5. Runner!ReadsFit'
  <2> SUFFICES ASSUME NEW u \in Threads, v1'[u].pc \in Reading PROVE Runner!ReadFits(v1[u])'
    BY DEF Runner!ReadsFit, Runner!Doing, Reading
  <2>1. Runner!ReadFits(v1'[u])
    BY <1>1 DEF Runner!ReadsFit, Runner!Doing, Reading
  <2> QED BY <2>1 DEF Runner!ReadFits, Runner!OnDisk, Runner!Matches, Runner!WasThere
<1> QED BY <1>2, <1>3, <1>5

(* A thread that has no nonce any more moves none. *)
LEMMA NoncesKept ==
  ASSUME Runner!Inv, NEW t \in Threads, NEW s, v1' = [v1 EXCEPT ![t] = s],
         s.pc \notin {"consume", "spawn"}, UNCHANGED <<v2, v8>>
  PROVE  Runner!NoncesFit'
BY DEF Runner!Inv, Runner!NoncesFit, Runner!Doing

(* A call that is authorized, with a nonce or none. *)
LEMMA RunnerCalls ==
  ASSUME Runner!Inv, NEW t \in Threads, Runner!Call(t) PROVE Runner!Inv'
<1>1. /\ UNCHANGED <<v2, v5, v7, v8, v10, v3, v4, v6, v9>>
  BY DEF Runner!Call, Runner!disk
<1>2. PICK attempt \in AttemptsGiven, command \in {"gated", "free"}, approval \in Runner!Approvals :
        /\ Runner!WithinBudget(attempt)
        /\ LET uses == command = "gated" /\ approval \in Nonces
           IN v1' = [v1 EXCEPT ![t] = [pc |-> IF uses THEN "consume" ELSE "spawn",
                                       attempt |-> attempt,
                                       nonce |-> IF uses THEN approval ELSE "none"]]
  BY DEF Runner!Call, Runner!Become
<1> DEFINE uses == command = "gated" /\ approval \in Nonces
           s == [pc |-> IF uses THEN "consume" ELSE "spawn", attempt |-> attempt,
                 nonce |-> IF uses THEN approval ELSE "none"]
<1>3. /\ v1' = [v1 EXCEPT ![t] = s] /\ s.pc \in {"consume", "spawn"} /\ s.attempt = attempt
      /\ s.pc = "consume" => s.nonce \in Nonces
      /\ s.pc = "spawn" => s.nonce \notin Nonces
  BY <1>2
<1>4. s.attempt \in 1..MaximumAttempts
  BY <1>2, <1>3 DEF Runner!WithinBudget
<1> HIDE DEF s
<1>5. Runner!NoncesFit'
  BY <1>1, <1>3 DEF Runner!Inv, Runner!NoncesFit, Runner!Doing
<1> QED BY <1>1, <1>3, <1>4, <1>5, RunnerMoves DEF Pcs, Reading, Runner!Inv, Runner!TypeOK

(* A nonce is consumed once: who has it may spawn, and nobody else. *)
LEMMA RunnerConsumes ==
  ASSUME Runner!Inv, NEW t \in Threads, Runner!Consume(t) PROVE Runner!Inv'
<1>1. /\ UNCHANGED <<v5, v7, v8, v10, v3, v4, v6, v9>> /\ v1[t].pc = "consume"
      /\ v1[t].nonce \in Nonces
  BY DEF Runner!Consume, Runner!disk, Runner!Doing, Runner!Inv, Runner!NoncesFit
<1>2. CASE v1[t].nonce \in v2
  <2>1. v1' = [v1 EXCEPT ![t] = Runner!Idle] /\ v2' = v2 /\ Runner!Idle.pc = "idle"
    BY <1>2 DEF Runner!Consume, Runner!Become, Runner!Idle
  <2> QED BY <1>1, <2>1, NoncesKept, RunnerMoves DEF Pcs, Reading, Runner!Inv, Runner!TypeOK
<1>3. CASE v1[t].nonce \notin v2
  <2> DEFINE s == [v1[t] EXCEPT !.pc = "spawn"]
  <2>1. v1' = [v1 EXCEPT ![t] = s] /\ v2' = v2 \cup {v1[t].nonce}
    BY <1>3 DEF Runner!Consume, Runner!Become
  <2>2. s.pc = "spawn" /\ s.nonce = v1[t].nonce /\ s.attempt = v1[t].attempt
    BY <1>1
  <2>3. v1[t].attempt \in 1..MaximumAttempts
    BY <1>1 DEF Runner!Inv, Runner!TypeOK, Runner!Doing
  <2> HIDE DEF s
  <2>4. Runner!NoncesFit'
    BY <1>1, <1>3, <2>1, <2>2 DEF Runner!Inv, Runner!NoncesFit, Runner!Doing
  <2> QED BY <1>1, <2>1, <2>2, <2>3, <2>4, RunnerMoves DEF Pcs, Reading, Runner!Inv, Runner!TypeOK
<1> QED BY <1>2, <1>3

(* The one process of a nonce. *)
LEMMA RunnerSpawns ==
  ASSUME Runner!Inv, NEW t \in Threads, Runner!Spawn(t) PROVE Runner!Inv'
<1> DEFINE s == [v1[t] EXCEPT !.pc = "run"]
<1>1. /\ UNCHANGED <<v2, v7, v10, v3, v4, v6, v9>> /\ v1[t].pc = "spawn"
      /\ v5' = v5 \cup {t} /\ v1' = [v1 EXCEPT ![t] = s]
      /\ v8' = [n \in Nonces |-> v8[n] + IF n = v1[t].nonce THEN 1 ELSE 0]
  BY DEF Runner!Spawn, Runner!disk, Runner!Doing, Runner!Become
<1>2. s.pc = "run"
  BY <1>1
<1> HIDE DEF s
<1>3. /\ v8' \in [Nonces -> Nat] /\ \A n \in Nonces : v8'[n] \in 0..1
      /\ \A n \in Nonces : v8'[n] = IF n = v1[t].nonce THEN 1 ELSE v8[n]
  BY <1>1 DEF Runner!Inv, Runner!TypeOK, Runner!NoncesFit, Runner!Doing
<1>4. Runner!NoncesFit'
  BY <1>1, <1>2, <1>3 DEF Runner!Inv, Runner!NoncesFit, Runner!Doing
<1> QED BY <1>1, <1>2, <1>3, <1>4, RunnerMoves DEF Pcs, Reading, Runner!Inv, Runner!TypeOK

(* A step of a thread that holds no nonce, and starts no process. *)
LEMMA RunnerGoesOn ==
  ASSUME Runner!Inv, NEW t \in Threads, NEW s, v1' = [v1 EXCEPT ![t] = s],
         s.pc \in {"idle", "look", "open", "read", "compare", "place"},
         s.pc \in Reading => Runner!ReadFits(s),
         UNCHANGED <<v2, v3, v4, v6, v7, v8, v9, v10>>, v5' \subseteq v5
  PROVE  Runner!Inv'
<1>1. Runner!NoncesFit'
  BY NoncesKept
<1> QED BY <1>1, RunnerMoves DEF Pcs, Reading, Runner!Inv, Runner!TypeOK

(* A command ends, or its artifact is looked for. *)
LEMMA RunnerEnds ==
  ASSUME Runner!Inv, NEW t \in Threads, Runner!Terminate(t) \/ Runner!Look(t) PROVE Runner!Inv'
<1> DEFINE s == [pc |-> "look"]
           o == IF v3 \in {NoFile, Runner!Link} THEN Runner!Idle ELSE [pc |-> "open"]
<1>1. s.pc = "look" /\ o.pc \in {"idle", "open"}
  BY DEF Runner!Idle
<1>2. /\ UNCHANGED <<v2, v3, v4, v6, v7, v8, v9, v10>> /\ v5' \subseteq v5
      /\ v1' = [v1 EXCEPT ![t] = s] \/ v1' = [v1 EXCEPT ![t] = o]
  BY DEF Runner!Terminate, Runner!Look, Runner!disk, Runner!Become
<1> HIDE DEF s, o
<1> QED BY <1>1, <1>2, RunnerGoesOn DEF Reading

(* The one file that a descriptor is open on. *)
LEMMA OpenedIs ==
  ASSUME Runner!Inv, NEW t \in Threads, v1[t].pc \in Reading
  PROVE  /\ Runner!Opened(t) \in Runner!OnDisk /\ Runner!Opened(t).inode = v1[t].inode
         /\ Runner!ReadFits(v1[t])
         /\ \A f \in Runner!OnDisk : f.inode = v1[t].inode => f = Runner!Opened(t)
<1>1. Runner!ReadFits(v1[t])
  BY DEF Runner!Inv, Runner!ReadsFit, Runner!Doing, Reading
<1>2. \E f \in v4 \cup {v3} : f # NoFile /\ f.inode = v1[t].inode
  BY <1>1 DEF Runner!ReadFits, Runner!OnDisk
<1>3. /\ Runner!Opened(t) \in v4 \cup {v3} /\ Runner!Opened(t) # NoFile
      /\ Runner!Opened(t).inode = v1[t].inode
  BY <1>2 DEF Runner!Opened
<1> QED BY <1>1, <1>3 DEF Runner!OnDisk, Runner!Inv, Runner!FilesFit

(* What is opened is the file that is at the path. *)
LEMMA RunnerOpens ==
  ASSUME Runner!Inv, NEW t \in Threads, Runner!Open(t) PROVE Runner!Inv'
<1>1. /\ UNCHANGED <<v2, v3, v4, v5, v6, v7, v8, v9, v10>>
  BY DEF Runner!Open, Runner!disk
<1>2. CASE v3 \in {NoFile, Runner!Link}
  <2>1. v1' = [v1 EXCEPT ![t] = Runner!Idle] /\ Runner!Idle.pc = "idle"
    BY <1>2 DEF Runner!Open, Runner!Become, Runner!Idle
  <2> QED BY <1>1, <2>1, RunnerGoesOn DEF Reading
<1>3. CASE v3 \notin {NoFile, Runner!Link}
  <2> DEFINE s == [pc |-> "read", inode |-> v3.inode, mtime |-> v3.mtime, got |-> <<>>,
                   now |-> v3]
  <2>1. v1' = [v1 EXCEPT ![t] = s]
    BY <1>3 DEF Runner!Open, Runner!Become
  <2>3. /\ v3 \in Runner!OnDisk /\ v3 \in Runner!FileStates /\ v3.inode \in 1..v6 /\ v3.mtime \in Nat
        /\ \A f \in Runner!OnDisk : f.inode = v3.inode => f = v3
    BY <1>3 DEF Runner!Inv, Runner!FilesFit, Runner!OnDisk, Runner!FileStates
  <2>2. /\ s.pc = "read" /\ s.inode = v3.inode /\ s.mtime = v3.mtime /\ s.got = <<>> /\ s.now = v3
        /\ Len(s.got) = 0
        /\ s \in [pc : {"read", "compare", "place"}, inode : 1..v6, mtime : Nat,
                  got : Seq(Nat), now : Runner!FileStates \cup {NoFile}]
    BY <2>3
  <2> HIDE DEF s
  <2>4. Runner!ReadFits(s)
    BY <1>3, <2>2, <2>3 DEF Runner!ReadFits, Runner!WasThere, Runner!Matches
  <2> QED BY <1>1, <2>1, <2>2, <2>4, RunnerGoesOn
<1> QED BY <1>2, <1>3

(* A piece is read of the file that is open, wherever it is by now. *)
LEMMA RunnerReads ==
  ASSUME Runner!Inv, NEW t \in Threads, Runner!Read(t) PROVE Runner!Inv'
<1> DEFINE c == v1[t]
           f == Runner!Opened(t)
           n == Len(c.got) + 1
           got == Append(c.got, f.parts[n])
           s == [c EXCEPT !.got = got, !.pc = IF n = 2 THEN "compare" ELSE "read", !.now = v3]
<1>1. /\ UNCHANGED <<v2, v3, v4, v5, v6, v7, v8, v9, v10>>
      /\ c.pc = "read" /\ c.pc \in Reading
  BY DEF Runner!Read, Runner!disk, Runner!Doing, Reading
<1>2. v1' = [v1 EXCEPT ![t] = s]
  BY DEF Runner!Read, Runner!Become
<1>3. /\ f \in Runner!OnDisk /\ f.inode = c.inode /\ Runner!ReadFits(c)
      /\ \A g \in Runner!OnDisk : g.inode = c.inode => g = f
      /\ f \in Runner!FileStates
  BY <1>1, OpenedIs DEF Runner!Inv, Runner!FilesFit
<1> HIDE DEF f
<1>4. /\ c.got \in Seq(Nat) /\ n \in 1..2 /\ f.parts \in [1..2 -> Nat]
      /\ v3 \in Runner!FileStates \cup {NoFile}
      /\ c \in [pc : {"read", "compare", "place"}, inode : 1..v6, mtime : Nat,
                got : Seq(Nat), now : Runner!FileStates \cup {NoFile}]
  <2>1. /\ c \in [pc : {"read", "compare", "place"}, inode : 1..v6, mtime : Nat,
                  got : Seq(Nat), now : Runner!FileStates \cup {NoFile}]
        /\ Len(c.got) \in 0..1
    BY <1>1, <1>3 DEF Runner!ReadFits
  <2>2. f.parts \in [1..2 -> Nat]
    BY <1>3 DEF Runner!FileStates
  <2>3. v3 \in Runner!FileStates \cup {NoFile}
    BY DEF Runner!OnDisk, Runner!Inv, Runner!FilesFit
  <2> HIDE DEF c
  <2>4. c.got \in Seq(Nat)
    BY <2>1
  <2>5. n \in 1..2
    <3>1. \A k : k \in 0..1 => k + 1 \in 1..2
      OBVIOUS
    <3> QED BY <2>1, <3>1
  <2> QED BY <2>1, <2>2, <2>3, <2>4, <2>5
<1>5. /\ got \in Seq(Nat) /\ Len(got) = n /\ got[n] = f.parts[n]
      /\ \A i \in 1..Len(c.got) : got[i] = c.got[i]
  <2>1. n = Len(c.got) + 1 /\ c.got \in Seq(Nat) /\ f.parts[n] \in Nat
    BY <1>4
  <2> HIDE DEF c, f, n
  <2> QED BY <2>1
<1>6. Runner!Matches(c, f) => \A i \in 1..n : got[i] = f.parts[i]
  BY <1>4, <1>5 DEF Runner!Matches
<1> HIDE DEF got, n
<1>7. s.pc \in {"read", "compare"} /\ s.got = got /\ s.now = v3 /\ s.inode = c.inode
      /\ s.mtime = c.mtime /\ (s.pc = "read" <=> n # 2)
      /\ s \in [pc : {"read", "compare", "place"}, inode : 1..v6, mtime : Nat,
                got : Seq(Nat), now : Runner!FileStates \cup {NoFile}]
  <2> HIDE DEF c
  <2> QED BY <1>4, <1>5
<1> HIDE DEF s
<1>8. Runner!ReadFits(s)
  <2>1. Len(s.got) \in IF s.pc = "read" THEN 0..1 ELSE {2}
    BY <1>4, <1>5, <1>7
  <2>2. v3 # NoFile /\ v3.inode = s.inode => v3 = f /\ Runner!WasThere(s)
    BY <1>3, <1>7 DEF Runner!OnDisk, Runner!WasThere
  <2>3. Runner!WasThere(s) => v3 = f
    BY <1>3, <1>7 DEF Runner!OnDisk, Runner!WasThere
  <2>4. Runner!Matches(c, f) => Runner!Matches(s, f)
    BY <1>5, <1>6, <1>7 DEF Runner!Matches
  <2>5. \/ c.inode \in v9
        \/ c.mtime <= f.mtime /\ (f.mtime = c.mtime => Runner!Matches(c, f))
    <3>1. c.pc = "read" /\ f \in Runner!OnDisk /\ f.inode = c.inode
      BY <1>1, <1>3
    <3>2. \/ c.inode \in v9
          \/ \A g \in Runner!OnDisk : g.inode = c.inode =>
                c.mtime <= g.mtime /\ (g.mtime = c.mtime => Runner!Matches(c, g))
      BY <1>3, <3>1 DEF Runner!ReadFits
    <3> QED BY <3>1, <3>2
  <2>6. \/ s.inode \in v9
        \/ \A g \in Runner!OnDisk : g.inode = s.inode =>
              /\ s.mtime <= g.mtime
              /\ g.mtime = s.mtime => Runner!Matches(s, f) /\ g = f
    BY <1>3, <1>7, <2>4, <2>5
  <2>7. \E g \in Runner!OnDisk : g.inode = s.inode
    BY <1>3, <1>7
  <2>8. Runner!WasThere(s) => s.now = f
    BY <1>7, <2>3
  <2>9. \/ s.inode \in v9
        \/ \A g \in Runner!OnDisk : g.inode = s.inode =>
              /\ s.mtime <= g.mtime
              /\ g.mtime = s.mtime =>
                   IF s.pc = "read" THEN Runner!Matches(s, g)
                   ELSE Runner!WasThere(s) => Runner!Matches(s, s.now)
    BY <2>6, <2>8
  <2> HIDE DEF c
  <2> QED BY <1>7, <2>1, <2>2, <2>7, <2>9 DEF Runner!ReadFits
<1> QED BY <1>1, <1>2, <1>7, <1>8, RunnerGoesOn

(* The time of the file is the one it had: it has what was read. *)
LEMMA RunnerCompares ==
  ASSUME Runner!Inv, NEW t \in Threads, Runner!Compare(t) PROVE Runner!Inv'
<1> DEFINE c == v1[t]
           f == Runner!Opened(t)
           s == [c EXCEPT !.pc = "place"]
<1>1. /\ UNCHANGED <<v2, v3, v4, v5, v6, v7, v8, v9, v10>>
      /\ c.pc = "compare" /\ c.pc \in Reading
  BY DEF Runner!Compare, Runner!disk, Runner!Doing, Reading
<1>2. CASE f.mtime = c.mtime
  <2>1. v1' = [v1 EXCEPT ![t] = s]
    BY <1>2 DEF Runner!Compare, Runner!Become
  <2>2. /\ f \in Runner!OnDisk /\ f.inode = c.inode /\ Runner!ReadFits(c)
    BY <1>1, OpenedIs
  <2>3. c \in [pc : {"read", "compare", "place"}, inode : 1..v6, mtime : Nat,
               got : Seq(Nat), now : Runner!FileStates \cup {NoFile}]
    BY <2>2 DEF Runner!ReadFits
  <2> HIDE DEF c, f
  <2>4. /\ s.pc = "place" /\ s.got = c.got /\ s.now = c.now /\ s.inode = c.inode
        /\ s.mtime = c.mtime
        /\ s \in [pc : {"read", "compare", "place"}, inode : 1..v6, mtime : Nat,
                  got : Seq(Nat), now : Runner!FileStates \cup {NoFile}]
    BY <2>3
  <2> HIDE DEF s
  <2>5. Runner!ReadFits(s)
    BY <1>1, <1>2, <2>2, <2>4 DEF Runner!ReadFits, Runner!WasThere, Runner!Matches
  <2> QED BY <1>1, <2>1, <2>4, <2>5, RunnerGoesOn DEF c
<1>3. CASE f.mtime # c.mtime
  <2>1. v1' = [v1 EXCEPT ![t] = Runner!Idle] /\ Runner!Idle.pc = "idle"
    BY <1>3 DEF Runner!Compare, Runner!Become, Runner!Idle
  <2> QED BY <1>1, <2>1, RunnerGoesOn DEF Reading
<1> QED BY <1>2, <1>3

(* A receipt is added, or none, and the thread is idle. *)
LEMMA RunnerPlaces ==
  ASSUME Runner!Inv, NEW t \in Threads, Runner!Place(t) PROVE Runner!Inv'
<1> DEFINE c == v1[t]
           r == Runner!Hashed(t)
<1>1. /\ UNCHANGED <<v2, v3, v4, v5, v6, v7, v8, v9>> /\ c.pc = "place" /\ c.pc \in Reading
      /\ v1' = [v1 EXCEPT ![t] = Runner!Idle] /\ Runner!Idle.pc = "idle"
      /\ v10' = v10 \/ (v3 # NoFile /\ v3.inode = c.inode /\ v10' = v10 \cup {r})
  BY DEF Runner!Place, Runner!disk, Runner!Doing, Runner!Become, Runner!Idle, Reading
<1>2. Runner!ReadFits(c)
  BY <1>1, OpenedIs
<1>3. r.inode = c.inode /\ r.got = c.got /\ r.now = c.now
  BY DEF Runner!Hashed
<1> HIDE DEF r, c
<1>4. ASSUME v3 # NoFile, v3.inode = c.inode, c.inode \notin v9
      PROVE  c.now # NoFile /\ c.got = c.now.parts
  <2>1. /\ Runner!WasThere(c) /\ Runner!Matches(c, c.now) /\ c.got \in Seq(Nat) /\ Len(c.got) = 2
        /\ c.now \in Runner!FileStates
    BY <1>1, <1>2, <1>4 DEF Runner!ReadFits, Runner!WasThere
  <2> DEFINE got == c.got
             now == c.now
  <2>2. /\ got \in Seq(Nat) /\ Len(got) = 2 /\ now.parts \in [1..2 -> Nat]
        /\ \A i \in 1..2 : got[i] = now.parts[i]
    BY <2>1 DEF Runner!Matches, Runner!FileStates
  <2> HIDE DEF got, now
  <2>3. got \in [1..2 -> Nat]
    BY <2>2
  <2>4. got = now.parts
    BY <2>2, <2>3
  <2> QED BY <2>1, <2>4 DEF got, now, Runner!WasThere
<1>5. Runner!DigestIsOfThePath'
  BY <1>1, <1>3, <1>4 DEF Runner!Inv, Runner!DigestIsOfThePath
<1>6. Runner!TypeOK' /\ Runner!NoncesFit'
  BY <1>1, NoncesKept DEF Runner!Inv, Runner!TypeOK, Runner!NoncesFit, Runner!Doing
<1>7. Runner!FilesFit' /\ Runner!ReadsFit'
  <2>1. Runner!FilesFit'
    BY <1>1 DEF Runner!Inv, Runner!FilesFit, Runner!OnDisk
  <2>2. v1' = [u \in Threads |-> IF u = t THEN Runner!Idle ELSE v1[u]]
    BY <1>1 DEF Runner!Inv, Runner!NoncesFit
  <2>3. ASSUME NEW u \in Threads, v1'[u].pc \in Reading PROVE Runner!ReadFits(v1[u])'
    <3>1. Runner!ReadFits(v1'[u])
      BY <1>1, <2>2, <2>3 DEF Runner!Inv, Runner!ReadsFit, Runner!Doing, Reading
    <3> QED BY <1>1, <3>1 DEF Runner!ReadFits, Runner!OnDisk, Runner!Matches, Runner!WasThere
  <2> QED BY <2>1, <2>3 DEF Runner!ReadsFit, Runner!Doing, Reading
<1> QED BY <1>5, <1>6, <1>7 DEF Runner!Inv

(* The files change, and no thread: a read fits after it as before. *)
LEMMA DiskMoves ==
  ASSUME Runner!Inv, UNCHANGED <<v1, v2, v5, v8, v10>>, Runner!FilesFit', v9 \subseteq v9',
         \A t \in Threads : Runner!ReadFits(v1[t]) => Runner!ReadFits(v1[t])'
  PROVE  Runner!Inv'
<1> USE DEF Runner!Inv
<1>1. Runner!TypeOK' /\ Runner!NoncesFit' /\ Runner!DigestIsOfThePath'
  BY DEF Runner!TypeOK, Runner!NoncesFit, Runner!DigestIsOfThePath, Runner!Doing, Runner!FilesFit
<1>2. Runner!ReadsFit'
  BY DEF Runner!ReadsFit, Runner!Doing
<1> QED BY <1>1, <1>2

(* The clock goes on. *)
LEMMA RunnerTicks == ASSUME Runner!Inv, Runner!Tick PROVE Runner!Inv'
<1>1. /\ UNCHANGED <<v1, v2, v3, v4, v5, v6, v8, v9, v10>> /\ v7' = v7 + 1 /\ v7 < MaxClock
  BY DEF Runner!Tick, Runner!disk
<1>2. Runner!FilesFit'
  BY <1>1 DEF Runner!Inv, Runner!FilesFit, Runner!OnDisk, Runner!FileStates
<1>3. \A t \in Threads : Runner!ReadFits(v1[t]) => Runner!ReadFits(v1[t])'
  BY <1>1 DEF Runner!ReadFits, Runner!OnDisk, Runner!Matches, Runner!WasThere
<1> QED BY <1>1, <1>2, <1>3, DiskMoves

(* A write in place changes the time, unless the tick hides it. *)
LEMMA RunnerWrites == ASSUME Runner!Inv, Runner!WritePiece PROVE Runner!Inv'
<1>1. /\ UNCHANGED <<v1, v2, v4, v5, v7, v8, v10>> /\ v3 \notin {NoFile, Runner!Link}
      /\ v6' = v6 + 1 /\ v6 < MaxWrites
      /\ v9' = IF v3.mtime = v7 THEN v9 \cup {v3.inode} ELSE v9
  BY DEF Runner!WritePiece
<1>2. PICK i \in 1..2 : v3' = [v3 EXCEPT !.parts[i] = v6 + 1, !.mtime = v7]
  BY DEF Runner!WritePiece
<1> DEFINE f == v3
           g == v3'
<1>3. /\ f \in Runner!OnDisk /\ f \in Runner!FileStates /\ f.inode > 0 /\ f \notin v4
      /\ f.inode <= v6 /\ f.mtime <= v7
      /\ v6 \in 1..MaxWrites /\ v7 \in 0..MaxClock
  BY <1>1 DEF Runner!Inv, Runner!FilesFit, Runner!OnDisk, Runner!FileStates
<1>4. g \in Runner!FileStates /\ g.inode = f.inode /\ g.mtime = v7 /\ g # NoFile
  <2>1. /\ f.parts \in [1..2 -> Nat] /\ f \in [inode : Nat, mtime : Nat, parts : [1..2 -> Nat]]
        /\ v6 + 1 \in Nat /\ v7 \in Nat
    BY <1>3 DEF Runner!FileStates
  <2>2. g = [f EXCEPT !.parts = [f.parts EXCEPT ![i] = v6 + 1], !.mtime = v7]
    BY <1>2, <2>1
  <2> HIDE DEF f, g
  <2> DEFINE parts == [f.parts EXCEPT ![i] = v6 + 1]
  <2>3. parts \in [1..2 -> Nat]
    BY <2>1
  <2> HIDE DEF parts
  <2>4. g = [f EXCEPT !.parts = parts, !.mtime = v7]
    BY <2>2 DEF parts
  <2>5. g \in Runner!FileStates /\ g.inode = f.inode /\ g.mtime = v7
    BY <2>1, <2>3, <2>4 DEF Runner!FileStates
  <2> QED BY <2>5
<1>5. Runner!OnDisk' = (Runner!OnDisk \ {f}) \cup {g}
  BY <1>1, <1>3, <1>4 DEF Runner!OnDisk, Runner!Inv, Runner!FilesFit
<1>6. g \notin v4
  BY <1>1, <1>3, <1>4 DEF Runner!OnDisk, Runner!Inv, Runner!FilesFit
<1> HIDE DEF f, g
<1>7. Runner!FilesFit'
  <2>1. /\ v6' \in 1..MaxWrites /\ v7' \in 0..MaxClock /\ NoFile \notin v4'
        /\ Runner!OnDisk' \subseteq Runner!FileStates
    BY <1>1, <1>3, <1>4, <1>5 DEF Runner!Inv, Runner!FilesFit
  <2>2. \A h \in Runner!OnDisk' :
          h.inode <= v6' /\ h.mtime <= v7' /\ (h.inode = 0 => h = Runner!Link)
    BY <1>1, <1>3, <1>4, <1>5 DEF Runner!Inv, Runner!FilesFit, Runner!FileStates
  <2>3. \A h, k \in Runner!OnDisk' : h.inode = k.inode => h = k
    BY <1>3, <1>4, <1>5 DEF Runner!Inv, Runner!FilesFit
  <2> QED BY <2>1, <2>2, <2>3, <1>1, <1>6 DEF Runner!FilesFit, Runner!Link, g
<1>8. ASSUME NEW t \in Threads, Runner!ReadFits(v1[t]) PROVE Runner!ReadFits(v1[t])'
  <2> DEFINE c == v1[t]
  <2>1. /\ c \in [pc : {"read", "compare", "place"}, inode : 1..v6, mtime : Nat,
                  got : Seq(Nat), now : Runner!FileStates \cup {NoFile}]
    BY <1>8 DEF Runner!ReadFits
  <2>2. /\ Len(c.got) \in IF c.pc = "read" THEN 0..1 ELSE {2}
        /\ \E h \in Runner!OnDisk : h.inode = c.inode
        /\ f.inode = c.inode => Runner!WasThere(c)
        /\ c.inode \in v9
            \/ /\ c.pc # "place" =>
                    \A h \in Runner!OnDisk : h.inode = c.inode =>
                        /\ c.mtime <= h.mtime
                        /\ h.mtime = c.mtime =>
                             IF c.pc = "read" THEN Runner!Matches(c, h)
                             ELSE Runner!WasThere(c) => Runner!Matches(c, c.now)
               /\ c.pc = "place" /\ Runner!WasThere(c) => Runner!Matches(c, c.now)
    BY <1>1, <1>8 DEF Runner!ReadFits, f
  <2> HIDE DEF c
  <2>3. c \in [pc : {"read", "compare", "place"}, inode : 1..v6', mtime : Nat,
              got : Seq(Nat), now : Runner!FileStates \cup {NoFile}]
    BY <1>1, <1>3, <2>1
  <2>4. \E h \in Runner!OnDisk' : h.inode = c.inode
    BY <1>4, <1>5, <2>2
  <2>5. g # NoFile /\ g.inode = c.inode => Runner!WasThere(c)
    BY <1>4, <2>2
  <2>6. c.inode \in v9'
         \/ /\ c.pc # "place" =>
                 \A h \in Runner!OnDisk' : h.inode = c.inode =>
                     /\ c.mtime <= h.mtime
                     /\ h.mtime = c.mtime =>
                          IF c.pc = "read" THEN Runner!Matches(c, h)
                          ELSE Runner!WasThere(c) => Runner!Matches(c, c.now)
            /\ c.pc = "place" /\ Runner!WasThere(c) => Runner!Matches(c, c.now)
    <3>1. CASE f.mtime = v7 /\ f.inode = c.inode
      BY <1>1, <3>1 DEF f
    <3>2. CASE f.inode # c.inode
      BY <1>1, <1>4, <1>5, <2>2, <3>2
    <3>3. CASE f.mtime # v7 /\ f.inode = c.inode
      <4>1. c.pc # "place" /\ c.inode \notin v9 => c.mtime < g.mtime
        BY <1>3, <1>4, <2>1, <2>2, <3>3 DEF Runner!FileStates
      <4>2. \A h \in Runner!OnDisk' : h.inode = c.inode => h = g
        BY <1>3, <1>5, <3>3 DEF Runner!Inv, Runner!FilesFit
      <4> QED BY <1>1, <1>3, <1>4, <2>1, <2>2, <4>1, <4>2 DEF Runner!FileStates
    <3> QED BY <3>1, <3>2, <3>3
  <2> QED BY <1>1, <2>2, <2>3, <2>4, <2>5, <2>6 DEF Runner!ReadFits, Runner!Matches,
       Runner!WasThere, c, g
<1>9. v9 \subseteq v9'
  BY <1>1
<1> QED BY <1>1, <1>7, <1>8, <1>9, DiskMoves

(* A replaced file keeps its inode, and no later file has it. *)
LEMMA RunnerReplaces == ASSUME Runner!Inv, Runner!Replace PROVE Runner!Inv'
<1> DEFINE new == Runner!File(v6 + 1)
<1>1. /\ UNCHANGED <<v1, v2, v5, v7, v8, v9, v10>> /\ v6' = v6 + 1 /\ v6 < MaxWrites
      /\ v3' \in {new, Runner!Link, NoFile}
      /\ v4' = IF v3 = NoFile THEN v4 ELSE v4 \cup {v3}
  BY DEF Runner!Replace
<1>2. /\ v6 \in 1..MaxWrites /\ v7 \in 0..MaxClock /\ NoFile \notin v4
      /\ Runner!OnDisk \subseteq Runner!FileStates
      /\ \A f \in Runner!OnDisk :
           f.inode <= v6 /\ f.mtime <= v7 /\ (f.inode = 0 => f = Runner!Link)
      /\ \A f, g \in Runner!OnDisk : f.inode = g.inode => f = g
  BY DEF Runner!Inv, Runner!FilesFit
<1>3. /\ new \in Runner!FileStates /\ new.inode = v6 + 1 /\ new.mtime = v7
      /\ Runner!Link \in Runner!FileStates /\ Runner!Link.inode = 0 /\ Runner!Link.mtime = 0
  <2>1. new.parts \in [1..2 -> Nat] /\ Runner!Link.parts \in [1..2 -> Nat]
    BY <1>2 DEF Runner!File, Runner!Link
  <2> QED BY <1>2, <2>1 DEF Runner!File, Runner!Link, Runner!FileStates
<1> HIDE DEF new
<1>4. Runner!OnDisk' = Runner!OnDisk \cup ({v3'} \ {NoFile}) /\ v4' = Runner!OnDisk
  BY <1>1, <1>2 DEF Runner!OnDisk
<1>5. Runner!FilesFit'
  <2>1. /\ v6' \in 1..MaxWrites /\ v7' \in 0..MaxClock /\ NoFile \notin v4'
        /\ Runner!OnDisk' \subseteq Runner!FileStates
    BY <1>1, <1>2, <1>3, <1>4
  <2>2. \A h \in Runner!OnDisk' :
          h.inode <= v6' /\ h.mtime <= v7' /\ (h.inode = 0 => h = Runner!Link)
    BY <1>1, <1>2, <1>3, <1>4 DEF Runner!FileStates
  <2>3. \A h, k \in Runner!OnDisk' : h.inode = k.inode => h = k
    BY <1>1, <1>2, <1>3, <1>4 DEF Runner!FileStates
  <2>4. v3' \in v4' => v3' = Runner!Link
    BY <1>1, <1>2, <1>3, <1>4
  <2> QED BY <2>1, <2>2, <2>3, <2>4 DEF Runner!FilesFit, Runner!Link
<1>6. ASSUME NEW t \in Threads, Runner!ReadFits(v1[t]) PROVE Runner!ReadFits(v1[t])'
  <2> DEFINE c == v1[t]
  <2>1. /\ c \in [pc : {"read", "compare", "place"}, inode : 1..v6, mtime : Nat,
                  got : Seq(Nat), now : Runner!FileStates \cup {NoFile}]
        /\ \E h \in Runner!OnDisk : h.inode = c.inode
    BY <1>6 DEF Runner!ReadFits
  <2> HIDE DEF c
  <2>2. c \in [pc : {"read", "compare", "place"}, inode : 1..v6', mtime : Nat,
              got : Seq(Nat), now : Runner!FileStates \cup {NoFile}]
    BY <1>1, <1>2, <2>1
  <2>3. \A h \in Runner!OnDisk' : h.inode = c.inode => h \in Runner!OnDisk
    BY <1>1, <1>2, <1>3, <1>4, <2>1
  <2>4. v3' # NoFile => v3'.inode # c.inode
    BY <1>1, <1>2, <1>3, <2>1
  <2> USE DEF c
  <2> QED BY <1>1, <1>4, <1>6, <2>1, <2>2, <2>3, <2>4 DEF Runner!ReadFits, Runner!Matches,
       Runner!WasThere
<1> QED BY <1>1, <1>5, <1>6, DiskMoves

(* Every action keeps the invariant. *)
LEMMA RunnerStep == ASSUME Runner!Inv, Runner!Next PROVE Runner!Inv'
BY RunnerCalls, RunnerConsumes, RunnerSpawns, RunnerEnds, RunnerOpens, RunnerReads,
   RunnerCompares, RunnerPlaces, RunnerTicks, RunnerWrites, RunnerReplaces DEF Runner!Next

(* The properties follow from the invariant. *)
LEMMA RunnerHolds ==
  ASSUME Runner!Inv
  PROVE  Runner!TypeOK /\ Runner!OneProcessPerNonce /\ Runner!DigestIsOfThePath
BY DEF Runner!Inv, Runner!NoncesFit, Runner!OneProcessPerNonce

HIDE ValidationAssumption DEF Runner!CommandRunnerAssumption

-----------------------------------------------------------------------------
(* The three parts together. *)
ReportsInv == /\ part = "salesforce" => Salesforce!Inv
              /\ part = "mule" => Mule!Inv
              /\ part = "runner" => Runner!Inv

(* A report rests on one environment, one candidate and evidence of its own: *)
(* for any number of changes, epochs, validators, threads, writes and ticks, *)
(* and whatever fails, times out or dies, the commands of a report saw the   *)
(* same versions, no container is started twice or left running, a nonce     *)
(* authorizes one process, and a digest is of what its path had.             *)
(* (SalesforceLocalValidator, MuleSoftLocalValidator, SafeCommandRunner)     *)
THEOREM ReportsGrounded == Spec => []ReportsRestOnOneEnvironment
<1>1. Init => ReportsInv
  BY SalesforceStart, MuleStart, RunnerStart DEF Init, ReportsInv
<1>2. ReportsInv /\ [Next]_all => ReportsInv'
  <2>1. ASSUME ReportsInv, [Next]_all, part' = "salesforce" PROVE Salesforce!Inv'
    <3>1. CASE SalesforceActs
      BY <2>1, <3>1, SalesforceStep DEF SalesforceActs, ReportsInv
    <3>2. CASE UNCHANGED all
      BY <2>1, <3>2, SalesforceKept DEF all, ReportsInv, Salesforce!vars
    <3> QED BY <2>1, <3>1, <3>2 DEF Next, EngineerActs, WorkspaceActs, RunnerActs,
         CorrectionActs, MuleActs, Rest11, Rest15
  <2>2. ASSUME ReportsInv, [Next]_all, part' = "mule" PROVE Mule!Inv'
    <3>1. CASE MuleActs
      BY <2>2, <3>1, MuleStep DEF MuleActs, ReportsInv
    <3>2. CASE UNCHANGED all
      BY <2>2, <3>2, MuleKept DEF all, ReportsInv, Mule!vars, Mule!daemon, Mule!run,
         Mule!lifecycle
    <3> QED BY <2>2, <3>1, <3>2 DEF Next, EngineerActs, WorkspaceActs, RunnerActs,
         CorrectionActs, SalesforceActs, Rest11, Rest15
  <2>3. ASSUME ReportsInv, [Next]_all, part' = "runner" PROVE Runner!Inv'
    <3>1. CASE RunnerActs
      BY <2>3, <3>1, RunnerStep DEF RunnerActs, Rest11, Rest15, ReportsInv
    <3>2. CASE UNCHANGED all
      BY <2>3, <3>2, RunnerKept DEF all, ReportsInv, Runner!vars
    <3> QED BY <2>3, <3>1, <3>2 DEF Next, EngineerActs, WorkspaceActs, CorrectionActs,
         SalesforceActs, MuleActs, Rest11, Rest15
  <2> QED BY <2>1, <2>2, <2>3 DEF ReportsInv
<1>3. ReportsInv => ReportsRestOnOneEnvironment
  BY SalesforceHolds, MuleHolds, RunnerHolds DEF ReportsInv, ReportsRestOnOneEnvironment
<1> QED BY <1>1, <1>2, <1>3, PTL DEF Spec
=============================================================================
