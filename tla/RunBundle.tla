------------------------------ MODULE RunBundle ------------------------------
(***************************************************************************)
(* What a finished benchmark run proves about itself (run_query.py,        *)
(* benchmark_receipts.py): a reader without a lock collects the run's      *)
(* evidence, between two readings of its anchored terminal state, while    *)
(* the run of RunLifecycle may go on to a second attempt; with a human     *)
(* rubric written for that terminal state it becomes a cell's receipt.     *)
(*                                                                         *)
(* The run's planning, before RunLifecycle begins, has ended in one of     *)
(* the ways of Plans.  Evidence is write-once and bound by digest to the   *)
(* run that wrote it, so that a reader's comparisons of digests come out   *)
(* as what files there are, and what they say, decides.                    *)
(***************************************************************************)
EXTENDS RunLifecycle, FiniteSets

(* What the platforms compute of their checks' results is a verdict, and   *)
(* never that somebody has to decide. (_disposition)                       *)
ASSUME VerdictsAreComputed ==
  None \notin Verdicts /\ \A v \in Verdicts : v.disposition # "decision_required"

VARIABLES
  plan,      \* the Architect's files, and the status planning left
  reviewed,  \* the terminal states people have written rubrics for
  reader,    \* what the reader has collected so far
  receipts   \* history: the receipts extracted

bundleVars == <<plan, reviewed, reader, receipts>>
allVars == <<vars, bundleVars>>

-----------------------------------------------------------------------------
(* Planning.  The inputs are written in this order before the model is     *)
(* called; what it answered, or that the answer broke a policy, after it.  *)

ArchitectInputs == <<"dependency_graph", "graph_assurance_report", "wiki_trace",
                     "architect_context">>
InputFiles == {ArchitectInputs[i] : i \in 1..Len(ArchitectInputs)}

Plans ==
  {[files |-> {"architect_preflight"}, status |-> "decision_required"]}
  \cup {[files |-> {ArchitectInputs[i] : i \in 1..m}, status |-> "failed"] :
          m \in 0..Len(ArchitectInputs)}
  \cup {[files |-> InputFiles \cup {"architect_policy_rejection"}, status |-> "failed"]}
  \cup {[files |-> InputFiles \cup {"architect"}, status |-> s] :
          s \in {"awaiting_approval", "decision_required", "failed"}}

Planned == plan.status = "awaiting_approval"

(* The calls that were made of the Architect, where the files tell: a run  *)
(* that failed with its inputs alone may have called it or not.            *)
ArchitectCalls ==
  CASE plan.files \cap {"architect", "architect_policy_rejection"} # {} -> {1}
    [] plan.files = InputFiles -> {0, 1}
    [] OTHER -> {0}

-----------------------------------------------------------------------------
(* get_verified_agent_run_evidence: the run's anchored terminal state.     *)

ControlledFailures == {"failed", "rejected", "modification_requested"}
Ended == ControlledFailures \cup {"completed", "decision_required"}
EndingKinds == {"planned", "resumed", "retried", "failed"}

Terminal(kind, status, disposition) ==
  [kind |-> kind, status |-> status, disposition |-> disposition]

LatestStatus == IF LatestKind = "failed" THEN "failed" ELSE frozen[LatestKind].status

TerminalEvidence ==
  CASE ~Planned -> Terminal(IF plan.status = "failed" THEN "failed" ELSE "planned",
                            plan.status, plan.status)
    [] Planned /\ Readable /\ LatestKind \in EndingKinds /\ LatestStatus \in Ended ->
         Terminal(LatestKind, LatestStatus,
                  IF LatestStatus = "completed"
                  THEN frozen[LatestKind].report.verdict.disposition
                  ELSE LatestStatus)
    [] OTHER -> None

-----------------------------------------------------------------------------
(* The bundle's parts, from a terminal state t. *)

Controlled(t) == t.status \in ControlledFailures

ManifestUndecided == plan.status = "decision_required" /\ "architect" \in plan.files

(* _load_bundle_planning: a plan, a rejected call, a reason why there is   *)
(* neither, or a refusal of the whole bundle.                              *)
Planning(t) ==
  CASE "architect" \in plan.files ->
         IF t.status = "decision_required" /\ ~ManifestUndecided THEN "refused" ELSE "verified"
    [] "architect_policy_rejection" \in plan.files ->
         IF Controlled(t) THEN "rejected" ELSE "refused"
    [] plan.files \cap InputFiles = {} -> IF Controlled(t) THEN "none" ELSE "refused"
    [] OTHER -> IF Controlled(t) THEN "partial" ELSE "refused"

Triplet(n) == {<<"engineer", n>>, <<"report", n>>, <<"validator", n>>}
Related(n) ==
  Triplet(n) \cup {Lease("engineer", n), Lease("validator", n)}
  \cup (IF n = 2 THEN {<<"engineer_correction", n>>, <<"correction_wiki", n>>} ELSE {})

Inventory1(n) == [complete |-> Triplet(n) \subseteq portable, any |-> Related(n) \cap portable # {}]
Inventories == [n \in Attempts |-> Inventory1(n)]

(* _load_bundle_attempts: the completed attempts, and the one cut off.     *)
Attempted(t, inv) ==
  LET count == IF inv[2].complete THEN 2 ELSE IF inv[1].complete THEN 1 ELSE 0
      partial == CASE inv[1].any /\ ~inv[1].complete -> 1
                   [] inv[2].any /\ ~inv[2].complete -> 2
                   [] OTHER -> 0
  IN [count |-> count, partial |-> partial,
      ok |-> /\ inv[2].any => inv[1].complete
             /\ t.status = "decision_required" => \A n \in Attempts : ~inv[n].any
             /\ partial # 0 => Controlled(t)
             /\ count = 0 => t.status # "completed"]

(* _load_verified_attempt: the leases of the calls made were promoted, and *)
(* an advisory that was not attempted has none.                            *)
AttemptVerified(n) ==
  /\ outcome[n] = "change" /\ verdict[n] # None
  /\ Lease("engineer", n) \in portable
  /\ IF advice[n] = "deferred" THEN Lease("validator", n) \notin portable
     ELSE Lease("validator", n) \in portable

(* _bundle_model_calls *)
Calls(planning, done) ==
  [count |-> (IF planning \in {"verified", "rejected"} THEN 1 ELSE 0) + done.count
             + Cardinality({n \in 1..done.count : advice[n] = "assessed"}),
   complete |-> /\ planning \in {"verified", "rejected"}
                /\ \A n \in 1..done.count : advice[n] # "unavailable"
                /\ done.partial = 0]

Bundle(t, planning, done) ==
  [terminal |-> t, planning |-> planning, attempts |-> done.count,
   calls |-> Calls(planning, done),
   toolsComplete |-> planning \in {"verified", "rejected"} /\ done.partial = 0]

Refused == [refused |-> TRUE]
Accepted(t, planning, done) ==
  /\ planning # "refused" /\ done.ok
  /\ done.count > 0 => planning = "verified"
  /\ \A n \in 1..done.count : AttemptVerified(n)

(* The bundle a reader gets from a run that stands still. *)
BundleNow ==
  LET t == TerminalEvidence
      p == Planning(t)
      d == Attempted(t, Inventories)
  IN IF Accepted(t, p, d) THEN Bundle(t, p, d) ELSE Refused

-----------------------------------------------------------------------------
(* The receipt of a bundle and a rubric (benchmark_receipts.py).  Evidence *)
(* that the run does not have is "unavailable", or {}, never a zero.       *)

WorkflowDisposition(t) == IF Controlled(t) THEN "controlled_failure" ELSE t.disposition

(* Of the required checks the final report calls unavailable, a verdict    *)
(* tells only that there are some or none; a failed check hides them.      *)
ChecksOf(v) ==
  CASE v.disposition = "environment_unavailable" -> "some"
    [] v.disposition = "ready_for_human_review" -> "none"
    [] OTHER -> "either"

UnavailableChecks(b) ==
  IF b.attempts = 0 THEN "unavailable" ELSE ChecksOf(verdict[b.attempts])

Usage(b) == IF b.calls.complete THEN {b.calls.count} ELSE {}

Receipt(b, rubric) ==
  [terminal |-> b.terminal,
   disposition |-> WorkflowDisposition(b.terminal),
   attempts |-> b.attempts,
   dependencies |-> IF b.planning = "verified" THEN "available" ELSE "unavailable",
   checks |-> UnavailableChecks(b),
   calls |-> Usage(b),
   tools |-> IF b.toolsComplete THEN "available" ELSE "unavailable",
   rubric |-> rubric]

-----------------------------------------------------------------------------
(* The reader. *)

Start == [pc |-> "terminal"]

BundleInit ==
  /\ Init
  /\ plan \in Plans
  /\ reviewed = {}
  /\ reader = Start
  /\ receipts = {}

RunStep == Planned /\ Next /\ UNCHANGED bundleVars

(* A person reads the run as it ended and writes a rubric that cites it. *)
Review ==
  /\ TerminalEvidence # None
  /\ reviewed' = reviewed \cup {TerminalEvidence}
  /\ UNCHANGED <<vars, plan, reader, receipts>>

ReadTerminal ==
  /\ reader.pc = "terminal"
  /\ TerminalEvidence # None
  /\ reader' = [pc |-> "planning", terminal |-> TerminalEvidence]
  /\ UNCHANGED <<vars, plan, reviewed, receipts>>

ReadPlanning ==
  /\ reader.pc = "planning"
  /\ reader' = IF Planning(reader.terminal) = "refused" THEN Start
               ELSE [pc |-> "inventory", terminal |-> reader.terminal,
                     planning |-> Planning(reader.terminal)]
  /\ UNCHANGED <<vars, plan, reviewed, receipts>>

(* One attempt's files are looked for before the other's. *)
ReadFirstInventory ==
  /\ reader.pc = "inventory"
  /\ reader' = [pc |-> "inventories", terminal |-> reader.terminal,
                planning |-> reader.planning, first |-> Inventory1(1)]
  /\ UNCHANGED <<vars, plan, reviewed, receipts>>

ReadAttempts ==
  /\ reader.pc = "inventories"
  /\ LET t == reader.terminal
         done == Attempted(t, <<reader.first, Inventory1(2)>>)
     IN reader' = IF Accepted(t, reader.planning, done)
                  THEN [pc |-> "recheck", bundle |-> Bundle(t, reader.planning, done)]
                  ELSE Start
  /\ UNCHANGED <<vars, plan, reviewed, receipts>>

(* Mutant: the terminal state is not read again. *)
TrustTerminal ==
  /\ reader.pc = "recheck"
  /\ reader' = [pc |-> "rubric", bundle |-> reader.bundle]
  /\ UNCHANGED <<vars, plan, reviewed, receipts>>

RecheckTerminal ==
  /\ reader.pc = "recheck"
  /\ reader' = IF TerminalEvidence = reader.bundle.terminal
               THEN [pc |-> "rubric", bundle |-> reader.bundle]
               ELSE Start
  /\ UNCHANGED <<vars, plan, reviewed, receipts>>

Extract ==
  /\ reader.pc = "rubric"
  /\ \E r \in reviewed :
       receipts' = IF r = reader.bundle.terminal
                   THEN receipts \cup {Receipt(reader.bundle, r)} ELSE receipts
  /\ reader' = Start
  /\ UNCHANGED <<vars, plan, reviewed>>

BundleNext ==
  \/ RunStep
  \/ Review
  \/ ReadTerminal \/ ReadPlanning \/ ReadFirstInventory \/ ReadAttempts
  \/ RecheckTerminal \/ Extract

BundleSpec == BundleInit /\ [][BundleNext]_allVars

-----------------------------------------------------------------------------
(* Properties *)

BundleTypeOK ==
  /\ plan \in Plans
  /\ \A t \in reviewed : t.kind \in EndingKinds /\ t.status \in Ended
  /\ reader.pc \in {"terminal", "planning", "inventory", "inventories", "recheck", "rubric"}
  /\ \A r \in receipts :
       /\ r.disposition \in Dispositions \cup {"controlled_failure"}
       /\ r.attempts \in 0..2
       /\ r.checks \in {"some", "none", "either", "unavailable"}
       /\ r.calls \subseteq 1..5 /\ Cardinality(r.calls) <= 1

(* The controller stopped before the Architect, or the Engineer asked. *)
Questioned ==
  \/ "architect_preflight" \in plan.files
  \/ /\ Planned /\ TerminalEvidence # None
     /\ TerminalEvidence.status = "decision_required"

(* Whatever failed or crashed on the way, the evidence of a run that ended *)
(* can be read back as a bundle, unless it ended with a question that the  *)
(* Architect's manifest does not ask. (load_verified_benchmark_run_bundle) *)
MeasurableUnlessQuestioned ==
  TerminalEvidence # None => (BundleNow = Refused <=> Questioned)

(* Evidence of the model calls that is called complete counts every call   *)
(* that was made, those whose answer was lost included.                    *)
(* (_bundle_model_calls, _load_bundle_attempts)                            *)
Made == {c \in RoleNodes \X Attempts : dispatched[c[1]][c[2]] > 0}
CompleteEvidenceCountsEveryCall ==
  TerminalEvidence # None /\ BundleNow # Refused /\ BundleNow.calls.complete =>
    ArchitectCalls = {BundleNow.calls.count - Cardinality(Made)}

(* A receipt is of one moment of its run, although the run may go on while *)
(* it is read: its outcome is that of its last attempt's report, and its   *)
(* rubric judged that same outcome. (the second reading of the terminal    *)
(* state, _load_bound_human_rubric)                                        *)
ReceiptIsOfOneMoment ==
  \A r \in receipts :
    /\ r.rubric = r.terminal
    /\ r.terminal.status = "completed" =>
         /\ r.attempts = IF r.terminal.kind = "retried" THEN 2 ELSE 1
         /\ r.disposition = verdict[r.attempts].disposition

(* Every receipt the extraction issues passes the rules the aggregate      *)
(* applies to a receipt of its disposition. (_verified_receipts,           *)
(* EvaluationCellReceipt)                                                  *)
ReceiptsAreAdmitted ==
  \A r \in receipts :
    /\ r.disposition \in {"ready_for_human_review", "recoverable_failure",
                          "environment_unavailable"} => r.attempts > 0
    /\ r.disposition = "decision_required" => r.attempts = 0
    /\ r.disposition = "environment_unavailable" => r.checks = "some"

(* All of it, of every run and every reader.                               *)
BundleIsOfTheRun ==
  /\ TypeOK /\ BundleTypeOK /\ MeasurableUnlessQuestioned
  /\ CompleteEvidenceCountsEveryCall /\ ReceiptIsOfOneMoment /\ ReceiptsAreAdmitted
==============================================================================
