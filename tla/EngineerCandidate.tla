---------------------------- MODULE EngineerCandidate ----------------------------
(***************************************************************************)
(* The candidate, from the Engineer's plan to the validator's report, over *)
(* both attempts (model_agents.py, model_agent_correction.py and the       *)
(* engineer and validator nodes of model_workflow.py). No workspace        *)
(* outlives a node: each of them makes a new one and reconstructs the      *)
(* candidate there from the persisted plans, also after the process died   *)
(* between two steps of a node.                                            *)
(*                                                                         *)
(* A file is a path with one of a few contents; a plan is a function from  *)
(* paths to contents, and a change set is the candidate it results in.     *)
(***************************************************************************)
EXTENDS Naturals, FiniteSets

CONSTANTS
  None, Absent,
  Contents,
  Paths,           \* the manifest's approved_paths
  Signals,
  SignalPaths      \* _repair_signal_specs: the files of each repair signal

SignalsAssumption ==
  /\ Absent \notin Contents /\ Signals # {} /\ None \notin [Paths -> Contents]
  /\ SignalPaths \in [Signals -> (SUBSET Paths) \ {{}}]

VARIABLES
  source,       \* what of the approved paths exists in the source already
  node,         \* the node the graph is at, with its attempt
  phase,        \* how far that node got in this process
  made,         \* what this process computed and did not persist yet
  leases, calls,\* engineer-invocation-lease-<attempt>; history: model calls
  runs,         \* engineer-<attempt>.json
  correction,   \* engineer-correction.json, with its Wiki trace
  reports,      \* report-<attempt>.json
  thread        \* the change set in the graph's checkpoint

vars == <<source, node, phase, made, leases, calls, runs, correction, reports, thread>>

Attempts == 1..2
Trees == [Paths -> Contents \cup {Absent}]
Plans == UNION {[D -> Contents] : D \in (SUBSET Paths) \ {{}}}
Engineers == {<<"engineer", a>> : a \in Attempts}
Validators == {<<"validator", a>> : a \in Attempts}
Attempt == node[2]

Init ==
  /\ source \in Trees
  /\ node = <<"engineer", 1>> /\ phase = "start" /\ made = None
  /\ leases = {} /\ calls = [a \in Attempts |-> 0]
  /\ runs = [a \in Attempts |-> None] /\ correction = None
  /\ reports = [a \in Attempts |-> None] /\ thread = None

-----------------------------------------------------------------------------
(* Applying a plan                                                         *)

Overlay(plan, tree) ==
  [p \in DOMAIN tree |-> IF p \in DOMAIN plan THEN plan[p] ELSE tree[p]]
Changed(tree) == {p \in Paths : tree[p] # source[p]}

(* apply_engineer_file_plan: the plan covers the approved paths, and every *)
(* one of them changes.                                                    *)
Applies(plan) == DOMAIN plan = Paths /\ Changed(Overlay(plan, source)) = Paths

(* apply_engineer_correction_delta: updates that change nothing are        *)
(* dropped,                                                                *)
Material(delta, prior) ==
  LET D == {p \in DOMAIN delta : delta[p] # prior[p]} IN [p \in D |-> delta[p]]

(* what is left touches a file of every repair signal, within the files    *)
(* of all of them, and the prior plan still applies. The result need not   *)
(* change every approved path.                                             *)
Allowed(signals) == UNION {SignalPaths[s] : s \in signals}
AppliesOn(delta, prior, signals) ==
  LET material == Material(delta, prior) IN
  /\ DOMAIN delta \subseteq Allowed(signals)
  /\ DOMAIN material # {}
  /\ \A s \in signals : DOMAIN material \cap SignalPaths[s] # {}
  /\ Applies(prior)

-----------------------------------------------------------------------------
(* The Engineer's run                                                      *)

Intervention == [proposed |-> None, effective |-> None, candidate |-> None]
FirstRun(plan) ==
  [proposed |-> plan, effective |-> None, candidate |-> Overlay(plan, source)]
SecondRun(delta, prior) ==
  LET effective == Overlay(Material(delta, prior), prior) IN
  [proposed |-> delta, effective |-> effective, candidate |-> Overlay(effective, source)]

(* EngineerRun.file_plan *)
FilePlan(run) == IF run.effective # None THEN run.effective ELSE run.proposed

(* EngineerAgent.implement: a plan that cannot be applied raises. Attempt  *)
(* two has guidance for every signal, so that an intervention is no answer.*)
Answers ==
  IF Attempt = 1
  THEN {Intervention} \cup {FirstRun(plan) : plan \in {q \in Plans : Applies(q)}}
  ELSE {SecondRun(delta, correction.prior) :
          delta \in {d \in Plans : AppliesOn(d, correction.prior, correction.signals)}}

(* EngineerAgent.verify_replay *)
Replays(a) ==
  LET run == runs[a] IN
  run # Intervention =>
    \/ a = 1 /\ Applies(run.proposed) /\ run = FirstRun(run.proposed)
    \/ /\ a = 2 /\ AppliesOn(run.proposed, correction.prior, correction.signals)
       /\ run = SecondRun(run.proposed, correction.prior)

-----------------------------------------------------------------------------
(* The engineer node                                                       *)

(* _prepare_engineer_correction: attempt two rests on the persisted run    *)
(* and report of attempt one. The context is written once.                 *)
Expected == [prior |-> FilePlan(runs[1]), signals |-> reports[1].signals]
CorrectionStands == Attempt = 2 => correction = Expected

PrepareEngineer ==
  /\ node \in Engineers /\ phase = "start"
  /\ correction' = IF Attempt = 2 /\ correction = None /\ runs[2] = None
                   THEN Expected ELSE correction
  /\ phase' = "prepared"
  /\ UNCHANGED <<source, node, made, leases, calls, runs, reports, thread>>

PriorReplays == Attempt = 2 => Replays(1)

(* _engineer_correction_context_from_authority: the prior plan still makes *)
(* the prior candidate.                                                    *)
ContextStands ==
  Attempt = 2 =>
    Applies(correction.prior) /\ Overlay(correction.prior, source) = runs[1].candidate

(* _claim_role_invocation: the model is called once for an attempt. *)
Unclaimed == Attempt \notin leases

Claim ==
  /\ node \in Engineers /\ phase = "prepared" /\ runs[Attempt] = None
  /\ CorrectionStands /\ PriorReplays /\ ContextStands /\ Unclaimed
  /\ leases' = leases \cup {Attempt} /\ phase' = "claimed"
  /\ UNCHANGED <<source, node, made, calls, runs, correction, reports, thread>>

Implement ==
  /\ node \in Engineers /\ phase = "claimed"
  /\ made' \in Answers
  /\ calls' = [calls EXCEPT ![Attempt] = @ + 1]
  /\ phase' = "made"
  /\ UNCHANGED <<source, node, leases, runs, correction, reports, thread>>

PersistRun ==
  /\ node \in Engineers /\ phase = "made"
  /\ runs' = [runs EXCEPT ![Attempt] = made] /\ phase' = "persisted"
  /\ UNCHANGED <<source, node, made, leases, calls, correction, reports, thread>>

(* _engineer_outcome *)
Outcome(run) == run.candidate

(* The node returns what it persisted, or found persisted and replayed.    *)
ReturnRun ==
  /\ node \in Engineers /\ runs[Attempt] # None
  /\ \/ phase = "persisted"
     \/ /\ phase = "prepared" /\ CorrectionStands /\ PriorReplays /\ ContextStands
        /\ Replays(Attempt)
  /\ IF runs[Attempt] = Intervention
     THEN node' = <<"decision_required", Attempt>> /\ UNCHANGED thread
     ELSE node' = <<"validator", Attempt>> /\ thread' = Outcome(runs[Attempt])
  /\ phase' = "start" /\ made' = None
  /\ UNCHANGED <<source, leases, calls, runs, correction, reports>>

-----------------------------------------------------------------------------
(* The validator node                                                      *)

RunStands ==
  /\ CorrectionStands /\ PriorReplays /\ ContextStands
  /\ runs[Attempt] \notin {None, Intervention} /\ runs[Attempt].candidate = thread
  /\ Replays(Attempt)

(* The effective plan is applied like a first one: every approved path     *)
(* must change.                                                            *)
Rebuild ==
  /\ node \in Validators /\ phase = "start" /\ RunStands
  /\ reports[Attempt] = None
  /\ LET plan == FilePlan(runs[Attempt]) IN
     /\ Applies(plan) /\ Overlay(plan, source) = thread
     /\ made' = Overlay(plan, source)
  /\ phase' = "rebuilt"
  /\ UNCHANGED <<source, node, leases, calls, runs, correction, reports, thread>>

(* A check that writes into the workspace it examines. *)
Disturb ==
  /\ node \in Validators /\ phase = "rebuilt"
  /\ \E p \in Paths, c \in Contents : made' = [made EXCEPT ![p] = c]
  /\ UNCHANGED <<source, node, phase, leases, calls, runs, correction, reports, thread>>

(* The deterministic validator: arbitrary verdicts.                        *)
Verdicts ==
  {[disposition |-> d, signals |-> {}] : d \in {"ready_for_human_review", "stop"}} \cup
  {[disposition |-> "recoverable_failure", signals |-> S] : S \in (SUBSET Signals) \ {{}}}

Audited == made = thread

Validate ==
  /\ node \in Validators /\ phase = "rebuilt"
  /\ \E v \in Verdicts :
       reports' = [reports EXCEPT ![Attempt] =
         [disposition |-> v.disposition, signals |-> v.signals, candidate |-> made]]
  /\ Audited
  /\ phase' = "reported"
  /\ UNCHANGED <<source, node, made, leases, calls, runs, correction, thread>>

ReturnReport ==
  /\ node \in Validators /\ reports[Attempt] # None
  /\ phase = "reported" \/ (phase = "start" /\ RunStands)
  /\ node' = IF Attempt = 1 /\ reports[1].disposition = "recoverable_failure"
             THEN <<"review", 1>> ELSE <<"ended", Attempt>>
  /\ phase' = "start" /\ made' = None
  /\ UNCHANGED <<source, leases, calls, runs, correction, reports, thread>>

-----------------------------------------------------------------------------
(* The reviewer, and what goes wrong                                       *)

Review ==
  /\ node = <<"review", 1>>
  /\ \E a \in {<<"engineer", 2>>, <<"ended", 1>>} : node' = a
  /\ UNCHANGED <<source, phase, made, leases, calls, runs, correction, reports, thread>>

Raise ==
  /\ node \in Engineers \cup Validators
  /\ node' = <<"failed", Attempt>> /\ phase' = "start" /\ made' = None
  /\ UNCHANGED <<source, leases, calls, runs, correction, reports, thread>>

(* The process dies; the graph is at the same node when it comes back.     *)
Crash ==
  /\ phase # "start"
  /\ phase' = "start" /\ made' = None
  /\ UNCHANGED <<source, node, leases, calls, runs, correction, reports, thread>>

Next ==
  \/ PrepareEngineer \/ Claim \/ Implement \/ PersistRun \/ ReturnRun
  \/ Rebuild \/ Disturb \/ Validate \/ ReturnReport
  \/ Review \/ Raise \/ Crash

Spec == Init /\ [][Next]_vars

-----------------------------------------------------------------------------
(* Properties *)

TypeOK ==
  /\ source \in Trees /\ Attempt \in Attempts
  /\ phase \in {"start", "prepared", "claimed", "made", "persisted", "rebuilt", "reported"}
  /\ leases \subseteq Attempts /\ calls \in [Attempts -> Nat]
  /\ \A a \in Attempts : runs[a] \notin {None, Intervention} =>
       runs[a].proposed \in Plans /\ FilePlan(runs[a]) \in [Paths -> Contents]
  /\ correction # None => correction.prior \in [Paths -> Contents]
  /\ thread \in Trees \cup {None}

Planned(a) == runs[a] \notin {None, Intervention}

(* The model is asked once for each attempt, however often the node is     *)
(* entered. (_claim_role_invocation, verify_replay)                        *)
OneModelCall == \A a \in Attempts : calls[a] <= 1

(* The candidate of attempt two differs from the rejected one in a file of *)
(* every repair signal of its report, and in no file outside theirs.       *)
(* (apply_engineer_correction_delta)                                       *)
RetryRepairsEverySignal ==
  Planned(2) =>
    LET repaired == {p \in Paths : runs[2].candidate[p] # runs[1].candidate[p]} IN
    /\ \A s \in reports[1].signals : repaired \cap SignalPaths[s] # {}
    /\ repaired \subseteq Allowed(reports[1].signals)

(* A report is about exactly the candidate of the persisted run and of the *)
(* graph's change set. (the validator node)                                *)
ReportIsOfTheCandidate ==
  \A a \in Attempts : reports[a] # None => reports[a].candidate = runs[a].candidate

(* The change set the validator is given is the persisted one, so that a   *)
(* run once planned is not refused for another reason than the checks'.    *)
(* (_engineer_outcome)                                                     *)
ThreadIsPersisted == node \in Validators => runs[Attempt].candidate = thread

-----------------------------------------------------------------------------
(* Why they hold: an inductive invariant, in parts *)

NodesFit ==
  /\ node \in {"engineer", "validator", "review", "ended", "failed", "decision_required"}
       \X Attempts
  /\ phase \in {"prepared", "claimed", "made", "persisted"} => node \in Engineers
  /\ phase \in {"rebuilt", "reported"} => node \in Validators

(* Who asks the model holds the attempt's lease and is the first to ask.   *)
LeasedOnce ==
  /\ \A a \in Attempts : calls[a] \in 0..1 /\ (calls[a] = 1 => a \in leases)
  /\ phase = "claimed" => Attempt \in leases /\ calls[Attempt] = 0

(* Attempt two follows a report, which follows a plan; its context is that *)
(* of the evidence of attempt one, which no longer changes.                *)
FirstComesFirst ==
  /\ Attempt = 1 => runs[2] = None /\ reports[2] = None /\ 2 \notin leases /\ correction = None
  /\ Attempt = 2 \/ node[1] = "review" => reports[1] # None
  /\ \A a \in Attempts : reports[a] # None => Planned(a)
  /\ correction # None => correction = Expected
  /\ Attempt = 2 /\ phase \in {"claimed", "made"} => correction = Expected

(* What is persisted, or about to be, is an answer to its attempt.         *)
FirstAnswers == {FirstRun(plan) : plan \in {q \in Plans : Applies(q)}}
SecondAnswers ==
  {SecondRun(delta, Expected.prior) :
     delta \in {d \in Plans : AppliesOn(d, Expected.prior, Expected.signals)}}
RunsFit ==
  /\ runs = [a \in Attempts |-> runs[a]] /\ reports = [a \in Attempts |-> reports[a]]
  /\ phase \in {"claimed", "made"} => runs[Attempt] = None
  /\ Planned(1) => runs[1] \in FirstAnswers
  /\ Planned(2) => runs[2] \in SecondAnswers
  /\ phase = "made" =>
       made \in (IF Attempt = 1 THEN FirstAnswers \cup {Intervention} ELSE SecondAnswers)
  /\ \A a \in Attempts : reports[a] # None => reports[a].signals \subseteq Signals

(* The validator is handed what is persisted, and examines that.           *)
HandedOver == node \in Validators => Planned(Attempt)

Inv ==
  /\ TypeOK /\ NodesFit /\ LeasedOnce /\ FirstComesFirst /\ RunsFit /\ HandedOver
  /\ ReportIsOfTheCandidate /\ ThreadIsPersisted
==============================================================================
