------------------------------ MODULE MCOutcome ------------------------------
(* What comes of a run, checked in one run: the final review, the export of *)
(* the candidate, and the evaluation of measured runs.  They share no state, *)
(* so an initial state chooses which of them acts, and v1..v8 are the       *)
(* variables of that one; what it does not use stays 0.                     *)
EXTENDS Integers, Sequences, TLC

CONSTANTS
    Absent,
    Actors, Callers, MaxTime, Window,  \* of the review
    Order, Parent, Top, Exports,       \* of the export
    fileA, fileB, nested, old, new, newer

VARIABLES part, v1, v2, v3, v4, v5, v6, v7, v8

all == <<part, v1, v2, v3, v4, v5, v6, v7, v8>>

-----------------------------------------------------------------------------
(* The instances *)

\* People who may ask each other, and operations that interleave.
Review == INSTANCE FinalReview WITH
    clock <- v1, file <- v2, anchor <- v3, temporary <- v4, pc <- v5, call <- v6

Export == INSTANCE CandidateExport WITH
    file <- v1, doubled <- v2, dirs <- v3, leftover <- v4, pc <- v5, export <- v6, left <- v7,
    before <- v8

\* Two files, one of them in a directory of its own; two versions of their
\* bytes; a source with and without the first file; and two dispositions.
TwoFiles == <<fileA, fileB>>
ParentOf == (fileA :> Top) @@ (fileB :> nested)
ExportsOfTwo == [files : {fileA :> new, fileA :> newer, fileB :> new,
                          (fileA :> new) @@ (fileB :> new)},
                 base : {fileA :> old, fileB :> old},
                 disposition : {"ready_for_human_review", "decision_required"}]

Seen(disposition, attempts, checks) ==
  [disposition |-> disposition, attempts |-> attempts, checks |-> checks, planned |-> TRUE,
   missed |-> {}, stopped |-> FALSE, reasons |-> {}, calls |-> {attempts + 1},
   violated |-> FALSE]
Failed == [Seen("controlled_failure", 0, "unavailable") EXCEPT !.planned = FALSE, !.calls = {}]
Asked == [Seen("decision_required", 0, "unavailable") EXCEPT !.stopped = TRUE, !.reasons = {"risk"}]

MuleRuns ==
  {Seen("environment_unavailable", 1, "some"), Seen("ready_for_human_review", 1, "none"),
   Seen("recoverable_failure", 2, "some")}
ReadyRuns ==
  {Seen("ready_for_human_review", 1, "none"), Seen("ready_for_human_review", 2, "none"),
   [Seen("ready_for_human_review", 1, "none") EXCEPT !.missed = {"low"}],
   [Seen("ready_for_human_review", 1, "none") EXCEPT !.missed = {"high"}, !.calls = {}],
   [Seen("controlled_failure", 1, "none") EXCEPT !.violated = TRUE]}
RiskRuns ==
  {Asked, Seen("ready_for_human_review", 1, "none"), Failed}

MCObservations == [mule |-> MuleRuns, ready |-> ReadyRuns, risk |-> RiskRuns]

Dependencies4 == {"high", "low", "a", "b"}
CaseLabel(platform, expected, reasons) ==
  [platform |-> platform, expected |-> expected, reasons |-> reasons,
   dependencies |-> Dependencies4, high |-> {"high"}]

MCRegistries ==
  {[mule |-> CaseLabel("mulesoft", e, {}),
    ready |-> CaseLabel("salesforce", "ready_for_human_review", {}),
    risk |-> CaseLabel("salesforce", "decision_required", {"risk"})] :
     e \in {"environment_unavailable", "ready_for_human_review"}}

PairObservations ==
  [mule |-> {Seen("environment_unavailable", 1, "some"), Seen("ready_for_human_review", 1, "none"),
             Failed},
   risk |-> {Asked}]
CorpusObservations ==
  [mule |-> {Seen("ready_for_human_review", 1, "none")}, risk |-> {Asked}]
PairRegistries ==
  {[mule |-> CaseLabel("mulesoft", "ready_for_human_review", {}),
    risk |-> CaseLabel("salesforce", "decision_required", {"risk"})]}

\* A case of every expected disposition, one repetition, under the labels of
\* benchmark v2 and under labels that expect Mule's runtime to be there.
Evaluation == INSTANCE MeasuredEvaluation WITH
    Registries <- MCRegistries, Observations <- MCObservations, Repetitions <- 1,
    Blemishes <- 2, Reruns <- 0, Misroutes <- 0, Withheld <- 0,
    labels <- v1, reviewed <- v2, runs <- v3, corpus <- v4

\* The same with one run that is not as labelled, and one judgment withheld.
Gapped == INSTANCE MeasuredEvaluation WITH
    Registries <- MCRegistries, Observations <- MCObservations, Repetitions <- 1,
    Blemishes <- 1, Reruns <- 0, Misroutes <- 0, Withheld <- 1,
    labels <- v1, reviewed <- v2, runs <- v3, corpus <- v4

\* Two cases, two repetitions.
Pairs == INSTANCE MeasuredEvaluation WITH
    Registries <- PairRegistries, Observations <- PairObservations, Repetitions <- 2,
    Blemishes <- 2, Reruns <- 0, Misroutes <- 0, Withheld <- 0,
    labels <- v1, reviewed <- v2, runs <- v3, corpus <- v4

\* Runs that are all sound, and a manifest that routes them freely.
Corpus == INSTANCE MeasuredEvaluation WITH
    Registries <- PairRegistries, Observations <- CorpusObservations, Repetitions <- 1,
    Blemishes <- 0, Reruns <- 1, Misroutes <- 3, Withheld <- 0,
    labels <- v1, reviewed <- v2, runs <- v3, corpus <- v4

ASSUME SealAssumption ==
    Review!TimesAssumption /\ Review!AbsentAssumption /\ Export!ExportsAssumption

ASSUME EvaluationAssumption ==
    /\ Evaluation!ObservationsAssumption /\ Evaluation!RegistriesAssumption
    /\ Pairs!ObservationsAssumption /\ Pairs!RegistriesAssumption
    /\ Corpus!ObservationsAssumption /\ Corpus!RegistriesAssumption

Symmetry == Permutations(Actors) \cup Permutations(Callers)

-----------------------------------------------------------------------------

Off7 == v7 = 0 /\ v8 = 0
Off5 == v5 = 0 /\ v6 = 0 /\ Off7
Rest7 == <<part, v7, v8>>
Rest5 == <<v5, v6, Rest7>>

Init ==
    \/ part = "review" /\ Review!Init /\ Off7
    \/ part = "export" /\ Export!Init
    \/ part = "evaluation" /\ Evaluation!Init /\ Off5
    \/ part = "gapped" /\ Gapped!Init /\ Off5
    \/ part = "pairs" /\ Pairs!Init /\ Off5
    \/ part = "corpus" /\ Corpus!Init /\ Off5

ReviewActs == part = "review" /\ Review!Next /\ UNCHANGED Rest7
ExportActs == part = "export" /\ Export!Next /\ UNCHANGED part
EvaluationActs == part = "evaluation" /\ Evaluation!Next /\ UNCHANGED Rest5
PairsActs == part = "pairs" /\ Pairs!Next /\ UNCHANGED Rest5
CorpusActs == part = "corpus" /\ Corpus!Next /\ UNCHANGED Rest5

GappedActs == part = "gapped" /\ Gapped!Next /\ UNCHANGED Rest5

Next ==
    \/ ReviewActs \/ ExportActs
    \/ EvaluationActs \/ GappedActs \/ PairsActs \/ CorpusActs

Spec == Init /\ [][Next]_all

-----------------------------------------------------------------------------
(* Properties: what each component promises, by question *)

\* A decision answers the one closed request, by its reviewer and in its window,
\* and a closed review is complete; an export that has its receipt is whole and
\* carries the candidate; both are refused only where a cut-off operation or a
\* different one went before; and nothing that was published is ever replaced.
\* (decide_final_review, export_candidate, _publish_immutable_file)
OutcomeIsSealed ==
    /\ [](part = "review" =>
             /\ Review!TypeOK /\ Review!DecisionAnswersTheRequest
             /\ Review!ClosedReviewIsComplete /\ Review!StatusLoadsUnlessCutOff)
    /\ [](part = "export" =>
             /\ Export!TypeOK /\ Export!ReceiptSealsTheExport
             /\ Export!ArchiveCarriesTheCandidate /\ Export!RefusedBeforePublishing
             /\ Export!RefusedForAReason)
    /\ [][/\ part = "review" => Review!EvidenceIsFinal
          /\ part = "export" => Export!PublishedIsFinal]_all

\* A corpus passes exactly when every run meets the exit criteria: no sum hides
\* a failure or a gap, the slices and the deltas add up to the same, every cell
\* is measured once, and withdrawing evidence never makes it pass.
\* (aggregate_measured_evaluation, _derive_metrics)
VerdictIsEarned ==
    /\ [](part = "evaluation" =>
             /\ Evaluation!AggregateIsValid /\ Evaluation!PassedMeansExitCriteria
             /\ Evaluation!SlicesAddUp)
    /\ [](part = "gapped" =>
             /\ Gapped!AggregateIsValid /\ Gapped!PassedMeansExitCriteria
             /\ Gapped!SlicesAddUp)
    /\ [](part = "pairs" => Pairs!DeltasMatchTheArms)
    /\ [](part = "corpus" => Corpus!EachCellIsMeasuredOnce)
    /\ [][part = "gapped" => Gapped!WithdrawingNeverPasses]_all
=============================================================================
