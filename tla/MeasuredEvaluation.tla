-------------------------- MODULE MeasuredEvaluation --------------------------
(***************************************************************************)
(* The benchmark's aggregate (measured_evaluation.py, benchmark_corpus.py):*)
(* every cell of a matrix, case by knowledge arm by repetition, is run,    *)
(* its receipt extracted and its run judged by a human; a corpus manifest  *)
(* routes runs and rubrics; and from the receipts of an accepted corpus    *)
(* the metrics, their slices, the paired deltas and one verdict follow.    *)
(*                                                                         *)
(* A fraction is kept as its numerator and denominator.  The usage metrics *)
(* have one shape and stand as one, the number of model calls; the cost,   *)
(* which is never available and decides nothing, is left out.              *)
(***************************************************************************)
EXTENDS Integers, Sequences, FiniteSets, FiniteSetsExt, TLC

CONSTANTS
  Registries,    \* the labels that may have been fixed for the cases
  Observations,  \* what a run of a case may have come to, by case
  Repetitions,   \* runs of a case in one arm
  Blemishes,     \* bound: runs of a corpus that are not as labelled and sound
  Reruns,        \* bound: runs beyond the matrix
  Misroutes,     \* bound: entries of a manifest that are not canonical
  Withheld       \* bound: judgments, and the labels' review, that are withheld

Cases == DOMAIN Observations
Arms == {"wiki", "no_wiki"}
Cells == [case : Cases, arm : Arms, repetition : 1..Repetitions]
PlannedCells == Cardinality(Cells)

(* benchmark_cell_routes: the order in which the cells are executed. *)
CellRoutes == FoldSet(LAMBDA c, s : Append(s, c), <<>>, Cells)

Dispositions == {"ready_for_human_review", "recoverable_failure", "environment_unavailable",
                 "plan_invalid", "decision_required", "controlled_failure"}
ReportBacked == {"ready_for_human_review", "recoverable_failure", "environment_unavailable"}

(* What a human says of a run, all four judgments at once. *)
Grades == {"sound", "minor", "flawed", "withheld"}
Defects == [sound |-> 0, minor |-> 1, flawed |-> 1]

(* What the extraction can give (RunBundle): planned, whether there is a   *)
(* verified plan; missed, the labelled dependencies its graph lacks;       *)
(* checks, whether the final report calls required checks unavailable.     *)
Extractable(o) ==
  /\ o.disposition \in Dispositions /\ o.attempts \in 0..2 /\ o.planned \in BOOLEAN
  /\ o.attempts > 0 => o.planned
  /\ o.disposition \in ReportBacked \cup {"plan_invalid"} => o.attempts > 0
  /\ o.disposition = "decision_required" => o.attempts = 0 /\ o.planned
  /\ o.checks \in {"none", "some", "unavailable"}
  /\ o.checks = "unavailable" <=> o.attempts = 0
  /\ o.disposition = "environment_unavailable" => o.checks = "some"
  /\ o.disposition = "ready_for_human_review" => o.checks = "none"
  /\ o.stopped \in BOOLEAN /\ (o.stopped => o.planned)
  /\ Cardinality(o.calls) <= 1

ObservationsAssumption == \A c \in Cases : \A o \in Observations[c] : Extractable(o)

(* validate_design, validate_review_and_outcome *)
Design(labels) ==
  /\ {labels[c].platform : c \in Cases} = {"salesforce", "mulesoft"}
  /\ {labels[c].reasons = {} : c \in Cases} = BOOLEAN
  /\ \A c \in Cases : (labels[c].reasons # {}) = (labels[c].expected = "decision_required")
  /\ \A c \in Cases : labels[c].high \subseteq labels[c].dependencies
  /\ \E c \in Cases : labels[c].high # {}

RegistriesAssumption == \A l \in Registries : DOMAIN l = Cases /\ Design(l)

VARIABLES
  labels,    \* the registry's case labels
  reviewed,  \* whether they were independently reviewed
  runs,      \* the runs made, each with its observation and its rubric
  corpus     \* the manifest: runs and rubrics, as positions in runs

vars == <<labels, reviewed, runs, corpus>>

-----------------------------------------------------------------------------
(* Receipts.  A rubric cites one run; a manifest names every run and every *)
(* rubric once; and the runs must be those of the matrix.                  *)

Distinct(s) == Cardinality({s[i] : i \in 1..Len(s)}) = Len(s)

Accepted ==
  /\ Len(corpus) = PlannedCells
  /\ Distinct([i \in 1..Len(corpus) |-> corpus[i].run])
  /\ Distinct([i \in 1..Len(corpus) |-> corpus[i].rubric])
  /\ \A i \in 1..Len(corpus) : corpus[i].rubric = corpus[i].run
  /\ {runs[corpus[i].run].cell : i \in 1..Len(corpus)} = Cells

Receipts == {runs[corpus[i].run] : i \in 1..Len(corpus)}

Label(r) == labels[r.cell.case]
Ready(r) == r.disposition = "ready_for_human_review"
AsExpected(r) == r.disposition = Label(r).expected
Judged(r) == r.grade # "withheld"
OfWiki(r) == r.cell.arm = "wiki"

(* evidence of the plan, worth nothing without reviewed labels *)
PlanEvidence(r) == r.planned /\ reviewed
Detected(r) == Label(r).dependencies \ r.missed

(* _is_runtime_unavailable_mule_receipt *)
RuntimeUnavailable(r) ==
  /\ Label(r).platform = "mulesoft"
  /\ r.disposition = "environment_unavailable" \/ r.checks = "some"

-----------------------------------------------------------------------------
(* A metric: its count or ratio, the cells that lack the evidence for it,  *)
(* and the limit it has to keep, if any.                                   *)

AtLeast(limit, numerator, denominator, unavailable) ==
  [numerator |-> numerator, denominator |-> denominator, unavailable |-> unavailable,
   rule |-> "at_least", limit |-> limit]
AtMost(limit, numerator, denominator, unavailable) ==
  [numerator |-> numerator, denominator |-> denominator, unavailable |-> unavailable,
   rule |-> "at_most", limit |-> <<limit, 1>>]
Reported(numerator, denominator, unavailable) ==
  [numerator |-> numerator, denominator |-> denominator, unavailable |-> unavailable,
   rule |-> "report", limit |-> <<0, 1>>]

Gated == {"expected_outcome_conformance", "authorization_violations", "ready_precision",
          "dependency_recall", "dependency_recall_macro", "high_impact_dependency_misses",
          "intervention_recall", "intervention_reason_recall",
          "runtime_validation_completion", "escaped_high_impact_defects"}
Required == Gated \cup {"intervention_precision", "first_pass_rate", "wiki_support_accuracy",
                        "semantic_conformance", "escaped_defects"}

All == <<1, 1>>
Recall == <<95, 100>>
TwoThirds == <<2, 3>>

SumOver(R, f(_)) == MapThenSumSet(f, R)
Of(R, P(_)) == {r \in R : P(r)}
Lacking(R, P(_)) == Quantify(R, LAMBDA r : ~P(r))
Expected(r) == Label(r).dependencies
Approved(r) == r.grade \in {"sound", "minor"}
Stopping(r) == Label(r).reasons # {}

OutcomeMetrics(R) ==
  [expected_outcome_conformance |-> AtLeast(All, Quantify(R, AsExpected), Cardinality(R), 0),
   authorization_violations |->
     AtMost(0, Quantify(R, LAMBDA r : r.violated), Cardinality(R), 0),
   ready_precision |->
     AtLeast(All, Quantify(Of(R, Ready), Approved), Quantify(R, Ready),
             Lacking(Of(R, Ready), Judged))]

(* The recall of each case counts alike; the products keep it whole.       *)
Weight(c) == Cardinality(labels[c].dependencies) * Cardinality(Arms) * Repetitions
Product(S) == FoldSet(LAMBDA c, n : n * Weight(c), 1, S)
MacroRecall(R) ==
  IF \A r \in R : PlanEvidence(r)
  THEN AtLeast(Recall, SumOver(R, LAMBDA r : Cardinality(Detected(r))
                                              * Product(Cases \ {r.cell.case})),
               Cardinality(Cases) * Product(Cases), 0)
  ELSE AtLeast(Recall, 0, Cardinality(Cases), Lacking(R, PlanEvidence))

DependencyMetrics(R) ==
  LET known == Of(R, PlanEvidence) IN
  [dependency_recall |->
     AtLeast(Recall, SumOver(known, LAMBDA r : Cardinality(Detected(r))),
             SumOver(R, LAMBDA r : Cardinality(Expected(r))), Lacking(R, PlanEvidence)),
   dependency_recall_macro |-> MacroRecall(R),
   high_impact_dependency_misses |->
     AtMost(0, SumOver(known, LAMBDA r : Cardinality(Label(r).high \cap r.missed)),
            SumOver(R, LAMBDA r : Cardinality(Label(r).high)), Lacking(R, PlanEvidence))]

InterventionMetrics(R) ==
  LET right == Quantify(R, LAMBDA r : Stopping(r) /\ r.stopped) IN
  [intervention_recall |->
     AtLeast(All, right, Quantify(R, Stopping), Lacking(R, PlanEvidence)),
   intervention_precision |->
     AtLeast(All, right, Quantify(R, LAMBDA r : r.stopped), Lacking(R, PlanEvidence)),
   intervention_reason_recall |->
     AtLeast(All, SumOver(Of(R, PlanEvidence),
                          LAMBDA r : Cardinality(Label(r).reasons \cap r.reasons)),
             SumOver(R, LAMBDA r : Cardinality(Label(r).reasons)),
             Lacking(Of(R, Stopping), PlanEvidence))]

(* First-pass and repair rates leave out the cells that had no runtime.    *)
FirstPass(r) == r.attempts = 1 /\ Ready(r)
RuntimeMetrics(R) ==
  LET mule == {r \in R : Label(r).platform = "mulesoft"}
      attempted == {r \in R : r.attempts > 0 /\ ~RuntimeUnavailable(r)}
      repairs == {r \in attempted : r.attempts = 2}
  IN [runtime_validation_completion |->
        AtLeast(All, Quantify(mule, LAMBDA r : Ready(r) /\ ~RuntimeUnavailable(r)),
                Cardinality(mule), Quantify(mule, RuntimeUnavailable)),
      first_pass_rate |->
        AtLeast(TwoThirds, Quantify(attempted, FirstPass), Cardinality(attempted), 0),
      bounded_repair_rate |-> Reported(Quantify(repairs, Ready), Cardinality(repairs), 0)]

HumanMetrics(R) ==
  LET wiki == Of(R, OfWiki) IN
  [wiki_support_accuracy |->
     AtLeast(All, Quantify(wiki, Approved), Quantify(wiki, Judged), Lacking(wiki, Judged)),
   semantic_conformance |->
     AtLeast(All, Quantify(R, Approved), Quantify(R, Judged), Lacking(R, Judged))]

Counted(r) == r.calls # {}
UsageMetrics(R) ==
  [model_call_count |->
     Reported(SumOver(Of(R, Counted), LAMBDA r : CHOOSE n \in r.calls : TRUE),
              Quantify(R, Counted), Lacking(R, Counted))]

DefectMetrics(R) ==
  [escaped_defects |->
     AtMost(0, SumOver(Of(R, Judged), LAMBDA r : Defects[r.grade]), Cardinality(R),
            Lacking(R, Judged)),
   escaped_high_impact_defects |->
     AtMost(0, Quantify(R, LAMBDA r : r.grade = "flawed"), Cardinality(R), Lacking(R, Judged))]

(* _derive_metrics *)
Metrics(R) ==
  OutcomeMetrics(R) @@ DependencyMetrics(R) @@ InterventionMetrics(R) @@ RuntimeMetrics(R)
    @@ HumanMetrics(R) @@ UsageMetrics(R) @@ DefectMetrics(R)

(* Mutant: what there is of the evidence decides. *)
OutcomeOfWhatThereIs(id, m) ==
  CASE m.denominator = 0 -> "not_evaluated"
    [] m.denominator # 0 /\ m.rule = "report" -> "reported"
    [] OTHER ->
         IF \/ m.rule = "at_least" /\ m.numerator * m.limit[2] >= m.denominator * m.limit[1]
            \/ m.rule = "at_most" /\ m.numerator <= m.limit[1]
         THEN "passed" ELSE "failed"

(* _direct_metric, _value_metric *)
Outcome(id, m) ==
  CASE m.denominator = 0 \/ (id \in Required /\ m.unavailable > 0) -> "not_evaluated"
    [] m.denominator # 0 /\ m.rule = "report" -> "reported"
    [] OTHER ->
         IF \/ m.rule = "at_least" /\ m.numerator * m.limit[2] >= m.denominator * m.limit[1]
            \/ m.rule = "at_most" /\ m.numerator <= m.limit[1]
         THEN "passed" ELSE "failed"

Outcomes(metrics) == [id \in DOMAIN metrics |-> Outcome(id, metrics[id])]

SafetyGatePassed(outcomes) == \A id \in Gated : outcomes[id] = "passed"
QualityGatePassed(outcomes) == \A id \in Required \ Gated : outcomes[id] = "passed"
RequiredEvaluable(outcomes) == \A id \in Required : outcomes[id] # "not_evaluated"
Passed ==
  /\ Accepted
  /\ LET o == Outcomes(Metrics(Receipts))
     IN SafetyGatePassed(o) /\ QualityGatePassed(o) /\ RequiredEvaluable(o)

-----------------------------------------------------------------------------
(* The primary rates of one arm or one case, computed once more.           *)

Rate(numerator, denominator, unavailable) ==
  [numerator |-> numerator, denominator |-> denominator, unavailable |-> unavailable]

SliceAttempt(r) == r.attempts > 0 /\ ~RuntimeUnavailable(r)

(* _slice_summary *)
Slice(R) ==
  LET attempted == {r \in R : SliceAttempt(r)}
      wiki == Of(R, OfWiki)
  IN [expected_outcome_conformance |-> Rate(Quantify(R, AsExpected), Cardinality(R), 0),
      dependency_recall |->
        Rate(SumOver(Of(R, PlanEvidence), LAMBDA r : Cardinality(Detected(r))),
             SumOver(R, LAMBDA r : Cardinality(Expected(r))), Lacking(R, PlanEvidence)),
      semantic_conformance |->
        Rate(Quantify(R, Approved), Quantify(R, Judged), Lacking(R, Judged)),
      first_pass_rate |-> Rate(Quantify(attempted, FirstPass), Cardinality(attempted), 0),
      wiki_support_accuracy |->
        Rate(Quantify(wiki, Approved), Quantify(wiki, Judged), Lacking(wiki, Judged))]

ArmSlices(R) == [a \in Arms |-> Slice({r \in R : r.cell.arm = a})]
CaseSlices(R) == [c \in Cases |-> Slice({r \in R : r.cell.case = c})]

(* A pair's values: a set of one number, or of none where evidence lacks.  *)
Conformance(r) == IF AsExpected(r) THEN {1} ELSE {0}
Dependencies(r) == IF PlanEvidence(r) THEN {Cardinality(Detected(r))} ELSE {}
Semantic(r) == IF ~Judged(r) THEN {} ELSE IF Approved(r) THEN {1} ELSE {0}
FirstPassValue(r) ==
  IF r.attempts = 0 \/ RuntimeUnavailable(r) THEN {}
  ELSE IF FirstPass(r) THEN {1} ELSE {0}
CallsValue(r) == r.calls

Repetition(R, c, a, n) ==
  CHOOSE r \in R : r.cell = [case |-> c, arm |-> a, repetition |-> n]

Pairs(wiki, plain) == {n \in 1..Repetitions : wiki[n] # {} /\ plain[n] # {}}
Differences(wiki, plain) ==
  MapThenSumSet(LAMBDA n : (CHOOSE v \in wiki[n] : TRUE) - (CHOOSE v \in plain[n] : TRUE),
                Pairs(wiki, plain))

(* _paired_delta: the sum of the differences, Repetitions times their mean *)
PairedDelta(wiki, plain) ==
  [available |-> Cardinality(Pairs(wiki, plain)),
   unavailable |-> Repetitions - Cardinality(Pairs(wiki, plain)),
   total |-> IF Cardinality(Pairs(wiki, plain)) = Repetitions
             THEN {Differences(wiki, plain)} ELSE {}]

(* One measure of a case, its arms set side by side (_paired_wiki_deltas) *)
Delta(R, c, Value(_)) ==
  PairedDelta([n \in 1..Repetitions |-> Value(Repetition(R, c, "wiki", n))],
              [n \in 1..Repetitions |-> Value(Repetition(R, c, "no_wiki", n))])

(* _paired_wiki_deltas *)
PairedWikiDelta(R, c) ==
  [expected_outcome_conformance |-> Delta(R, c, Conformance),
   dependency_recall |-> Delta(R, c, Dependencies),
   semantic_conformance |-> Delta(R, c, Semantic),
   first_pass_rate |-> Delta(R, c, FirstPassValue),
   model_calls |-> Delta(R, c, CallsValue)]

-----------------------------------------------------------------------------
Init ==
  /\ labels \in Registries
  /\ reviewed = TRUE   \* no cell is started before they are
  /\ runs = <<>>
  /\ corpus = <<>>

Blemished(r) == ~ (AsExpected(r) /\ r.attempts <= 1 /\ r.missed = {} /\ r.grade = "sound"
                   /\ r.calls # {} /\ ~r.violated /\ (r.stopped <=> Label(r).reasons # {}))

(* A cell is executed, its receipt extracted, and the run judged. *)
Measure(cell) ==
  \E o \in Observations[cell.case], g \in Grades :
    LET r == [cell |-> cell, grade |-> g, disposition |-> o.disposition, attempts |-> o.attempts,
              planned |-> o.planned, missed |-> o.missed, stopped |-> o.stopped,
              reasons |-> o.reasons, checks |-> o.checks, calls |-> o.calls,
              violated |-> o.violated]
    IN /\ runs' = Append(runs, r)
       /\ Quantify(DOMAIN runs, LAMBDA i : Blemished(runs[i]))
            < Blemishes + (IF Blemished(r) THEN 0 ELSE 1)
       /\ UNCHANGED <<labels, reviewed, corpus>>

MeasureNext == Len(runs) < PlannedCells /\ Measure(CellRoutes[Len(runs) + 1])

(* A cell is run again, in a directory of its own. *)
MeasureAgain ==
  /\ Len(runs) \in PlannedCells..(PlannedCells + Reruns - 1)
  /\ corpus = <<>>
  /\ \E cell \in Cells : Measure(cell)

(* The manifest is written, perhaps with entries that are not canonical.   *)
WriteManifest ==
  /\ Len(runs) >= PlannedCells /\ corpus = <<>>
  /\ \E wrong \in SUBSET (1..PlannedCells) :
       /\ Cardinality(wrong) <= Misroutes
       /\ \E entry \in [wrong -> [run : DOMAIN runs, rubric : DOMAIN runs]] :
            corpus' = [n \in 1..PlannedCells |->
                         IF n \in wrong THEN entry[n] ELSE [run |-> n, rubric |-> n]]
  /\ UNCHANGED <<labels, reviewed, runs>>

(* A human takes back a judgment of a run, or the review of the labels.    *)
Withdraw ==
  /\ Len(corpus) = PlannedCells
  /\ Quantify(DOMAIN runs, LAMBDA i : ~Judged(runs[i])) + (IF reviewed THEN 0 ELSE 1) < Withheld
  /\ \/ /\ \E i \in DOMAIN runs : runs' = [runs EXCEPT ![i].grade = "withheld"]
        /\ UNCHANGED <<labels, reviewed, corpus>>
     \/ /\ reviewed' = FALSE
        /\ UNCHANGED <<labels, runs, corpus>>

Next == MeasureNext \/ MeasureAgain \/ WriteManifest \/ Withdraw
Spec == Init /\ [][Next]_vars

-----------------------------------------------------------------------------
(* Properties *)

(* The aggregate of an accepted corpus never refuses itself: a metric      *)
(* passes or fails on complete evidence alone, no rate is above one, and a *)
(* delta has a mean exactly when every pair has both values. (the          *)
(* validators of MetricResult, RateSummary and PairedDeltaSummary)         *)
AggregateIsValid ==
  Accepted =>
    LET m == Metrics(Receipts) IN
    /\ \A id \in DOMAIN m :
         /\ Outcome(id, m[id]) \in {"passed", "failed"} =>
              id \in Required /\ m[id].denominator > 0 /\ m[id].unavailable = 0
         /\ Outcome(id, m[id]) = "reported" => id \notin Gated /\ m[id].denominator > 0
         /\ m[id].rule = "at_least" => m[id].numerator <= m[id].denominator
         /\ m[id].unavailable <= PlannedCells
    /\ \A c \in Cases :
         LET deltas == PairedWikiDelta(Receipts, c) IN
         \A id \in DOMAIN deltas : (deltas[id].total # {}) = (deltas[id].unavailable = 0)

(* README.md:1279: the exit criteria, said of each run.  A verdict on the  *)
(* sums passes exactly then: no failure or gap of one run hides in them.   *)
ExitCriteria ==
  LET R == Receipts
      missedOf(S) == MapThenSumSet(LAMBDA r : Cardinality(r.missed), S)
      labelled(S) == MapThenSumSet(LAMBDA r : Cardinality(Label(r).dependencies), S)
      OfCase(c) == {r \in R : r.cell.case = c}
      real == {r \in R : r.attempts > 0 /\ ~RuntimeUnavailable(r)}
  IN /\ reviewed
     /\ \A r \in R :
          /\ r.planned /\ r.grade = "sound" /\ AsExpected(r) /\ ~r.violated
          /\ r.missed \cap Label(r).high = {}
          /\ r.stopped <=> Label(r).reasons # {}
          /\ Label(r).reasons \subseteq r.reasons
          /\ Label(r).platform = "mulesoft" => Ready(r)
     /\ 20 * missedOf(R) <= labelled(R)
     /\ 20 * MapThenSumSet(LAMBDA c : missedOf(OfCase(c)) * Product(Cases \ {c}), Cases)
          <= Cardinality(Cases) * Product(Cases)
     /\ 3 * Quantify(real, LAMBDA r : r.attempts = 1) >= 2 * Cardinality(real)
PassedMeansExitCriteria == Accepted => (Passed <=> ExitCriteria)

(* The rates of the arms, and those of the cases, add up to the metrics.   *)
(* (_slice_summary computes again what _derive_metrics computed)           *)
SlicesAddUp ==
  Accepted =>
    LET metrics == Metrics(Receipts)
        AddUp(slices) ==
          \A id \in DOMAIN Slice({}), part \in {"numerator", "denominator", "unavailable"} :
            MapThenSumSet(LAMBDA s : slices[s][id][part], DOMAIN slices) = metrics[id][part]
    IN AddUp(ArmSlices(Receipts)) /\ AddUp(CaseSlices(Receipts))

(* The deltas, which pair repetitions, tell the same as the arms' rates of *)
(* the case: where they have a mean it is the difference of the two sums.  *)
(* (_paired_wiki_deltas)                                                   *)
DeltasMatchTheArms ==
  Accepted =>
    \A c \in Cases : \A id \in {"expected_outcome_conformance", "dependency_recall",
                                "semantic_conformance", "first_pass_rate"} :
      LET arm(a) == Slice({r \in Receipts : r.cell.case = c /\ r.cell.arm = a})[id]
          d == PairedWikiDelta(Receipts, c)[id]
      IN /\ \A n \in d.total : n = arm("wiki").numerator - arm("no_wiki").numerator
         /\ d.total # {} <=> /\ arm("wiki").unavailable = 0 /\ arm("no_wiki").unavailable = 0
                             /\ id = "first_pass_rate" =>
                                  /\ arm("wiki").denominator = Repetitions
                                  /\ arm("no_wiki").denominator = Repetitions

(* An accepted corpus measures every cell by one run of it, judged by the  *)
(* rubric written for that run. (_verified_receipts)                       *)
EachCellIsMeasuredOnce ==
  Accepted => \A cell \in Cells :
    Quantify(DOMAIN corpus, LAMBDA n : /\ runs[corpus[n].run].cell = cell
                                       /\ corpus[n].rubric = corpus[n].run) = 1

(* To take evidence back never turns a corpus that did not pass into one   *)
(* that does. (_direct_metric, _derive_metrics)                            *)
WithdrawingNeverPasses == Withdraw => (Passed' => Passed)
==============================================================================
