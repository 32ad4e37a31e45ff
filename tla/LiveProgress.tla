---------------------------- MODULE LiveProgress ----------------------------
(***************************************************************************)
(* The live progress of a run (ui/service.py, progress).  The browser's    *)
(* poll takes no lock: it looks for one file after the other, each in the  *)
(* in-flight transaction and then in the promoted evidence, while the      *)
(* operation publishes files in the first and promotes them to the second. *)
(* The files do not tell an Engineer that failed from one that generates:  *)
(* its lease stays alone, and so does its phase.                           *)
(***************************************************************************)
EXTENDS Naturals, Sequences

CONSTANTS
    Attempts,   \* the attempts a run may make: 1 .. Attempts
    MaxPolls    \* bound: the polls of the browser

LiveProgressAssumption == Attempts \in Nat \ {0} /\ MaxPolls \in Nat

\* The Engineer's lease and output, the deterministic report, the lease of the
\* Validator's advisory, which need not be asked for, and the assessment.
Kinds == {"lease", "engineer", "report", "validator", "assessment"}
Files == Kinds \X (1 .. Attempts)
Roots == {"inflight", "evidence"}

VARIABLES
    at,         \* when a root's copy of a file was published; 0 when it is not
    now,        \* the publications so far, which are the clock
    ended,      \* whether the attempt's operation is over and promotes its files
    poll,       \* the poll that runs
    answers,    \* history: the answers, in the order they were given
    seen        \* history: what the phase has been since the poll began

vars == <<at, now, ended, poll, answers, seen>>

-----------------------------------------------------------------------------
Present(f) == \E r \in Roots : at[r][f] # 0
Latest == {n \in 1 .. Attempts : Present(<<"lease", n>>)}
Attempt == CHOOSE n \in Latest : \A k \in Latest : k <= n

Phase(n, phase) == [attempt |-> n, phase |-> phase]
PhaseOf(n) ==
    IF Present(<<"report", n>>) THEN "complete"
    ELSE IF Present(<<"engineer", n>>) THEN "validator" ELSE "engineer"

\* The phase of a run whose files no one is changing.
PhaseNow == IF Latest = {} THEN Phase(0, "pending") ELSE Phase(Attempt, PhaseOf(Attempt))

Rank == [pending |-> 1, engineer |-> 2, validator |-> 3, complete |-> 4]
Before(a, b) ==
    \/ a.attempt < b.attempt
    \/ a.attempt = b.attempt /\ Rank[a.phase] <= Rank[b.phase]

NoPoll == [pc |-> "none"]

Init ==
    /\ at = [r \in Roots |-> [f \in Files |-> 0]]
    /\ now = 0
    /\ ended = FALSE
    /\ poll = NoPoll
    /\ answers = <<>>
    /\ seen = {}

-----------------------------------------------------------------------------
Put(root, f) ==
    /\ at[root][f] = 0
    /\ now' = now + 1
    /\ at' = [at EXCEPT ![root][f] = now']

Observe == seen' = IF poll = NoPoll THEN {} ELSE seen \cup {PhaseNow'}

Following(n) ==
    LET done == {kind \in Kinds : at["inflight"][<<kind, n>>] # 0}
    IN  IF "assessment" \in done THEN {}
        ELSE IF "validator" \in done THEN {"assessment"}
        ELSE IF "report" \in done THEN {"validator", "assessment"}
        ELSE IF "engineer" \in done THEN {"report"}
        ELSE IF "lease" \in done THEN {"engineer"} ELSE {"lease"}

\* An attempt's files are written in this order; the second attempt follows
\* the first one's end.
Publish ==
    /\ ~ ended
    /\ \E n \in 1 .. Attempts, kind \in Kinds :
        /\ kind \in Following(n)
        /\ at["evidence"][<<"lease", n>>] = 0
        /\ \A k \in (n + 1) .. Attempts : at["inflight"][<<"lease", k>>] = 0
        /\ n > 1 => at["evidence"][<<"lease", n - 1>>] # 0
        /\ Put("inflight", <<kind, n>>)
    /\ Observe
    /\ UNCHANGED <<ended, poll, answers>>

\* The operation ends with the assessment, or when the Engineer gives nothing.
Over == \E n \in 1 .. Attempts : Following(n) \in {{}, {"engineer"}} /\ at["evidence"][<<"lease", n>>] = 0

EndOperation ==
    /\ ~ ended
    /\ Over
    /\ ended' = TRUE
    /\ UNCHANGED <<at, now, poll, answers, seen>>

\* The files are copied one by one, in the order of their names; the copies in
\* flight stay.
Promote ==
    /\ ended
    /\ LET open == {f \in Files : at["inflight"][f] # 0 /\ at["evidence"][f] = 0}
           name == [engineer |-> 1, lease |-> 2, report |-> 3, assessment |-> 4, validator |-> 5]
       IN \E f \in open :
            /\ \A g \in open : name[f[1]] < name[g[1]] \/ (f[1] = g[1] /\ f[2] <= g[2])
            /\ Put("evidence", f)
            /\ ended' = (open # {f})
    /\ Observe
    /\ UNCHANGED <<poll, answers>>

-----------------------------------------------------------------------------
Goal(kind, n, then, mark) ==
    [pc |-> "look", file |-> <<kind, n>>, turn |-> 1, for |-> then, mark |-> mark]

Poll ==
    /\ poll = NoPoll
    /\ Len(answers) < MaxPolls
    /\ poll' = Goal("lease", Attempts, "attempt", 0)
    /\ seen' = {PhaseNow}
    /\ UNCHANGED <<at, now, ended, answers>>

Answer(attempt, phase, start) ==
    /\ answers' = Append(answers, [attempt |-> attempt, phase |-> phase, start |-> start])
    /\ poll' = NoPoll

\* The file is in one of the two roots (its path), or in neither (0).
Resolved(root) ==
    LET n == poll.file[2]
        found == root # "none"
    IN  \/ /\ poll.for = "attempt" /\ found
           /\ poll' = Goal("report", n, "report", 0) /\ UNCHANGED answers
        \/ /\ poll.for = "attempt" /\ ~ found /\ n > 1
           /\ poll' = Goal("lease", n - 1, "attempt", 0) /\ UNCHANGED answers
        \/ /\ poll.for = "attempt" /\ ~ found /\ n = 1
           /\ Answer(0, "pending", 0)
        \/ /\ poll.for = "report"
           /\ poll' = Goal("engineer", n, "engineer", IF found THEN 1 ELSE 0) /\ UNCHANGED answers
        \/ /\ poll.for = "engineer" /\ poll.mark = 1
           /\ Answer(n, "complete", 0)
        \/ /\ poll.for = "engineer" /\ poll.mark = 0 /\ found
           /\ poll' = Goal("validator", n, "validator", at[root][poll.file]) /\ UNCHANGED answers
        \/ /\ poll.for = "engineer" /\ poll.mark = 0 /\ ~ found
           /\ poll' = Goal("lease", n, "clock", 0) /\ UNCHANGED answers
        \/ /\ poll.for = "validator"
           /\ Answer(n, "validator", IF found THEN at[root][poll.file] ELSE poll.mark)
        \/ /\ poll.for = "clock"
           /\ Answer(n, "engineer", IF found THEN at[root][poll.file] ELSE 0)

\* Each file is looked for in one root and then in the other.
LookIn(first, second) ==
    LET root == IF poll.turn = 1 THEN first ELSE second
    IN  IF at[root][poll.file] # 0 THEN Resolved(root)
        ELSE IF poll.turn = 2 THEN Resolved("none")
        ELSE poll' = [poll EXCEPT !.turn = 2] /\ UNCHANGED answers

\* Mutant: the promoted evidence is looked at first.
LookPromotedFirst ==
    /\ poll.pc = "look"
    /\ LookIn("evidence", "inflight")
    /\ UNCHANGED <<at, now, ended, seen>>

Look ==
    /\ poll.pc = "look"
    /\ LookIn("inflight", "evidence")
    /\ seen' = IF poll' = NoPoll THEN {} ELSE seen
    /\ UNCHANGED <<at, now, ended>>

\* The file system refuses: the poll knows nothing.
Unreadable ==
    /\ poll.pc = "look"
    /\ poll' = NoPoll
    /\ seen' = {}
    /\ UNCHANGED <<at, now, ended, answers>>

Next == Publish \/ EndOperation \/ Promote \/ Poll \/ Look \/ Unreadable

Spec == Init /\ [][Next]_vars

-----------------------------------------------------------------------------
(* Every variable keeps to its range. *)
TypeOK ==
    /\ at \in [Roots -> [Files -> 0 .. now]]
    /\ ended \in BOOLEAN
    /\ poll.pc \in {"none", "look"}
    /\ poll.pc = "look" => poll.file \in Files /\ poll.turn \in {1, 2}
    /\ Len(answers) <= MaxPolls

\* The phase a poll answers is one the run was in while the poll looked, though
\* no two of its looks are at the same moment.
AnswerWasTrue ==
    Len(answers') > Len(answers) =>
        LET last == answers'[Len(answers')] IN Phase(last.attempt, last.phase) \in seen

\* A later poll never shows an earlier attempt or phase.
NeverBack == \A i, j \in 1 .. Len(answers) : i < j => Before(answers[i], answers[j])

\* The Engineer's clock runs from the publication of its lease, whenever it is
\* read: it does not move when the files are promoted.  The validator's runs from
\* the Engineer's output; it moves at most once, forward, in the last answer of
\* this phase, when its poll found the report missing and a later file there.
ClockIsSteady ==
    \A i, j \in 1 .. Len(answers) :
        i < j /\ answers[i].attempt = answers[j].attempt /\ answers[i].phase = answers[j].phase =>
            /\ answers[i].phase = "engineer" => answers[i].start = answers[j].start
            /\ answers[i].phase = "validator" =>
                   /\ answers[i].start = at["inflight"][<<"engineer", answers[i].attempt>>]
                   /\ answers[i].start <= answers[j].start

-----------------------------------------------------------------------------
(* Why they hold *)

Out(kind, n) == at["inflight"][<<kind, n>>] # 0

\* A file is promoted after it was published, an attempt's files come in their
\* order, and an attempt after the promoted leases of those before it.
FilesFit ==
    /\ \A f \in Files : at["evidence"][f] # 0 => at["inflight"][f] # 0
    /\ \A n \in 1 .. Attempts :
           /\ Out("engineer", n) => Out("lease", n)
           /\ Out("report", n) => Out("engineer", n)
           /\ Out("validator", n) \/ Out("assessment", n) => Out("report", n)
           /\ Out("lease", n) =>
                  \A k \in 1 .. Attempts : k < n => at["evidence"][<<"lease", k>>] # 0
    /\ Latest = {} \/ \E n \in Latest : \A k \in Latest : k <= n

\* The phase only moves on, and what was seen is between the last answer and now.
SeenFits ==
    /\ seen \subseteq [attempt: 0 .. Attempts, phase: DOMAIN Rank]
    /\ IF poll = NoPoll THEN seen = {} ELSE PhaseNow \in seen
    /\ \A s \in seen : /\ Before(s, PhaseNow)
                        /\ \A j \in 1 .. Len(answers) : Before(answers[j], s)

AnswersFit ==
    /\ answers \in Seq([attempt: 0 .. Attempts, phase: DOMAIN Rank, start: Nat])
    /\ NeverBack
    /\ \A j \in 1 .. Len(answers) :
           /\ Before(answers[j], PhaseNow)
           /\ answers[j].phase = "engineer" =>
                  /\ answers[j].attempt \in 1 .. Attempts
                  /\ Out("lease", answers[j].attempt)
                  /\ answers[j].start = at["inflight"][<<"lease", answers[j].attempt>>]

\* An attempt whose successor was missed: its phase was seen.
Known(n) ==
    IF n = 0 THEN Phase(0, "pending") \in seen
    ELSE Out("lease", n) => Phase(n, PhaseOf(n)) \in seen

\* An attempt whose report was missed: with its Engineer's output, it was seen
\* to be validated.
Unreported(n) == Out("engineer", n) => Phase(n, "validator") \in seen

PollFits ==
    \/ poll = NoPoll
    \/ /\ poll \in [pc: {"look"}, file: Files, turn: {1, 2}, mark: Nat,
                    for: {"attempt", "report", "engineer", "validator", "clock"}]
       /\ Len(answers) < MaxPolls
       /\ \E n \in 1 .. Attempts :
           \/ /\ poll.for = "attempt" /\ poll.file = <<"lease", n>>
              /\ Known(n) /\ (poll.turn = 2 => Known(n - 1))
           \/ /\ poll.for = "report" /\ poll.file = <<"report", n>>
              /\ Out("lease", n) /\ Known(n) /\ (poll.turn = 2 => Unreported(n))
           \/ /\ poll.for = "engineer" /\ poll.file = <<"engineer", n>>
              /\ Out("lease", n) /\ Known(n)
              /\ \/ poll.mark = 1 /\ Out("report", n)
                 \/ /\ poll.mark = 0 /\ Unreported(n)
                    /\ poll.turn = 2 => Phase(n, "engineer") \in seen
           \/ /\ poll.for = "validator" /\ poll.file = <<"validator", n>>
              /\ Phase(n, "validator") \in seen
           \/ /\ poll.for = "clock" /\ poll.file = <<"lease", n>>
              /\ poll.turn = 1 /\ Out("lease", n) /\ Phase(n, "engineer") \in seen

Inv == TypeOK /\ now \in Nat /\ FilesFit /\ SeenFits /\ AnswersFit /\ PollFits

\* When an attempt's Engineer gave its output.
OutputAt(n) == at["inflight"][<<"engineer", n>>]

\* What is promoted, or about to be, is not between the output and the report;
\* copies of the output and the Validator's lease are not older than the output.
CopiesFit ==
    /\ \A n \in 1 .. Attempts :
           (ended \/ at["evidence"][<<"lease", n>>] # 0 \/ at["evidence"][<<"engineer", n>>] # 0)
               /\ Out("engineer", n) => Out("report", n)
    /\ \A r \in Roots, kind \in {"engineer", "validator"}, n \in 1 .. Attempts :
           at[r][<<kind, n>>] # 0 => OutputAt(n) # 0 /\ OutputAt(n) <= at[r][<<kind, n>>]

\* A start that is not the output's was found when the report was there: all
\* that is seen since then is later than the validator's phase.
StartFits(n, start) ==
    /\ Out("engineer", n) /\ OutputAt(n) <= start
    /\ start # OutputAt(n) => Out("report", n)

Validating == {j \in 1 .. Len(answers) : answers[j].phase = "validator"}

StartsFit ==
    /\ \A j \in Validating :
        LET n == answers[j].attempt
        IN  /\ n \in 1 .. Attempts /\ StartFits(n, answers[j].start)
            /\ answers[j].start # OutputAt(n) => \A s \in seen : Before(Phase(n, "complete"), s)
            /\ \A k \in Validating :
                   j < k /\ answers[k].attempt = n => answers[j].start = OutputAt(n)
    /\ poll # NoPoll /\ poll.for = "validator" => StartFits(poll.file[2], poll.mark)

Clocked == CopiesFit /\ StartsFit
=============================================================================
