----------------------------- MODULE MCModelCalls -----------------------------
(* What one model call or one command rests on, checked in one run: the two *)
(* clients, the loop that feeds a command and reads it, the one that reads  *)
(* a process group, and the decoder of a response.  They share no state, so *)
(* an initial state chooses which of them acts, and v1..v11 are the         *)
(* variables of that one; what it does not use stays 0.  A final review is  *)
(* among them because it has to come to an end as well.                     *)
EXTENDS Naturals

CONSTANTS Approved, Foreign, Refused, None, a1, a2, caller, Absent,
          LocalModels,     \* what the alias of the local model may stand for
          MaxCalls,        \* bound: the calls of one run, of either client
          MaxDrifts,       \* bound: the changes outside the Claude client
          MaxPulls,        \* bound: the times the alias is pointed elsewhere
          ClaudeRestarts,  \* bounds: the processes started again
          OllamaRestarts,
          Work,            \* bound: units a command reads, writes to a stream
          Leader, Children, Channels,  \* a process group and its streams
          Limit,           \* what is kept of a stream
          Volume           \* bound: what the group writes to a stream

VARIABLES part, v1, v2, v3, v4, v5, v6, v7, v8, v9, v10, v11

all == <<part, v1, v2, v3, v4, v5, v6, v7, v8, v9, v10, v11>>

\* Changes outside come before, between and during the calls.
Claude == INSTANCE ClaudeCall WITH
    MaxRestarts <- ClaudeRestarts,
    world <- v1, client <- v2, step <- v3, probe <- v4, calls <- v5, records <- v6,
    served <- v7, drifts <- v8, restarts <- v9

\* The alias can be moved away, and away and back, within one call.
Ollama == INSTANCE OllamaCall WITH
    Revisions <- LocalModels, MaxRestarts <- OllamaRestarts,
    alias <- v1, observed <- v2, step <- v3, before <- v4, calls <- v5, records <- v6,
    served <- v7, pulls <- v8, restarts <- v9

\* A dutiful command has more to say and to read than a pipe holds and no
\* deadline; another has a deadline and may write more than is kept of it.
Command(dutiful) == INSTANCE CliProcess WITH
    InputSize <- Work, PipeSize <- IF dutiful THEN 1 ELSE 2,
    Limit <- IF dutiful THEN Work ELSE Work - 1, MaxWrites <- Work,
    Deadline <- ~dutiful, Dutiful <- dutiful, phase <- v1, feeding <- v2, fed <- v3,
    reading <- v4, kept <- v5, exceeded <- v6, kid <- v7, code <- v8

\* A group that may write more to a stream than is kept of it.
Group == INSTANCE BoundedProcess WITH
    Streams <- Channels, Runners <- {"core", "claude", "container"},
    runner <- v1, state <- v2, holds <- v3, reaped <- v4, sent <- v5, unread <- v6,
    kept <- v7, watched <- v8, overdue <- v9, cut <- v10, pc <- v11

\* Every wire of at most four parts, every message of at most two chunks, and
\* every such message with one part after it, cut in every way.
Wire == INSTANCE OllamaWire WITH
    MaxBody <- 3, MaxOverhead <- 14, MaxSizeLine <- 4, WireSize <- 4,
    framing <- v1, wire <- v2, got <- v3, outcome <- v4

\* Two people, one operation at a time, which is repeated when it was cut off.
Review == INSTANCE FinalReview WITH
    Actors <- {a1, a2}, Callers <- {caller}, MaxTime <- 2, Window <- 1,
    clock <- v1, file <- v2, anchor <- v3, temporary <- v4, pc <- v5, call <- v6

ASSUME BoundsAssumption ==
    /\ MaxCalls \in Nat /\ MaxDrifts \in Nat /\ MaxPulls \in Nat
    /\ ClaudeRestarts \in Nat /\ OllamaRestarts \in Nat
    /\ Work \in Nat \ {0}
    /\ None \notin Claude!Identity \cup LocalModels

ASSUME GroupAssumption == Group!ProcessAssumption
ASSUME Review!TimesAssumption /\ Review!AbsentAssumption

-----------------------------------------------------------------------------

Off9 == v9 = 0 /\ v10 = 0 /\ v11 = 0
Off7 == v7 = 0 /\ v8 = 0 /\ Off9
Rest9 == <<part, v9, v10, v11>>
Rest7 == <<v7, v8, Rest9>>

Init ==
    \/ part = "claude" /\ Claude!Init /\ v10 = 0 /\ v11 = 0
    \/ part = "ollama" /\ Ollama!Init /\ v10 = 0 /\ v11 = 0
    \/ part = "cli" /\ Command(FALSE)!Init /\ Off9
    \/ part = "duty" /\ Command(TRUE)!Init /\ Off9
    \/ part = "group" /\ Group!Init
    \/ part = "wire" /\ Wire!Init /\ v5 = 0 /\ v6 = 0 /\ Off7
    \/ part = "review" /\ Review!Init /\ Off7

ClaudeActs == part = "claude" /\ Claude!Next /\ UNCHANGED <<part, v10, v11>>
OllamaActs == part = "ollama" /\ Ollama!Next /\ UNCHANGED <<part, v10, v11>>
CliActs == part = "cli" /\ Command(FALSE)!Next /\ UNCHANGED Rest9
DutyKid == part = "duty" /\ Command(TRUE)!Kid /\ UNCHANGED Rest9
DutyLoop == part = "duty" /\ Command(TRUE)!Loop /\ UNCHANGED Rest9
GroupActs == part = "group" /\ Group!Outside /\ UNCHANGED part
GroupDeadline == part = "group" /\ Group!Deadline /\ UNCHANGED part
GroupRun == part = "group" /\ Group!Run /\ UNCHANGED part
WireActs == part = "wire" /\ Wire!Next /\ UNCHANGED <<v5, v6, Rest7>>
ReviewActs ==
    part = "review" /\ (Review!Tick \/ Review!Enter(caller)) /\ UNCHANGED Rest7
ReviewRuns == part = "review" /\ Review!Program(caller) /\ UNCHANGED Rest7
ReviewFails == part = "review" /\ Review!Fault(caller) /\ UNCHANGED Rest7
ReviewRepeats == part = "review" /\ Review!Resubmit(caller) /\ UNCHANGED Rest7

Next ==
    \/ ClaudeActs \/ OllamaActs \/ CliActs \/ DutyKid \/ DutyLoop
    \/ GroupActs \/ GroupDeadline \/ GroupRun \/ WireActs
    \/ ReviewActs \/ ReviewRuns \/ ReviewFails

\* As in CliProcess!FairSpec, BoundedProcess!FairSpec and FinalReview!FairSpec.
Spec ==
    /\ Init /\ [][Next]_all
    /\ WF_all(DutyKid) /\ WF_all(DutyLoop) /\ WF_all(GroupRun) /\ WF_all(GroupDeadline)
    /\ WF_all(ReviewRuns) /\ SF_all(ReviewRepeats) /\ <>[][~ReviewFails]_all

-----------------------------------------------------------------------------
(* Properties: what each component promises, by question *)

\* Output that a caller is given as complete is the whole of what was written,
\* whatever pieces it came in and whoever still held the pipe; a call that
\* ends, ends its processes, with the exceptions BoundedProcess names.
\* (_run_bounded_command, _run_bounded_process)
AnswersAreWhole ==
    /\ part = "cli" => /\ Command(FALSE)!TypeOK /\ Command(FALSE)!AnswerIsWhole
                       /\ Command(FALSE)!NothingRunsOn
    /\ part = "duty" => /\ Command(TRUE)!TypeOK /\ Command(TRUE)!AnswerIsWhole
                        /\ Command(TRUE)!NothingRunsOn
    /\ part = "group" => /\ Group!TypeOK /\ Group!CompleteOutput
                         /\ Group!CutOffEndsTheGroup /\ Group!LeaderIsGone

\* A response of the local server is taken only as a whole and nothing beyond
\* it, wherever the pieces it came in were cut, and one that is whole and
\* within the limits is taken. (_receive_http_response, _decode_chunked_body)
ResponsesAreWhole ==
    part = "wire" => /\ Wire!TypeOK /\ Wire!BodyIsWhole /\ Wire!DecodingEnds
                     /\ Wire!MessageIsTaken

\* The model records of a run name one runtime, across restarts and changes
\* outside; each has its own call's usage; and a change that stays is met by
\* at most one prompt, or shows between the two inventories.
\* (bind_recorded_runtime_identity; parse, of both clients)
OneModelPerRun ==
    /\ part = "claude" => /\ Claude!TypeOK /\ Claude!OneIdentity
                          /\ Claude!UsageOfItsCall /\ Claude!OneStrayPerDrift
    /\ part = "ollama" => Ollama!TypeOK /\ Ollama!OneRevision /\ Ollama!OneMoveIsSeen

\* Once a call was recorded, no prompt goes out under another runtime than
\* the recorded one, not even in a call that then fails without a record.
\* (bind_runtime_identity and bind_model_revision, parse)
SentUnderTheRecord ==
    [][/\ part = "claude" => Claude!SentUnderTheRecord
       /\ part = "ollama" => Ollama!GeneratedUnderTheRecord]_all

\* Every run of a process group ends, whoever holds its pipes; a dutiful
\* command's call ends without a deadline: the two never wait for each other;
\* and an interrupted decision is closed by repeating it, unless a temporary
\* file was left behind or it accepts a review that has expired since.
\* (_run_bounded_process, _run_bounded_command, decide_final_review)
CallsEnd ==
    /\ <>(part = "group" => Group!RunEnds)
    /\ <>(part = "duty" => Command(TRUE)!EndsWithoutDeadline)
    /\ (part = "review" /\ Review!Begun) ~> (part = "review" /\ Review!Closed)
=============================================================================
