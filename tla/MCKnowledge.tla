----------------------------- MODULE MCKnowledge -----------------------------
(* What a run starts from, what its roles are told and what its user is     *)
(* shown, checked in one run: the start and its recovery, the session of    *)
(* the dependency graph, the graph's scope and assurance, the live phases.  *)
(* They share no state, so an initial state chooses which of them acts, and *)
(* v1..v11 are the variables of that one; what it does not use stays 0.     *)
EXTENDS Naturals, Sequences

CONSTANTS
    Procs, MaxCalls, None,            \* of the start and of the session
    Requests, Configs,                \* of callers
    Sources, Bound, Wikis, Pinned,    \* source trees and Wikis, and those of the session
    Policies, Assured, Benchmark, MaxEdits,
    SourceFiles, Nodes, NodeOf, Plain, Context, Kind, App, External,  \* of the graph's scope
    Candidates, Dynamic, Directory, Entries, Requirements, MaxMissed,
    Attempts, MaxPolls                \* of the live phases

VARIABLES part, v1, v2, v3, v4, v5, v6, v7, v8, v9, v10, v11

all == <<part, v1, v2, v3, v4, v5, v6, v7, v8, v9, v10, v11>>

\* A run, or a measured cell, which is bound to a knowledge arm as well.
Start == INSTANCE RunStart WITH
    files <- v1, graphs <- v2, left <- v3, source <- v4, proc <- v5, started <- v6, calls <- v7,
    overlap <- v8, dispatches <- v9, benchmark <- v10

\* An adapter that changes what it requires, and a user who edits.
Session == INSTANCE GraphSession WITH
    files <- v1, source <- v2, wiki <- v3, call <- v4, calls <- v5, edits <- v6, exposed <- v7,
    broken <- v8, cut <- v9

\* A page, its class in two directories with one description, a class it uses, a
\* test of that class and a permission set; a standard object and a symbol nobody
\* defines, of which there is a description.  The settings have no node.
NodeOfFile == [page |-> "Page", class |-> "Class", class2 |-> "Class", meta |-> "Class",
               helper |-> "Helper", test |-> "Test", access |-> "Access", alone |-> "Unknown"]
KindOfNode == [n \in Nodes |->
    IF n = "Test" THEN "test" ELSE IF n = "Access" THEN "permission" ELSE "code"]
AppOfNode == [n \in Nodes |-> IF n = "Access" THEN "other" ELSE "one"]
Ref(f, n, l, t, s) == [file |-> f, to |-> n, line |-> l, times |-> t, scanned |-> s]
References == {
    Ref("page", "Class", 1, 1, TRUE), Ref("class", "Helper", 1, 1, FALSE),
    Ref("class2", "Account", 1, 2, TRUE), Ref("helper", "Page", 1, 1, TRUE),
    Ref("test", "Helper", 2, 1, FALSE), Ref("access", "Class", 1, 1, TRUE),
    Ref("class", "Unknown", 2, 1, TRUE)}
Scope == INSTANCE GraphScope WITH
    Files <- SourceFiles,
    refs <- v1, missed <- v2, entry <- v3, required <- v4, pc <- v5, edges <- v6,
    selected <- v7, todo <- v8, changed <- v9, graph <- v10, earlier <- v11

\* Attempts, and polls that overlap their publications.
Progress == INSTANCE LiveProgress WITH
    at <- v1, now <- v2, ended <- v3, poll <- v4, answers <- v5, seen <- v6

ASSUME KnowledgeAssumption ==
    /\ Start!RunStartAssumption /\ Session!GraphSessionAssumption
    /\ Scope!GraphScopeAssumption /\ Progress!LiveProgressAssumption

-----------------------------------------------------------------------------

Init ==
    \/ part = "start" /\ Start!Init /\ v11 = 0
    \/ part = "session" /\ Session!Init /\ v10 = 0 /\ v11 = 0
    \/ part = "scope" /\ Scope!Init
    \/ part = "progress" /\ Progress!Init /\ v7 = 0 /\ v8 = 0 /\ v9 = 0 /\ v10 = 0 /\ v11 = 0

StartActs == part = "start" /\ Start!Next /\ UNCHANGED <<part, v11>>
SessionActs == part = "session" /\ Session!Next /\ UNCHANGED <<part, v10, v11>>
ScopeActs == part = "scope" /\ Scope!Next /\ UNCHANGED part
ProgressActs == part = "progress" /\ Progress!Next /\ UNCHANGED <<part, v7, v8, v9, v10, v11>>

Next == StartActs \/ SessionActs \/ ScopeActs \/ ProgressActs

Spec == Init /\ [][Next]_all

-----------------------------------------------------------------------------
(* Properties: what each component promises, by question *)

\* However starts and recoveries of one run interleave and are cut off, what is
\* started is what the sealed evidence says, of one caller, and once unless two
\* overlapped; and a start that died cleanly can be continued.
\* (start_agent_run, recover_incomplete_agent_run_start)
StartedFromTheEvidence ==
    part = "start" => /\ Start!TypeOK /\ Start!DispatchedFromTheEvidence
                      /\ Start!OneDispatch /\ Start!CleanCrashResumes
                      /\ Start!AnchorSealsOneCaller

\* What the roles are told of the source is sealed, the same in every call, and
\* lacks nothing the assurance looks for: the graph's scope is closed in
\* whatever order it was found, and its builder and its assurance agree.
\* (RevisionBoundArchitectContextFactory, build_graph_assurance_report)
KnowledgeIsAssured ==
    /\ part = "session" => /\ Session!TypeOK /\ Session!SealedWhenExposed
                           /\ Session!OneEvidence /\ Session!PinnedUnlessMoved
                           /\ Session!CutIsForGood
    /\ part = "scope" => /\ Scope!TypeOK /\ Scope!ScopeIsClosure
                         /\ Scope!BuilderAndAssuranceAgree /\ Scope!AssuredIsComplete
                         /\ Scope!DeterministicOtherwise

\* The live phases, which are read while files appear and move, were true while
\* they were read, and never go back; the Engineer's clock never moves, and the
\* validator's at most once, forward, in the last answer of its phase.
\* (_project_live_progress)
ProgressWasTrue ==
    /\ [](part = "progress" => Progress!TypeOK /\ Progress!NeverBack /\ Progress!ClockIsSteady)
    /\ [][part = "progress" => Progress!AnswerWasTrue]_all
=============================================================================
