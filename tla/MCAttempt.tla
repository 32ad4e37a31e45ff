------------------------------ MODULE MCAttempt ------------------------------
(* What an attempt consists of, checked in one run: the Engineer's candidate *)
(* and its replay, the private workspace, the commands, the two validators,  *)
(* and the way from their results to a correction.  They share no state, so  *)
(* an initial state chooses which of them acts, and v1..v19 are the          *)
(* variables of that one; what it does not use stays 0.                      *)
EXTENDS TLC

CONSTANTS None, Absent, NoFile,
          Components, Texts,      \* the manifest's approved paths, their contents
          Signals, SignalPaths,   \* repair signals and the files each opens
          Files, Approved,        \* the files of a source, those of the manifest
          MaxVersion,             \* bound: contents of a source file
          MaxEdits,               \* bound: edits of the user
          Threads, Nonces,        \* of the command runner's callers, of approvals
          AttemptsGiven,          \* attempt numbers that callers give
          MaxWrites, MaxClock,    \* bounds: writes of an artifact, ticks
          MaxEpochs,              \* _MAX_SANDBOX_EPOCHS_PER_ATTEMPT
          HostChanges,            \* bound: changes under the Salesforce validations
          MaxValidations,         \* bound: those validations
          MuleChanges,            \* bound: changes under the Mule validations
          MaxValidators,          \* bound: Mule validators built for a run
          MinTests,               \* SALESFORCE_MIN_CANDIDATE_LWC_JEST_TESTS
          MaximumAttempts         \* RetryBudget.maximum_attempts

VARIABLES part, v1, v2, v3, v4, v5, v6, v7, v8, v9, v10,
          v11, v12, v13, v14, v15, v16, v17, v18, v19

all == <<part, v1, v2, v3, v4, v5, v6, v7, v8, v9, v10,
         v11, v12, v13, v14, v15, v16, v17, v18, v19>>

\* The first signal opens one of two approved files, the second both.
OpenedFiles == [permissions_contract |-> {"permissions"},
                behavior |-> {"component", "permissions"}]
Engineer == INSTANCE EngineerCandidate WITH
    Contents <- Texts, Paths <- Components,
    source <- v1, node <- v2, phase <- v3, made <- v4, leases <- v5, calls <- v6, runs <- v7,
    correction <- v8, reports <- v9, thread <- v10

\* Some files are approved and some are not, and the user edits.
Workspace == INSTANCE IsolatedWorkspace WITH
    Paths <- Files,
    source <- v1, edits <- v2, plan <- v3, pinned <- v4, role <- v5, pc <- v6, todo <- v7,
    seen <- v8, base <- v9, disk <- v10, failed <- v11, moments <- v12, still <- v13,
    results <- v14

\* Threads that share a runner, and the file system under them.
Runner == INSTANCE CommandRunner WITH
    Attempts <- AttemptsGiven, MaxAttempts <- MaximumAttempts,
    call <- v1, consumed <- v2, file <- v3, old <- v4, writers <- v5, writes <- v6, clock <- v7,
    spawned <- v8, hidden <- v9, receipts <- v10

\* Every output class of every command, on every host.
Correction == INSTANCE CorrectionPath WITH
    host <- v1, attempt <- v2, results <- v3, clean <- v4, phase <- v5, action <- v6,
    signals <- v7

\* An environment that changes, and validations with probes of their own.
Salesforce == INSTANCE SalesforceValidation WITH
    MaxChanges <- HostChanges,
    host <- v1, env <- v2, changes <- v3, runtime <- v4, policy <- v5, epochs <- v6,
    records <- v7, session <- v8, phase <- v9, epoch <- v10, initial <- v11, probe <- v12,
    boundary <- v13, running <- v14, next <- v15, passed <- v16, seen <- v17, reports <- v18

\* An environment that changes, and validators, one after the other.
Mule == INSTANCE MuleValidation WITH
    MaxChanges <- MuleChanges,
    env <- v1, changes <- v2, anchor <- v3, attempts <- v4, containers <- v5, validators <- v6,
    session <- v7, attempt <- v8, phase <- v9, command <- v10, initial <- v11, results <- v12,
    created <- v13, timedOut <- v14, exitCode <- v15, failing <- v16, copy <- v17, seen <- v18,
    reports <- v19

ASSUME CandidateAssumption == Engineer!SignalsAssumption /\ Workspace!WorkspaceAssumption
ASSUME CorrectionAssumption == Correction!ResultsAssumption /\ Correction!BudgetAssumption
ASSUME ValidationAssumption ==
    Salesforce!EpochsAssumption /\ Mule!NoneAssumption /\ Runner!CommandRunnerAssumption

-----------------------------------------------------------------------------

Off15 == v15 = 0 /\ v16 = 0 /\ v17 = 0 /\ v18 = 0 /\ v19 = 0
Off11 == v11 = 0 /\ v12 = 0 /\ v13 = 0 /\ v14 = 0 /\ Off15
Rest15 == <<part, v15, v16, v17, v18, v19>>
Rest11 == <<v11, v12, v13, v14, Rest15>>

Init ==
    \/ part = "engineer" /\ Engineer!Init /\ Off11
    \/ part = "workspace" /\ Workspace!Init /\ Off15
    \/ part = "runner" /\ Runner!Init /\ Off11
    \/ part = "correction" /\ Correction!Init /\ v8 = 0 /\ v9 = 0 /\ v10 = 0 /\ Off11
    \/ part = "salesforce" /\ Salesforce!Init /\ v19 = 0
    \/ part = "mule" /\ Mule!Init

EngineerActs == part = "engineer" /\ Engineer!Next /\ UNCHANGED Rest11
WorkspaceActs == part = "workspace" /\ Workspace!Next /\ UNCHANGED Rest15
RunnerActs == part = "runner" /\ Runner!Next /\ UNCHANGED Rest11
CorrectionActs == part = "correction" /\ Correction!Next /\ UNCHANGED <<v8, v9, v10, Rest11>>
SalesforceActs == part = "salesforce" /\ Salesforce!Next /\ UNCHANGED <<part, v19>>
MuleActs == part = "mule" /\ Mule!Next /\ UNCHANGED part

Next ==
    \/ EngineerActs \/ WorkspaceActs \/ RunnerActs \/ CorrectionActs
    \/ SalesforceActs \/ MuleActs

Spec == Init /\ [][Next]_all

-----------------------------------------------------------------------------
(* Properties: what each component promises, by question *)

\* The candidate that is validated is the approved one: the model is asked once
\* for each attempt, its plan is persisted and rebuilt as persisted across
\* crashes, a correction repairs every signal and nothing else, and a workspace
\* is a copy of a state the source was in, plus exactly the plan.
\* (_engineer_outcome, apply_engineer_correction_delta, IsolatedWorkspace)
CandidateIsTheApproved ==
    /\ part = "engineer" => /\ Engineer!TypeOK /\ Engineer!OneModelCall
                            /\ Engineer!RetryRepairsEverySignal
                            /\ Engineer!ReportIsOfTheCandidate /\ Engineer!ThreadIsPersisted
    /\ part = "workspace" => /\ Workspace!TypeOK /\ Workspace!BaseWasTheSource
                             /\ Workspace!CandidatesAgree /\ Workspace!SourceHeldStill
                             /\ Workspace!ExactlyThePlan

\* A report rests on one environment, one candidate and evidence of its own:
\* every command of it saw the same versions, nothing of it runs twice or runs
\* on, and validations after a crash or a change agree with those before.
\* (SalesforceLocalValidator, MuleSoftLocalValidator, SafeCommandRunner)
ReportsRestOnOneEnvironment ==
    /\ part = "salesforce" => /\ Salesforce!TypeOK /\ Salesforce!OneEnvironment
                              /\ Salesforce!CandidateHeldStill
                              /\ Salesforce!ReadyReportsAgree
                              /\ Salesforce!EpochsBounded
    /\ part = "mule" => /\ Mule!TypeOK /\ Mule!StartedOnce /\ Mule!PassedRanInContainers
                        /\ Mule!ReportLeavesNothingRunning /\ Mule!ReportsAgree
                        /\ Mule!OneCandidate
    /\ part = "runner" => /\ Runner!TypeOK /\ Runner!OneProcessPerNonce
                          /\ Runner!DigestIsOfThePath

\* What a report leads to is justified by what the commands did: a run is
\* complete only when all of them proved it, a retry rests on a failure of the
\* candidate and can be prepared unless only the dependency closure failed, and
\* what the Engineer is not told of has a cause it is told of.
\* (CorrectionController.evaluate, require_repair_contract)
CorrectionIsGrounded ==
    part = "correction" =>
        /\ Correction!TypeOK /\ Correction!CompleteIsProven
        /\ Correction!RefusedOnlyForClosure /\ Correction!MaskedFailuresHaveACause
        /\ Correction!BehaviorOpensTheComponent /\ Correction!RetryRestsOnTheCandidate

\* "Project only terminal failures that approved output changes can repair": a
\* retry that is offered and approved can be prepared. (correction.py:150)
RetryIsRepairable == part = "correction" => Correction!RetryIsRepairable
=============================================================================
