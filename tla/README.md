# Legacy migration agent: TLA+ models, checks and proofs

These modules model the core of `legacy_migration_agent`: how a migration run is
planned from assured evidence, approved by a human, implemented, validated,
corrected once at most, reviewed, exported and measured, and how all of it
survives crashes, retries, edits from outside and competing processes on top of
write-once files and LangGraph checkpoints. Paths below are relative to
`src/src/legacy_migration_agent/`.

## 1. The system

| Component | State it keeps | Operations | Modules |
|---|---|---|---|
| Migration workflow (`workflow.py`, `agent_runtime/correction.py`, `core/policies.py`) | one LangGraph checkpoint per thread in SQLite | `start`, `resume`, `continue_local_failure`, `retry_recoverable`; one node per role | WorkflowGraph, MigrationWorkflow, GatedRun |
| Agent-run controller (`application/agent_run*.py`) | approvals, lifecycle projections, failure record | start, resume, retry, status, recovery of an interrupted start | RunStart, RunLifecycle |
| Run session and stores (`core/run_session.py`, `core/integrity.py`) | portable evidence, runtime in-flight artifacts, runtime anchors | write-once `write_json`, promotion, `write_index`/`verify_index`, anchors | RunStart, RunLifecycle, RoleInvocation |
| Model roles (`agent_runtime/model_workflow.py`, `application/agent_run_models.py`) | role artifacts, invocation leases | replay or claim, call, store | RoleInvocation, EngineerCandidate |
| Agents (`agent_runtime/model_agents.py`, `model_agent_correction.py`) | persisted plans | file plan, correction delta, effective plan, replay | EngineerCandidate, CorrectionPath |
| Provider clients (`agent_runtime/claude_cli_model.py`, `ollama_model.py`) | the runtime identity of the run | bind, preflight, call, record | ClaudeCall, CliProcess, OllamaCall, OllamaWire |
| Architect conversation (`application/architect_conversation.py`), UI service (`ui/service.py`) | exchanges, launch intent, receipt; handles, locks, capacity | create, message, launch; start, decide, retry, progress | ConversationLaunch, LiveProgress |
| Final review, export (`application/final_review*.py`, `candidate_export.py`) | request, decision, indexes, anchors; export directory | request, decide, status, export | FinalReview, CandidateExport |
| Workspaces, execution (`core/workspace.py`, `core/execution.py`) | a disposable copy of the source, child processes, consumed nonces | copy, apply, audit, run a command with timeout | IsolatedWorkspace, BoundedProcess, CommandRunner |
| Platform runtimes (`platforms/*_runtime.py`) | probe records, epochs, anchors, containers, graph evidence | validate an attempt; give the Architect its context | SalesforceValidation, MuleValidation, GraphSession |
| Deterministic checks (`platforms/*_checks.py`, `salesforce_result_parsing.py`) | - | check a candidate, parse results, dispositions | SalesforceResults, CorrectionPath |
| Graphs (`graphs/`) | stored graphs | build, store, assure | GraphScope, GraphSession |
| Run queries, evaluation (`application/run_query.py`, `benchmark_*.py`, `measured_evaluation.py`) | receipts, a corpus | bundle, receipt, aggregate | RunBundle, MeasuredEvaluation |
| Wiki retrieval, UI server and projections, CLI | - | read and present | not modelled |

The controller calls the workflow, whose nodes call the roles; a role prepares a
context from the session's graph evidence, claims its lease, calls a provider,
applies the plan in an isolated workspace and, for the Validator, lets the
platform runtime run its commands in it. All durable state goes through the
session. The service and the command line are two entrances to the same
operations: the first takes locks in memory, the second none. Readers (live
progress, queries) take no lock either.

The hard behaviours: a background checkpoint writer; a crash between any two
writes of a multi-file transaction; a paid provider call that must never be
repeated after an interruption; two processes that enter the same role, start or
evidence chain; decisions resubmitted, or different ones submitted, at any time;
a source, a toolchain, a model alias or a container that somebody else changes
between a check and its use; commands whose effect outlives their timeout;
streams and responses that come in pieces.

## 2. Modules

```
WorkflowGraph            nodes and edges as operators on one checkpoint, the
  |                      correction policy (no state)
  +- GatedRun            abstract: what a run promises its reviewers
  +- MigrationWorkflow   one thread: operations, nodes, background writes, crashes
  |    |                 (implements GatedRun through its durable checkpoint)
  |    +- MigrationWorkflow_proofs
  |    +- MCMigrationWorkflow
  +- RunLifecycle        controller, session, roles and workflow together
       |                 (its checkpoint moves only by steps of MigrationWorkflow)
       +- MCRunLifecycle
       +- RunBundle      the readers of a run's evidence beside it
            +- RunBundle_proofs (of RunLifecycle too), MCRunBundle
RoleInvocation           competing callers of one role, at the grain of
  |                      write_json's look / link / read-back
  +- RoleInvocation_proofs, MCRoleInvocation
ConversationLaunch       request threads of one server: conversations, the
  |                      launch, the start of its run, capacity
  +- ConversationLaunch_proofs, MCConversationLaunch
MCModelCalls             ClaudeCall, CliProcess, OllamaCall, OllamaWire,
  |                      BoundedProcess (and FinalReview, for its liveness)
  +- ModelCalls_proofs
MCAttempt                EngineerCandidate, IsolatedWorkspace, CommandRunner,
  |                      SalesforceResults <- CorrectionPath, SalesforceValidation,
  |                      MuleValidation
  +- Attempt_proofs
MCKnowledge              RunStart, GraphSession, GraphScope, LiveProgress
  +- Knowledge_proofs
MCOutcome                FinalReview, CandidateExport, MeasuredEvaluation
  +- Outcome_proofs
```

The last four group components that share no state. Each declares a pool of
variables and instantiates its components over it; an initial state chooses the
component that acts (`part`), so one run checks all of them, some in several
sizes, and costs the sum of their state spaces, not the product. The properties
of a group are conjunctions of its components' properties, by question.

**WorkflowGraph.** A checkpoint is a record of the fields of `WorkflowState`
that decide control flow, the pending node, and whether its last task recorded
an error. `After...` operators are the nodes, `CorrectionAction` is
`CorrectionController.evaluate`, `RetryOffered`/`RetryResubmitted` are the two
accepting paths of `retry_recoverable`. A change set is named by its attempt, a
report by attempt and verdict: the digests the code binds distinguish exactly
these.

**MigrationWorkflow.** `ckpt` is the durable checkpoint, `queue` those the
running invocation produced but that are not written yet (LangGraph writes a
step's checkpoint while the next step runs, in order), `op` the phase of the
invocation. `Crash` forgets the queue. A raising role records its task error
once the queue has drained.

**RunLifecycle.** The life of a run after planning. Durable state is the
portable tree, the runtime (in-flight) tree, the runtime anchors and the
checkpoint; a file is a pair of a kind and an attempt or lifecycle. `pc` walks
through `resume_agent_run`/`retry_agent_run`: intent, approval, freeze of the
authorization, workflow with its roles (each role's files and lease), then
decision and correction evidence and the freeze of the result, or the failure
and its freeze. `Readable` is all that `_load_components` verifies before any
operation, layer by layer; `Submit...` are its accepting paths. `Crash` may
strike before every write, and may leave the temporary file of the write it
cut off.

**RoleInvocation.** The lease protocol alone, with any number of callers: look
for artifact and lease, issue, check the destination, link, read back, call,
store. It refines the single steps `ClaimEngineer`, `ClaimValidator` and the
stores of RunLifecycle into what two processes can interleave.

**ConversationLaunch.** The requests of one server process are threads; `call[p]`
says where each one is, and with that which locks it holds (conversation, then
registry, then run handle). A launch reserves a handle in `launch-intent.json`,
finds, recovers or starts the run of that handle, and records `launch.json`.
`stage` is how far a run got: `opened` (a directory that is not a session yet),
the two prefixes of the bootstrap that recovery accepts, `advanced` (the
checkpoint is not empty any more, the Architect was called), then the outcome of
planning. `decide` and `retry` reach a run by its handle, under that lock alone;
what they do inside is RunLifecycle, and here they end in one of their outcomes
or leave the run `broken`.

**RunBundle.** Readers of `run_query.py` and `benchmark_receipts.py` beside
RunLifecycle: each collects the artifacts one by one between two readings of the
anchored terminal state, and a rubric turns the bundle into a receipt. `Plans`
are the ways planning may have ended before. Digests are abstracted: what files
there are, and what they say, decides each comparison.

**RunStart.** The bootstrap of a run, write by write, at the grain of look, link
and unlink, by processes nothing excludes; recovery continues what is an exact
prefix. The private directories of a session are made with the run's directory in
one step; a start that is refused leaves no state. `OneDispatch` is claimed only
where no two callers overlapped.

**EngineerCandidate.** The two nodes over both attempts: plan, delta, persisted
run, reconstruction in a new workspace, checks that disturb it, report. A file is
a path with one of a few contents.

**IsolatedWorkspace.** The scans of the source, file by file, while the user edits
it; the plan, the audit, the tools of the platform, the second audit, rollback
and clean-up, for both roles. Contents are numbered by the user's writes and never
come back, so a file that is changed and changed back between two scans is not
represented; directories, modes and links are left out.

**BoundedProcess, CliProcess.** The three runners of a process group with bounded
output and a deadline, as one module with `runner` saying which: their kill, drain
and wait rules differ. CliProcess adds the feeding of a prompt through a pipe that
fills up. Processes that leave the group are left out, and so is what a process that
outlives its timeout still writes into the workspace: the properties of these two
modules are about streams and waiting, and the tools of IsolatedWorkspace are done
when it audits.

**CommandRunner.** Threads that share the allowlisted runner: nonces, the spawn,
and the hashing of a declared artifact while other writers place or write it. Two
writes within one tick of the file system's clock cannot be told apart by the code
nor by the model; an artifact that an earlier attempt left behind is hashed as
this attempt's, as in the code.

**SalesforceResults, CorrectionPath.** Every combination of exit codes and output
classes of the seven commands, the check results and the disposition
(SalesforceResults), then `CorrectionController.evaluate`, the approval, and the
preparation of the repair (CorrectionPath). The code may also refuse to prepare one
because the Wiki has nothing for a signal (`_validate_correction_wiki_trace`);
retrieval is not modelled, and the model prepares the repair there.

**SalesforceValidation.** Validations of one attempt, again after each crash, in an
environment that changes: bindings, probe, record, anchors, epochs, package
boundary, seven commands each between two verifications. Versions only grow; the
sandbox profile and the pinned fingerprint of `node_modules` are left out. The policy
and the epoch are anchored in one step: the code binds two anchors and counts the
epochs again in between, so a crash or a refusal there leaves a policy without epoch.

**MuleValidation.** Discovery, static checks, then a probe and a validation
container: created, inspected, started, waited for, killed, removed, by commands
that may fail or time out with or without their effect. The container policy and
the contents of the checks are left out: an inspection accepts or refuses.

**ClaudeCall, OllamaCall, OllamaWire.** The identity protocol of each client: bind,
preflight, look again, send, record. The Claude command and its settings are
looked at in one step; the environment of the process never changes. In OllamaCall
an alias that moves and moves back within one call is not seen, as its docstring
says. OllamaWire decodes a response that arrives in arbitrary pieces, over a
handful of byte classes; headers come as one piece. The size of a chunk is what
Python's `int(line, 16)` reads, of a line of at most four bytes instead of sixteen:
blanks, a minus sign, `0x` and underscores are accepted as the code accepts them, and
a chunk ends where Python's slices with their negative indices put it.

**GraphSession.** Calls that give an Architect its context: snapshot, graph,
binding, index, anchor, then the same for the assurance report, interleaved with
other calls, crashes and edits. One graph key. A graph is a function of its source
here; with two classes of one name it is not (GraphScope has that), two builders may
differ, and the second save is refused.

**GraphScope.** The builder's closure over references in any order of the
dictionary it walks, and the assurance's second closure and counts. A reference is
a symbol at a line; how a parser finds it is left out, and it may miss one. What an
adapter requires either bears dependencies or, on Salesforce, only gives context
(`_coverage_role`): the description of a class or page, which stands by its node but
is never parsed, and the settings of a project, of which some have no node (`Plain`).
Context has to be in the source, but neither in the graph nor reachable.

**LiveProgress.** A poll looks for one file after the other in two places while the
operation publishes and promotes them. The clock counts publications.

**FinalReview.** Request, decision and record with their indexes and anchors, from
the server and from the command line, cut off before or inside each write, with a
clock that passes the end of a window. A request is its people and its window.
A temporary file is left by a crash only: that the scan of another operation may meet
the one of a writer that is still alive, and refuse, is left out.

**CandidateExport.** Publication of files, archive and receipt, each by a link to a
staging file that is then unlinked; crashes, exceptions, and the next export.

**MeasuredEvaluation.** Runs, rubrics and a manifest; every metric, slice and paired
delta as exact fractions (the code's floats are not modelled), and the verdict.
Usage metrics have one shape and stand as one, cost is left out, the four human
judgments are one grade. Benchmark v2's labels expect Mule's runtime to be
unavailable: there the passing of conformance and of runtime completion exclude
each other, which `PassedMeansExitCriteria` makes explicit.

Abstractions, all deliberate:
- LangGraph's pending writes and checkpoint of a step are one durable step, and
  the interrupt of the gate becomes durable with the checkpoint pausing there.
- Running the deterministic checks and writing their report is one step: until
  the report is written nothing durable depends on the checks.
- An in-process exception unlinks its temporary file; only a crash leaves it. A
  crash after the link but before the unlink is refused in the same way by the
  next load and is not distinguished.
- In RunLifecycle one operation runs at a time: the service holds a per-handle
  lock. Competing processes are RoleInvocation's subject. The message "already
  in progress" is left out. An operation that found no call pending when it loaded,
  and ends in an integrity error of a role while a lease stands without its outcome,
  raises it and freezes no failure (`application/agent_run.py:1070`). The lease is that
  of another caller or, when storing or checking an answer went wrong, its own; in
  the second case RunLifecycle freezes the failure where the code does not.
- Two callers' answers differ, as do two attempts' reports.
- Final review after completion is not part of RunLifecycle: FinalReview has it.
- ConversationLaunch has one server process, as the project's documents require:
  its locks are objects in memory. A conversation's header is one write. The
  launch of an already recorded conversation only reads and is left out, as is
  the check that the platform runtime has not drifted between start and recovery.
  A fresh random handle never repeats one. Recovery takes registry and handle at
  once, since no holder of a handle waits for the registry.

## 3. Runs

| Run | Instance | What it shows |
|---|---|---|
| `workflow` | 2 reviewers, 6 verdicts covering every correction action | authority and finality of decisions, current reports, termination, and that the durable checkpoint implements `GatedRun` |
| `retry_contract` (violation) | same | the docstring of `retry_recoverable` promises that the byte-equal approval continues a pending attempt two; with the Validator pending, the report on file is attempt one's, the change set attempt two's, and `validate_report` refuses |
| `run_lifecycle` | 2 reviewers, symmetric, 4 verdicts, one reader (RunBundle) | authorized, single, accounted-for calls; write-once and complete evidence; exact readability; the checkpoint moves only as MigrationWorkflow allows; a bundle is of one moment and counts every call |
| `run_liveness` | 2 reviewers, 3 verdicts | a bound decision is carried through once crashes and errors stop |
| `role_invocation` | 3 callers, 2 inputs, 3 ids, symmetric | one call, one answer, agreement, immutability |
| `conversation_launch` | 2 conversations, handles, scenarios and callers, 2 exchanges, capacity 1, symmetric | one run per conversation, planned once, for exactly the reviewed exchange; a receipt only with a run past planning; starts respect the capacity |
| `conversation_liveness` | 1 scenario, 1 exchange, capacity 2 | a created run is recorded unless its start was cut off where recovery refuses it |
| `model_calls` | 3 calls, 2 or 3 changes outside, restarts; a process group of 3; every wire of up to 4 parts, sizes in odd spellings among them | answers and responses are whole; one run names one model; no prompt strays from the record; every call, and every repeated review, ends |
| `attempt` | 2 approved files and one other, 2 edits; 2 changes of the host, 2 epochs for 3 Salesforce validations; 2 threads, 2 writes; 2 Mule validators; every output class of every command | the validated candidate is the approved one; a report rests on one environment; what it leads to is justified |
| `retry_is_repairable` (violation) | the correction part of it | a failed dependency closure alone is offered as a retry that cannot be prepared |
| `knowledge` | 2 processes and 3 calls for each of start (of a run and of a measured cell) and graph session, 2 sources and Wikis with one edit, 3 policies, 2 of them assured; a source of 6 files that are parsed and 3 that give context, with 7 possible references, one of which a parser may miss; 2 attempts, 3 polls | starts continue what is sealed, once; evidence of the source is sealed and assured; live phases were true |
| `outcome` | 2 people, 2 operations at a time; 2 files; corpora of up to 12 cells with at most 2 blemished | reviews and exports are complete, final, and refused only for a reason; a corpus passes only by meeting the exit criteria |

Bounds. The system itself bounds attempts at two, so the state space of the
workflow and of a run is finite without artificial limits: crashes, errors and
resubmissions are unbounded there. Two reviewers make a second, different decision
possible at every point. `DispatchCap` stops the history of calls at two, which
tells "once" from "more often". Three invocation ids allow each caller a claim
and, with fewer callers, one to claim again after a crash; the proofs have no
such bound. `run_liveness` uses three verdicts since the other three only lead to
the same correction actions; `run_lifecycle` a fourth, which a receipt tells apart.

ConversationLaunch needs two of everything that can be confused, and a capacity
of one so that the limit is met. Its liveness run has a capacity of two, one for
each conversation: whether a launch that waits for capacity ever gets it is up
to the reviewers of the other runs.

In the groups, what can be confused comes in twos (callers, configurations,
policies, sources, revisions, versions of a file), a third call or write shows
what a first and a second left behind, and outside changes are bounded by
`MaxDrifts`, `MaxPulls`, `MaxEdits`, `MaxChanges`, `MaxWrites`, each large enough for
one before and one after the check it might evade. SalesforceValidation has two
epochs for three validations, so that a second probe is anchored beside the first
and the third meets the limit. Four sizes are in one group where one size would not
do: MeasuredEvaluation with every expected disposition (`evaluation`), with a withheld
judgment (`gapped`), with repetitions (`pairs`) and with a manifest that routes freely
(`corpus`). The sizes of streams are just beyond
their limits. Symmetry is used where nothing depends on the identity of the
callers and people, and in no run with a liveness property.

Fairness. The process takes its next step while it is alive (`WF(Program)`, and
`WF(Proceed(p))` for each request). An operator keeps resubmitting the decision
already bound, or a pending launch or final review, and gets the lock for it now
and then although other submissions, refused ones included, take it in between
(`SF(Resubmit)`); or keeps continuing a pending task
(`WF(ContinueLocalFailure)`). Crashes and role errors eventually stop. Some
crashes and errors have exactly the effect of a program step, such as dying when
the only thing left is to return; `Fault` does not count those, so that assuming
faults to stop does not also forbid the program's own steps. For the processes:
the operating system runs the command (`WF(DutyKid)`), the selector loop and the
runner's thread go on (`WF(DutyLoop)`, `WF(GroupRun)`), and time passes
(`WF(GroupDeadline)`); a command is not assumed to do anything, except in `duty`,
whose question is whether a well-behaved one can be made to wait for ever.
Nothing else is assumed, in particular not that a reviewer ever decides.

`CHECK_DEADLOCK FALSE` where the system legitimately stops: a completed run, a
server whose conversations are all launched and whose runs are all over, a call,
an export or an evaluation that has ended. `role_invocation` checks it.

The capacity is a limit on starts. `retry` makes a run active again without
looking at it, so `CapacityRespected` counts runs in attempt two on top.

### The gaps

`ReadableExceptInGaps` is an equivalence: when no operation is running, the next
load succeeds exactly if the run was not cut off in one of these places. The
code documents that it fails closed there.
- `ConsumedSilently`: the decision was consumed, but no file of the attempt
  exists, so nothing marks the run as in flight;
- `UnfrozenRefusal`: a rejection or modification was consumed but not frozen;
- `UnrecordedQuestion`: the Engineer's question is stored, its terminal status
  is not;
- `LaggingCheckpoint`: the role already claimed its call, the checkpoint before
  it was lost;
- `UnseamedError`: a task error before any trusted seam was reached;
- `UnfrozenFailure`: the failure is on file, its lifecycle is not anchored;
- `LeftTemporary`: a write was cut off before its link, and every later scan
  refuses the temporary file.

### Where code and words disagree

Two of these are runs; the others were met while modelling, and the properties
state the exception by name instead of hiding it.
- `retry_contract`, `retry_is_repairable`: see the table.
- An accepted correction delta may give a file its source content back; the
  effective plan then no longer updates every approved path, and
  `apply_engineer_file_plan` refuses to rebuild it (`agent_runtime/model_agents.py:2444`
  against `:2308`), although its docstring says that a persisted candidate can be
  reconstructed. In EngineerCandidate `Rebuild` is then disabled for good.
- A review request that is cut off before its anchor is not resumed by a retry, as
  the comment at `application/final_review.py:134` says: the status, which is loaded
  first, refuses the unanchored file. `CutOff` of FinalReview names the case.
- `_kill_process_group` of `core/execution.py:443` sends nothing once the leader has
  exited, so a child that kept the pipe survives the timeout; its docstring says
  that the full group is terminated. `CutOffEndsTheGroup` excepts it.
- `src/README.md:705` says that a late-found dependency omission invalidates the plan;
  no validation step produces that diagnostic, and a failed closure is recoverable.
- The Validator's advisory call runs after the report is written, so live progress
  shows it as complete (`ui/service.py:1821`, against `:1778`).
- An Engineer that failed leaves its lease without an output, so live progress says
  that it is still generating, with its clock running, at every poll
  (`ui/service.py:1829`, against `:1776`). `PhaseOf` is the phase by the files, as in the code:
  `ProgressWasTrue` claims that an answer was right by the files, not that a process
  is alive.
- The validator's clock starts anew when its lease appears between two looks of one
  poll (`ui/service.py:1824`, against `:1768`). `ClockIsSteady` says how far: once,
  forward, in the last answer of the phase.
- A chunk of the local server's response may state a negative size: `int` accepts one
  (`agent_runtime/ollama_model.py:589`), it passes the bound of line 606, and the chunk
  ends before it begins. Decoding then goes back; it may end in a body that is no
  message of the wire, or read the same chunks for ever. `BodyIsWhole` and
  `DecodingEnds` except responses with a minus sign, and only these.
- Two classes of one name in two directories are one node, and which file is parsed
  depends on the iteration order of a set (`graphs/dependency_graph.py:550`, against
  `:1630`). `DeterministicOtherwise` excepts it.
- A run that ends with the Engineer's question, or is stopped by the controller's
  preflight, has no bundle (`application/run_query.py:670`, `:696`), so no receipt can
  be extracted for it, against `src/README.md:1265`. `Questioned` names the case.

## 4. Proofs

TLAPS checks, for any reviewers, verdicts, callers, inputs and ids:

- `MigrationWorkflow_proofs`: `TypeOK`, `ImplementationAuthorized`,
  `EngineerNodeNeverRefuses`, `CompletedReportIsCurrent`. The invariant `IInv`
  says that every checkpoint known, durable or in flight, is `Sound`. The
  properties alone are not inductive: that the Engineer node is authorized in
  attempt two needs to know that attempt one's report and change set are still
  there (`Progress`), and that planning left nothing (`FreshPlan`). There is one
  lemma per checkpoint a node or operation writes; a crash only forgets
  checkpoints.
  Its second part is `DecisionsAreFinal`, `TerminalOnlyRetries` and the refinement
  of `GatedRun`. A durable step is taken long after its node ran,
  so `CInv` adds that the checkpoints in flight form a chain in which each
  follows from the one before.
- `RoleInvocation_proofs`: all properties of RoleInvocation, and with them that
  the call is made once for any number of processes and restarts. `IInv` adds
  that ids are fresh, that a claiming caller holds a lease for its own input,
  and that past verification its lease is the one on file.
- `ConversationLaunch_proofs`: all safety properties of ConversationLaunch, for any
  number of threads, conversations and handles and any limits. The invariant
  says what a request may rely on at each of its steps: after reserving, that its
  handle is its conversation's (`RequestsFit`); that each lock has one holder
  (`LocksHold`); that no two reservations share a handle, the one about to be made
  included (`HandlesReserved`); how far its run got (`StagesFit`). From these
  `LaunchesApart` follows, two launches never work on one run, and with it that
  moving a run on disturbs nobody else (`StageMoves`). `RoomLeft` adds the
  counting: a start admitted under the registry still has room when it opens its
  run.

- `RunBundle_proofs`, first part: every safety property of RunLifecycle, for any
  reviewers and verdicts and any number of crashes, errors and resubmissions. The inductive invariant has seven layers, each proved inductive from
  those before it:
  - `Control`: types; that an operation's local state fits where it is (`CallOK`);
    that it runs only in a tree without cut-off writes (`Clean`, from the scans every
    load makes) and at the node its checkpoint names (`AtNode`); and `Flow!CInv`, the
    invariant of the workflow, of the checkpoints the controller keeps. The last is
    where the proofs meet: each step of the controller is shown to be a step of the
    workflow or none (`Drives`), so the workflow's lemmas, and its refinement of
    `GatedRun` (`RunIsGated`), hold of a whole run with all its crashes.
  - `Leases`: a lease is on file before its call and its outcome is not, so a call is
    made once (`EngineerOnce`, `ValidatorOnce`). That needs `Copied`, promoted
    artifacts stay in the runtime tree, as claims look in both.
  - `DecisionInv`: intent before approval file before anchor before any checkpoint
    that consumed the decision, the ones in flight included.
  - `Stage`: lifecycles close in order; between operations the checkpoint rests where
    the last one froze it (`Rest`), a decision meets the boundary it was submitted
    against until it is handed over (`Decides`), work is for the one authorized and
    unclosed attempt (`Works`), and a freeze records where the operation ended
    (`Freezes`). Without it nothing says why a run that is closed cannot be entered
    again.
  - `Evidenced`, `Closed`: what a checkpoint reports is stored, and the index of a
    closed attempt holds every artifact it will ever have.
  - `Roles`: the artifacts of an attempt are written in the order its roles work
    (`InOrder`), what is about to be written has its predecessors (`Prepared`), and a
    checkpoint rests on what its node wrote (`Backed`) and moves by a decision only
    (`Fresh`). It holds in every state, whatever was cut off.
  - `Tree`, for runs without a cut-off write: every portable file belongs to the
    lifecycle that writes it (its `Era`); up to the latest lifecycle they are exactly
    that one's inventory (`Indexed`), beyond it only its successor's or a failure's
    (`Ahead`), in the order of their writes (`Sequenced`); what a half-written
    authorization (`Pending`), success (`Concluding`) or failure (`Failing`) froze is
    the checkpoint the run still has, so the writes can be completed.

  `Tree` is what `ReadableExceptInGaps` needs: a load compares the portable tree with
  the index of the latest lifecycle and accepts a remainder only when it is a prefix
  of one operation's writes. Given the layers, the equivalence is four cases: the run
  waits for a decision (`WaitingIsReadable`), is over (`OverIsReadable`), or has an open
  attempt that wrote nothing yet (`SilentIsReadable`) or something
  (`BegunIsReadable`); in the last two each gap is shown to be refused and everything
  else to be accepted. The equivalence holds while an operation is running, too.

  `EvidenceIsWriteOnce` also says that a finished run never changes. The one way in is
  the resubmission of attempt two's decision while a run rests, already retried; its
  writes are repeated with equal bytes or refused, and `FinalIsFinal` shows that step
  by step.

- `RunBundle_proofs`, second part: `BundleIsOfTheRun`, on top of the invariant above. A reader holds
  no lock, so nothing it collected is current, and the proof is about what stays true
  of it. `Told` is that part of a terminal state: once a run completed, the triplet of
  its last attempt is on file and the report says the disposition told, and files and
  what they say are write-once (`ToldStays`). `Weighed` adds the attempts found later;
  they can only be more than the terminal state knew, and the second reading rules
  that out: while the run is still at `resumed`, attempt two has no file
  (`RecheckedIsLast`). That a run can be measured at all rests on `Settled`, a run that
  is readable and has no open attempt promoted every artifact, and on `InOrder`: an
  attempt with a file has a whole attempt before it (`Inventoried`). For the count of
  calls `Answered` is needed too: what is stored as an answer was asked for.

- `ModelCalls_proofs`: `AnswersAreWhole`, `OneModelPerRun` and `SentUnderTheRecord`, for
  any runtimes and revisions, limits, processes and amounts of output and any number of
  calls, restarts and changes outside. ClaudeCall, OllamaCall, CliProcess and
  BoundedProcess each state their inductive invariant `Inv`, in named parts; there is a
  lemma for each that every action of the module keeps it, and the last section joins
  them (`PartsInv`): a step of the group is a step of the component that acts.
  - ClaudeCall: that all records name one runtime needs only that the client, once it
    proved an identity, has that of the first record (`OneRuntime`). That a change
    outside is met by at most one prompt needs `SeenSince`: if a prompt was sent since
    the last change, whatever the running call looked at, it looked at since.
  - OllamaCall: `MovesAreCounted` relates what the alias stands for to how often it
    moved during the call; it takes two moves to hide a strayed generation.
  - CliProcess, BoundedProcess: `NothingIsLost`, what was written to a stream is kept, in
    its pipe, or beyond a limit that shows; a stream no longer read is at its end for
    good, whoever of the group lives on.

- `Attempt_proofs`: `CandidateIsTheApproved`, `ReportsRestOnOneEnvironment` and
  `CorrectionIsGrounded`, each part of MCAttempt by its own inductive invariant `Inv`,
  stated beside its actions.
  - IsolatedWorkspace, for any files, manifest and edits: the code trusts no single
    scan, because a scan reads one file after the other while the user edits. What makes
    two equal scans enough is that contents only get newer, the one assumption the model
    makes about the user: what a scan read of a file lies between what it was when the
    scan began and what it is now (`ScanIsOrdered`), and the base is no newer than the
    source (`BaseIsOlder`). So when the second scan ends with what the first one read,
    the source was in that state when the second began (`ScannedTwice`), and both
    properties of the copy follow from the base. Scans compare contents, not times: with
    old bytes restored between two reads, two scans may agree on a state that never was.
    The proof shows that this is the only way.
  - EngineerCandidate, for any approved paths, contents, signals and files they open:
    `LeasedOnce` counts the calls. Attempt two rests on the plan and the report of
    attempt one; `FirstComesFirst` says both are there before it and that no step
    touches them any more, `RunsFit` that what is stored for an attempt is an answer to
    it, rebuilt to the candidate it was, and `HandedOver` that the graph hands the
    Validator exactly that.
  - CorrectionPath, for any budget and any least number of tests: `ResultsFit` and
    `FailureShows` relate each result to what its command did, `Decided` what was
    decided to the results it was decided of. That a retry can be prepared is then a
    case analysis of the policy (`RetryMeans`).
  - SalesforceValidation, for any number of changes, epochs and validations: versions of
    the environment only grow, and `SeenFits` bounds what each look saw from below by
    what the probe bound and from above by what is there now. Only when the last
    command's comparison closes the bracket do all looks agree; no look alone shows it.
    `InOrder` says which commands have passed at which phase, so that the set a report
    names is one the comparisons covered, `BindingFits` that a later validator binds what
    the anchor has or is refused.
  - MuleValidation, for any number of changes and validators: a command to the daemon
    that timed out may have had its effect, so nothing the validator knows tells what
    containers exist. `LifecycleFits` says how far it can know: a container it goes on
    with is one it created (`Ours`), started once, and one it concluded about without an
    exception ran to its end or its time is up. `ConsumedFirst` puts the attempt's record
    before its first container, so a second validator never meets a used name; `Quiet`
    is what an attempt without an exception leaves behind. Authority and candidate are
    bracketed between what was bound and what is there at the report, as above.
  - CommandRunner, for any number of threads, nonces, writes and ticks: a nonce is
    consumed before its process and by the one thread that still may spawn it
    (`NoncesFit`). An inode is one file, and a file that was replaced does not come back
    (`FilesFit`), so "the path has my inode now" means it had it at the last read.
    `ReadFits` is then what the comparison of times buys: what was read is what the open
    file has, or its time is another one, or two writes were within one tick.

- `Knowledge_proofs`: `StartedFromTheEvidence`, `KnowledgeIsAssured` and `ProgressWasTrue`, each part of
  MCKnowledge by its own `Inv` again, stated beside its actions.
  - RunStart, for any number of processes, callers, configurations and calls, of a run
    or of a measured cell: nothing is locked while a start publishes its ten files, and
    a recovery may work on them beside it, or beside another recovery. What holds is
    that a file, once there, says what the files before it say (`FilesAgree`), and that
    a process goes past a file only when it says what its own caller would (`Passed`,
    `Right`); files are write-once, so that stays true. So whoever gets to the end
    finds all ten of one caller, and by the time the graph starts the seal covers just
    these. The one window without such evidence is the making of the tree, and there the
    exclusive directory makes its process the only one (`StarterIsAlone`). Without an
    overlap at most one process is in a call and none is past its look at the state once
    the graph was started (`OneAtATime`), hence one dispatch.
  - GraphSession, for any number of processes, calls and edits, any sources, Wikis and
    policies of the adapter: each file of a chain is of exactly the files before it
    (`FilesFit`), and what a call has found, written or verified is there (`Fit`). A
    writer only adds what is missing and refuses what differs, so both stay true when
    calls interleave; when a context is exposed, eight files agree although no call may
    have written more than one of them. That one report serves all contexts does not
    come from the calls: adapters may ask for different policies, and the first report
    written decides (`ExposedFits`). A chain left open by a dead process has nobody
    writing or building it, and whoever is looking at it saw all of it so far
    (`CutFits`), so it never gets past its last look.
  - GraphScope, for any finite source, references, twins and what a parser misses: what
    the passes have selected is in every closed set that holds the entry (`Least`), and a
    pass that changed nothing satisfied what it took (`PassFits`); so the last pass ends
    with the least closed set, whatever order the references came in. The least set is
    one (`ScopeIsOne`), hence two builds that chose the same file for every selected node
    are equal (`BuildsAgree`), and so is the set the assurance finds by its own search.
    That equal counts mean equal references (`CountedIsFound`) needs the sets to be
    finite and what was found to be in the source.
  - LiveProgress, for any number of attempts and polls: the poll holds no lock, so what
    it saw first may be history when it answers. It looks at the last attempt first and
    at the report before the Engineer's output, against the order of publication; hence
    what it missed was really missing at that moment, and says which phase was the run's
    then (`Known`, `Unreported`). What it then finds was there before, or comes in the
    order of `FilesFit`. Its second look is in the evidence, where a file is only after
    it was in flight, and promoted copies stay in flight: so a file it finds in neither
    was out of neither at its first look. `SeenFits` orders the phases seen between the
    last answer and now, hence `NeverBack`; and an answered Engineer's clock is always
    the lease's first publication (`AnswersFit`). The Validator's is its output's,
    unless the poll found a file that is published after the report or copied at the
    end (`CopiesFit`): then all that is seen from there on is past the phase, so no
    second answer of it follows (`StartsFit`). Hence `ClockIsSteady`.

- `Outcome_proofs`: `OutcomeIsSealed`.
  - FinalReview, for any people, length of the window and clock, and any number of
    operations at a time, of the server or the command line: nothing is locked against
    the command line, so an operation may write beside another, or resume what one left
    behind. Its files and anchors still appear in one order, and each but the request
    and the decision is what the earlier ones make it (`FilesFit`): an index that is
    scanned while another operation writes is complete because the files it must hold
    were there before the scan, and there are no others yet (`ScanFinds`). What an
    operation bound to is on file by the time it goes on (`RequestFits`,
    `DecisionFits`); that a resumed decision still answers the request within its window
    is `BoundAnswers`. `StatusLoadsUnlessCutOff` is then three cases: no anchor, a closed
    request, a closed decision.
  - CandidateExport, for any files, directories and exports: past its preflight an
    export extends what there is, and what it has behind it is linked (`ExportFits`). A
    receipt is only ever linked as the last name (`TargetIs`), when all others are; and
    once it is there, every export that passes the preflight is the same one, so that
    nothing is left to link and no directory to make (`ReceiptFits`). That leaves the
    preflight as the only place to refuse, but for a staging file in the root.

Assumptions: `NoneAssumption` (the value None is none of the data),
`VerdictsAssumption` (verdicts are coherent ones), `VerdictsAreComputed` (of RunBundle
only: neither platform's `_disposition` ever computes `decision_required`, which the
contract's enumeration shares with the workflow; without it a receipt of an attempt
could be refused by the aggregate), `AbsentAssumption`,
`LimitsAssumption` (limits are natural numbers), `RootsAssumption` (conversations
and runs are kept apart), `BoundsAssumption` and `GroupAssumption` (of MCModelCalls:
the bounds are natural numbers, None is no runtime or revision, a group has a leader
and its children), `CandidateAssumption` and `CorrectionAssumption` (of MCAttempt: some
files are approved, each signal opens approved paths, None is no file plan, the bounds
are natural numbers) and `ValidationAssumption` (of MCAttempt: an attempt has at least
one epoch, None is no version and NoFile no file, and "none" is no nonce) and
`KnowledgeAssumption` (of MCKnowledge: None is neither input nor content of a file, the
session's source and pinned Wiki are some of those there are, a source has finitely
many files and references, each of a file to a node, and the bounds are natural
numbers) and `SealAssumption` (of MCOutcome: an export changes at least one file, no file
is named as the archive or the receipt, Absent is no content, the window is not empty).
TLC evaluates all of them in the runs.

Only model-checked: `VerdictIsEarned` and `ResponsesAreWhole`, whose sums and decoder go
through their data by recursion; and all liveness. TLAPS has neither induction over data
nor ENABLED.

## 5. Plan

What is left: RunStart as a refinement of the stages of ConversationLaunch.

### Not modelled

- Prompts, contexts, structured-output schemas and the arithmetic of usage: data
  that no decision of the models depends on. The Responses API client hands the
  call to its SDK.
- The contents of the static checks and parsers (`local_checks.py`,
  `mulesoft_local_checks.py`, `mulesoft_behavior.py`, the parsing in `graphs/`): text
  and XML analysers without control state. What they may answer is arbitrary in the
  models.
- Wiki retrieval, CLI, HTTP server, projections, redaction and logging: reading and
  presentation.
- Private-file permissions, symbolic links and portability scanning: properties of
  one call each.
- Processes that leave their group, files that change and change back between two
  looks, and floating-point rounding at a threshold: named above where they would
  matter.
