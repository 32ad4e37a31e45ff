------------------------------ MODULE RunStart ------------------------------
(***************************************************************************)
(* The bootstrap of an agent run: the session's private tree, the run's    *)
(* evidence and its runtime anchor, and the first dispatch of the workflow *)
(* (run_session.py, agent_run.py).  A process may die between any two of   *)
(* its writes; another call of the recovery then continues the bootstrap,  *)
(* if what is on disk is an exact prefix of it.  Nothing excludes two      *)
(* processes, so all of it may interleave.                                 *)
(*                                                                         *)
(* A file holds the part of the caller's inputs it is written from.  A     *)
(* published file is a link to a temporary file, which is unlinked after.  *)
(***************************************************************************)
EXTENDS Naturals, Sequences

CONSTANTS
    Procs,      \* the processes that may start or recover the run
    Requests,   \* requests a caller may come with
    Configs,    \* the rest of a caller's inputs: configuration and contract
    MaxCalls,   \* bound: the calls of start or recovery
    None        \* an absent file

Inputs == [request: Requests, config: Configs]

\* An index is of three files, an anchor of two and the index.
Indexes == Requests \X Configs \X Configs
Anchors == Requests \X Configs \X Indexes

RunStartAssumption ==
    /\ None \notin Requests \cup Configs \cup Indexes \cup Anchors \cup {"empty", "opened"}
    /\ MaxCalls \in Nat

VARIABLES
    benchmark,  \* whether the run is a measured cell, bound to a knowledge arm
    files,      \* the evidence, the runtime state and the anchors
    graphs,     \* whether the graph store's directory is in the evidence
    left,       \* the roots in which a dead process left a temporary file
    source,     \* whether the source tree is still the one the run is bound to
    proc,       \* what each process is doing
    started,    \* whether the workflow's thread has state
    calls,      \* history: the calls so far
    overlap,    \* history: whether two processes were ever in a call at once
    dispatches  \* history: the inputs of each start of the graph

vars == <<benchmark, files, graphs, left, source, proc, started, calls, overlap, dispatches>>

-----------------------------------------------------------------------------
\* The files, in the order of their writes; only a measured cell has "bench".
Order == [context |-> 1, runtime |-> 2, checkpoint |-> 3, initialized |-> 4, bench |-> 5,
          request |-> 6, config |-> 7, contract |-> 8, evidence |-> 9, anchor |-> 10]
Names == DOMAIN Order
Portable == {"context", "initialized", "request", "config", "contract", "evidence"}
Root(f) == IF f \in Portable THEN "evidence" ELSE "state"

Following(f) ==
    IF f = "initialized" /\ ~ benchmark THEN "request"
    ELSE CHOOSE g \in Names : Order[g] = Order[f] + 1

\* What a process writes into a file: an index and an anchor hold digests of
\* what is stored when they are written.
Content(f, i) ==
    CASE f \in {"context", "runtime", "initialized", "request"} -> i.request
      [] f \in {"bench", "config", "contract"} -> i.config
      [] f = "checkpoint" -> "empty"
      [] f = "evidence" -> <<files["request"], files["config"], files["contract"]>>
      [] OTHER -> <<i.request, i.config, files["evidence"]>>

Idle == [pc |-> "idle"]
Doing(p) == proc[p].pc
Stored == {f \in Portable : files[f] # None}

\* The files beside the named ones: those of the dead, and those of a process
\* that is between creating its temporary file and unlinking it.
Strays(root) ==
    \/ root \in left
    \/ \E p \in Procs : Doing(p) \in {"staged", "linked"} /\ Root(proc[p].at) = root

Init ==
    /\ benchmark \in BOOLEAN
    /\ files = [f \in Names |-> None]
    /\ graphs = FALSE
    /\ left = {}
    /\ source = TRUE
    /\ proc = [p \in Procs |-> Idle]
    /\ started = FALSE
    /\ calls = 0
    /\ overlap = FALSE
    /\ dispatches = <<>>

Become(p, state) == proc' = [proc EXCEPT ![p] = state]
Fail(p) == Become(p, Idle)

Enter(p) ==
    /\ Doing(p) = "idle"
    /\ calls < MaxCalls
    /\ calls' = calls + 1
    /\ overlap' = (overlap \/ \E q \in Procs : Doing(q) # "idle")

Going(i, f) == [pc |-> "next", at |-> f, input |-> i]

\* A start needs a directory of its own; the first one makes it.
Start(p) ==
    \E i \in Inputs :
        /\ calls = 0
        /\ Enter(p)
        /\ Become(p, Going(i, "context"))
        /\ UNCHANGED <<benchmark, files, graphs, left, source, started, dispatches>>

\* A session can be loaded: its tree is complete, its context is the one the
\* runtime binding names, and the source is the one it was initialized with.
Loaded ==
    /\ \A f \in {"context", "runtime", "checkpoint", "initialized"} : files[f] # None
    /\ source

\* The evidence holds a prefix of the bootstrap's writes and nothing else.
PrefixStored ==
    /\ ~ Strays("evidence")
    /\ {"context", "initialized"} \subseteq Stored
    /\ \A f \in Stored, g \in Portable : Order[g] < Order[f] => g \in Stored

Whole == Stored = Portable

\* The runtime state: an untouched checkpoint, and the evidence's anchor only
\* over complete evidence that is the caller's.
StateUntouched(i, whole) ==
    /\ ~ Strays("state")
    /\ files["checkpoint"] = "empty"
    /\ benchmark => files["bench"] = i.config
    /\ files["anchor"] # None =>
           /\ whole
           /\ files["request"] = i.request
           /\ files["config"] = i.config
           /\ files["contract"] = i.config

\* The recovery reads the evidence, then the runtime state.
Recover(p) ==
    \E i \in Inputs :
        /\ Enter(p)
        /\ Loaded
        /\ files["context"] = i.request
        /\ PrefixStored
        /\ Become(p, [pc |-> "looked", input |-> i, whole |-> Whole])
        /\ UNCHANGED <<benchmark, files, graphs, left, source, started, dispatches>>

LookAtState(p) ==
    /\ Doing(p) = "looked"
    /\ IF StateUntouched(proc[p].input, proc[p].whole)
       THEN Become(p, Going(proc[p].input, "request"))
       ELSE Fail(p)
    /\ UNCHANGED <<benchmark, files, graphs, left, source, started, calls, overlap, dispatches>>

-----------------------------------------------------------------------------
Written(p) ==
    IF proc[p].at = "anchor" THEN [pc |-> "compose", input |-> proc[p].input]
    ELSE [proc[p] EXCEPT !.pc = IF proc[p].at = "initialized" THEN "verify" ELSE "next",
                         !.at = Following(@)]

\* A file that is there already is left as it is, if it says the same.  An
\* index needs the files it lists.
Stage(p) ==
    /\ Doing(p) = "next"
    /\ LET f == proc[p].at
           value == Content(f, proc[p].input)
       IN IF f = "checkpoint"
          THEN /\ files' = [files EXCEPT ![f] = value]
               /\ Become(p, Written(p))
          ELSE /\ UNCHANGED files
               /\ IF Root(f) = "state" \/ files[f] = None
                  THEN Become(p, [proc[p] EXCEPT !.pc = "staged"])
                  ELSE IF files[f] = value THEN Become(p, Written(p)) ELSE Fail(p)
    /\ UNCHANGED <<benchmark, graphs, left, source, started, calls, overlap, dispatches>>

\* The link does not replace a file: the one that is there has to say the same.
Link(p) ==
    /\ Doing(p) = "staged"
    /\ LET f == proc[p].at
           value == Content(f, proc[p].input)
       IN IF files[f] \in {None, value}
          THEN /\ files' = [files EXCEPT ![f] = value]
               /\ Become(p, [proc[p] EXCEPT !.pc = "linked"])
          ELSE Fail(p) /\ UNCHANGED files
    /\ UNCHANGED <<benchmark, graphs, left, source, started, calls, overlap, dispatches>>

Unlink(p) ==
    /\ Doing(p) = "linked"
    /\ Become(p, Written(p))
    /\ UNCHANGED <<benchmark, files, graphs, left, source, started, calls, overlap, dispatches>>

\* The new session is verified: the context and its index are all there is.
VerifyInitialized(p) ==
    /\ Doing(p) = "verify"
    /\ IF Stored = {"context", "initialized"} /\ ~ Strays("evidence") /\ source
       THEN Become(p, [proc[p] EXCEPT !.pc = "next"])
       ELSE Fail(p)
    /\ UNCHANGED <<benchmark, files, graphs, left, source, started, calls, overlap, dispatches>>

\* The evidence is verified against its index and its anchor, and the run's
\* components are made.
Compose(p) ==
    /\ Doing(p) = "compose"
    /\ graphs' = TRUE
    /\ Become(p, [proc[p] EXCEPT !.pc = "open"])
    /\ UNCHANGED <<benchmark, files, left, source, started, calls, overlap, dispatches>>

\* Mutant: a checkpoint that is not empty is not looked at.
OpenCheckpointBlind(p) ==
    /\ Doing(p) = "open"
    /\ Become(p, [proc[p] EXCEPT !.pc = "invoke"])
    /\ UNCHANGED <<benchmark, files, graphs, left, source, started, calls, overlap, dispatches>>

\* The source is read again, the checkpoint database is opened, and the thread
\* is looked up in it.
OpenCheckpoint(p) ==
    /\ Doing(p) = "open"
    /\ IF source
       THEN /\ files' = [files EXCEPT !["checkpoint"] = "opened"]
            /\ IF started THEN Fail(p) ELSE Become(p, [proc[p] EXCEPT !.pc = "invoke"])
       ELSE Fail(p) /\ UNCHANGED files
    /\ UNCHANGED <<benchmark, graphs, left, source, started, calls, overlap, dispatches>>

Invoke(p) ==
    /\ Doing(p) = "invoke"
    /\ started' = TRUE
    /\ dispatches' = Append(dispatches, proc[p].input)
    /\ Become(p, Idle)
    /\ UNCHANGED <<benchmark, files, graphs, left, source, calls, overlap>>

\* A process dies; its temporary file stays.
Crash(p) ==
    /\ Doing(p) # "idle"
    /\ left' = left \cup (IF Doing(p) \in {"staged", "linked"} THEN {Root(proc[p].at)} ELSE {})
    /\ Become(p, Idle)
    /\ UNCHANGED <<benchmark, files, graphs, source, started, calls, overlap, dispatches>>

EditSource ==
    /\ source
    /\ files["context"] # None
    /\ source' = FALSE
    /\ UNCHANGED <<benchmark, files, graphs, left, proc, started, calls, overlap, dispatches>>

Next ==
    \/ \E p \in Procs :
        \/ Start(p) \/ Recover(p) \/ LookAtState(p)
        \/ Stage(p) \/ Link(p) \/ Unlink(p) \/ VerifyInitialized(p)
        \/ Compose(p) \/ OpenCheckpoint(p) \/ Invoke(p) \/ Crash(p)
    \/ EditSource

Spec == Init /\ [][Next]_vars

-----------------------------------------------------------------------------
(* Every variable keeps to its range. *)
TypeOK ==
    /\ benchmark \in BOOLEAN
    /\ DOMAIN files = Names
    /\ graphs \in BOOLEAN /\ source \in BOOLEAN /\ overlap \in BOOLEAN
    /\ left \subseteq {"evidence", "state"}
    /\ \A p \in Procs : Doing(p) \in
           {"idle", "looked", "next", "staged", "linked", "verify", "compose", "open", "invoke"}
    /\ \A p \in Procs : Doing(p) \in {"next", "staged", "linked", "verify"} =>
           proc[p].at \in Names
    /\ calls \in Nat /\ calls <= MaxCalls
    /\ dispatches \in Seq(Inputs)

\* Whoever starts the graph starts it with the inputs the evidence names,
\* however many callers wrote that evidence between them.
DispatchedFromTheEvidence ==
    \A n \in 1 .. Len(dispatches) :
        /\ files["request"] = dispatches[n].request
        /\ files["config"] = dispatches[n].config
        /\ files["contract"] = dispatches[n].config
        /\ files["evidence"] = <<files["request"], files["config"], files["contract"]>>
        /\ files["anchor"] # None

\* Callers that come one after the other, each after the last has ended or
\* died, start the graph once.
OneDispatch == Len(dispatches) > 1 => overlap

\* A start that died between two writes can be continued by the caller it was
\* for, unless it was a measured cell that had no knowledge arm yet.
CleanCrashResumes ==
    (/\ \A p \in Procs : Doing(p) = "idle"
     /\ left = {} /\ source /\ ~ overlap
     /\ files["initialized"] # None
     /\ benchmark => files["bench"] # None
     /\ files["checkpoint"] = "empty")
        => \E i \in Inputs :
               /\ files["context"] = i.request
               /\ files["request"] \in {None, i.request}
               /\ {files["config"], files["contract"]} \subseteq {None, i.config}
               /\ Loaded /\ PrefixStored /\ StateUntouched(i, Whole)

\* The anchor is over one caller's complete inputs from the moment it is there.
AnchorSealsOneCaller ==
    files["anchor"] # None =>
        /\ Whole
        /\ files["anchor"][1] = files["request"]
        /\ files["anchor"][2] = files["config"]
        /\ files["contract"] = files["config"]
        /\ files["anchor"][3] = files["evidence"]
-----------------------------------------------------------------------------
(* Why they hold *)

\* What a file says once it is written, in terms of the caller alone.
Said(f, i) ==
    CASE f \in {"context", "initialized", "request"} -> i.request
      [] f \in {"bench", "config", "contract"} -> i.config
      [] f = "evidence" -> <<i.request, i.config, i.config>>
      [] OTHER -> <<i.request, i.config, <<i.request, i.config, i.config>>>>

Right(f, i) ==
    CASE f = "bench" -> benchmark => files[f] = i.config
      [] f \in {"runtime", "checkpoint"} -> files[f] # None
      [] OTHER -> files[f] = Said(f, i)

\* The files a process has written or found to be its caller's.
Passed(p) ==
    CASE Doing(p) \in {"next", "staged", "verify"} -> {f \in Names : Order[f] < Order[proc[p].at]}
      [] Doing(p) = "linked" -> {f \in Names : Order[f] <= Order[proc[p].at]}
      [] Doing(p) \in {"compose", "open", "invoke"} -> Names
      [] OTHER -> {}

Fit(p) ==
    \/ proc[p] = Idle
    \/ /\ proc[p] \in [pc: {"looked"}, input: Inputs, whole: BOOLEAN]
       /\ files["context"] = proc[p].input.request
       /\ \A f \in {"context", "runtime", "checkpoint", "initialized"} : files[f] # None
       /\ proc[p].whole => Whole
    \/ /\ proc[p] \in [pc: {"next", "staged", "linked", "verify"}, at: Names, input: Inputs]
       /\ proc[p].at = "bench" => benchmark
       /\ proc[p].at = "checkpoint" => Doing(p) = "next"
       /\ Doing(p) = "verify" => proc[p].at \in {"bench", "request"}
       /\ \A f \in Passed(p) : Right(f, proc[p].input)
    \/ /\ proc[p] \in [pc: {"compose", "open", "invoke"}, input: Inputs]
       /\ \A f \in Names : Right(f, proc[p].input)
       /\ Doing(p) = "invoke" => files["checkpoint"] = "opened"

ProcsFit == proc = [p \in Procs |-> proc[p]] /\ \A p \in Procs : Fit(p)

\* The files appear in their order, and only a measured cell has an arm.
InOrder ==
    /\ files = [f \in Names |-> files[f]]
    /\ ~ benchmark => files["bench"] = None
    /\ \A f \in Names, g \in Names :
           files[g] # None /\ Order[f] < Order[g] =>
               files[f] # None \/ (f = "bench" /\ ~ benchmark)

\* What is written agrees with what was written before it.
FilesAgree ==
    /\ files["context"] \in {i.request : i \in Inputs} \cup {None}
    /\ files["bench"] \in Configs \cup {None}
    /\ files["config"] \in Configs \cup {None}
    /\ files["initialized"] \in {None, files["context"]}
    /\ files["request"] \in {None, files["context"]}
    /\ files["bench"] # None => files["config"] \in {None, files["bench"]}
    /\ files["contract"] \in {None, files["config"]}
    /\ files["evidence"] \in {None, <<files["request"], files["config"], files["contract"]>>}
    /\ files["anchor"] \in {None, <<files["request"], files["config"], files["evidence"]>>}

\* Whoever makes the session's tree is alone, and makes each file of it.
StarterIsAlone ==
    \A p \in Procs :
        Doing(p) \in {"next", "staged", "linked"} /\ Order[proc[p].at] <= 4 =>
            /\ \A q \in Procs : q # p => proc[q] = Idle
            /\ \A f \in Names : Order[f] > Order[proc[p].at] => files[f] = None
            /\ Doing(p) # "linked" => files[proc[p].at] = None

\* Nothing is there before the first call.
NothingAtFirst ==
    calls = 0 =>
        /\ \A p \in Procs : proc[p] = Idle
        /\ \A f \in Names : files[f] = None

StartedIsSeen ==
    /\ started \in BOOLEAN
    /\ started <=> dispatches # <<>>
    /\ started => files["checkpoint"] = "opened" /\ files["anchor"] # None

\* Without an overlap one process at a time is in a call, and no call gets past
\* its look at the state once the graph was started.
OneAtATime ==
    ~ overlap =>
        /\ \A p \in Procs, q \in Procs : p = q \/ proc[p] = Idle \/ proc[q] = Idle
        /\ Len(dispatches) <= 1
        /\ started => \A p \in Procs : Doing(p) \in {"idle", "looked"}

Inv == /\ TypeOK /\ ProcsFit /\ InOrder /\ FilesAgree /\ StarterIsAlone /\ NothingAtFirst
       /\ StartedIsSeen /\ OneAtATime /\ DispatchedFromTheEvidence
=============================================================================
