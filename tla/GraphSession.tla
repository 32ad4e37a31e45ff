---------------------------- MODULE GraphSession ----------------------------
(***************************************************************************)
(* The dependency evidence an Architect is given (platform_runtime.py,     *)
(* graph_store.py).  A call snapshots the source, loads the run's graph or *)
(* builds and stores it, and seals it by a binding, an index and a runtime *)
(* anchor; reconciles it with the source and seals the assurance report in *)
(* the same way; and then either exposes a context or stops.  Calls of     *)
(* several processes interleave, a process may die between two writes, and *)
(* the source and the Wiki are files others may edit.                      *)
(*                                                                         *)
(* Paths, keys and digests are left out: a file is the content it stands   *)
(* for.  One graph key is modelled; another analyzer version has files of  *)
(* its own.                                                                *)
(***************************************************************************)
EXTENDS Naturals, Sequences

CONSTANTS
    Procs,      \* processes that call the factory
    Sources,    \* contents of the source tree
    Bound,      \* the content the session is bound to
    Policies,   \* what the platform's adapter requires of the source
    Assured,    \* the policies under which the bound source's graph is assured
    Wikis,      \* contents of the Wiki
    Pinned,     \* the Wiki a measured cell is bound to
    Benchmark,  \* whether the run is a measured cell
    MaxCalls,   \* bound: the calls
    MaxEdits    \* bound: the edits of source and Wiki

GraphSessionAssumption ==
    /\ Bound \in Sources /\ Pinned \in Wikis
    /\ Assured \subseteq Policies
    /\ Benchmark \in BOOLEAN
    /\ MaxCalls \in Nat /\ MaxEdits \in Nat

\* A chain of four files: the graph or the report, its binding, its index and
\* its runtime anchor.  A report that stops a run is a file alone.
Chains == {"graph", "assurance"}
Steps == 1 .. 4

VARIABLES
    files,      \* the run's evidence and anchors: of each chain, what is there
    source,     \* the content of the source tree
    wiki,       \* the content of the Wiki
    call,       \* what each process is doing
    calls,      \* history: the calls so far
    edits,      \* history: the edits so far
    exposed,    \* history: the contexts that were given to a model
    broken,     \* history: a call exposed a context over unsealed evidence
    cut         \* history: chains a call found open, with no call at work on them

vars == <<files, source, wiki, call, calls, edits, exposed, broken, cut>>

-----------------------------------------------------------------------------
Idle == [pc |-> "idle"]
Doing(p) == call[p].pc
Become(p, state) == call' = [call EXCEPT ![p] = state]
Fail(p) == Become(p, Idle)
Present(chain) == DOMAIN files[chain]
Whole(chain) == Present(chain) = Steps
Cut(chain) == Present(chain) # {} /\ ~ Whole(chain)
AllIdle == \A p \in Procs : Doing(p) = "idle"

\* What the graph and the report of a source are.
Graph(s) == <<"graph", s>>
Report(s, graph, policy) == <<s, graph, policy>>

Init ==
    /\ files = [chain \in Chains \cup {"stop"} |-> <<>>]
    /\ source = Bound
    /\ wiki = Pinned
    /\ call = [p \in Procs |-> Idle]
    /\ calls = 0
    /\ edits = 0
    /\ exposed = {}
    /\ broken = FALSE
    /\ cut = {}

\* A call that looks for the nth file of a chain.
Looking(chain, n, found, policy) ==
    [pc |-> "look", chain |-> chain, at |-> n, found |-> found, policy |-> policy]

\* The call's session is verified and the source is captured: both have to be
\* the session's.
Begin(p) ==
    /\ Doing(p) = "idle"
    /\ calls < MaxCalls
    /\ calls' = calls + 1
    /\ source = Bound
    /\ \E policy \in Policies :
           Become(p, Looking("graph", 1, {}, policy))
    /\ cut' = IF AllIdle THEN cut \cup {chain \in Chains : Cut(chain)} ELSE cut
    /\ UNCHANGED <<files, source, wiki, edits, exposed, broken>>

\* What a file of a chain is to hold, for the call that writes or verifies it:
\* every file is bound to all before it, the report's also to the graph's.
Before(chain, n) == [k \in 1 .. n - 1 |-> files[chain][k]]
Value(p, chain, n) ==
    CASE chain = "graph" /\ n = 1 -> call[p].graph
      [] chain = "graph" /\ n > 1 -> Before("graph", n)
      [] chain = "assurance" /\ n > 1 -> <<Before("graph", 4), Before("assurance", n)>>
      [] OTHER -> Report(Bound, files["graph"][1], call[p].policy)

Sealed(p, chain) ==
    \A n \in Steps : \/ chain = "graph" /\ n = 1
                     \/ n \in Present(chain) /\ files[chain][n] = Value(p, chain, n)

\* A call that writes its chain, from the nth file on.
Writing(chain, n, graph, policy) ==
    [pc |-> "write", chain |-> chain, at |-> n, graph |-> graph, policy |-> policy]

\* The files of a chain are looked for one after the other: all of them have to
\* be there, and right, or none.
LookDone(p, found) ==
    LET chain == call[p].chain
        policy == call[p].policy
    IN  CASE found = {} /\ chain = "graph" -> Become(p, [pc |-> "build", policy |-> policy])
          [] found = {} /\ chain = "assurance" ->
                Become(p, Writing(chain, 1, files["graph"][1], policy))
          [] found = Steps ->
                IF Sealed(p, chain)
                THEN Become(p, [pc |-> IF chain = "graph" THEN "load" ELSE "decide",
                                policy |-> policy])
                ELSE Fail(p)
          [] OTHER -> Fail(p)

Look(p) ==
    /\ Doing(p) = "look"
    /\ LET chain == call[p].chain
           n == call[p].at
           found == call[p].found \cup ({n} \cap Present(chain))
       IN IF n < 4 THEN Become(p, Looking(chain, n + 1, found, call[p].policy))
          ELSE LookDone(p, found)
    /\ UNCHANGED <<files, source, wiki, calls, edits, exposed, broken, cut>>

\* The builder reads the source itself, and refuses another content than the
\* one the call captured.  A graph that is there now is used; the chain's other
\* files are written again.
Build(p) ==
    /\ Doing(p) = "build"
    /\ IF 1 \in Present("graph")
       THEN Become(p, Writing("graph", 2, files["graph"][1], call[p].policy))
       ELSE IF source # Bound THEN Fail(p)
       ELSE Become(p, Writing("graph", 1, Graph(source), call[p].policy))
    /\ UNCHANGED <<files, source, wiki, calls, edits, exposed, broken, cut>>

Load(p) ==
    /\ Doing(p) = "load"
    /\ Become(p, Writing("graph", 2, files["graph"][1], call[p].policy))
    /\ UNCHANGED <<files, source, wiki, calls, edits, exposed, broken, cut>>

Written(p) ==
    Become(p, IF call[p].at < 4
              THEN Writing(call[p].chain, call[p].at + 1, call[p].graph, call[p].policy)
              ELSE [call[p] EXCEPT !.pc = "verify"])

Put(chain, n, value) ==
    files' = [files EXCEPT ![chain] =
                [k \in Present(chain) \cup {n} |-> IF k = n THEN value ELSE @[k]]]

\* Mutant: a file that another call wrote is replaced.
WriteOver(p) ==
    /\ Doing(p) = "write"
    /\ Put(call[p].chain, call[p].at, Value(p, call[p].chain, call[p].at))
    /\ Written(p)
    /\ UNCHANGED <<source, wiki, calls, edits, exposed, broken, cut>>

\* Nothing is replaced: a file that is there has to say the same.
Write(p) ==
    /\ Doing(p) = "write"
    /\ LET chain == call[p].chain
           n == call[p].at
           value == Value(p, chain, n)
       IN IF n \in Present(chain) => files[chain][n] = value
          THEN Put(chain, n, value) /\ Written(p)
          ELSE Fail(p) /\ UNCHANGED files
    /\ UNCHANGED <<source, wiki, calls, edits, exposed, broken, cut>>

\* The chain that was written is read back.
Verify(p) ==
    /\ Doing(p) = "verify"
    /\ IF ~ Sealed(p, call[p].chain) THEN Fail(p)
       ELSE IF call[p].chain = "graph"
       THEN Become(p, Looking("assurance", 1, {}, call[p].policy))
       ELSE Become(p, [pc |-> "decide", policy |-> call[p].policy])
    /\ UNCHANGED <<files, source, wiki, calls, edits, exposed, broken, cut>>

\* A graph that is not assured stops the run before its model: the report is
\* put where the run's evidence is read.
Decide(p) ==
    /\ Doing(p) = "decide"
    /\ IF call[p].policy \in Assured
       THEN Become(p, [call[p] EXCEPT !.pc = "wiki"]) /\ UNCHANGED files
       ELSE /\ Fail(p)
            /\ IF Present("stop") = {} THEN Put("stop", 1, files["assurance"][1])
               ELSE UNCHANGED files
    /\ UNCHANGED <<source, wiki, calls, edits, exposed, broken, cut>>

\* A measured cell's Wiki is compared with its pin, and then read.
CheckWiki(p) ==
    /\ Doing(p) = "wiki"
    /\ IF Benchmark /\ wiki # Pinned THEN Fail(p)
       ELSE Become(p, [pc |-> "expose", policy |-> call[p].policy, moved |-> FALSE])
    /\ UNCHANGED <<files, source, wiki, calls, edits, exposed, broken, cut>>

Expose(p) ==
    /\ Doing(p) = "expose"
    /\ exposed' = exposed \cup {[graph |-> files["graph"][1],
                                 report |-> files["assurance"][1], wiki |-> wiki,
                                 moved |-> call[p].moved]}
    /\ broken' = (broken \/ \E chain \in Chains : ~ Whole(chain) \/ ~ Sealed(p, chain))
    /\ Fail(p)
    /\ UNCHANGED <<files, source, wiki, calls, edits, cut>>

Crash(p) ==
    /\ Doing(p) # "idle"
    /\ Fail(p)
    /\ UNCHANGED <<files, source, wiki, calls, edits, exposed, broken, cut>>

EditSource ==
    /\ edits < MaxEdits
    /\ edits' = edits + 1
    /\ source' \in Sources \ {source}
    /\ UNCHANGED <<files, wiki, call, calls, exposed, broken, cut>>

EditWiki ==
    /\ edits < MaxEdits
    /\ edits' = edits + 1
    /\ wiki' \in Wikis \ {wiki}
    /\ call' = [p \in Procs |-> IF Doing(p) = "expose" THEN [call[p] EXCEPT !.moved = TRUE]
                                ELSE call[p]]
    /\ UNCHANGED <<files, source, calls, exposed, broken, cut>>

Next ==
    \/ \E p \in Procs :
        \/ Begin(p) \/ Look(p) \/ Build(p) \/ Load(p) \/ Write(p) \/ Verify(p)
        \/ Decide(p) \/ CheckWiki(p) \/ Expose(p) \/ Crash(p)
    \/ EditSource \/ EditWiki

Spec == Init /\ [][Next]_vars

-----------------------------------------------------------------------------
(* Every variable keeps to its range. *)
TypeOK ==
    /\ DOMAIN files = Chains \cup {"stop"} /\ \A chain \in Chains : Present(chain) \subseteq Steps
    /\ source \in Sources /\ wiki \in Wikis
    /\ \A p \in Procs : Doing(p) \in
           {"idle", "look", "build", "load", "write", "verify", "decide", "wiki", "expose"}
    /\ calls \in 0 .. MaxCalls /\ edits \in 0 .. MaxEdits
    /\ \A c \in exposed : c.wiki \in Wikis /\ c.moved \in BOOLEAN

\* A model sees only evidence that is complete and sealed at that moment, file
\* by file, however many calls were writing it.
SealedWhenExposed == ~ broken

\* Every context of a run is the same evidence: the graph of the session's
\* source, and one report, under which it is assured.
OneEvidence ==
    /\ \A c \in exposed : c.graph = Graph(Bound) /\ c.report[3] \in Assured
    /\ \A c, d \in exposed : c.report = d.report

\* A measured cell's context has the pinned Wiki, unless the Wiki was edited
\* between the comparison and the reading.
PinnedUnlessMoved ==
    Benchmark => \A c \in exposed : c.wiki = Pinned \/ c.moved

\* A chain that a dead process left open stays open: no later call completes it
\* or trusts it.
CutIsForGood == \A chain \in cut : Cut(chain)

-----------------------------------------------------------------------------
(* Why they hold *)

\* The files of a chain appear in their order, each of what is before it; the
\* report after the graph's, of some adapter's policy.
FilesFit ==
    /\ files = [chain \in Chains \cup {"stop"} |-> files[chain]]
    /\ \A chain \in Chains :
           /\ files[chain] = [n \in Present(chain) |-> files[chain][n]]
           /\ Present(chain) \subseteq Steps
           /\ \A n \in Present(chain), k \in Steps : k < n => k \in Present(chain)
    /\ \A n \in Present("graph") :
           files["graph"][n] = IF n = 1 THEN Graph(Bound) ELSE Before("graph", n)
    /\ Present("assurance") # {} => Whole("graph")
    /\ \A n \in Present("assurance") :
           n > 1 => files["assurance"][n] = <<Before("graph", 4), Before("assurance", n)>>

Reports(policy) ==
    1 \in Present("assurance") /\ files["assurance"][1] = Report(Bound, Graph(Bound), policy)

\* What a call has found, written or verified is there.
Fit(p) ==
    \/ call[p] = Idle
    \/ /\ call[p] \in [pc: {"look"}, chain: Chains, at: Steps, found: SUBSET Steps,
                       policy: Policies]
       /\ call[p].found \subseteq Present(call[p].chain)
       /\ \A n \in call[p].found : n < call[p].at
       /\ call[p].chain = "assurance" => Whole("graph")
    \/ call[p] \in [pc: {"build"}, policy: Policies]
    \/ call[p] \in [pc: {"load"}, policy: Policies] /\ Whole("graph")
    \/ /\ call[p] \in [pc: {"write", "verify"}, chain: Chains, at: Steps, graph: {Graph(Bound)},
                       policy: Policies]
       /\ \A n \in Steps : n < call[p].at => n \in Present(call[p].chain)
       /\ call[p].chain = "assurance" => Whole("graph")
       /\ call[p].chain = "assurance" /\ call[p].at > 1 => Reports(call[p].policy)
       /\ Doing(p) = "verify" => Whole(call[p].chain) /\ call[p].at = 4
    \/ /\ \/ call[p] \in [pc: {"decide", "wiki"}, policy: Policies]
          \/ call[p] \in [pc: {"expose"}, policy: Policies, moved: BOOLEAN]
       /\ \A chain \in Chains : Whole(chain)
       /\ Reports(call[p].policy)
       /\ Doing(p) # "decide" => call[p].policy \in Assured
       /\ Doing(p) = "expose" /\ Benchmark => wiki = Pinned \/ call[p].moved

CallsFit == call = [p \in Procs |-> call[p]] /\ \A p \in Procs : Fit(p)

\* What was exposed is what the sealed files still say.
ExposedFits ==
    \A c \in exposed :
        /\ c \in [graph: {Graph(Bound)}, report: {files["assurance"][1]}, wiki: Wikis,
                  moved: BOOLEAN]
        /\ \E policy \in Assured : Reports(policy)
        /\ Benchmark => c.wiki = Pinned \/ c.moved

\* Nobody writes a chain that was left open, and who looks at it sees all of it.
CutFits ==
    /\ cut \subseteq Chains
    /\ \A chain \in cut :
        /\ Cut(chain)
        /\ \A p \in Procs :
            /\ ~(Doing(p) = "write" /\ call[p].chain = chain)
            /\ chain = "graph" => Doing(p) # "build"
            /\ Doing(p) = "look" /\ call[p].chain = chain =>
                   \A n \in Present(chain) : n < call[p].at => n \in call[p].found

Inv == TypeOK /\ FilesFit /\ CallsFit /\ ExposedFits /\ CutFits /\ ~ broken
=============================================================================
