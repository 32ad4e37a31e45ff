------------------------------ MODULE GraphScope ------------------------------
(***************************************************************************)
(* A dependency graph is built from a captured source (dependency_graph.py,*)
(* mulesoft_dependency_graph.py) and reconciled with it by a second, inde- *)
(* pendent scan (graph_assurance.py).  The builder indexes the files, each *)
(* under the node its name gives, parses one file of a node into edges and *)
(* warnings, follows the edges from the entry, and takes in the tests and  *)
(* permission sets that refer to what was selected.                        *)
(*                                                                         *)
(* A reference is a symbol at a line of a file; how a parser finds it is   *)
(* left out, and a parser may miss it.  The loops over the edges go in the *)
(* order of a dictionary; here in any order.                               *)
(*                                                                         *)
(* An adapter also requires files that only give context: descriptions of  *)
(* a class or a page, which stand by the node of that name and are never   *)
(* parsed, and settings of the project, of which some have no node.        *)
(***************************************************************************)
EXTENDS Naturals, FiniteSets

CONSTANTS
    Files, Nodes, \* files of the source that have a node, and the nodes
    NodeOf,       \* the node a file's name gives
    Plain,        \* files of the source that have none
    Context,      \* files that only give context
    Kind,         \* of a node: "code", "test" or "permission"
    App,          \* the Mule application of a node; one for Salesforce
    External,     \* nodes that need no parsed file: what the platform has,
                  \* and those of the project's settings
    Candidates,   \* references that may be in the source
    Dynamic,      \* files with a construct whose target is only known at run time
    Entries,      \* what may be the entry: files, or "directory"
    Directory,    \* a directory that may be the entry, with the files in it
    Requirements, \* the sets of files an adapter may require, in the source or not
    MaxMissed     \* bound: the references a parser misses

\* A reference: its file and line, the symbol's node, how often it is on the
\* line, and whether the second scan knows its kind.
GraphScopeAssumption ==
    /\ IsFiniteSet(Files) /\ IsFiniteSet(Candidates)
    /\ NodeOf \in [Files -> Nodes]
    /\ Kind \in [Nodes -> {"code", "test", "permission"}]
    /\ External \subseteq Nodes /\ Plain \cap Files = {} /\ Dynamic \subseteq Files \ Context
    /\ \A r \in Candidates :
           r.file \in Files \ Context /\ r.to \in Nodes /\ r.times \in 1 .. 2 /\ r.scanned \in BOOLEAN
    /\ Directory \subseteq Files /\ Entries \subseteq Files \cup {"directory"}
    /\ MaxMissed \in Nat

VARIABLES
    refs, missed,  \* the references of the source; those the parser does not see
    entry,         \* the entry paths
    required,      \* the files the adapter requires
    pc,
    edges,         \* parsed references, with the parsed file
    selected, todo, changed,
    graph,         \* the frozen graph
    earlier        \* history: the graph another build of this source froze

vars == <<refs, missed, entry, required, pc, edges, selected, todo, changed, graph,
          earlier>>
input == <<refs, missed, entry, required>>

-----------------------------------------------------------------------------
FilesOf(n) == {f \in Files : NodeOf[f] = n}
ParsedOf(n) == FilesOf(n) \ Context
Resolved(n) == ParsedOf(n) # {} \/ n \in External
Indexed == {n \in Nodes : ParsedOf(n) # {}}

\* A file that is an entry, or the files of a directory that is.
Seeds == {NodeOf[f] : f \in IF entry = "directory" THEN Directory ELSE {entry}}

NoGraph == [nodes |-> {}, digests |-> {}, edges |-> {}, warnings |-> {}]

Init ==
    /\ refs \in SUBSET Candidates
    /\ missed \in {m \in SUBSET refs : Cardinality(m) <= MaxMissed}
    /\ entry \in Entries
    /\ required \in Requirements
    /\ pc = "parse"
    /\ edges = {} /\ selected = {} /\ todo = {} /\ changed = FALSE
    /\ graph = NoGraph /\ earlier = NoGraph

\* Of the files of one node that can be parsed, the one a set gives first is.
Choices ==
    {p \in SUBSET (Files \ Context) : \A n \in Indexed : Cardinality(p \cap ParsedOf(n)) = 1}
Found(parsed) == {r \in refs \ missed : r.file \in parsed}

Parse ==
    /\ pc = "parse"
    /\ \E parsed \in Choices : edges' = Found(parsed)
    /\ pc' = "forward"
    /\ selected' = Seeds
    /\ todo' = edges' /\ changed' = FALSE
    /\ UNCHANGED <<input, graph, earlier>>

Take(r, node, pulls) ==
    /\ todo' = todo \ {r}
    /\ selected' = IF pulls THEN selected \cup {node} ELSE selected
    /\ changed' = (changed \/ (pulls /\ node \notin selected))
    /\ UNCHANGED <<input, pc, edges, graph, earlier>>

Forward ==
    /\ pc = "forward"
    /\ \E r \in todo : Take(r, r.to, NodeOf[r.file] \in selected)

\* Tests and permission sets that refer to what is selected; a Mule test only
\* within its application.
PullsBack(r, target) ==
    /\ Kind[NodeOf[r.file]] \in {"test", "permission"}
    /\ App[NodeOf[r.file]] = App[r.to]
    /\ r.to \in target

Reverse ==
    /\ pc = "reverse"
    /\ \E r \in todo : Take(r, NodeOf[r.file], PullsBack(r, selected))

\* A forward pass, a backward pass, and again until neither selected a node.
PassDone ==
    /\ pc \in {"forward", "reverse"} /\ todo = {}
    /\ IF pc = "forward" THEN pc' = "reverse" /\ todo' = edges /\ UNCHANGED changed
       ELSE /\ pc' = IF changed THEN "forward" ELSE "freeze"
            /\ todo' = IF changed THEN edges ELSE {}
            /\ changed' = FALSE
    /\ UNCHANGED <<input, edges, selected, graph, earlier>>

\* The selected nodes with their files' digests, the edges between them, and
\* the warnings about their files.
GraphOf(found, scope) ==
    [nodes |-> scope,
     digests |-> {f \in Files : NodeOf[f] \in scope},
     edges |-> {r \in found : NodeOf[r.file] \in scope /\ r.to \in scope},
     warnings |-> {r \in found : NodeOf[r.file] \in scope /\ ~ Resolved(r.to)}]

Freeze ==
    /\ pc = "freeze"
    /\ graph' = GraphOf(edges, selected)
    /\ pc' = "frozen"
    /\ UNCHANGED <<input, edges, selected, todo, changed, earlier>>

\* The same source is built again, by another process.
BuildAgain ==
    /\ pc = "frozen" /\ earlier = NoGraph
    /\ earlier' = graph
    /\ pc' = "parse"
    /\ edges' = {} /\ selected' = {} /\ graph' = NoGraph
    /\ UNCHANGED <<input, todo, changed>>

Next == Parse \/ Forward \/ Reverse \/ PassDone \/ Freeze \/ BuildAgain

Spec == Init /\ [][Next]_vars

-----------------------------------------------------------------------------
(* The assurance of the frozen graph. *)

\* What is reached from the files that are entries, along edges in either
\* direction; a directory is the path of no node.
EitherWay(nodes) ==
    nodes \cup {r.to : r \in {e \in graph.edges : NodeOf[e.file] \in nodes}}
          \cup {NodeOf[r.file] : r \in {e \in graph.edges : e.to \in nodes}}

Reachable ==
    LET Start == {NodeOf[f] : f \in {entry} \cap Files}
        Scopes == {S \in SUBSET Nodes : Start \subseteq S /\ EitherWay(S) \subseteq S}
    IN  {n \in Nodes : \A S \in Scopes : n \in S}

\* The second scan counts every match in the required files; the graph has one
\* provenance for a line.
InSource(f, n) ==
    Cardinality({match \in {r \in refs : r.file = f /\ r.to = n /\ r.scanned} \X (1 .. 2) :
                    match[2] <= match[1].times})
InGraph(f, n) == Cardinality({r \in graph.edges : r.file = f /\ r.to = n /\ r.scanned})

Reconciled == \A f \in required, n \in Nodes : InSource(f, n) = InGraph(f, n)

\* Every edge found what it names.
SecurityCovered == \A r \in graph.edges : Resolved(r.to)

\* A required file must be in the source, and in the graph and reachable in it
\* unless it only gives context.
Bearing == required \ Context
Missing == required \ (Files \cup Plain)

Discrepancies ==
    {d \in {"entry", "missing", "not in graph", "unreachable", "orphan", "count", "security"} :
        CASE d = "entry" -> entry = "directory"
          [] d = "missing" -> Missing # {}
          [] d = "not in graph" -> \E f \in Bearing \ Missing : f \notin graph.digests
          [] d = "unreachable" -> \E f \in Bearing \cap graph.digests : NodeOf[f] \notin Reachable
          [] d = "orphan" -> \E r \in graph.edges \cup graph.warnings : r.file \notin graph.digests
          [] d = "count" -> ~ Reconciled
          [] OTHER -> ~ SecurityCovered}

\* Dynamic constructs of the files that are required or parsed.
Constructs == Dynamic \cap (required \cup graph.digests)

\* What a parser warned of, a construct that blocks.
Warned == graph.warnings # {}

Status ==
    CASE Discrepancies # {} \/ Warned -> "blocked"
      [] Constructs # {} \/ \E n \in graph.nodes : ~ Resolved(n) -> "review_required"
      [] OTHER -> "assured"

-----------------------------------------------------------------------------
Twins == {n \in Nodes : Cardinality(ParsedOf(n)) > 1}

(* Every variable keeps to its range. *)
TypeOK ==
    /\ missed \subseteq refs /\ refs \subseteq Candidates
    /\ pc \in {"parse", "forward", "reverse", "freeze", "frozen"}
    /\ edges \subseteq refs \ missed
    /\ todo \subseteq edges
    /\ selected \subseteq Nodes
    /\ graph.nodes \subseteq Nodes /\ graph.digests \subseteq Files
    /\ \A r \in graph.edges : {NodeOf[r.file], r.to} \subseteq graph.nodes

\* The passes select the least scope that holds the entry, what its members
\* refer to, and the tests and permission sets that refer to a member, in
\* whatever order the edges are taken.
ClosedUnder(found, scope) ==
    \A r \in found : /\ NodeOf[r.file] \in scope => r.to \in scope
                     /\ PullsBack(r, scope) => NodeOf[r.file] \in scope
Closed(scope) == ClosedUnder(edges, scope)
ScopeIsClosure ==
    pc \in {"freeze", "frozen"} =>
        /\ Seeds \subseteq selected /\ Closed(selected)
        /\ \A scope \in SUBSET selected : Seeds \subseteq scope /\ Closed(scope) => scope = selected

\* The builder never gives the assurance a graph it must find inconsistent:
\* what was selected from files is reachable from them, and every line that is
\* quoted is of a file whose digest is there.
BuilderAndAssuranceAgree ==
    pc = "frozen" => "orphan" \notin Discrepancies
                     /\ ("unreachable" \in Discrepancies => entry = "directory")

\* When a graph is assured, every required file is in the source, and the graph
\* has those that bear dependencies and lacks nothing they refer to, of the
\* kinds the second scan knows: also when the parser missed it, or parsed the
\* other file of its name.
AssuredIsComplete ==
    pc = "frozen" /\ Status = "assured" =>
        /\ required \subseteq Files \cup Plain
        /\ \A f \in required \ Context :
            /\ f \in graph.digests \ Dynamic
            /\ \A r \in refs : r.file = f /\ r.scanned =>
                   Resolved(r.to) /\ \E e \in graph.edges : e.file = f /\ e.to = r.to

\* Two builds of one source agree, unless they select a node with two files.
DeterministicOtherwise ==
    pc = "frozen" /\ earlier # NoGraph /\ Twins \cap (graph.nodes \cup earlier.nodes) = {} =>
        graph = earlier

-----------------------------------------------------------------------------
(* Why they hold *)

InputFits ==
    /\ refs \subseteq Candidates /\ missed \subseteq refs
    /\ entry \in Entries /\ required \in Requirements

\* No closed scope that holds the entry lacks a node of this one.
Least(found, scope) ==
    \A other \in SUBSET Nodes :
        Seeds \subseteq other /\ ClosedUnder(found, other) => scope \subseteq other

\* The passes select nothing that is not in the least scope; in a pass that
\* changed nothing, what was taken is satisfied.
PassFits ==
    /\ \E parsed \in Choices : edges = Found(parsed)
    /\ Seeds \subseteq selected /\ selected \subseteq Nodes /\ todo \subseteq edges
    /\ Least(edges, selected)
    /\ pc = "forward" /\ ~ changed =>
           \A r \in edges \ todo : NodeOf[r.file] \in selected => r.to \in selected
    /\ pc = "reverse" /\ ~ changed =>
           /\ \A r \in edges : NodeOf[r.file] \in selected => r.to \in selected
           /\ \A r \in edges \ todo : PullsBack(r, selected) => NodeOf[r.file] \in selected
    /\ pc \in {"freeze", "frozen"} => todo = {} /\ Closed(selected)

\* A graph that was frozen is of some choice of the files.
Built(g) ==
    \E parsed \in Choices :
        /\ Seeds \subseteq g.nodes /\ g.nodes \subseteq Nodes
        /\ ClosedUnder(Found(parsed), g.nodes) /\ Least(Found(parsed), g.nodes)
        /\ g = GraphOf(Found(parsed), g.nodes)

Inv == /\ InputFits
       /\ pc \in {"parse", "forward", "reverse", "freeze", "frozen"}
       /\ IF pc = "parse" THEN edges = {} /\ selected = {} /\ todo = {} ELSE PassFits
       /\ graph = IF pc = "frozen" THEN GraphOf(edges, selected) ELSE NoGraph
       /\ earlier = NoGraph \/ Built(earlier)
=============================================================================
