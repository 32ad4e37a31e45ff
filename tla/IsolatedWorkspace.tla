--------------------------- MODULE IsolatedWorkspace ---------------------------
(***************************************************************************)
(* IsolatedWorkspace of workspace.py and its two users in                  *)
(* model_workflow.py: the Engineer, who applies a file plan to a private   *)
(* copy of the source, and the Validator, who rebuilds the candidate from  *)
(* the same plan and lets the platform's tools run in it.                  *)
(*                                                                         *)
(* The source belongs to the user, who may edit it at any time, between    *)
(* any two files of a scan. A file's contents are numbered in the order in *)
(* which the user writes them and never come back; directories, modes and  *)
(* links are left out.                                                     *)
(***************************************************************************)
EXTENDS Integers, FiniteSets

CONSTANTS
  Paths,
  Approved,     \* manifest.approved_paths
  MaxVersion,   \* bound: contents of a source file
  MaxEdits      \* bound: edits of the user

WorkspaceAssumption ==
  /\ Approved \subseteq Paths /\ Approved # {}
  /\ MaxVersion \in Nat \ {0} /\ MaxEdits \in Nat

Missing == 0
Deleted == MaxVersion + 1
New == MaxVersion + 2              \* a content the source never has
Contents == 1..MaxVersion \cup {New}
Exists(v) == v \notin {Missing, Deleted}
Trees == [Paths -> Contents \cup {Missing}]

VARIABLES
  source,       \* of each path, its content
  edits,
  plan,         \* EngineerFilePlan.updates
  pinned,       \* request.base_revision, as the tree it is the digest of
  role,
  pc,
  todo,         \* files still to be read, or written
  seen,         \* what the current scan has read
  base,         \* _base_snapshot
  disk,         \* the private copy
  failed,       \* an exception is on its way through the with block
  moments,      \* history: the states of the source since construction began
  still,        \* history: the source when the last scan began
  results       \* history: what was returned

vars == <<source, edits, plan, pinned, role, pc, todo, seen, base, disk, failed,
          moments, still, results>>
user == <<source, edits, moments>>

NoTree == [p \in {} |-> Missing]
Empty == [p \in Paths |-> Missing]
Overlay(tree) == [p \in Paths |-> IF p \in Approved THEN plan[p] ELSE tree[p]]
Changed == {p \in Paths : disk[p] # base[p]}

Init ==
  /\ source \in [Paths -> {Missing, 1}]
  /\ plan \in [Approved -> Contents]
  /\ edits = 0 /\ pinned = NoTree /\ role = "none" /\ pc = "idle"
  /\ todo = {} /\ seen = Empty /\ base = NoTree /\ disk = NoTree
  /\ failed = FALSE /\ moments = {} /\ still = NoTree /\ results = {}

Edit(p) ==
  /\ edits < MaxEdits
  /\ \E v \in (source[p] + 1)..Deleted :
       /\ source' = [source EXCEPT ![p] = v]
       /\ moments' = IF pc = "idle" THEN {} ELSE moments \cup {source'}
  /\ edits' = edits + 1
  /\ UNCHANGED <<plan, pinned, role, pc, todo, seen, base, disk, failed, still, results>>

-----------------------------------------------------------------------------
(* snapshot_tree: the names first, then one file after the other.          *)

ScanAs(step) ==
  /\ pc' = step
  /\ todo' = {p \in Paths : Exists(source[p])}
  /\ seen' = Empty
  /\ still' = source

Scans == {"pin", "capture", "confirm", "check", "recheck", "exit"}

Read(p) ==
  /\ pc \in Scans /\ p \in todo /\ Exists(source[p])
  /\ seen' = [seen EXCEPT ![p] = source[p]]
  /\ todo' = todo \ {p}
  /\ UNCHANGED <<user, plan, pinned, role, pc, base, disk, failed, still, results>>

Scanned(step) == pc = step /\ todo = {}
Lost == \E p \in todo : ~Exists(source[p])

-----------------------------------------------------------------------------
(* The request is made once: content_revision pins the source.             *)

Request ==
  /\ pc = "idle" /\ pinned = NoTree
  /\ ScanAs("pin")
  /\ UNCHANGED <<user, plan, pinned, role, base, disk, failed, results>>

Pin ==
  /\ Scanned("pin")
  /\ pinned' = seen /\ pc' = "idle"
  /\ UNCHANGED <<user, plan, role, todo, seen, base, disk, failed, still, results>>

(* IsolatedWorkspace.__init__ *)
Open(r) ==
  /\ pc = "idle" /\ pinned # NoTree
  /\ role' = r /\ failed' = FALSE /\ moments' = {source}
  /\ ScanAs("capture")
  /\ UNCHANGED <<source, edits, plan, pinned, base, disk, results>>

(* Mutant: the first scan is trusted. *)
CaptureTrusted ==
  /\ Scanned("capture")
  /\ base' = seen /\ disk' = seen /\ pc' = "write" /\ todo' = Approved
  /\ UNCHANGED <<user, plan, pinned, role, seen, failed, still, results>>

Capture ==
  /\ Scanned("capture") /\ seen = pinned
  /\ base' = seen /\ disk' = seen /\ ScanAs("confirm")
  /\ UNCHANGED <<user, plan, pinned, role, failed, results>>

Confirm ==
  /\ Scanned("confirm") /\ seen = base
  /\ pc' = "write" /\ todo' = Approved
  /\ UNCHANGED <<user, plan, pinned, role, seen, base, disk, failed, still, results>>

(* A failed construction removes the copy and raises. *)
Close ==
  /\ pc' = "idle" /\ base' = NoTree /\ disk' = NoTree
  /\ role' = "none" /\ todo' = {} /\ moments' = {} /\ failed' = FALSE

Refuse ==
  /\ \/ pc \in {"pin", "capture", "confirm"} /\ Lost
     \/ Scanned("capture") /\ seen # pinned
     \/ Scanned("confirm") /\ seen # base
  /\ Close
  /\ UNCHANGED <<source, edits, plan, pinned, seen, still, results>>

-----------------------------------------------------------------------------
(* apply_engineer_file_plan                                                *)

Write(p) ==
  /\ pc = "write" /\ p \in todo
  /\ disk' = [disk EXCEPT ![p] = plan[p]]
  /\ todo' = todo \ {p}
  /\ UNCHANGED <<user, plan, pinned, role, pc, seen, base, failed, still, results>>

Audit ==
  /\ Scanned("write") /\ Changed = Approved
  /\ ScanAs("check")
  /\ UNCHANGED <<user, plan, pinned, role, base, disk, failed, results>>

(* The exception handler restores the base; the with block then scans the  *)
(* source once more.                                                       *)
Rollback ==
  /\ \/ Scanned("write") /\ Changed # Approved
     \/ pc = "check" /\ Lost
     \/ Scanned("check") /\ seen # base
  /\ disk' = base /\ failed' = TRUE /\ ScanAs("exit")
  /\ UNCHANGED <<user, plan, pinned, role, base, results>>

Applied ==
  /\ Scanned("check") /\ seen = base
  /\ IF role = "engineer" THEN ScanAs("exit")
     ELSE pc' = "tools" /\ UNCHANGED <<todo, seen, still>>
  /\ UNCHANGED <<user, plan, pinned, role, base, disk, failed, results>>

-----------------------------------------------------------------------------
(* The Validator's part: tools run in the copy, and are audited.           *)

ToolWrites(p) ==
  /\ pc = "tools"
  /\ \E v \in {Missing, New} : disk' = [disk EXCEPT ![p] = v]
  /\ UNCHANGED <<user, plan, pinned, role, pc, todo, seen, base, failed, still, results>>

AuditTools ==
  /\ pc = "tools" /\ disk = Overlay(base)
  /\ ScanAs("recheck")
  /\ UNCHANGED <<user, plan, pinned, role, base, disk, failed, results>>

Rechecked ==
  /\ Scanned("recheck") /\ seen = base
  /\ ScanAs("exit")
  /\ UNCHANGED <<user, plan, pinned, role, base, disk, failed, results>>

Reject ==
  /\ \/ pc = "tools" /\ disk # Overlay(base)
     \/ pc = "recheck" /\ Lost
     \/ Scanned("recheck") /\ seen # base
  /\ failed' = TRUE /\ ScanAs("exit")
  /\ UNCHANGED <<user, plan, pinned, role, base, disk, results>>

-----------------------------------------------------------------------------
(* __exit__: the error of the last scan is raised unless another one is.   *)

Exit ==
  /\ pc = "exit" /\ (todo = {} \/ Lost)
  /\ results' = IF failed \/ Lost \/ seen # base THEN results
                ELSE results \cup {[candidate |-> disk, base |-> base, still |-> still]}
  /\ Close
  /\ UNCHANGED <<source, edits, plan, pinned, seen, still>>

Crash ==
  /\ pc # "idle"
  /\ Close
  /\ UNCHANGED <<source, edits, plan, pinned, seen, still, results>>

Next ==
  \/ \E p \in Paths : Edit(p) \/ Read(p) \/ Write(p) \/ ToolWrites(p)
  \/ \E r \in {"engineer", "validator"} : Open(r)
  \/ Request \/ Pin \/ Capture \/ Confirm \/ Refuse
  \/ Audit \/ Rollback \/ Applied \/ AuditTools \/ Rechecked \/ Reject
  \/ Exit \/ Crash

Spec == Init /\ [][Next]_vars

-----------------------------------------------------------------------------
(* Properties *)

AsTree(s) == [p \in Paths |-> IF Exists(s[p]) THEN s[p] ELSE Missing]
Using == {"write", "check", "tools", "recheck", "exit"}

TypeOK ==
  /\ source \in [Paths -> 0..Deleted] /\ edits \in 0..MaxEdits
  /\ plan \in [Approved -> Contents]
  /\ \A t \in {pinned, base, disk} : t \in Trees \cup {NoTree}
  /\ seen \in Trees
  /\ role \in {"none", "engineer", "validator"}
  /\ pc \in Scans \cup Using \cup {"idle"}
  /\ todo \subseteq Paths /\ failed \in BOOLEAN
  /\ moments \subseteq [Paths -> 0..Deleted]
  /\ still \in [Paths -> 0..Deleted] \cup {NoTree}
  /\ results \subseteq [candidate : Trees, base : Trees, still : [Paths -> 0..Deleted]]

(* A workspace that is handed out copies a state in which the source       *)
(* really was, all files together, while it was made: a scan that an edit  *)
(* overtakes mixes two states, and such a mixture is never the base, not   *)
(* even when the request pinned one.  (IsolatedWorkspace.__init__)         *)
BaseWasTheSource == pc \in Using => \E s \in moments : base = AsTree(s)

(* The Engineer's candidate and every reconstruction of it by the          *)
(* Validator, before or after restarts and edits of the source, are the    *)
(* same tree.  (filesystem_workspace_factory, apply_engineer_file_plan,    *)
(* ModelAgentWorkflowRoles.validator)                                      *)
CandidatesAgree == \A r \in results : r.candidate = Overlay(pinned)

(* Whatever is returned was made while the source stood still: the source  *)
(* was in the copied state when the copy was closed. (__exit__)            *)
SourceHeldStill == \A r \in results : AsTree(r.still) = r.base

(* What is returned changes every approved path, and nothing else.         *)
(* (apply_engineer_file_plan, audit_changes)                               *)
ExactlyThePlan ==
  \A r \in results : {p \in Paths : r.candidate[p] # r.base[p]} = Approved

-----------------------------------------------------------------------------
(* Why they hold: an inductive invariant, in parts *)

(* Files never come back to an earlier content, so what a scan has read is *)
(* no older than the source when it began and no newer than it is now.     *)
ScanIsOrdered ==
  pc \in Scans =>
    /\ still # NoTree
    /\ \A p \in Paths :
         /\ still[p] <= source[p] /\ seen[p] <= source[p]
         /\ Exists(still[p]) => p \in todo \/ (still[p] <= seen[p] /\ Exists(seen[p]))
         /\ ~Exists(still[p]) => p \notin todo /\ seen[p] = Missing

(* The base was read before the scan in progress began, so a scan that     *)
(* reads the same proves that the source was so when it began.             *)
BaseIsOlder ==
  /\ pc \in Using \cup {"confirm"} =>
       base = pinned /\ base \in Trees /\ \A p \in Paths : base[p] <= source[p]
  /\ pc \in {"confirm", "check", "recheck", "exit"} => \A p \in Paths : base[p] <= still[p]
  /\ pc \notin {"idle", "pin"} => source \in moments
  /\ pc = "confirm" => still \in moments

(* The source is pinned once, before any workspace is made.                *)
PinnedOnce ==
  /\ pc = "pin" => pinned = NoTree
  /\ pc \notin {"idle", "pin"} \/ results # {} => pinned # NoTree

(* The copy is the base with the part of the plan that was written; from   *)
(* the audit on, with all of it, unless tools or a failure changed it.     *)
PlanChanges(tree) == \A p \in Approved : plan[p] # tree[p]
CopyIsOfThePlan ==
  /\ pc \in Using \cup {"confirm"} => disk \in Trees
  /\ pc = "confirm" => disk = base
  /\ pc = "write" => /\ todo \subseteq Approved
                     /\ disk = [p \in Paths |-> IF p \in Approved \ todo THEN plan[p] ELSE base[p]]
  /\ pc \in {"check", "recheck"} \/ (pc = "exit" /\ ~failed) => disk = Overlay(base)
  /\ pc \in {"check", "tools", "recheck"} \/ (pc = "exit" /\ ~failed) => PlanChanges(base)

ResultsAreOfThePlan ==
  \A r \in results :
    /\ r.base = pinned /\ r.candidate = Overlay(pinned)
    /\ PlanChanges(r.base) /\ AsTree(r.still) = r.base

Inv ==
  /\ TypeOK /\ ScanIsOrdered /\ BaseIsOlder /\ PinnedOnce /\ BaseWasTheSource
  /\ CopyIsOfThePlan /\ ResultsAreOfThePlan
==============================================================================
