--------------------------- MODULE CandidateExport ---------------------------
(***************************************************************************)
(* Saving a candidate beneath output/ (candidate_export.py, export_        *)
(* candidate of ui/service.py).  The changed files, an archive of the      *)
(* whole project and a receipt are published one after the other, each by  *)
(* a hard link to a private staging file.  The server's lock for the       *)
(* handle admits one export at a time; a crash or an exception may end it  *)
(* anywhere, and the next export finds what it left.                       *)
(***************************************************************************)
EXTENDS Sequences, Integers

CONSTANTS
  Order,       \* candidate paths, as a sequence in their sorted order
  Parent,      \* the directory of each path
  Top,         \* the candidate directory itself
  Exports,     \* what may be asked for: see ExportsAssumption
  Absent       \* no file

Paths == {Order[i] : i \in DOMAIN Order}
Dirs == {Parent[p] : p \in Paths} \cup {Top}

Seal == {"candidate.zip", "export.json"}
Names == Paths \cup Seal

(* The archive is the changed files over the source tree.                  *)
OverlayFiles(e) ==
  [p \in DOMAIN e.files \cup DOMAIN e.base |->
     IF p \in DOMAIN e.files THEN e.files[p] ELSE e.base[p]]

(* Changed files by path, the source tree they are laid over, and the      *)
(* validation disposition. At least one file is changed, and no file has   *)
(* the value Absent.                                                       *)
ExportsAssumption ==
  /\ Order \in Seq(Paths) /\ Paths \cap Seal = {}
  /\ Absent \notin Exports
  /\ \A e \in Exports :
       /\ DOMAIN e = {"files", "base", "disposition"}
       /\ DOMAIN e.files # {} /\ DOMAIN e.files \subseteq Paths
       /\ \A p \in DOMAIN e.files : e.files[p] # Absent
       /\ OverlayFiles(e) # Absent

VARIABLES
  file,        \* what is linked under each name
  doubled,     \* names whose staging file is still linked as well
  dirs,        \* directories beneath and including the candidate directory
  leftover,    \* directories that hold a staging file; "attempt" is the root
  pc,
  export,      \* the export in progress
  left,        \* the names it has yet to publish
  before       \* history: the names published when it was entered

vars == <<file, doubled, dirs, leftover, pc, export, left, before>>
tree == <<file, doubled, dirs, leftover>>

Init ==
  /\ file = [n \in Names |-> Absent]
  /\ doubled = {} /\ dirs = {} /\ leftover = {}
  /\ pc = "idle" /\ export = Absent /\ left = {}
  /\ before = [n \in Names |-> Absent]

-----------------------------------------------------------------------------
(* What an export consists of. *)

(* The receipt binds everything of the export by digest. *)
Content(e, n) ==
  IF n = "candidate.zip" THEN OverlayFiles(e)
  ELSE IF n = "export.json" THEN e ELSE e.files[n]

NamesOf(e) == DOMAIN e.files \cup Seal
DirsOf(e) == {Parent[p] : p \in DOMAIN e.files} \cup {Top}

(* The files come in their order, the archive next, and the receipt last.  *)
First(S) ==
  Order[CHOOSE i \in DOMAIN Order : Order[i] \in S /\ \A k \in 1..(i - 1) : Order[k] \notin S]
Target ==
  IF left \cap Paths # {} THEN First(left \cap Paths)
  ELSE IF "candidate.zip" \in left THEN "candidate.zip" ELSE "export.json"
DirOf(n) == IF n \in Seal THEN "attempt" ELSE Parent[n]
Linked == {n \in Names : file[n] # Absent}

-----------------------------------------------------------------------------
(* The checks. A file is read only if it is its only name.                 *)

Readable(n) == file[n] # Absent /\ n \notin doubled

ScanAccepts(e) ==
  /\ leftover \cap Dirs = {}
  /\ dirs \subseteq DirsOf(e)
  /\ Linked \subseteq NamesOf(e)
  /\ \A p \in Linked \ Seal : Readable(p) /\ file[p] = Content(e, p)

Preflight(e) ==
  /\ \A n \in Seal \cap Linked : Readable(n) /\ file[n] = Content(e, n)
  /\ ScanAccepts(e)

InventoryVerified(e) ==
  ScanAccepts(e) /\ dirs = DirsOf(e) /\ DOMAIN e.files \subseteq Linked

RootVerified(e) ==
  /\ "attempt" \notin leftover
  /\ \A n \in Seal : Readable(n) /\ file[n] = Content(e, n)

-----------------------------------------------------------------------------
(* export_candidate *)

Enter(e) ==
  /\ pc = "idle"
  /\ export' = e /\ left' = NamesOf(e) /\ before' = file
  /\ dirs' = dirs \cup {Top}
  /\ pc' = "preflight"
  /\ UNCHANGED <<file, doubled, leftover>>

CheckPreflight ==
  /\ pc = "preflight"
  /\ pc' = IF Preflight(export) THEN "parent" ELSE "refused"
  /\ UNCHANGED <<tree, export, left, before>>

(* The parents of a candidate file are made before it is looked for. *)
MakeParent ==
  /\ pc = "parent"
  /\ dirs' = IF Target \in Seal THEN dirs ELSE dirs \cup {DirOf(Target)}
  /\ pc' = "look"
  /\ UNCHANGED <<file, doubled, leftover, export, left, before>>

Advance ==
  /\ left' = left \ {Target}
  /\ pc' = IF left' = {} THEN "root" ELSE IF left' = Seal THEN "inventory" ELSE "parent"

Look ==
  /\ pc = "look"
  /\ \/ /\ file[Target] = Absent
        /\ pc' = "link" /\ UNCHANGED left
     \/ /\ Readable(Target) /\ file[Target] = Content(export, Target)
        /\ Advance
     \/ /\ file[Target] # Absent
        /\ ~(Readable(Target) /\ file[Target] = Content(export, Target))
        /\ pc' = "refused" /\ UNCHANGED left
  /\ UNCHANGED <<tree, export, before>>

Link ==
  /\ pc = "link"
  /\ file' = [file EXCEPT ![Target] = Content(export, Target)]
  /\ doubled' = doubled \cup {Target}
  /\ pc' = "unlink"
  /\ UNCHANGED <<dirs, leftover, export, left, before>>

Unlink ==
  /\ pc = "unlink"
  /\ doubled' = doubled \ {Target}
  /\ Advance
  /\ UNCHANGED <<file, dirs, leftover, export, before>>

VerifyInventory ==
  /\ pc = "inventory"
  /\ pc' = IF InventoryVerified(export) THEN "parent" ELSE "refused"
  /\ UNCHANGED <<tree, export, left, before>>

VerifyRoot ==
  /\ pc = "root"
  /\ pc' = IF RootVerified(export) THEN "done" ELSE "refused"
  /\ UNCHANGED <<tree, export, left, before>>

Return ==
  /\ pc \in {"done", "refused"}
  /\ pc' = "idle" /\ export' = Absent /\ left' = {}
  /\ UNCHANGED <<tree, before>>

-----------------------------------------------------------------------------
(* An exception unlinks the staging file, a crash leaves it.               *)

Active == pc \notin {"idle", "done", "refused"}

(* Mutant: an exception takes back what was published. *)
AbortRollsBack ==
  /\ Active
  /\ doubled' = IF pc = "unlink" THEN doubled \ {Target} ELSE doubled
  /\ file' = IF pc = "unlink" THEN [file EXCEPT ![Target] = Absent] ELSE file
  /\ pc' = "idle" /\ export' = Absent /\ left' = {}
  /\ UNCHANGED <<dirs, leftover, before>>

Abort ==
  /\ Active
  /\ doubled' = IF pc = "unlink" THEN doubled \ {Target} ELSE doubled
  /\ pc' = "idle" /\ export' = Absent /\ left' = {}
  /\ UNCHANGED <<file, dirs, leftover, before>>

Crash ==
  /\ pc \in {"link", "unlink"}
  /\ leftover' = leftover \cup {DirOf(Target)}
  /\ pc' = "idle" /\ export' = Absent /\ left' = {}
  /\ UNCHANGED <<file, doubled, dirs, before>>

Program ==
  \/ CheckPreflight \/ MakeParent \/ Look \/ Link \/ Unlink
  \/ VerifyInventory \/ VerifyRoot \/ Return

Next == (\E e \in Exports : Enter(e)) \/ Program \/ Abort \/ Crash
Spec == Init /\ [][Next]_vars

-----------------------------------------------------------------------------
(* Properties *)

TypeOK ==
  /\ DOMAIN file = Names
  /\ doubled \subseteq Linked /\ dirs \subseteq Dirs
  /\ leftover \subseteq Dirs \cup {"attempt"}
  /\ export \in Exports \cup {Absent}
  /\ left \subseteq Names

(* A receipt seals one export: whatever was interrupted before it, and     *)
(* whatever else was asked for since, the candidate directory holds the    *)
(* files it names with their bytes and no others, and the archive beside   *)
(* it is that of the same export. (export_candidate)                       *)
ReceiptSealsTheExport ==
  LET e == file["export.json"] IN
    e # Absent =>
      /\ Linked = NamesOf(e) /\ dirs = DirsOf(e)
      /\ \A n \in Linked : file[n] = Content(e, n)

(* The archive is the changed files over the frozen source: a changed file *)
(* in it has the bytes that are saved beside it. (_overlay_files)          *)
ArchiveCarriesTheCandidate ==
  LET archive == file["candidate.zip"] IN
    archive # Absent =>
      \A p \in Linked \ Seal : p \in DOMAIN archive /\ archive[p] = file[p]

(* What was published once is never replaced or removed.                   *)
(* (_publish_immutable_file)                                               *)
PublishedIsFinal == \A n \in Linked : file'[n] = file[n]

(* An export is refused before it publishes anything, unless a staging     *)
(* file left in the root is found at the very end: the preflight detects   *)
(* every other conflict. (export_candidate)                                *)
RefusedBeforePublishing ==
  pc = "refused" => file = before \/ "attempt" \in leftover

(* Exports are idempotent and resume interrupted ones: one is refused only *)
(* if something else was saved there, or if a crash left a staging file    *)
(* behind. An export that a crash ended in mid-write is thus refused for   *)
(* ever. (export_candidate)                                                *)
RefusedForAReason ==
  pc = "refused" =>
    \/ leftover # {}
    \/ \E n \in Linked : n \notin NamesOf(export) \/ file[n] # Content(export, n)
    \/ ~(dirs \subseteq DirsOf(export))

-----------------------------------------------------------------------------
(* Why they hold *)

(* A receipt is of an export that is all there.                            *)
ReceiptFits ==
  file["export.json"] # Absent =>
    file["export.json"] \in Exports /\ ReceiptSealsTheExport

(* Past its preflight an export extends what there is, and what it has     *)
(* left behind it is there, in its directories.                            *)
ExportFits ==
  /\ leftover \cap Dirs = {} /\ dirs \subseteq DirsOf(export)
  /\ \A n \in Linked : n \in NamesOf(export) /\ file[n] = Content(export, n)
  /\ doubled = IF pc = "unlink" THEN {Target} ELSE {}
  /\ \A n \in NamesOf(export) \ left :
       n \in Linked /\ (n \notin Seal => Parent[n] \in dirs)
  /\ left \subseteq NamesOf(export)
  /\ pc \in {"parent", "look", "link", "unlink"} => left # {}
  /\ pc \in {"look", "link", "unlink"} /\ Target \notin Seal => Parent[Target] \in dirs
  /\ pc = "link" => file[Target] = Absent
  /\ pc = "unlink" => file[Target] # Absent
  /\ pc = "inventory" => left = Seal
  /\ pc = "root" => left = {}

Inv ==
  /\ TypeOK /\ file = [n \in Names |-> file[n]]
  /\ ReceiptFits /\ ArchiveCarriesTheCandidate
  /\ RefusedBeforePublishing /\ RefusedForAReason
  /\ pc \in {"idle", "preflight", "parent", "look", "link", "unlink", "inventory", "root",
             "done", "refused"}
  /\ pc # "idle" => export \in Exports /\ Top \in dirs
  /\ pc \in {"parent", "look", "link", "unlink", "inventory", "root"} => ExportFits
  /\ pc = "preflight" => file = before /\ left = NamesOf(export)
  /\ pc # "unlink" /\ doubled # {} => leftover # {}
=============================================================================
