----------------------------- MODULE FinalReview -----------------------------
(***************************************************************************)
(* The final human review of a completed, ready run (final_review.py,      *)
(* final_review_status.py, ui/service.py).  One request names an           *)
(* independent reviewer and a time window; one decision answers it.  Both  *)
(* are evidence files, closed by a lifecycle index and a runtime anchor.   *)
(*                                                                         *)
(* An operation is entered from the UI server, under the handle's lock, or *)
(* from the command line, under no lock.  It may be cut off before or      *)
(* inside each of its writes, and may run beside another one.              *)
(***************************************************************************)
EXTENDS Integers

CONSTANTS
  Actors,      \* declared human identities
  Callers,     \* operations in progress
  MaxTime,     \* bound: the clock stops here
  Window,      \* the longest review window (MAX_REVIEW_WINDOW)
  Absent       \* no file

TimesAssumption == MaxTime \in Nat /\ Window \in Nat \ {0}

Selections == {"accept", "reject", "request_changes"}

(* The bound artifacts of the run never differ between two requests, so a  *)
(* request is its people and its window.                                   *)
Requests ==
  {[requester |-> people[1], reviewer |-> people[2], at |-> t, expires |-> t + w] :
     people \in {p \in Actors \X Actors : p[1] # p[2]}, t \in 0..MaxTime, w \in 1..Window}
Decisions == [review : Requests, selection : Selections, reviewer : Actors, at : 0..MaxTime]

Kinds == {"requested", "decided"}
Indexes == {"requested_index", "decided_index"}
IndexOf == [requested |-> "requested_index", decided |-> "decided_index"]
Paths == {"request", "decision", "record"} \cup Indexes

(* No file and no anchor has the value Absent. *)
AbsentAssumption ==
  /\ Absent \notin Requests \cup Decisions
  /\ \A index \in SUBSET Paths :
       /\ Absent # index
       /\ \A v \in Requests \cup Decisions : Absent # [index |-> index, evidence |-> v]

VARIABLES
  clock,
  file,        \* the evidence of the review by path; a record holds its decision
  anchor,      \* the runtime anchor of each lifecycle kind
  temporary,   \* a temporary file was left in the evidence tree
  pc, call     \* where each operation is, and its local state

vars == <<clock, file, anchor, temporary, pc, call>>
durable == <<file, anchor, temporary>>

Call(op, via, value, paths) == [op |-> op, via |-> via, value |-> value, paths |-> paths]
Idle == Call("none", "cli", Absent, {})

Init ==
  /\ clock = 0
  /\ file = [p \in Paths |-> Absent]
  /\ anchor = [k \in Kinds |-> Absent]
  /\ temporary = FALSE
  /\ pc = [c \in Callers |-> "idle"]
  /\ call = [c \in Callers |-> Idle]

Goto(c, where) == pc' = [pc EXCEPT ![c] = where]

-----------------------------------------------------------------------------
(* Reading back what is on file.                                           *)

Present == {p \in Paths : file[p] # Absent}
Evidence(kind) == IF kind = "requested" THEN "request" ELSE "record"

(* An index lists the files it was made of; they are write-once, so their  *)
(* names stand for their digests.  An exact check also scans the tree.     *)
LifecycleVerified(kind, exact) ==
  LET index == file[IndexOf[kind]] IN
    /\ index # Absent
    /\ index \subseteq Present
    /\ exact => ~temporary /\ Present \ {IndexOf[kind]} = index
    /\ anchor[kind] = [index |-> index, evidence |-> file[Evidence(kind)]]

ReviewLoads ==
  /\ file["request"] # Absent
  /\ IF anchor["decided"] # Absent
     THEN file["record"] # Absent /\ LifecycleVerified("decided", TRUE)
     ELSE LifecycleVerified("requested", TRUE)

(* The status of the run itself: without an anchored review, its own       *)
(* lifecycle is the complete artifact set.                                 *)
StatusLoads ==
  IF \A k \in Kinds : anchor[k] = Absent
  THEN Present = {} /\ ~temporary
  ELSE anchor["requested"] # Absent /\ ReviewLoads

-----------------------------------------------------------------------------
(* Entering an operation. *)

UiFree == \A c \in Callers : pc[c] # "idle" => call[c].via = "cli"

(* The server takes both times from its own clock.                         *)
EnterRequest(c, via, r) ==
  /\ pc[c] = "idle"
  /\ via = "ui" => UiFree /\ r.at = clock
  /\ r.at <= clock
  /\ call' = [call EXCEPT ![c] = Call("request", via, r, {})]
  /\ Goto(c, "load")
  /\ UNCHANGED <<clock, durable>>

Decision(review, s, a, at) == [review |-> review, selection |-> s, reviewer |-> a, at |-> at]

EnterDecision(c, via, s, a, at) ==
  /\ pc[c] = "idle"
  /\ via = "ui" => UiFree /\ at = clock
  /\ at <= clock
  /\ call' = [call EXCEPT ![c] = Call("decide", via, Decision(Absent, s, a, at), {})]
  /\ Goto(c, IF via = "ui" THEN "load" ELSE "prepare")
  /\ UNCHANGED <<clock, durable>>

(* The command line decides without loading the run's status. *)
Offered(c) ==
  IF call[c].op = "request"
  THEN call[c].via = "ui" => file["request"] = Absent
  ELSE /\ anchor["decided"] = Absent /\ file["request"] # Absent
       /\ file["decision"] = Absent /\ file["record"] = Absent
       /\ file["request"].reviewer = call[c].value.reviewer

LoadStatus(c) ==
  /\ pc[c] = "load"
  /\ Goto(c, IF StatusLoads /\ Offered(c) THEN "prepare" ELSE "refused")
  /\ UNCHANGED <<clock, durable, call>>

-----------------------------------------------------------------------------
(* What is bound: an earlier, interrupted write owns its times.            *)

Bind(c, value) == call' = [call EXCEPT ![c] = Call(@.op, @.via, value, {})]

BoundRequest(r) ==
  IF file["request"] = Absent THEN r
  ELSE [requester |-> r.requester, reviewer |-> r.reviewer,
        at |-> file["request"].at, expires |-> file["request"].expires]

MayRequest(r) ==
  /\ anchor["requested"] = Absent
  /\ file["request"] # Absent =>
       /\ file["request"].requester = r.requester
       /\ file["request"].reviewer = r.reviewer
  /\ file["request"] = Absent => r.expires > clock /\ Present = {} /\ ~temporary

PrepareRequest(c) ==
  /\ pc[c] = "prepare" /\ call[c].op = "request"
  /\ LET r == call[c].value IN
       IF MayRequest(r)
       THEN Goto(c, "evidence") /\ Bind(c, BoundRequest(r))
       ELSE Goto(c, "refused") /\ UNCHANGED call
  /\ UNCHANGED <<clock, durable>>

BoundDecision(d) ==
  Decision(file["request"], d.selection, d.reviewer,
           IF file["decision"] = Absent THEN d.at ELSE file["decision"].at)

Expired(r, d) == d.at > r.expires \/ clock > r.expires

MayDecide(d) ==
  LET r == file["request"] IN
    /\ anchor["decided"] = Absent
    /\ file["record"] # Absent => file["decision"] # Absent
    /\ file["decision"] # Absent =>
         /\ file["decision"].selection = d.selection
         /\ file["decision"].reviewer = d.reviewer
    /\ r # Absent
    /\ LifecycleVerified("requested", FALSE)
    /\ BoundDecision(d).at >= r.at
    /\ d.selection = "accept" => ~Expired(r, BoundDecision(d))
    /\ d.reviewer = r.reviewer /\ d.reviewer # r.requester

PrepareDecision(c) ==
  /\ pc[c] = "prepare" /\ call[c].op = "decide"
  /\ LET d == call[c].value IN
       IF MayDecide(d)
       THEN Goto(c, "evidence") /\ Bind(c, BoundDecision(d))
       ELSE Goto(c, "refused") /\ UNCHANGED call
  /\ UNCHANGED <<clock, durable>>

-----------------------------------------------------------------------------
(* The writes. *)

Kind(c) == IF call[c].op = "request" THEN "requested" ELSE "decided"

(* write_json: the first bytes stay, and only equal ones are accepted.     *)
StoreJson(c, path, value, next) ==
  /\ file' = [file EXCEPT ![path] = IF @ = Absent THEN value ELSE @]
  /\ Goto(c, IF file[path] \in {Absent, value} THEN next ELSE "refused")

WriteEvidence(c) ==
  /\ pc[c] = "evidence"
  /\ IF call[c].op = "request"
     THEN StoreJson(c, "request", call[c].value, "scan")
     ELSE StoreJson(c, "decision", call[c].value, "record")
  /\ UNCHANGED <<clock, anchor, temporary, call>>

WriteRecord(c) ==
  /\ pc[c] = "record"
  /\ StoreJson(c, "record", call[c].value, "scan")
  /\ UNCHANGED <<clock, anchor, temporary, call>>

(* write_index: the tree is scanned, then its inventory is published.      *)
ScanEvidence(c) ==
  /\ pc[c] = "scan"
  /\ IF temporary THEN Goto(c, "refused") /\ UNCHANGED call
     ELSE /\ call' = [call EXCEPT ![c] = Call(@.op, @.via, @.value, Present \ {IndexOf[Kind(c)]})]
          /\ Goto(c, "index")
  /\ UNCHANGED <<clock, durable>>

WriteIndex(c) ==
  /\ pc[c] = "index"
  /\ StoreJson(c, IndexOf[Kind(c)], call[c].paths, "anchor")
  /\ UNCHANGED <<clock, anchor, temporary, call>>

BindAnchor(c) ==
  /\ pc[c] = "anchor"
  /\ LET k == Kind(c)
         expected == [index |-> file[IndexOf[k]], evidence |-> call[c].value]
     IN /\ anchor' = [anchor EXCEPT ![k] = IF @ = Absent THEN expected ELSE @]
        /\ Goto(c, IF anchor[k] \in {Absent, expected} THEN "verify" ELSE "refused")
  /\ UNCHANGED <<clock, file, temporary, call>>

VerifyClosed(c) ==
  /\ pc[c] = "verify"
  /\ Goto(c, IF LifecycleVerified(Kind(c), TRUE) THEN "done" ELSE "refused")
  /\ UNCHANGED <<clock, durable, call>>

(* The operation has returned, with its result or an error. *)
Return(c) ==
  /\ pc[c] \in {"done", "refused"}
  /\ Goto(c, "idle")
  /\ call' = [call EXCEPT ![c] = Idle]
  /\ UNCHANGED <<clock, durable>>

-----------------------------------------------------------------------------
(* An exception or a crash ends an operation anywhere.  A crash inside     *)
(* write_json leaves the temporary file, before or after the link.         *)

Writing(c) == pc[c] \in {"evidence", "record", "index"}
WrittenPath(c) ==
  IF pc[c] = "index" THEN IndexOf[Kind(c)]
  ELSE IF pc[c] = "record" THEN "record"
  ELSE IF call[c].op = "request" THEN "request" ELSE "decision"
WrittenValue(c) == IF pc[c] = "index" THEN call[c].paths ELSE call[c].value

End(c) == Goto(c, "idle") /\ call' = [call EXCEPT ![c] = Idle]

Abort(c) ==
  /\ pc[c] \notin {"idle", "done", "refused"}
  /\ End(c)
  /\ UNCHANGED <<clock, durable>>

Crash(c) ==
  /\ Writing(c) /\ file[WrittenPath(c)] = Absent
  /\ End(c)
  /\ temporary' = TRUE
  /\ \/ UNCHANGED file
     \/ file' = [file EXCEPT ![WrittenPath(c)] = WrittenValue(c)]
  /\ UNCHANGED <<clock, anchor>>

Tick ==
  /\ clock < MaxTime
  /\ clock' = clock + 1
  /\ UNCHANGED <<durable, pc, call>>

Enter(c) ==
  \E via \in {"ui", "cli"} :
    \/ \E r \in Requests : EnterRequest(c, via, r)
    \/ \E s \in Selections, a \in Actors, at \in 0..MaxTime : EnterDecision(c, via, s, a, at)

Program(c) ==
  \/ LoadStatus(c) \/ PrepareRequest(c) \/ PrepareDecision(c)
  \/ WriteEvidence(c) \/ WriteRecord(c) \/ ScanEvidence(c) \/ WriteIndex(c)
  \/ BindAnchor(c) \/ VerifyClosed(c) \/ Return(c)

Fault(c) == Abort(c) \/ Crash(c)

Next == Tick \/ \E c \in Callers : Enter(c) \/ Program(c) \/ Fault(c)
Spec == Init /\ [][Next]_vars

-----------------------------------------------------------------------------
(* Properties *)

TypeOK ==
  /\ clock \in 0..MaxTime
  /\ file["request"] \in Requests \cup {Absent}
  /\ \A p \in {"decision", "record"} : file[p] \in Decisions \cup {Absent}
  /\ \A p \in Indexes : file[p] = Absent \/ file[p] \subseteq Paths
  /\ temporary \in BOOLEAN

(* However operations of the server and of the command line interleave and *)
(* are cut off, no evidence file and no anchor is ever replaced.           *)
(* (write_json, bind_runtime_anchor)                                       *)
EvidenceIsFinal ==
  /\ \A p \in Paths : file[p] # Absent => file'[p] = file[p]
  /\ \A k \in Kinds : anchor[k] # Absent => anchor'[k] = anchor[k]

(* A decision answers the one request on file, which was closed before it, *)
(* by its designated and independent reviewer; it accepts only within the  *)
(* window that request opened, even when an interrupted decision is        *)
(* resumed by another operation. (decide_final_review)                     *)
DecisionAnswersTheRequest ==
  LET d == file["decision"] IN
    d # Absent =>
      /\ d.review = file["request"] /\ anchor["requested"] # Absent
      /\ d.reviewer = d.review.reviewer /\ d.reviewer # d.review.requester
      /\ d.at >= d.review.at
      /\ d.selection = "accept" => d.at <= d.review.expires

(* A closed review is complete: the anchor binds the decision on file, its *)
(* record says the same, and the inventory covers every file of the        *)
(* review. (freeze_final_review_lifecycle)                                 *)
ClosedReviewIsComplete ==
  anchor["decided"] # Absent =>
    /\ file["decision"] # Absent /\ file["record"] = file["decision"]
    /\ anchor["decided"].evidence = file["decision"]
    /\ anchor["decided"].index = Paths \ {"decided_index"}

(* Where an operation was cut off after its first write and before its     *)
(* anchor, or inside a write.                                              *)
CutOff ==
  \/ temporary
  \/ Present # {} /\ anchor["requested"] = Absent
  \/ file["decision"] # Absent /\ anchor["decided"] = Absent

(* The status of the run loads exactly when no operation is, or was left,  *)
(* between its first write and its anchor; operations that lost a race     *)
(* leave no trace that a later load refuses. (_verify_latest_operation_    *)
(* evidence, read_final_review_status)                                     *)
StatusLoadsUnlessCutOff == StatusLoads <=> ~CutOff

-----------------------------------------------------------------------------
(* Liveness: operations run to their end, the clock stands, faults stop,   *)
(* and a reviewer keeps repeating an interrupted decision on the command   *)
(* line.                                                                   *)

Resubmit(c) ==
  /\ file["decision"] # Absent
  /\ EnterDecision(c, "cli", file["decision"].selection, file["decision"].reviewer, clock)

Fairness ==
  /\ \A c \in Callers : WF_vars(Program(c)) /\ SF_vars(Resubmit(c))
  /\ <>[][\A c \in Callers : ~Fault(c)]_vars
FairSpec == Spec /\ Fairness

(* What repeating an interrupted decision leads to, unless a temporary     *)
(* file was left behind or it accepts a review that has expired since.     *)
(* (decide_final_review)                                                   *)
Begun == file["decision"] # Absent
Closed ==
  \/ anchor["decided"] # Absent
  \/ temporary
  \/ /\ file["decision"] # Absent /\ file["decision"].selection = "accept"
     /\ clock > file["decision"].review.expires

-----------------------------------------------------------------------------
(* Why they hold *)

Everything == Paths \ {"decided_index"}

(* A decision that may be on file.                                         *)
Answers(d) ==
  /\ d \in Decisions /\ d.review = file["request"] /\ anchor["requested"] # Absent
  /\ d.reviewer = d.review.reviewer /\ d.reviewer # d.review.requester
  /\ d.at >= d.review.at
  /\ d.selection = "accept" => d.at <= d.review.expires

(* The files and anchors appear in one order, and all but the request and  *)
(* the decision are what the earlier ones make them.                       *)
FilesFit ==
  /\ file = [p \in Paths |-> file[p]] /\ anchor = [k \in Kinds |-> anchor[k]]
  /\ file["requested_index"] # Absent =>
       file["request"] # Absent /\ file["requested_index"] = {"request"}
  /\ anchor["requested"] # Absent =>
       /\ file["requested_index"] # Absent
       /\ anchor["requested"] = [index |-> {"request"}, evidence |-> file["request"]]
  /\ file["decision"] # Absent => Answers(file["decision"])
  /\ file["record"] # Absent => file["record"] = file["decision"]
  /\ file["decided_index"] # Absent =>
       file["record"] # Absent /\ file["decided_index"] = Everything
  /\ anchor["decided"] # Absent =>
       /\ file["decided_index"] # Absent
       /\ anchor["decided"] = [index |-> Everything, evidence |-> file["decision"]]

(* What an operation knows that has come so far.                           *)
RequestFits(c) ==
  /\ call[c].value \in Requests
  /\ pc[c] # "record"
  /\ pc[c] \in {"scan", "index", "anchor", "verify"} => file["request"] = call[c].value
  /\ pc[c] = "index" =>
       /\ call[c].paths \subseteq Paths
       /\ file["requested_index"] = Absent => call[c].paths = {"request"}
  /\ pc[c] \in {"anchor", "verify"} => file["requested_index"] # Absent

DecisionFits(c) ==
  /\ pc[c] \in {"load", "prepare", "refused"} =>
       /\ call[c].value.selection \in Selections /\ call[c].value.reviewer \in Actors
       /\ call[c].value.at \in 0..MaxTime
  /\ pc[c] \in {"evidence", "record", "scan", "index", "anchor", "verify"} =>
       Answers(call[c].value)
  /\ pc[c] \in {"record", "scan", "index", "anchor", "verify"} =>
       file["decision"] = call[c].value
  /\ pc[c] \in {"scan", "index", "anchor", "verify"} => file["record"] = call[c].value
  /\ pc[c] = "index" => call[c].paths = Everything
  /\ pc[c] \in {"anchor", "verify"} => file["decided_index"] # Absent

CallFits(c) ==
  /\ pc[c] \in {"idle", "load", "prepare", "evidence", "record", "scan", "index", "anchor",
                "verify", "done", "refused"}
  /\ pc[c] # "idle" => call[c].op \in {"request", "decide"}
  /\ pc[c] # "idle" /\ call[c].op = "request" => RequestFits(c)
  /\ pc[c] # "idle" /\ call[c].op = "decide" => DecisionFits(c)

Inv ==
  /\ TypeOK /\ FilesFit
  /\ pc = [c \in Callers |-> pc[c]] /\ call = [c \in Callers |-> call[c]]
  /\ \A c \in Callers : CallFits(c)
=============================================================================
