--------------------------- MODULE Outcome_proofs ---------------------------
(***************************************************************************)
(* What comes of a run, for any number of people, operations, files and    *)
(* exports.  The review and the export share no state, so each has its own *)
(* invariant:                                                              *)
(*                                                                         *)
(*   review    the request, its inventory and its anchor, the decision, its *)
(*             record, its inventory and its anchor appear in this order,  *)
(*             all but the two answers are what the earlier ones make      *)
(*             them, and every operation knows what is on file before it;  *)
(*   export    past its preflight an export extends what there is: every   *)
(*             name that is linked is one of its names with its content,   *)
(*             and of its names those are linked that it has behind it.    *)
(***************************************************************************)
EXTENDS MCOutcome, WellFoundedInduction, TLAPS

-----------------------------------------------------------------------------
(* The final review.                                                        *)

ReviewAssumption == Review!TimesAssumption /\ Review!AbsentAssumption

(* The names of the evidence. *)
LEMMA PathsAre ==
  /\ Review!Paths = {"request", "decision", "record", "requested_index", "decided_index"}
  /\ Review!Indexes = {"requested_index", "decided_index"}
  /\ Review!Everything = {"request", "decision", "record", "requested_index"}
  /\ Review!Kinds = {"requested", "decided"}
  /\ Review!IndexOf["requested"] = "requested_index"
  /\ Review!IndexOf["decided"] = "decided_index"
  BY DEF Review!Paths, Review!Indexes, Review!Everything, Review!Kinds, Review!IndexOf

(* Nothing that is written is Absent. *)
LEMMA WrittenIsThere ==
  ASSUME ReviewAssumption
  PROVE  /\ \A v \in Review!Requests \cup Review!Decisions : v # Absent
         /\ \A index \in SUBSET Review!Paths : index # Absent
         /\ \A index \in SUBSET Review!Paths, v \in Review!Requests \cup Review!Decisions :
                [index |-> index, evidence |-> v] # Absent
  BY DEF ReviewAssumption, Review!AbsentAssumption

(* A request is its people and its window. *)
LEMMA RequestIs ==
  ASSUME NEW r \in Review!Requests
  PROVE  /\ r = [requester |-> r.requester, reviewer |-> r.reviewer,
                 at |-> r.at, expires |-> r.expires]
         /\ r.requester \in Actors /\ r.reviewer \in Actors
         /\ r.requester # r.reviewer
  BY DEF Review!Requests

(* What is on file or anchored stays. *)
Grows ==
  /\ \A p \in Review!Paths : v2[p] # Absent => v2'[p] = v2[p]
  /\ \A k \in Review!Kinds : v3[k] # Absent => v3'[k] = v3[k]

(* A decision that answers the request answers it for good. *)
LEMMA AnswersStay ==
  ASSUME ReviewAssumption, Review!FilesFit, Grows, NEW d, Review!Answers(d)
  PROVE  d \in Review!Decisions /\ d.review = v2'["request"] /\ v3'["requested"] # Absent
         /\ d.reviewer = d.review.reviewer /\ d.reviewer # d.review.requester
         /\ d.at >= d.review.at
         /\ (d.selection = "accept" => d.at <= d.review.expires)
         /\ Review!Answers(d)'
<1>1. v3["requested"] # Absent /\ v2["request"] # Absent
  BY DEF Review!Answers, Review!FilesFit
<1>2. v3'["requested"] = v3["requested"] /\ v2'["request"] = v2["request"]
  BY <1>1, PathsAre DEF Grows
<1> QED BY <1>1, <1>2 DEF Review!Answers

(* What an operation knows it knows until it moves: of a request, *)
LEMMA RequestStays ==
  ASSUME ReviewAssumption, Review!FilesFit, Grows, NEW c, Review!RequestFits(c),
         v5'[c] = v5[c], v6'[c] = v6[c]
  PROVE  Review!RequestFits(c)'
<1>1. \A p \in Review!Paths : v2[p] # Absent => v2'[p] = v2[p]
  BY DEF Grows
<1>2. v6[c].value # Absent
  BY WrittenIsThere DEF Review!RequestFits
<1> QED BY <1>1, <1>2, PathsAre DEF Review!RequestFits

(* of a decision, *)
LEMMA DecisionStays ==
  ASSUME ReviewAssumption, Review!FilesFit, Grows, NEW c, Review!DecisionFits(c),
         v5'[c] = v5[c], v6'[c] = v6[c]
  PROVE  Review!DecisionFits(c)'
<1>1. \A p \in Review!Paths : v2[p] # Absent => v2'[p] = v2[p]
  BY DEF Grows
<1>2. v5[c] \in {"evidence", "record", "scan", "index", "anchor", "verify"} =>
          /\ Review!Answers(v6[c].value) /\ v6[c].value # Absent
  BY WrittenIsThere DEF Review!DecisionFits, Review!Answers
<1>3. PICK d : d = v6[c].value
  OBVIOUS
<1>4. v5[c] \in {"evidence", "record", "scan", "index", "anchor", "verify"} =>
          Review!Answers(d)'
  BY <1>2, <1>3, AnswersStay
<1>5. v5[c] \in {"evidence", "record", "scan", "index", "anchor", "verify"} =>
          Review!Answers(v6[c].value)'
  BY <1>3, <1>4 DEF Review!Answers
<1> QED BY <1>1, <1>2, <1>5, PathsAre DEF Review!DecisionFits

(* and of either. *)
LEMMA CallStays ==
  ASSUME ReviewAssumption, Review!FilesFit, Grows, NEW c, Review!CallFits(c),
         v5'[c] = v5[c], v6'[c] = v6[c]
  PROVE  Review!CallFits(c)'
<1>1. v5[c] # "idle" /\ v6[c].op = "request" => Review!RequestFits(c)'
  BY RequestStays DEF Review!CallFits
<1>2. v5[c] # "idle" /\ v6[c].op = "decide" => Review!DecisionFits(c)'
  BY DecisionStays DEF Review!CallFits
<1> QED BY <1>1, <1>2 DEF Review!CallFits

(* One operation moves. *)
Moves(c) ==
  /\ v5' = [x \in Callers |-> IF x = c THEN v5'[c] ELSE v5[x]]
  /\ v6' = [x \in Callers |-> IF x = c THEN v6'[c] ELSE v6[x]]

(* Where an operation that moved is, and what it holds. *)
LEMMA GotoIs ==
  ASSUME Review!Inv, NEW c \in Callers, NEW where, Review!Goto(c, where)
  PROVE  /\ v5'[c] = where
         /\ v5' = [x \in Callers |-> IF x = c THEN v5'[c] ELSE v5[x]]
<1>1. v5 = [x \in Callers |-> v5[x]]
  BY DEF Review!Inv
<1>2. v5' = [v5 EXCEPT ![c] = where]
  BY DEF Review!Goto
<1> QED BY <1>1, <1>2

(* It may hold something else, *)
LEMMA CallIs ==
  ASSUME Review!Inv, NEW c \in Callers, NEW value, v6' = [v6 EXCEPT ![c] = value]
  PROVE  /\ v6'[c] = value
         /\ v6' = [x \in Callers |-> IF x = c THEN v6'[c] ELSE v6[x]]
<1>1. v6 = [x \in Callers |-> v6[x]]
  BY DEF Review!Inv
<1> QED BY <1>1

(* or the same. *)
LEMMA CallSame ==
  ASSUME Review!Inv, NEW c \in Callers, UNCHANGED v6
  PROVE  /\ v6'[c] = v6[c]
         /\ v6' = [x \in Callers |-> IF x = c THEN v6'[c] ELSE v6[x]]
<1>1. v6 = [x \in Callers |-> v6[x]]
  BY DEF Review!Inv
<1> QED BY <1>1

(* The fields of what it holds. *)
LEMMA FieldsOf ==
  ASSUME NEW op, NEW via, NEW value, NEW paths
  PROVE  LET r == Review!Call(op, via, value, paths)
         IN  r.op = op /\ r.via = via /\ r.value = value /\ r.paths = paths
  BY DEF Review!Call

(* The invariant is kept when the files fit, and what the operation that    *)
(* moved knows.                                                             *)
LEMMA ReviewMoves ==
  ASSUME ReviewAssumption, Review!Inv, Grows, NEW c \in Callers, Moves(c),
         Review!TypeOK', Review!FilesFit', Review!CallFits(c)'
  PROVE  Review!Inv'
<1>1. ASSUME NEW x \in Callers PROVE Review!CallFits(x)'
  <2>1. CASE x = c
    BY <2>1
  <2>2. CASE x # c
    <3>1. v5'[x] = v5[x] /\ v6'[x] = v6[x]
      BY <2>2 DEF Moves
    <3> QED BY <3>1, CallStays DEF Review!Inv
  <2> QED BY <2>1, <2>2
<1>2. v5' = [x \in Callers |-> v5'[x]] /\ v6' = [x \in Callers |-> v6'[x]]
  BY DEF Moves
<1> QED BY <1>1, <1>2 DEF Review!Inv

(* Steps that change no file leave them as they fit. *)
LEMMA FilesSame ==
  ASSUME Review!Inv, UNCHANGED <<v2, v3, v4>>, v1' \in 0 .. MaxTime
  PROVE  Review!TypeOK' /\ Review!FilesFit' /\ Grows
<1>1. \A d : Review!Answers(d)' <=> Review!Answers(d)
  BY DEF Review!Answers
<1> QED BY <1>1 DEF Review!Inv, Review!TypeOK, Review!FilesFit, Grows

(* The clock changes nothing. *)
LEMMA TickStep == ASSUME ReviewAssumption, Review!Inv, Review!Tick PROVE Review!Inv'
<1>1. UNCHANGED <<v2, v3, v4, v5, v6>> /\ v1' \in 0 .. MaxTime
  BY DEF Review!Tick, Review!durable, Review!Inv, Review!TypeOK, ReviewAssumption,
     Review!TimesAssumption
<1>2. Review!TypeOK' /\ Review!FilesFit' /\ Grows
  BY <1>1, FilesSame
<1>3. \A x \in Callers : Review!CallFits(x)'
  BY <1>1, <1>2, CallStays DEF Review!Inv
<1>4. v5' = [x \in Callers |-> v5'[x]] /\ v6' = [x \in Callers |-> v6'[x]]
  BY <1>1 DEF Review!Inv
<1> QED BY <1>2, <1>3, <1>4 DEF Review!Inv

(* Steps that change no file: the operation that moves knows what it should. *)
LEMMA ReviewLooks ==
  ASSUME ReviewAssumption, Review!Inv, UNCHANGED <<v1, v2, v3, v4>>, NEW c \in Callers, Moves(c),
         Review!CallFits(c)'
  PROVE  Review!Inv' /\ Grows
<1>1. v1' \in 0 .. MaxTime
  BY DEF Review!Inv, Review!TypeOK
<1>2. Review!TypeOK' /\ Review!FilesFit' /\ Grows
  BY <1>1, FilesSame
<1> QED BY <1>2, ReviewMoves

(* An operation that ended knows nothing. *)
LEMMA IdleFits ==
  ASSUME NEW c, v5'[c] = "idle"
  PROVE  Review!CallFits(c)'
  BY DEF Review!CallFits

(* An operation that is entered knows what it was asked. *)
LEMMA EnterStep ==
  ASSUME ReviewAssumption, Review!Inv, NEW c \in Callers, Review!Enter(c)
  PROVE  Review!Inv' /\ Grows
<1>1. PICK via \in {"ui", "cli"} :
        \/ \E r \in Review!Requests : Review!EnterRequest(c, via, r)
        \/ \E s \in Review!Selections, a \in Actors, at \in 0 .. MaxTime :
             Review!EnterDecision(c, via, s, a, at)
  BY DEF Review!Enter
<1>2. ASSUME NEW r \in Review!Requests, Review!EnterRequest(c, via, r)
      PROVE  Review!Inv' /\ Grows
  <2>1. /\ Review!Goto(c, "load") /\ v6' = [v6 EXCEPT ![c] = Review!Call("request", via, r, {})]
        /\ UNCHANGED <<v1, v2, v3, v4>>
    BY <1>2 DEF Review!EnterRequest, Review!durable
  <2>2. v5'[c] = "load" /\ v6'[c] = Review!Call("request", via, r, {}) /\ Moves(c)
    BY <2>1, GotoIs, CallIs DEF Moves
  <2>3. v6'[c].op = "request" /\ v6'[c].value = r
    BY <2>2, FieldsOf
  <2>4. Review!Requests' = Review!Requests
    BY DEF Review!Requests
  <2>5. Review!CallFits(c)'
    BY <2>2, <2>3, <2>4 DEF Review!CallFits, Review!RequestFits
  <2> QED BY <2>1, <2>2, <2>5, ReviewLooks
<1>3. ASSUME NEW s \in Review!Selections, NEW a \in Actors, NEW at \in 0 .. MaxTime,
             Review!EnterDecision(c, via, s, a, at)
      PROVE  Review!Inv' /\ Grows
  <2> DEFINE d == Review!Decision(Absent, s, a, at)
  <2>1. /\ Review!Goto(c, IF via = "ui" THEN "load" ELSE "prepare")
        /\ v6' = [v6 EXCEPT ![c] = Review!Call("decide", via, d, {})]
        /\ UNCHANGED <<v1, v2, v3, v4>>
    BY <1>3 DEF Review!EnterDecision, Review!durable
  <2>2. /\ v5'[c] \in {"load", "prepare"} /\ v6'[c] = Review!Call("decide", via, d, {})
        /\ Moves(c)
    BY <2>1, GotoIs, CallIs DEF Moves
  <2>3. v6'[c].op = "decide" /\ v6'[c].value = d
    BY <2>2, FieldsOf
  <2>4. d.selection = s /\ d.reviewer = a /\ d.at = at
    BY DEF Review!Decision
  <2>5. Review!DecisionFits(c)'
    BY <2>2, <2>3, <2>4 DEF Review!DecisionFits, Review!Selections
  <2>6. Review!CallFits(c)'
    BY <2>2, <2>3, <2>5 DEF Review!CallFits
  <2> QED BY <2>1, <2>2, <2>6, ReviewLooks
<1> QED BY <1>1, <1>2, <1>3

(* An operation that is refused, or done, knows no more than before. *)
LEMMA Refused ==
  ASSUME ReviewAssumption, Review!Inv, NEW c \in Callers, UNCHANGED <<v1, v2, v3, v4, v6>>,
         v5[c] \in {"load", "prepare", "scan", "verify"}, NEW where \in {"refused", "done", "prepare"},
         where = "done" => v5[c] = "verify", where = "prepare" => v5[c] = "load",
         Review!Goto(c, where)
  PROVE  Review!Inv' /\ Grows
<1>1. v5'[c] = where /\ v6'[c] = v6[c] /\ Moves(c)
  BY GotoIs, CallSame DEF Moves
<1>2. Review!CallFits(c)
  BY DEF Review!Inv
<1>3. Review!RequestFits(c) => Review!RequestFits(c)'
  <2>1. Review!Requests' = Review!Requests
    BY DEF Review!Requests
  <2> QED BY <1>1, <2>1 DEF Review!RequestFits
<1>4. Review!DecisionFits(c) => Review!DecisionFits(c)'
  <2>1. v5[c] \in {"scan", "verify"} /\ Review!DecisionFits(c) =>
          /\ v6[c].value.selection \in Review!Selections
          /\ v6[c].value.reviewer \in Actors /\ v6[c].value.at \in 0 .. MaxTime
    BY DEF Review!DecisionFits, Review!Answers, Review!Decisions
  <2> QED BY <1>1, <2>1 DEF Review!DecisionFits, Review!Selections
<1>5. Review!CallFits(c)'
  BY <1>1, <1>2, <1>3, <1>4 DEF Review!CallFits
<1> QED BY <1>1, <1>5, ReviewLooks

(* The status is loaded, or refused. *)
LEMMA LoadStep ==
  ASSUME ReviewAssumption, Review!Inv, NEW c \in Callers, Review!LoadStatus(c)
  PROVE  Review!Inv' /\ Grows
<1>1. PICK where \in {"prepare", "refused"} : Review!Goto(c, where)
  BY DEF Review!LoadStatus
<1> QED BY <1>1, Refused DEF Review!LoadStatus, Review!durable

(* An operation that returns or is aborted leaves what it wrote. *)
LEMMA ReturnStep ==
  ASSUME ReviewAssumption, Review!Inv, NEW c \in Callers, Review!Return(c) \/ Review!Abort(c)
  PROVE  Review!Inv' /\ Grows
<1>1. /\ Review!Goto(c, "idle") /\ v6' = [v6 EXCEPT ![c] = Review!Idle]
      /\ UNCHANGED <<v1, v2, v3, v4>>
  BY DEF Review!Return, Review!Abort, Review!End, Review!durable
<1>2. v5'[c] = "idle" /\ Moves(c)
  BY <1>1, GotoIs, CallIs DEF Moves
<1> QED BY <1>1, <1>2, IdleFits, ReviewLooks

(* The request that is bound is one that could have been made. *)
LEMMA BoundIsRequest ==
  ASSUME NEW r \in Review!Requests, Review!TypeOK, Review!MayRequest(r)
  PROVE  Review!BoundRequest(r) \in Review!Requests
<1>1. CASE v2["request"] = Absent
  BY <1>1 DEF Review!BoundRequest
<1>2. CASE v2["request"] # Absent
  <2>1. /\ v2["request"] \in Review!Requests
        /\ v2["request"].requester = r.requester /\ v2["request"].reviewer = r.reviewer
    BY <1>2 DEF Review!TypeOK, Review!MayRequest
  <2>2. v2["request"] = [requester |-> v2["request"].requester, reviewer |-> v2["request"].reviewer,
                         at |-> v2["request"].at, expires |-> v2["request"].expires]
    BY <2>1, RequestIs
  <2> QED BY <1>2, <2>1, <2>2 DEF Review!BoundRequest
<1> QED BY <1>1, <1>2

(* A request is bound, or refused. *)
LEMMA PrepareRequestStep ==
  ASSUME ReviewAssumption, Review!Inv, NEW c \in Callers, Review!PrepareRequest(c)
  PROVE  Review!Inv' /\ Grows
<1>1. v5[c] = "prepare" /\ v6[c].op = "request" /\ UNCHANGED <<v1, v2, v3, v4>>
  BY DEF Review!PrepareRequest, Review!durable
<1>2. PICK r \in Review!Requests : r = v6[c].value
  BY <1>1 DEF Review!Inv, Review!CallFits, Review!RequestFits
<1>3. CASE Review!MayRequest(r)
  <2>1. PICK b \in Review!Requests : b = Review!BoundRequest(r)
    BY <1>3, BoundIsRequest DEF Review!Inv
  <2>2. /\ Review!Goto(c, "evidence")
        /\ v6' = [v6 EXCEPT ![c] = Review!Call(v6[c].op, v6[c].via, b, {})]
    BY <1>2, <1>3, <2>1 DEF Review!PrepareRequest, Review!Bind, Review!Inv
  <2>3. /\ v5'[c] = "evidence" /\ Moves(c)
        /\ v6'[c] = Review!Call(v6[c].op, v6[c].via, b, {})
    BY <2>2, GotoIs, CallIs DEF Moves
  <2>4. v6'[c].op = "request" /\ v6'[c].value = b
    BY <1>1, <2>3, FieldsOf
  <2>5. Review!Requests' = Review!Requests
    BY DEF Review!Requests
  <2>6. Review!CallFits(c)'
    BY <2>3, <2>4, <2>5 DEF Review!CallFits, Review!RequestFits
  <2> QED BY <1>1, <2>3, <2>6, ReviewLooks
<1>4. CASE ~ Review!MayRequest(r)
  <2>1. Review!Goto(c, "refused") /\ UNCHANGED v6
    BY <1>2, <1>4 DEF Review!PrepareRequest
  <2> QED BY <1>1, <2>1, Refused
<1> QED BY <1>3, <1>4

(* The decision that is bound answers the request on file. *)
LEMMA BoundAnswers ==
  ASSUME ReviewAssumption, Review!Inv, NEW d, Review!MayDecide(d),
         d.selection \in Review!Selections, d.reviewer \in Actors, d.at \in 0 .. MaxTime
  PROVE  Review!Answers(Review!BoundDecision(d))
<1>1. /\ v2["request"] # Absent /\ v2["request"] \in Review!Requests
      /\ Review!LifecycleVerified("requested", FALSE)
  BY DEF Review!MayDecide, Review!Inv, Review!TypeOK
<1>2. v3["requested"] # Absent
  <2>1. /\ v2["requested_index"] # Absent
        /\ v3["requested"] = [index |-> v2["requested_index"], evidence |-> v2["request"]]
    BY <1>1, PathsAre DEF Review!LifecycleVerified, Review!Evidence
  <2>2. v2["requested_index"] \in SUBSET Review!Paths
    BY <2>1, PathsAre DEF Review!Inv, Review!TypeOK
  <2> QED BY <1>1, <2>1, <2>2, WrittenIsThere
<1>3. PICK at \in 0 .. MaxTime : at = IF v2["decision"] = Absent THEN d.at ELSE v2["decision"].at
  BY DEF Review!Inv, Review!TypeOK, Review!Decisions
<1>4. Review!BoundDecision(d) = Review!Decision(v2["request"], d.selection, d.reviewer, at)
  BY <1>3 DEF Review!BoundDecision
<1>5. PICK b : b = Review!BoundDecision(d)
  OBVIOUS
<1>6. b = [review |-> v2["request"], selection |-> d.selection, reviewer |-> d.reviewer, at |-> at]
  BY <1>4, <1>5 DEF Review!Decision
<1>7. /\ b \in Review!Decisions /\ b.review = v2["request"] /\ b.selection = d.selection
      /\ b.reviewer = d.reviewer /\ b.at = at
  BY <1>1, <1>6 DEF Review!Decisions
<1>8. /\ at >= v2["request"].at
      /\ d.selection = "accept" => ~ (at > v2["request"].expires)
      /\ d.reviewer = v2["request"].reviewer /\ d.reviewer # v2["request"].requester
  BY <1>4, <1>5, <1>7 DEF Review!MayDecide, Review!Expired
<1>9. v2["request"].expires \in Int
  BY <1>1 DEF Review!Requests, ReviewAssumption, Review!TimesAssumption
<1>10. d.selection = "accept" => at <= v2["request"].expires
  BY <1>3, <1>8, <1>9 DEF ReviewAssumption, Review!TimesAssumption
<1>11. Review!Answers(b)
  BY <1>2, <1>7, <1>8, <1>10 DEF Review!Answers
<1> QED BY <1>5, <1>11

(* A decision is bound, or refused. *)
LEMMA PrepareDecisionStep ==
  ASSUME ReviewAssumption, Review!Inv, NEW c \in Callers, Review!PrepareDecision(c)
  PROVE  Review!Inv' /\ Grows
<1>1. v5[c] = "prepare" /\ v6[c].op = "decide" /\ UNCHANGED <<v1, v2, v3, v4>>
  BY DEF Review!PrepareDecision, Review!durable
<1>2. PICK d : d = v6[c].value
  OBVIOUS
<1>3. d.selection \in Review!Selections /\ d.reviewer \in Actors /\ d.at \in 0 .. MaxTime
  BY <1>1, <1>2 DEF Review!Inv, Review!CallFits, Review!DecisionFits
<1>4. CASE Review!MayDecide(d)
  <2>1. PICK b : b = Review!BoundDecision(d)
    OBVIOUS
  <2>2. Review!Answers(b)
    BY <1>3, <1>4, <2>1, BoundAnswers
  <2>3. /\ Review!Goto(c, "evidence")
        /\ v6' = [v6 EXCEPT ![c] = Review!Call(v6[c].op, v6[c].via, b, {})]
    BY <1>2, <1>4, <2>1 DEF Review!PrepareDecision, Review!Bind, Review!Inv
  <2>4. /\ v5'[c] = "evidence" /\ Moves(c)
        /\ v6'[c] = Review!Call(v6[c].op, v6[c].via, b, {})
    BY <2>3, GotoIs, CallIs DEF Moves
  <2>5. v6'[c].op = "decide" /\ v6'[c].value = b
    BY <1>1, <2>4, FieldsOf
  <2>6. Review!Answers(b)'
    BY <1>1, <2>2 DEF Review!Answers
  <2>7. Review!Answers(v6[c].value)'
    BY <2>5, <2>6 DEF Review!Answers
  <2>8. Review!CallFits(c)'
    BY <2>4, <2>5, <2>7 DEF Review!CallFits, Review!DecisionFits
  <2> QED BY <1>1, <2>4, <2>8, ReviewLooks
<1>5. CASE ~ Review!MayDecide(d)
  <2>1. Review!Goto(c, "refused") /\ UNCHANGED v6
    BY <1>2, <1>5 DEF Review!PrepareDecision
  <2> QED BY <1>1, <2>1, Refused
<1> QED BY <1>4, <1>5

(* What was closed is verified. *)
LEMMA VerifyStep ==
  ASSUME ReviewAssumption, Review!Inv, NEW c \in Callers, Review!VerifyClosed(c)
  PROVE  Review!Inv' /\ Grows
<1>1. PICK where \in {"done", "refused"} : Review!Goto(c, where)
  BY DEF Review!VerifyClosed
<1> QED BY <1>1, Refused DEF Review!VerifyClosed, Review!durable

(* What a scan finds is what the lifecycle indexes. *)
LEMMA ScanFinds ==
  ASSUME ReviewAssumption, Review!Inv, NEW c \in Callers, v5[c] = "scan"
  PROVE  LET found == Review!Present \ {Review!IndexOf[Review!Kind(c)]}
         IN  /\ found \in SUBSET Review!Paths
             /\ v6[c].op = "request" /\ v2["requested_index"] = Absent => found = {"request"}
             /\ v6[c].op = "decide" => found = Review!Everything
<1> DEFINE found == Review!Present \ {Review!IndexOf[Review!Kind(c)]}
<1>1. \A p : p \in Review!Present <=> p \in Review!Paths /\ v2[p] # Absent
  BY DEF Review!Present
<1>2. found \in SUBSET Review!Paths
  BY <1>1
<1>3. v6[c].op = "request" /\ v2["requested_index"] = Absent => found = {"request"}
  <2> SUFFICES ASSUME v6[c].op = "request", v2["requested_index"] = Absent
               PROVE  found = {"request"}
    OBVIOUS
  <2>1. v2["request"] # Absent
    BY WrittenIsThere DEF Review!Inv, Review!CallFits, Review!RequestFits
  <2>2. v3["requested"] = Absent /\ v2["decision"] = Absent
    BY DEF Review!Inv, Review!FilesFit, Review!Answers
  <2>3. v2["record"] = Absent /\ v2["decided_index"] = Absent
    BY <2>2 DEF Review!Inv, Review!FilesFit
  <2> QED BY <1>1, <2>1, <2>2, <2>3, PathsAre DEF Review!Kind
<1>4. v6[c].op = "decide" => found = Review!Everything
  <2> SUFFICES ASSUME v6[c].op = "decide"
               PROVE  found = Review!Everything
    OBVIOUS
  <2>1. /\ Review!Answers(v6[c].value) /\ v2["decision"] = v6[c].value
        /\ v2["record"] = v6[c].value
    BY DEF Review!Inv, Review!CallFits, Review!DecisionFits
  <2>2. v2["decision"] # Absent /\ v2["record"] # Absent
    BY <2>1, WrittenIsThere DEF Review!Answers
  <2>3. v2["requested_index"] # Absent /\ v2["request"] # Absent
    BY <2>1 DEF Review!Inv, Review!FilesFit, Review!Answers
  <2>4. Review!IndexOf[Review!Kind(c)] = "decided_index"
    BY PathsAre DEF Review!Kind
  <2> QED BY <1>1, <2>2, <2>3, <2>4, PathsAre
<1> QED BY <1>2, <1>3, <1>4

(* The evidence is scanned for its inventory. *)
LEMMA ScanStep ==
  ASSUME ReviewAssumption, Review!Inv, NEW c \in Callers, Review!ScanEvidence(c)
  PROVE  Review!Inv' /\ Grows
<1>1. v5[c] = "scan" /\ UNCHANGED <<v1, v2, v3, v4>>
  BY DEF Review!ScanEvidence, Review!durable
<1>2. CASE v4
  <2>1. Review!Goto(c, "refused") /\ UNCHANGED v6
    BY <1>2 DEF Review!ScanEvidence
  <2> QED BY <1>1, <2>1, Refused
<1>3. CASE ~ v4
  <2>1. PICK found : found = Review!Present \ {Review!IndexOf[Review!Kind(c)]}
    OBVIOUS
  <2>2. /\ found \in SUBSET Review!Paths
        /\ v6[c].op = "request" /\ v2["requested_index"] = Absent => found = {"request"}
        /\ v6[c].op = "decide" => found = Review!Everything
    BY <1>1, <2>1, ScanFinds
  <2>3. /\ Review!Goto(c, "index")
        /\ v6' = [v6 EXCEPT ![c] = Review!Call(v6[c].op, v6[c].via, v6[c].value, found)]
    BY <1>3, <2>1 DEF Review!ScanEvidence, Review!Inv
  <2>4. /\ v5'[c] = "index" /\ Moves(c)
        /\ v6'[c] = Review!Call(v6[c].op, v6[c].via, v6[c].value, found)
    BY <2>3, GotoIs, CallIs DEF Moves
  <2>5. v6'[c].op = v6[c].op /\ v6'[c].value = v6[c].value /\ v6'[c].paths = found
    BY <2>4, FieldsOf
  <2>6. Review!CallFits(c)
    BY DEF Review!Inv
  <2>7. Review!RequestFits(c) /\ v6[c].op = "request" => Review!RequestFits(c)'
    <3>1. Review!Requests' = Review!Requests /\ Review!Paths' = Review!Paths
      BY DEF Review!Requests, Review!Paths
    <3> QED BY <1>1, <2>2, <2>4, <2>5, <3>1 DEF Review!RequestFits
  <2>8. Review!DecisionFits(c) /\ v6[c].op = "decide" => Review!DecisionFits(c)'
    <3> SUFFICES ASSUME Review!DecisionFits(c), v6[c].op = "decide"
                 PROVE  Review!DecisionFits(c)'
      OBVIOUS
    <3>1. Review!Answers(v6[c].value)
      BY <1>1 DEF Review!DecisionFits
    <3>2. Review!Answers(v6[c].value)'
      BY <1>1, <2>5, <3>1 DEF Review!Answers
    <3>3. v2["decision"] = v6[c].value /\ v2["record"] = v6[c].value
      BY <1>1 DEF Review!DecisionFits
    <3> QED BY <1>1, <2>2, <2>4, <2>5, <3>2, <3>3 DEF Review!DecisionFits
  <2>9. Review!CallFits(c)'
    BY <1>1, <2>4, <2>5, <2>6, <2>7, <2>8 DEF Review!CallFits
  <2> QED BY <1>1, <2>4, <2>9, ReviewLooks
<1> QED BY <1>2, <1>3

(* What may be written under a name that is free. *)
MayBeAt(p, v) ==
  /\ p = "request" => v \in Review!Requests
  /\ p = "decision" => Review!Answers(v)
  /\ p = "record" => v2["decision"] = v /\ Review!Answers(v)
  /\ p = "requested_index" => v = {"request"} /\ v2["request"] # Absent
  /\ p = "decided_index" => v = Review!Everything /\ v2["record"] # Absent

(* What may be written is not Absent. *)
LEMMA MayIsThere ==
  ASSUME ReviewAssumption, NEW p \in Review!Paths, NEW v, MayBeAt(p, v)
  PROVE  v # Absent
<1>1. {"request"} \in SUBSET Review!Paths /\ Review!Everything \in SUBSET Review!Paths
  BY PathsAre
<1>2. Review!Answers(v) => v \in Review!Decisions
  BY DEF Review!Answers
<1> QED BY <1>1, <1>2, PathsAre, WrittenIsThere DEF MayBeAt

(* The files fit with one more that may be there. *)
LEMMA FilePlaced ==
  ASSUME ReviewAssumption, Review!Inv, NEW p \in Review!Paths, NEW v, v2[p] = Absent, MayBeAt(p, v),
         v2' = [v2 EXCEPT ![p] = v], UNCHANGED <<v1, v3>>, v4' \in BOOLEAN
  PROVE  Review!TypeOK' /\ Review!FilesFit' /\ Grows
<1>1. v2 = [x \in Review!Paths |-> v2[x]] /\ v3 = [k \in Review!Kinds |-> v3[k]]
  BY DEF Review!Inv, Review!FilesFit
<1>2. /\ v2' = [x \in Review!Paths |-> v2'[x]] /\ v2'[p] = v
      /\ \A x \in Review!Paths : x # p => v2'[x] = v2[x]
  BY <1>1
<1>3. Grows
  BY <1>2 DEF Grows
<1>4. v # Absent
  BY MayIsThere
<1>5. Review!Answers(v) => v \in Review!Decisions
  BY DEF Review!Answers
<1>6. Review!Requests' = Review!Requests /\ Review!Decisions' = Review!Decisions
      /\ Review!Paths' = Review!Paths /\ Review!Kinds' = Review!Kinds
      /\ Review!Everything' = Review!Everything
  BY DEF Review!Requests, Review!Decisions, Review!Paths, Review!Kinds, Review!Everything
<1>7. Review!TypeOK'
  BY <1>2, <1>5, PathsAre DEF Review!TypeOK, Review!Inv, MayBeAt
<1>8. ASSUME NEW d, Review!Answers(d) PROVE Review!Answers(d)'
  BY <1>3, <1>8, AnswersStay DEF Review!Inv
<1>9. Review!FilesFit
  BY DEF Review!Inv
<1>10. /\ v2["requested_index"] # Absent => v2["request"] # Absent
       /\ v3["requested"] # Absent => v2["requested_index"] # Absent
       /\ v2["decision"] # Absent => v3["requested"] # Absent
       /\ v2["record"] # Absent => v2["decision"] # Absent
       /\ v2["decided_index"] # Absent => v2["record"] # Absent
       /\ v3["decided"] # Absent => v2["decided_index"] # Absent
  BY <1>9 DEF Review!FilesFit, Review!Answers
<1>11. v2'["decision"] # Absent => Review!Answers(v2["decision"])'
  <2>1. CASE p = "decision"
    BY <1>2, <1>8, <2>1 DEF MayBeAt, Review!Answers
  <2>2. CASE p # "decision"
    <3>1. v2'["decision"] = v2["decision"]
      BY <1>2, <2>2, PathsAre
    <3>2. PICK d : d = v2["decision"]
      OBVIOUS
    <3>3. d # Absent => Review!Answers(d)'
      BY <1>8, <1>9, <3>2 DEF Review!FilesFit
    <3> QED BY <3>1, <3>2, <3>3 DEF Review!Answers
  <2> QED BY <2>1, <2>2
<1>12. /\ v2'["requested_index"] # Absent =>
             v2'["request"] # Absent /\ v2'["requested_index"] = {"request"}
       /\ v3'["requested"] # Absent =>
             /\ v2'["requested_index"] # Absent
             /\ v3'["requested"] = [index |-> {"request"}, evidence |-> v2'["request"]]
  BY <1>2, <1>4, <1>9, <1>10, PathsAre DEF Review!FilesFit, MayBeAt
<1>13. v2'["record"] # Absent => v2'["record"] = v2'["decision"]
  BY <1>2, <1>4, <1>9, <1>10, PathsAre DEF Review!FilesFit, MayBeAt
<1>14. /\ v2'["decided_index"] # Absent =>
             v2'["record"] # Absent /\ v2'["decided_index"] = Review!Everything
       /\ v3'["decided"] # Absent =>
             /\ v2'["decided_index"] # Absent
             /\ v3'["decided"] = [index |-> Review!Everything, evidence |-> v2'["decision"]]
  BY <1>2, <1>4, <1>9, <1>10, PathsAre DEF Review!FilesFit, MayBeAt
<1>15. v3' = [k \in Review!Kinds |-> v3'[k]]
  BY <1>1
<1>16. Review!FilesFit'
  BY <1>2, <1>6, <1>11, <1>12, <1>13, <1>14, <1>15 DEF Review!FilesFit
<1> QED BY <1>3, <1>7, <1>16

(* What an operation writes may be written. *)
LEMMA WritesFit ==
  ASSUME ReviewAssumption, Review!Inv, NEW c \in Callers, Review!Writing(c),
         v2[Review!WrittenPath(c)] = Absent
  PROVE  MayBeAt(Review!WrittenPath(c), Review!WrittenValue(c))
<1>1. Review!CallFits(c) /\ v5[c] # "idle" /\ v6[c].op \in {"request", "decide"}
  BY DEF Review!Inv, Review!CallFits, Review!Writing
<1>2. CASE v6[c].op = "request"
  <2>1. Review!RequestFits(c) /\ v5[c] \in {"evidence", "index"}
    BY <1>1, <1>2 DEF Review!CallFits, Review!Writing, Review!RequestFits
  <2>2. CASE v5[c] = "evidence"
    <3>1. Review!WrittenPath(c) = "request" /\ Review!WrittenValue(c) = v6[c].value
      BY <1>2, <2>2 DEF Review!WrittenPath, Review!WrittenValue
    <3> QED BY <2>1, <3>1 DEF MayBeAt, Review!RequestFits
  <2>3. CASE v5[c] = "index"
    <3>1. Review!WrittenPath(c) = "requested_index" /\ Review!WrittenValue(c) = v6[c].paths
      BY <1>2, <2>3, PathsAre DEF Review!WrittenPath, Review!WrittenValue, Review!Kind
    <3>2. v2["request"] = v6[c].value /\ v6[c].value # Absent /\ v6[c].paths = {"request"}
      BY <2>1, <2>3, <3>1, WrittenIsThere DEF Review!RequestFits
    <3> QED BY <3>1, <3>2 DEF MayBeAt
  <2> QED BY <2>1, <2>2, <2>3
<1>3. CASE v6[c].op = "decide"
  <2>1. Review!DecisionFits(c)
    BY <1>1, <1>3 DEF Review!CallFits
  <2>2. Review!Answers(v6[c].value) /\ v6[c].value # Absent
    BY <2>1, WrittenIsThere DEF Review!DecisionFits, Review!Writing, Review!Answers
  <2>3. CASE v5[c] = "evidence"
    <3>1. Review!WrittenPath(c) = "decision" /\ Review!WrittenValue(c) = v6[c].value
      BY <1>3, <2>3 DEF Review!WrittenPath, Review!WrittenValue
    <3> QED BY <2>2, <3>1 DEF MayBeAt
  <2>4. CASE v5[c] = "record"
    <3>1. Review!WrittenPath(c) = "record" /\ Review!WrittenValue(c) = v6[c].value
      BY <1>3, <2>4 DEF Review!WrittenPath, Review!WrittenValue
    <3> QED BY <2>1, <2>2, <2>4, <3>1 DEF MayBeAt, Review!DecisionFits
  <2>5. CASE v5[c] = "index"
    <3>1. Review!WrittenPath(c) = "decided_index" /\ Review!WrittenValue(c) = v6[c].paths
      BY <1>3, <2>5, PathsAre DEF Review!WrittenPath, Review!WrittenValue, Review!Kind
    <3> QED BY <2>1, <2>2, <2>5, <3>1 DEF MayBeAt, Review!DecisionFits
  <2> QED BY <2>3, <2>4, <2>5 DEF Review!Writing
<1> QED BY <1>1, <1>2, <1>3

(* What is written has its name. *)
LEMMA WrittenIsPath ==
  ASSUME NEW c
  PROVE  Review!WrittenPath(c) \in Review!Paths
  BY PathsAre DEF Review!WrittenPath, Review!Kind

(* A crash leaves a temporary file, and perhaps the one that was written. *)
LEMMA CrashStep ==
  ASSUME ReviewAssumption, Review!Inv, NEW c \in Callers, Review!Crash(c)
  PROVE  Review!Inv' /\ Grows
<1>1. /\ Review!Goto(c, "idle") /\ v6' = [v6 EXCEPT ![c] = Review!Idle]
      /\ UNCHANGED <<v1, v3>> /\ v4' = TRUE /\ Review!Writing(c)
      /\ v2[Review!WrittenPath(c)] = Absent
  BY DEF Review!Crash, Review!End
<1>2. v5'[c] = "idle" /\ Moves(c)
  BY <1>1, GotoIs, CallIs DEF Moves
<1>3. Review!TypeOK' /\ Review!FilesFit' /\ Grows
  <2>1. CASE UNCHANGED v2
    <3>1. \A d : Review!Answers(d)' <=> Review!Answers(d)
      BY <1>1, <2>1 DEF Review!Answers
    <3> QED BY <1>1, <2>1, <3>1 DEF Review!Inv, Review!TypeOK, Review!FilesFit, Grows
  <2>2. CASE v2' = [v2 EXCEPT ![Review!WrittenPath(c)] = Review!WrittenValue(c)]
    BY <1>1, <2>2, WritesFit, WrittenIsPath, FilePlaced
  <2> QED BY <2>1, <2>2 DEF Review!Crash
<1> QED BY <1>2, <1>3, IdleFits, ReviewMoves

(* After a write, or its refusal, the files fit. *)
LEMMA StoreFits ==
  ASSUME ReviewAssumption, Review!Inv, NEW c \in Callers, Review!Writing(c),
         NEW p, p = Review!WrittenPath(c), NEW v, v = Review!WrittenValue(c), NEW next,
         Review!StoreJson(c, p, v, next), UNCHANGED <<v1, v3, v4, v6>>
  PROVE  /\ Review!TypeOK' /\ Review!FilesFit' /\ Grows
         /\ v2[p] \in {Absent, v} => v2'[p] = v
         /\ v5'[c] = IF v2[p] \in {Absent, v} THEN next ELSE "refused"
         /\ v6'[c] = v6[c] /\ Moves(c)
<1>1. p \in Review!Paths
  BY WrittenIsPath
<1>2. v2 = [x \in Review!Paths |-> v2[x]]
  BY DEF Review!Inv, Review!FilesFit
<1>3. /\ v2' = [v2 EXCEPT ![p] = IF v2[p] = Absent THEN v ELSE v2[p]]
      /\ Review!Goto(c, IF v2[p] \in {Absent, v} THEN next ELSE "refused")
  BY <1>1, <1>2 DEF Review!StoreJson
<1>4. /\ v5'[c] = IF v2[p] \in {Absent, v} THEN next ELSE "refused"
      /\ v6'[c] = v6[c] /\ Moves(c)
  BY <1>3, GotoIs, CallSame DEF Moves
<1>5. CASE v2[p] = Absent
  <2>1. v2' = [v2 EXCEPT ![p] = v]
    BY <1>3, <1>5
  <2>2. v2'[p] = v
    BY <1>1, <1>2, <2>1
  <2>3. MayBeAt(p, v)
    BY <1>5, WritesFit
  <2>4. v4' \in BOOLEAN
    BY DEF Review!Inv, Review!TypeOK
  <2>5. Review!TypeOK' /\ Review!FilesFit' /\ Grows
    BY <1>1, <1>5, <2>1, <2>3, <2>4, FilePlaced
  <2> QED BY <1>4, <2>2, <2>5
<1>6. CASE v2[p] # Absent
  <2>1. v2' = v2
    BY <1>1, <1>2, <1>3, <1>6
  <2>2. v1' \in 0 .. MaxTime
    BY DEF Review!Inv, Review!TypeOK
  <2>3. Review!TypeOK' /\ Review!FilesFit' /\ Grows
    BY <2>1, <2>2, FilesSame
  <2> QED BY <1>4, <1>6, <2>1, <2>3
<1> QED BY <1>5, <1>6

(* A refused writer knows no more than before. *)
LEMMA RefusedWrite ==
  ASSUME ReviewAssumption, Review!Inv, NEW c \in Callers, Review!Writing(c), Grows,
         v5'[c] = "refused", v6'[c] = v6[c]
  PROVE  Review!CallFits(c)'
<1>1. Review!CallFits(c)
  BY DEF Review!Inv
<1>2. Review!RequestFits(c) => Review!RequestFits(c)'
  <2>1. Review!Requests' = Review!Requests
    BY DEF Review!Requests
  <2> QED BY <2>1 DEF Review!RequestFits
<1>3. Review!DecisionFits(c) => Review!DecisionFits(c)'
  <2>1. Review!DecisionFits(c) =>
          /\ v6[c].value.selection \in Review!Selections
          /\ v6[c].value.reviewer \in Actors /\ v6[c].value.at \in 0 .. MaxTime
    BY DEF Review!DecisionFits, Review!Answers, Review!Decisions, Review!Writing
  <2> QED BY <2>1 DEF Review!DecisionFits, Review!Selections
<1> QED BY <1>1, <1>2, <1>3 DEF Review!CallFits, Review!Writing

(* The request is written, or the one on file is another. *)
LEMMA WriteRequestStep ==
  ASSUME ReviewAssumption, Review!Inv, NEW c \in Callers, Review!WriteEvidence(c),
         v6[c].op = "request"
  PROVE  Review!Inv' /\ Grows
<1>1. /\ v5[c] = "evidence" /\ UNCHANGED <<v1, v3, v4, v6>>
      /\ Review!StoreJson(c, "request", v6[c].value, "scan")
  BY DEF Review!WriteEvidence
<1>2. PICK v : v = v6[c].value
  OBVIOUS
<1>3. /\ Review!Writing(c) /\ Review!WrittenPath(c) = "request"
      /\ Review!WrittenValue(c) = v
  BY <1>1, <1>2 DEF Review!Writing, Review!WrittenPath, Review!WrittenValue
<1>4. /\ Review!TypeOK' /\ Review!FilesFit' /\ Grows
      /\ v2["request"] \in {Absent, v} => v2'["request"] = v
      /\ v5'[c] = IF v2["request"] \in {Absent, v} THEN "scan" ELSE "refused"
      /\ v6'[c] = v6[c] /\ Moves(c)
  BY <1>1, <1>2, <1>3, StoreFits
<1>5. v \in Review!Requests
  BY <1>1, <1>2 DEF Review!Inv, Review!CallFits, Review!RequestFits
<1>6. Review!CallFits(c)'
  <2>1. CASE v2["request"] \in {Absent, v}
    <3>1. Review!Requests' = Review!Requests
      BY DEF Review!Requests
    <3> QED BY <1>2, <1>4, <1>5, <2>1, <3>1 DEF Review!CallFits, Review!RequestFits
  <2>2. CASE v2["request"] \notin {Absent, v}
    BY <1>3, <1>4, <2>2, RefusedWrite
  <2> QED BY <2>1, <2>2
<1> QED BY <1>4, <1>6, ReviewMoves

(* The decision is written, then its record. *)
LEMMA WriteDecisionStep ==
  ASSUME ReviewAssumption, Review!Inv, NEW c \in Callers,
         Review!WriteEvidence(c) \/ Review!WriteRecord(c), v6[c].op = "decide"
  PROVE  Review!Inv' /\ Grows
<1> DEFINE path == IF v5[c] = "evidence" THEN "decision" ELSE "record"
           next == IF v5[c] = "evidence" THEN "record" ELSE "scan"
<1>1. PICK p : p = path
  OBVIOUS
<1>2. PICK v : v = v6[c].value
  OBVIOUS
<1>3. /\ v5[c] \in {"evidence", "record"} /\ UNCHANGED <<v1, v3, v4, v6>>
      /\ Review!StoreJson(c, p, v, next)
  BY <1>1, <1>2 DEF Review!WriteEvidence, Review!WriteRecord
<1>4. /\ Review!Writing(c) /\ Review!WrittenPath(c) = p /\ Review!WrittenValue(c) = v
  BY <1>1, <1>2, <1>3 DEF Review!Writing, Review!WrittenPath, Review!WrittenValue
<1>5. /\ Review!TypeOK' /\ Review!FilesFit' /\ Grows
      /\ v2[p] \in {Absent, v} => v2'[p] = v
      /\ v5'[c] = IF v2[p] \in {Absent, v} THEN next ELSE "refused"
      /\ v6'[c] = v6[c] /\ Moves(c)
  BY <1>3, <1>4, StoreFits
<1>6. /\ Review!Answers(v) /\ v # Absent
      /\ v5[c] = "record" => v2["decision"] = v
  BY <1>2, <1>3, WrittenIsThere DEF Review!Inv, Review!CallFits, Review!DecisionFits, Review!Answers
<1>7. Review!CallFits(c)'
  <2>1. CASE v2[p] \in {Absent, v}
    <3>1. Review!Answers(v)'
      BY <1>5, <1>6, AnswersStay DEF Review!Inv
    <3>2. Review!Answers(v6[c].value)'
      BY <1>2, <1>5, <3>1 DEF Review!Answers
    <3>3. v5[c] = "record" => v2'["decision"] = v
      BY <1>5, <1>6, PathsAre DEF Grows
    <3> QED BY <1>1, <1>2, <1>3, <1>5, <2>1, <3>2, <3>3 DEF Review!CallFits, Review!DecisionFits
  <2>2. CASE v2[p] \notin {Absent, v}
    BY <1>4, <1>5, <2>2, RefusedWrite
  <2> QED BY <2>1, <2>2
<1> QED BY <1>5, <1>7, ReviewMoves

(* The inventory is written. *)
LEMMA WriteIndexStep ==
  ASSUME ReviewAssumption, Review!Inv, NEW c \in Callers, Review!WriteIndex(c)
  PROVE  Review!Inv' /\ Grows
<1>1. PICK p : p = Review!IndexOf[Review!Kind(c)]
  OBVIOUS
<1>2. PICK v : v = v6[c].paths
  OBVIOUS
<1>3. /\ v5[c] = "index" /\ UNCHANGED <<v1, v3, v4, v6>>
      /\ Review!StoreJson(c, p, v, "anchor")
  BY <1>1, <1>2 DEF Review!WriteIndex
<1>4. /\ Review!Writing(c) /\ Review!WrittenPath(c) = p /\ Review!WrittenValue(c) = v
  BY <1>1, <1>2, <1>3 DEF Review!Writing, Review!WrittenPath, Review!WrittenValue
<1>5. /\ Review!TypeOK' /\ Review!FilesFit' /\ Grows
      /\ v2[p] \in {Absent, v} => v2'[p] = v
      /\ v5'[c] = IF v2[p] \in {Absent, v} THEN "anchor" ELSE "refused"
      /\ v6'[c] = v6[c] /\ Moves(c)
  BY <1>3, <1>4, StoreFits
<1>6. Review!CallFits(c)
  BY DEF Review!Inv
<1>7. CASE v2[p] \notin {Absent, v}
  <2>1. Review!CallFits(c)'
    BY <1>4, <1>5, <1>7, RefusedWrite
  <2> QED BY <1>5, <2>1, ReviewMoves
<1>8. CASE v2[p] \in {Absent, v}
  <2>1. v \subseteq Review!Paths
    BY <1>2, <1>3, <1>6, PathsAre DEF Review!CallFits, Review!RequestFits, Review!DecisionFits
  <2>2. v2'[p] # Absent
    BY <1>5, <1>8, <2>1, WrittenIsThere
  <2>3. CASE v6[c].op = "request"
    <3>1. p = "requested_index"
      BY <1>1, <2>3, PathsAre DEF Review!Kind
    <3>2. /\ v6[c].value \in Review!Requests /\ v2["request"] = v6[c].value
          /\ v6[c].value # Absent
      BY <1>3, <1>6, <2>3, WrittenIsThere DEF Review!CallFits, Review!RequestFits
    <3>3. v2'["request"] = v6[c].value
      BY <1>5, <3>2, PathsAre DEF Grows
    <3>4. Review!Requests' = Review!Requests
      BY DEF Review!Requests
    <3>5. Review!CallFits(c)'
      BY <1>5, <1>8, <2>2, <2>3, <3>1, <3>2, <3>3, <3>4 DEF Review!CallFits, Review!RequestFits
    <3> QED BY <1>5, <3>5, ReviewMoves
  <2>4. CASE v6[c].op = "decide"
    <3>1. p = "decided_index"
      BY <1>1, <2>4, PathsAre DEF Review!Kind
    <3>2. PICK d : d = v6[c].value
      OBVIOUS
    <3>3. /\ Review!Answers(d) /\ v2["decision"] = d /\ v2["record"] = d /\ d # Absent
      BY <1>3, <1>6, <2>4, <3>2, WrittenIsThere DEF Review!CallFits, Review!DecisionFits, Review!Answers
    <3>4. Review!Answers(d)'
      BY <1>5, <3>3, AnswersStay DEF Review!Inv
    <3>5. Review!Answers(v6[c].value)'
      BY <1>5, <3>2, <3>4 DEF Review!Answers
    <3>6. v2'["decision"] = d /\ v2'["record"] = d
      BY <1>5, <3>3, PathsAre DEF Grows
    <3>7. Review!CallFits(c)'
      BY <1>5, <1>8, <2>2, <2>4, <3>1, <3>2, <3>5, <3>6 DEF Review!CallFits, Review!DecisionFits
    <3> QED BY <1>5, <3>7, ReviewMoves
  <2> QED BY <1>3, <1>6, <2>3, <2>4 DEF Review!CallFits
<1> QED BY <1>7, <1>8

(* The anchor binds the inventory and what was decided. *)
LEMMA BindStep ==
  ASSUME ReviewAssumption, Review!Inv, NEW c \in Callers, Review!BindAnchor(c)
  PROVE  Review!Inv' /\ Grows
<1>1. PICK k \in Review!Kinds : k = Review!Kind(c)
  BY PathsAre DEF Review!Kind
<1>2. PICK value : value = v6[c].value
  OBVIOUS
<1>3. PICK expected : expected = [index |-> v2[Review!IndexOf[k]], evidence |-> value]
  OBVIOUS
<1>4. v5[c] = "anchor" /\ UNCHANGED <<v1, v2, v4, v6>>
  BY DEF Review!BindAnchor
<1>5. v3 = [x \in Review!Kinds |-> v3[x]]
  BY DEF Review!Inv, Review!FilesFit
<1>6. /\ v3' = [v3 EXCEPT ![k] = IF v3[k] = Absent THEN expected ELSE v3[k]]
      /\ Review!Goto(c, IF v3[k] \in {Absent, expected} THEN "verify" ELSE "refused")
  BY <1>1, <1>2, <1>3, <1>5 DEF Review!BindAnchor
<1>7. /\ v3' = [x \in Review!Kinds |-> v3'[x]]
      /\ v3'[k] = IF v3[k] = Absent THEN expected ELSE v3[k]
      /\ \A x \in Review!Kinds : x # k => v3'[x] = v3[x]
  BY <1>5, <1>6
<1>8. v6'[c] = v6[c] /\ v5'[c] \in {"verify", "refused"} /\ Moves(c)
  BY <1>4, <1>6, GotoIs, CallSame DEF Moves
<1>9. Grows
  BY <1>4, <1>7 DEF Grows
<1>10. Review!CallFits(c) /\ v6[c].op \in {"request", "decide"}
  BY <1>4 DEF Review!Inv, Review!CallFits
<1>11. Review!FilesFit
  BY DEF Review!Inv
<1>12. ASSUME NEW d, Review!Answers(d) PROVE Review!Answers(d)'
  BY <1>9, <1>11, <1>12, AnswersStay
<1>13. v2'["decision"] # Absent => Review!Answers(v2["decision"])'
  <2>1. PICK d : d = v2["decision"]
    OBVIOUS
  <2>2. d # Absent => Review!Answers(d)'
    BY <1>11, <1>12, <2>1 DEF Review!FilesFit
  <2> QED BY <1>4, <2>1, <2>2 DEF Review!Answers
<1>14. Review!TypeOK'
  BY <1>4 DEF Review!Inv, Review!TypeOK
<1>15. Review!Paths' = Review!Paths /\ Review!Kinds' = Review!Kinds
       /\ Review!Everything' = Review!Everything
  BY DEF Review!Paths, Review!Kinds, Review!Everything
<1>16. CASE v6[c].op = "request"
  <2>1. k = "requested" /\ Review!IndexOf[k] = "requested_index"
    BY <1>1, <1>16, PathsAre DEF Review!Kind
  <2>2. /\ v2["request"] = value /\ v2["requested_index"] # Absent
        /\ v2["requested_index"] = {"request"}
    BY <1>2, <1>4, <1>10, <1>11, <1>16 DEF Review!CallFits, Review!RequestFits, Review!FilesFit
  <2>3. expected = [index |-> {"request"}, evidence |-> v2["request"]]
    BY <1>3, <2>1, <2>2
  <2>4. v3'["requested"] = [index |-> {"request"}, evidence |-> v2'["request"]]
    BY <1>4, <1>7, <1>11, <2>1, <2>3 DEF Review!FilesFit
  <2>5. v3'["decided"] = v3["decided"]
    BY <1>7, <2>1, PathsAre
  <2>6. Review!FilesFit'
    BY <1>4, <1>7, <1>11, <1>13, <1>15, <2>2, <2>4, <2>5 DEF Review!FilesFit
  <2>7. Review!CallFits(c)'
    <3>1. Review!Requests' = Review!Requests
      BY DEF Review!Requests
    <3> QED BY <1>4, <1>8, <1>10, <1>16, <3>1 DEF Review!CallFits, Review!RequestFits
  <2> QED BY <1>8, <1>9, <1>14, <2>6, <2>7, ReviewMoves
<1>17. CASE v6[c].op = "decide"
  <2>1. k = "decided" /\ Review!IndexOf[k] = "decided_index"
    BY <1>1, <1>17, PathsAre DEF Review!Kind
  <2>2. /\ Review!Answers(value) /\ v2["decision"] = value /\ v2["record"] = value
        /\ v2["decided_index"] # Absent /\ v2["decided_index"] = Review!Everything
    BY <1>2, <1>4, <1>10, <1>11, <1>17 DEF Review!CallFits, Review!DecisionFits, Review!FilesFit
  <2>3. expected = [index |-> Review!Everything, evidence |-> v2["decision"]]
    BY <1>3, <2>1, <2>2
  <2>4. v3'["decided"] = [index |-> Review!Everything, evidence |-> v2'["decision"]]
    BY <1>4, <1>7, <1>11, <2>1, <2>3 DEF Review!FilesFit
  <2>5. v3'["requested"] = v3["requested"]
    BY <1>7, <2>1, PathsAre
  <2>6. Review!FilesFit'
    BY <1>4, <1>7, <1>11, <1>13, <1>15, <2>2, <2>4, <2>5 DEF Review!FilesFit
  <2>7. Review!Answers(value)'
    BY <1>12, <2>2
  <2>8. Review!Answers(v6[c].value)'
    BY <1>2, <1>8, <2>7 DEF Review!Answers
  <2>9. value.selection \in Review!Selections /\ value.reviewer \in Actors /\ value.at \in 0 .. MaxTime
    BY <2>2 DEF Review!Answers, Review!Decisions
  <2>10. Review!DecisionFits(c)'
    BY <1>2, <1>4, <1>8, <2>2, <2>8, <2>9 DEF Review!DecisionFits, Review!Selections
  <2>11. Review!CallFits(c)'
    BY <1>8, <1>17, <2>10 DEF Review!CallFits
  <2> QED BY <1>8, <1>9, <1>14, <2>6, <2>11, ReviewMoves
<1> QED BY <1>10, <1>16, <1>17

(* At first there is no evidence. *)
LEMMA ReviewStart == ASSUME ReviewAssumption, Review!Init PROVE Review!Inv
<1>1. /\ v1 = 0 /\ v2 = [p \in Review!Paths |-> Absent] /\ v3 = [k \in Review!Kinds |-> Absent]
      /\ v4 = FALSE /\ v5 = [c \in Callers |-> "idle"]
      /\ v6 = [c \in Callers |-> Review!Idle]
  BY DEF Review!Init
<1>2. (\A p \in Review!Paths : v2[p] = Absent) /\ (\A k \in Review!Kinds : v3[k] = Absent)
  BY <1>1
<1>3. v2 = [p \in Review!Paths |-> v2[p]] /\ v3 = [k \in Review!Kinds |-> v3[k]]
  BY <1>1
<1>4. Review!TypeOK
  <2>1. v1 \in 0 .. MaxTime
    <3>1. MaxTime \in Nat /\ v1 = 0
      BY <1>1 DEF ReviewAssumption, Review!TimesAssumption
    <3> QED BY <3>1
  <2>2. /\ v2["request"] = Absent /\ v2["decision"] = Absent /\ v2["record"] = Absent
        /\ v2["requested_index"] = Absent /\ v2["decided_index"] = Absent
    BY <1>2, PathsAre
  <2>3. \A p \in Review!Indexes : v2[p] = Absent
    BY <2>2, PathsAre
  <2> QED BY <1>1, <2>1, <2>2, <2>3 DEF Review!TypeOK
<1>5. Review!FilesFit
  BY <1>2, <1>3, PathsAre DEF Review!FilesFit
<1>6. \A c \in Callers : Review!CallFits(c)
  BY <1>1 DEF Review!CallFits
<1>7. v5 = [c \in Callers |-> v5[c]] /\ v6 = [c \in Callers |-> v6[c]]
  BY <1>1
<1> QED BY <1>4, <1>5, <1>6, <1>7 DEF Review!Inv

(* Every action keeps the invariant, and what is on file. *)
LEMMA ReviewStep ==
  ASSUME ReviewAssumption, Review!Inv, Review!Next
  PROVE  Review!Inv' /\ Grows
<1>1. CASE Review!Tick
  <2>1. Grows
    BY <1>1 DEF Review!Tick, Review!durable, Grows
  <2> QED BY <1>1, <2>1, TickStep
<1>2. ASSUME NEW c \in Callers, Review!Enter(c) \/ Review!Program(c) \/ Review!Fault(c)
      PROVE  Review!Inv' /\ Grows
  <2>1. Review!WriteRecord(c) => v6[c].op = "decide"
    BY DEF Review!WriteRecord, Review!Inv, Review!CallFits, Review!RequestFits
  <2>2. Review!WriteEvidence(c) => v6[c].op \in {"request", "decide"}
    BY DEF Review!WriteEvidence, Review!Inv, Review!CallFits
  <2> QED
    BY <1>2, <2>1, <2>2, EnterStep, LoadStep, PrepareRequestStep, PrepareDecisionStep,
       WriteRequestStep, WriteDecisionStep, ScanStep, WriteIndexStep, BindStep, VerifyStep,
       ReturnStep, CrashStep
    DEF Review!Program, Review!Fault
<1> QED BY <1>1, <1>2 DEF Review!Next

(* A step of nothing keeps both. *)
LEMMA ReviewStutters ==
  ASSUME Review!Inv, UNCHANGED all
  PROVE  Review!Inv' /\ Grows
<1>1. \A d : Review!Answers(d)' <=> Review!Answers(d)
  BY DEF all, Review!Answers
<1>2. Review!TypeOK' /\ Review!FilesFit' /\ Grows
  BY <1>1 DEF all, Review!Inv, Review!TypeOK, Review!FilesFit, Grows
<1>3. \A c : Review!CallFits(c)' <=> Review!CallFits(c)
  BY <1>1 DEF all, Review!CallFits, Review!RequestFits, Review!DecisionFits, Review!Answers
<1> QED BY <1>2, <1>3 DEF all, Review!Inv

(* The status loads unless an operation was cut off, in each of three stages. *)
LEMMA StatusLoads ==
  ASSUME ReviewAssumption, Review!Inv
  PROVE  Review!StatusLoadsUnlessCutOff
<1>1. \A p : p \in Review!Present <=> p \in Review!Paths /\ v2[p] # Absent
  BY DEF Review!Present
<1>2. Review!FilesFit /\ v4 \in BOOLEAN
  BY DEF Review!Inv, Review!TypeOK
<1>3. /\ v2["requested_index"] # Absent => v2["request"] # Absent
      /\ v3["requested"] # Absent => v2["requested_index"] # Absent
      /\ v2["decision"] # Absent => v3["requested"] # Absent
      /\ v2["record"] # Absent => v2["decision"] # Absent
      /\ v2["decided_index"] # Absent => v2["record"] # Absent
      /\ v3["decided"] # Absent => v2["decided_index"] # Absent
  BY <1>2 DEF Review!FilesFit, Review!Answers
<1>4. CASE v3["requested"] = Absent
  <2>1. v3["decided"] = Absent
    BY <1>3, <1>4
  <2>2. Review!StatusLoads <=> Review!Present = {} /\ ~ v4
    BY <1>4, <2>1, PathsAre DEF Review!StatusLoads
  <2>3. Review!CutOff <=> v4 \/ Review!Present # {}
    BY <1>3, <1>4 DEF Review!CutOff
  <2> QED BY <2>2, <2>3 DEF Review!StatusLoadsUnlessCutOff
<1>5. CASE v3["requested"] # Absent /\ v3["decided"] = Absent
  <2>1. /\ v2["request"] # Absent /\ v2["requested_index"] # Absent
        /\ v2["requested_index"] = {"request"}
        /\ v3["requested"] = [index |-> {"request"}, evidence |-> v2["request"]]
    BY <1>2, <1>5 DEF Review!FilesFit
  <2>2. Review!LifecycleVerified("requested", TRUE) <=>
          /\ {"request"} \subseteq Review!Present
          /\ ~ v4 /\ Review!Present \ {"requested_index"} = {"request"}
    BY <2>1, PathsAre DEF Review!LifecycleVerified, Review!Evidence
  <2>3. Review!StatusLoads <=> ~ v4 /\ Review!Present \ {"requested_index"} = {"request"}
    BY <1>5, <2>1, <2>2, PathsAre DEF Review!StatusLoads, Review!ReviewLoads
  <2>4. Review!CutOff <=> v4 \/ v2["decision"] # Absent
    BY <1>5 DEF Review!CutOff
  <2>5. CASE v2["decision"] = Absent
    <3>1. v2["record"] = Absent /\ v2["decided_index"] = Absent
      BY <1>3, <2>5
    <3>2. Review!Present \ {"requested_index"} = {"request"}
      BY <1>1, <2>1, <2>5, <3>1, PathsAre
    <3> QED BY <2>3, <2>4, <2>5, <3>2 DEF Review!StatusLoadsUnlessCutOff
  <2>6. CASE v2["decision"] # Absent
    <3>1. "decision" \in Review!Present
      BY <1>1, <2>6, PathsAre
    <3>2. Review!Present \ {"requested_index"} # {"request"}
      BY <3>1
    <3> QED BY <2>3, <2>4, <2>6, <3>2 DEF Review!StatusLoadsUnlessCutOff
  <2> QED BY <2>5, <2>6
<1>6. CASE v3["requested"] # Absent /\ v3["decided"] # Absent
  <2>1. /\ v2["record"] # Absent /\ v2["decided_index"] # Absent
        /\ v2["decision"] # Absent /\ v2["request"] # Absent /\ v2["requested_index"] # Absent
    BY <1>3, <1>6
  <2>2. /\ v2["decided_index"] = Review!Everything /\ v2["record"] = v2["decision"]
        /\ v3["decided"] = [index |-> Review!Everything, evidence |-> v2["record"]]
    BY <1>2, <1>6, <2>1 DEF Review!FilesFit
  <2>3. Review!Present \ {"decided_index"} = Review!Everything
        /\ Review!Everything \subseteq Review!Present
    BY <1>1, <2>1, PathsAre
  <2>4. Review!LifecycleVerified("decided", TRUE) <=> ~ v4
    BY <2>1, <2>2, <2>3, PathsAre DEF Review!LifecycleVerified, Review!Evidence
  <2>5. Review!StatusLoads <=> ~ v4
    BY <1>6, <2>1, <2>4, PathsAre DEF Review!StatusLoads, Review!ReviewLoads
  <2>6. Review!CutOff <=> v4
    BY <1>6 DEF Review!CutOff
  <2> QED BY <2>5, <2>6 DEF Review!StatusLoadsUnlessCutOff
<1> QED BY <1>4, <1>5, <1>6

(* The properties follow from the invariant. *)
LEMMA ReviewHolds ==
  ASSUME ReviewAssumption, Review!Inv
  PROVE  /\ Review!TypeOK /\ Review!DecisionAnswersTheRequest
         /\ Review!ClosedReviewIsComplete /\ Review!StatusLoadsUnlessCutOff
<1>1. Review!TypeOK /\ Review!FilesFit
  BY DEF Review!Inv
<1>2. Review!DecisionAnswersTheRequest
  BY <1>1 DEF Review!FilesFit, Review!Answers, Review!DecisionAnswersTheRequest
<1>3. Review!ClosedReviewIsComplete
  <2> SUFFICES ASSUME v3["decided"] # Absent
               PROVE  /\ v2["decision"] # Absent /\ v2["record"] = v2["decision"]
                      /\ v3["decided"].evidence = v2["decision"]
                      /\ v3["decided"].index = Review!Paths \ {"decided_index"}
    BY DEF Review!ClosedReviewIsComplete
  <2>1. /\ v2["record"] # Absent /\ v2["record"] = v2["decision"]
        /\ v3["decided"] = [index |-> Review!Everything, evidence |-> v2["decision"]]
    BY <1>1 DEF Review!FilesFit
  <2> QED BY <2>1 DEF Review!Everything
<1> QED BY <1>1, <1>2, <1>3, StatusLoads

(* Evidence that stays is final. *)
LEMMA ReviewGrows == ASSUME Grows PROVE Review!EvidenceIsFinal
  BY DEF Grows, Review!EvidenceIsFinal

-----------------------------------------------------------------------------
(* The export of a candidate.                                              *)

ExportAssumption == Export!ExportsAssumption

(* The names of an export. *)
LEMMA NamesAre ==
  ASSUME ExportAssumption
  PROVE  /\ Export!Seal = {"candidate.zip", "export.json"}
         /\ Export!Names = Export!Paths \cup {"candidate.zip", "export.json"}
         /\ "candidate.zip" \notin Export!Paths /\ "export.json" \notin Export!Paths
  BY DEF ExportAssumption, Export!ExportsAssumption, Export!Seal, Export!Names

(* The first of some candidate paths is one of them. *)
LEMMA FirstIs ==
  ASSUME ExportAssumption, NEW S \in SUBSET Export!Paths, S # {}
  PROVE  Export!First(S) \in S
<1> DEFINE T == {i \in DOMAIN Order : Order[i] \in S}
<1>1. DOMAIN Order \subseteq Nat /\ \A i \in DOMAIN Order : i >= 1
  BY DEF ExportAssumption, Export!ExportsAssumption
<1>2. T \subseteq Nat /\ T # {}
  BY <1>1 DEF Export!Paths
<1>3. PICK i \in T : \A k \in T : ~ (<<k, i>> \in OpToRel(<, Nat))
  BY <1>2, NatLessThanWellFounded, WFMin
<1>4. \A k \in 1 .. (i - 1) : Order[k] \notin S
  <2> SUFFICES ASSUME NEW k \in 1 .. (i - 1), Order[k] \in S PROVE FALSE
    OBVIOUS
  <2>1. k \in DOMAIN Order /\ k < i /\ k \in Nat /\ i \in Nat
    BY <1>1 DEF ExportAssumption, Export!ExportsAssumption
  <2>2. <<k, i>> \in OpToRel(<, Nat)
    BY <2>1 DEF OpToRel
  <2> QED BY <1>3, <2>1, <2>2
<1>5. \E j \in DOMAIN Order : Order[j] \in S /\ \A k \in 1 .. (j - 1) : Order[k] \notin S
  BY <1>3, <1>4
<1> QED BY <1>5 DEF Export!First

(* An export publishes a name it has left: the archive once its files are   *)
(* published, and the receipt last.                                         *)
LEMMA TargetIs ==
  ASSUME ExportAssumption, v7 \subseteq Export!Names, v7 # {}
  PROVE  /\ Export!Target \in v7
         /\ Export!Target \in Export!Seal => v7 \cap Export!Paths = {}
         /\ Export!Target = "export.json" => v7 = {"export.json"}
<1>1. CASE v7 \cap Export!Paths # {}
  <2>1. PICK S \in SUBSET Export!Paths : S = v7 \cap Export!Paths
    OBVIOUS
  <2>2. Export!First(S) \in S
    BY <1>1, <2>1, FirstIs
  <2>3. Export!Target = Export!First(S)
    BY <1>1, <2>1 DEF Export!Target
  <2> QED BY <2>1, <2>2, <2>3, NamesAre
<1>2. CASE v7 \cap Export!Paths = {}
  <2>1. v7 \subseteq {"candidate.zip", "export.json"}
    BY <1>2, NamesAre
  <2> QED BY <1>2, <2>1 DEF Export!Target
<1> QED BY <1>1, <1>2

(* What an export consists of. *)
LEMMA ExportIs ==
  ASSUME ExportAssumption, NEW e \in Exports
  PROVE  /\ e # Absent /\ DOMAIN e.files \subseteq Export!Paths
         /\ Export!NamesOf(e) = DOMAIN e.files \cup {"candidate.zip", "export.json"}
         /\ Export!Content(e, "export.json") = e
         /\ Export!Content(e, "candidate.zip") = Export!OverlayFiles(e)
         /\ \A p \in DOMAIN e.files :
               /\ Export!Content(e, p) = e.files[p]
               /\ p \in DOMAIN Export!OverlayFiles(e) /\ Export!OverlayFiles(e)[p] = e.files[p]
               /\ Parent[p] \in Export!DirsOf(e)
         /\ \A n \in Export!NamesOf(e) : Export!Content(e, n) # Absent
         /\ Export!DirsOf(e) \subseteq Export!Dirs /\ Top \in Export!DirsOf(e)
<1>1. /\ e # Absent /\ DOMAIN e.files \subseteq Export!Paths
      /\ \A p \in DOMAIN e.files : e.files[p] # Absent
      /\ Export!OverlayFiles(e) # Absent
  BY DEF ExportAssumption, Export!ExportsAssumption
<1>2. Export!NamesOf(e) = DOMAIN e.files \cup {"candidate.zip", "export.json"}
  BY DEF Export!NamesOf, Export!Seal
<1>3. /\ Export!Content(e, "export.json") = e
      /\ Export!Content(e, "candidate.zip") = Export!OverlayFiles(e)
  BY DEF Export!Content
<1>4. ASSUME NEW p \in DOMAIN e.files
      PROVE  /\ Export!Content(e, p) = e.files[p]
             /\ p \in DOMAIN Export!OverlayFiles(e) /\ Export!OverlayFiles(e)[p] = e.files[p]
             /\ Parent[p] \in Export!DirsOf(e)
  <2>1. p # "candidate.zip" /\ p # "export.json"
    BY <1>1, NamesAre
  <2>2. Export!Content(e, p) = e.files[p]
    BY <2>1 DEF Export!Content
  <2> QED BY <2>2 DEF Export!OverlayFiles, Export!DirsOf
<1>5. \A n \in Export!NamesOf(e) : Export!Content(e, n) # Absent
  BY <1>1, <1>2, <1>3, <1>4
<1>6. Export!DirsOf(e) \subseteq Export!Dirs /\ Top \in Export!DirsOf(e)
  BY <1>1 DEF Export!DirsOf, Export!Dirs
<1> QED BY <1>1, <1>2, <1>3, <1>4, <1>5, <1>6

(* What is linked has a name. *)
LEMMA LinkedIs == \A n : n \in Export!Linked <=> n \in Export!Names /\ v1[n] # Absent
  BY DEF Export!Linked

(* Names and directories do not change, *)
LEMMA ConstantsSame ==
  /\ Export!Paths' = Export!Paths /\ Export!Names' = Export!Names /\ Export!Seal' = Export!Seal
  /\ Export!Dirs' = Export!Dirs
  BY DEF Export!Paths, Export!Names, Export!Seal, Export!Dirs

(* nor does what is linked if no file does, *)
LEMMA LinkedSame == ASSUME UNCHANGED v1 PROVE Export!Linked' = Export!Linked
  BY DEF Export!Linked, Export!Names, Export!Paths, Export!Seal

(* what a receipt seals, *)
LEMMA SealedSame ==
  ASSUME UNCHANGED <<v1, v3>>, Export!ReceiptFits
  PROVE  Export!ReceiptFits'
<1>1. Export!Linked' = Export!Linked
  BY LinkedSame
<1>2. PICK e : e = v1["export.json"]
  OBVIOUS
<1>3. e # Absent =>
        /\ e \in Exports /\ Export!Linked = Export!NamesOf(e) /\ v3 = Export!DirsOf(e)
        /\ \A n \in Export!Linked : v1[n] = Export!Content(e, n)
  BY <1>2 DEF Export!ReceiptFits, Export!ReceiptSealsTheExport
<1>4. /\ v1'["export.json"] = e
      /\ e # Absent =>
           /\ e \in Exports /\ Export!Linked' = Export!NamesOf(e) /\ v3' = Export!DirsOf(e)
           /\ \A n \in Export!Linked' : v1'[n] = Export!Content(e, n)
  BY <1>1, <1>2, <1>3
<1> QED BY <1>4 DEF Export!ReceiptFits, Export!ReceiptSealsTheExport, Export!NamesOf, Export!DirsOf,
          Export!Content, Export!OverlayFiles, Export!Seal

(* and what the archive carries. *)
LEMMA ArchiveSame ==
  ASSUME UNCHANGED v1, Export!ArchiveCarriesTheCandidate
  PROVE  Export!ArchiveCarriesTheCandidate'
<1>1. Export!Linked' = Export!Linked
  BY LinkedSame
<1> QED BY <1>1, ConstantsSame DEF Export!ArchiveCarriesTheCandidate

Working == {"parent", "look", "link", "unlink", "inventory", "root"}
Counters == Working \cup {"idle", "preflight", "done", "refused"}

(* A step that publishes nothing keeps the invariant if it keeps what it    *)
(* changes.                                                                 *)
LEMMA Quiet ==
  ASSUME ExportAssumption, Export!Inv, UNCHANGED v1, Export!ReceiptFits',
         v2' \subseteq v2, v3' \subseteq Export!Dirs, v4' \subseteq Export!Dirs \cup {"attempt"},
         v6' \in Exports \cup {Absent}, v7' \subseteq Export!Names,
         v5' \in Counters, v5' = "refused" => \/ v5 = "refused" /\ UNCHANGED <<v3, v4, v6, v8>>
                                              \/ Export!RefusedBeforePublishing' /\ Export!RefusedForAReason',
         v5' # "idle" => v6' \in Exports /\ Top \in v3',
         v5' \in Working => Export!ExportFits',
         v5' = "preflight" => v1' = v8' /\ v7' = Export!NamesOf(v6'),
         v5' # "unlink" /\ v2' # {} => v4' # {}
  PROVE  Export!Inv' /\ (\A n \in Export!Linked : v1'[n] = v1[n])
<1>1. Export!Linked' = Export!Linked
  BY LinkedSame
<1>2. Export!TypeOK'
  BY <1>1, ConstantsSame DEF Export!Inv, Export!TypeOK
<1>3. Export!ArchiveCarriesTheCandidate'
  BY ArchiveSame DEF Export!Inv
<1>4. v1' = [n \in Export!Names |-> v1'[n]]
  BY DEF Export!Inv
<1>7. Export!NamesOf(v6)' = Export!NamesOf(v6')
  BY DEF Export!NamesOf, Export!Seal
<1>5. Export!RefusedBeforePublishing'
  BY DEF Export!Inv, Export!RefusedBeforePublishing
<1>6. Export!RefusedForAReason'
  <2>1. CASE v5 = "refused" /\ v5' = "refused" /\ UNCHANGED <<v3, v4, v6, v8>>
    <3>1. Export!NamesOf(v6)' = Export!NamesOf(v6) /\ Export!DirsOf(v6)' = Export!DirsOf(v6)
          /\ \A n : Export!Content(v6, n)' = Export!Content(v6, n)
      BY <2>1 DEF Export!NamesOf, Export!DirsOf, Export!Content, Export!OverlayFiles, Export!Seal
    <3> QED BY <1>1, <2>1, <3>1 DEF Export!Inv, Export!RefusedForAReason
  <2>2. CASE v5' # "refused"
    BY <2>2 DEF Export!RefusedForAReason
  <2> QED BY <2>1, <2>2
<1> QED BY <1>2, <1>3, <1>4, <1>5, <1>6, <1>7, ConstantsSame DEF Export!Inv, Working, Counters

(* An export is what it was. *)
LEMMA ConstantOps ==
  ASSUME UNCHANGED v6
  PROVE  /\ Export!NamesOf(v6)' = Export!NamesOf(v6) /\ Export!DirsOf(v6)' = Export!DirsOf(v6)
         /\ \A n : Export!Content(v6, n)' = Export!Content(v6, n)
  BY DEF Export!NamesOf, Export!DirsOf, Export!Content, Export!OverlayFiles, Export!Seal

(* The next name depends on what is left alone. *)
LEMMA TargetSame == ASSUME UNCHANGED v7 PROVE Export!Target' = Export!Target
  BY DEF Export!Target, Export!First, Export!Paths

(* An export is entered with all its names left. *)
LEMMA ExportEnterStep ==
  ASSUME ExportAssumption, Export!Inv, NEW e \in Exports, Export!Enter(e)
  PROVE  Export!Inv' /\ (\A n \in Export!Linked : v1'[n] = v1[n])
<1>1. /\ v5 = "idle" /\ v5' = "preflight" /\ v6' = e /\ v7' = Export!NamesOf(e) /\ v8' = v1
      /\ v3' = v3 \cup {Top} /\ UNCHANGED <<v1, v2, v4>>
  BY DEF Export!Enter
<1>2. v7' \subseteq Export!Names /\ Top \in Export!Dirs
  BY <1>1, ExportIs, NamesAre DEF Export!Dirs
<1>3. v1["export.json"] # Absent => Top \in v3
  <2>1. PICK f : f = v1["export.json"]
    OBVIOUS
  <2>2. f # Absent => f \in Exports /\ v3 = Export!DirsOf(f)
    BY <2>1 DEF Export!Inv, Export!ReceiptFits, Export!ReceiptSealsTheExport
  <2> QED BY <2>1, <2>2, ExportIs
<1>4. Export!ReceiptFits'
  <2>1. CASE v1["export.json"] = Absent
    BY <1>1, <2>1 DEF Export!ReceiptFits
  <2>2. CASE v1["export.json"] # Absent
    <3>1. UNCHANGED <<v1, v3>>
      BY <1>1, <1>3, <2>2
    <3> QED BY <3>1, SealedSame DEF Export!Inv
  <2> QED BY <2>1, <2>2
<1>5. v2' \subseteq v2 /\ v3' \subseteq Export!Dirs /\ v4' \subseteq Export!Dirs \cup {"attempt"}
      /\ (v2' # {} => v4' # {})
  BY <1>1, <1>2 DEF Export!Inv, Export!TypeOK
<1> QED BY <1>1, <1>2, <1>4, <1>5, Quiet DEF Working, Counters

(* Past its preflight an export extends what there is. *)
LEMMA PreflightStep ==
  ASSUME ExportAssumption, Export!Inv, Export!CheckPreflight
  PROVE  Export!Inv' /\ (\A n \in Export!Linked : v1'[n] = v1[n])
<1>1. /\ v5 = "preflight" /\ v5' = IF Export!Preflight(v6) THEN "parent" ELSE "refused"
      /\ UNCHANGED <<v1, v2, v3, v4, v6, v7, v8>>
  BY DEF Export!CheckPreflight, Export!tree
<1>2. Export!ReceiptFits'
  BY <1>1, SealedSame DEF Export!Inv
<1>3. /\ v6 \in Exports /\ v1 = v8 /\ Top \in v3 /\ (v2 # {} => v4 # {})
      /\ v2 \subseteq Export!Linked /\ v7 = Export!NamesOf(v6)
  BY <1>1 DEF Export!Inv, Export!TypeOK
<1>4. Export!Linked' = Export!Linked
  BY <1>1, LinkedSame
<1>5. /\ Export!NamesOf(v6)' = Export!NamesOf(v6) /\ Export!DirsOf(v6)' = Export!DirsOf(v6)
      /\ \A n : Export!Content(v6, n)' = Export!Content(v6, n)
  BY <1>1, ConstantOps
<1>6. ASSUME Export!Preflight(v6) PROVE Export!ExportFits'
  <2>1. /\ v4 \cap Export!Dirs = {} /\ v3 \subseteq Export!DirsOf(v6)
        /\ Export!Linked \subseteq Export!NamesOf(v6)
        /\ \A n \in Export!Linked : n \notin v2 /\ v1[n] = Export!Content(v6, n)
    BY <1>6 DEF Export!Preflight, Export!ScanAccepts, Export!Readable
  <2>2. v2 = {}
    BY <1>3, <2>1
  <2>3. v7 # {}
    BY <1>3, ExportIs
  <2> QED BY <1>1, <1>3, <1>4, <1>5, <1>6, <2>1, <2>2, <2>3, ConstantsSame DEF Export!ExportFits
<1>7. ASSUME ~ Export!Preflight(v6) PROVE Export!RefusedForAReason' /\ Export!RefusedBeforePublishing'
  <2>1. v1' = v8'
    BY <1>1, <1>3
  <2>2. \A n \in Export!Linked : v4 = {} => Export!Readable(n)
    BY <1>3, LinkedIs DEF Export!Readable
  <2>3. Export!Seal \subseteq Export!NamesOf(v6)
    BY DEF Export!NamesOf
  <2>4. \/ v4 # {}
        \/ \E n \in Export!Linked : n \notin Export!NamesOf(v6) \/ v1[n] # Export!Content(v6, n)
        \/ ~ (v3 \subseteq Export!DirsOf(v6))
    BY <1>7, <2>2, <2>3 DEF Export!Preflight, Export!ScanAccepts
  <2>5. Export!RefusedForAReason'
    BY <1>1, <1>4, <1>5, <2>4 DEF Export!RefusedForAReason
  <2> QED BY <2>1, <2>5 DEF Export!RefusedBeforePublishing
<1>8. v2' \subseteq v2 /\ v3' \subseteq Export!Dirs /\ v4' \subseteq Export!Dirs \cup {"attempt"}
      /\ v7' \subseteq Export!Names
  BY <1>1 DEF Export!Inv, Export!TypeOK
<1> QED BY <1>1, <1>2, <1>3, <1>6, <1>7, <1>8, Quiet DEF Working, Counters

(* The parent of the next name is made. *)
LEMMA ParentStep ==
  ASSUME ExportAssumption, Export!Inv, Export!MakeParent
  PROVE  Export!Inv' /\ (\A n \in Export!Linked : v1'[n] = v1[n])
<1>1. /\ v5 = "parent" /\ v5' = "look" /\ UNCHANGED <<v1, v2, v4, v6, v7, v8>>
      /\ v3' = IF Export!Target \in Export!Seal THEN v3 ELSE v3 \cup {Export!DirOf(Export!Target)}
  BY DEF Export!MakeParent
<1>2. /\ v6 \in Exports /\ Top \in v3 /\ Export!ExportFits /\ (v2 # {} => v4 # {})
      /\ v3 \subseteq Export!Dirs /\ v4 \subseteq Export!Dirs \cup {"attempt"}
      /\ v7 \subseteq Export!Names
  BY <1>1 DEF Export!Inv, Export!TypeOK
<1>3. /\ v4 \cap Export!Dirs = {} /\ v3 \subseteq Export!DirsOf(v6) /\ v2 = {}
      /\ \A n \in Export!Linked : n \in Export!NamesOf(v6) /\ v1[n] = Export!Content(v6, n)
      /\ \A n \in Export!NamesOf(v6) \ v7 :
            n \in Export!Linked /\ (n \notin Export!Seal => Parent[n] \in v3)
      /\ v7 \subseteq Export!NamesOf(v6) /\ v7 # {}
  BY <1>1, <1>2 DEF Export!ExportFits
<1>4. Export!Target \in v7 /\ Export!Target' = Export!Target
  BY <1>1, <1>2, <1>3, TargetIs, TargetSame
<1>5. Export!Target \notin Export!Seal => Export!DirOf(Export!Target) = Parent[Export!Target]
  BY DEF Export!DirOf
<1>6. Export!Target \notin Export!Seal => Parent[Export!Target] \in Export!DirsOf(v6)
  BY <1>2, <1>3, <1>4, ExportIs DEF Export!Seal
<1>7. /\ v3 \subseteq v3' /\ v3' \subseteq Export!DirsOf(v6)
      /\ Export!Target \notin Export!Seal => Parent[Export!Target] \in v3'
  BY <1>1, <1>3, <1>5, <1>6
<1>8. /\ Export!NamesOf(v6)' = Export!NamesOf(v6) /\ Export!DirsOf(v6)' = Export!DirsOf(v6)
      /\ \A n : Export!Content(v6, n)' = Export!Content(v6, n)
      /\ Export!Linked' = Export!Linked
  BY <1>1, ConstantOps, LinkedSame
<1>9. Export!ExportFits'
  BY <1>1, <1>3, <1>4, <1>7, <1>8, ConstantsSame DEF Export!ExportFits
<1>10. Export!ReceiptFits'
  <2>1. CASE v1["export.json"] = Absent
    BY <1>1, <2>1 DEF Export!ReceiptFits
  <2>2. CASE v1["export.json"] # Absent
    <3>1. "export.json" \in Export!Linked
      BY <2>2, LinkedIs, NamesAre
    <3>2. v1["export.json"] = v6
      BY <1>2, <1>3, <3>1, ExportIs
    <3>3. v3 = Export!DirsOf(v6)
      BY <2>2, <3>2 DEF Export!Inv, Export!ReceiptFits, Export!ReceiptSealsTheExport
    <3>4. UNCHANGED <<v1, v3>>
      BY <1>1, <1>7, <3>3
    <3> QED BY <3>4, SealedSame DEF Export!Inv
  <2> QED BY <2>1, <2>2
<1>11. v3' \subseteq Export!Dirs
  BY <1>2, <1>7, ExportIs
<1> QED BY <1>1, <1>2, <1>7, <1>9, <1>10, <1>11, Quiet DEF Working, Counters

(* After it advanced, an export has what it published. *)
LEMMA AdvanceStep ==
  ASSUME ExportAssumption, Export!Inv, v5 \in {"look", "unlink"}, v1[Export!Target] # Absent,
         v2' = {}, UNCHANGED <<v1, v3, v4, v6, v8>>, Export!Advance
  PROVE  Export!Inv' /\ (\A n \in Export!Linked : v1'[n] = v1[n])
<1>1. /\ v6 \in Exports /\ Top \in v3 /\ Export!ExportFits
      /\ v3 \subseteq Export!Dirs /\ v4 \subseteq Export!Dirs \cup {"attempt"}
      /\ v7 \subseteq Export!Names
  BY DEF Export!Inv, Export!TypeOK
<1>2. /\ v4 \cap Export!Dirs = {} /\ v3 \subseteq Export!DirsOf(v6)
      /\ \A n \in Export!Linked : n \in Export!NamesOf(v6) /\ v1[n] = Export!Content(v6, n)
      /\ \A n \in Export!NamesOf(v6) \ v7 :
            n \in Export!Linked /\ (n \notin Export!Seal => Parent[n] \in v3)
      /\ v7 \subseteq Export!NamesOf(v6) /\ v7 # {}
      /\ Export!Target \notin Export!Seal => Parent[Export!Target] \in v3
  BY <1>1 DEF Export!ExportFits
<1>3. PICK t \in v7 : t = Export!Target
  BY <1>1, <1>2, TargetIs
<1>4. /\ v7' = v7 \ {t}
      /\ v5' = IF v7' = {} THEN "root" ELSE IF v7' = Export!Seal THEN "inventory" ELSE "parent"
  BY <1>3 DEF Export!Advance
<1>5. t \in Export!Linked /\ (t \notin Export!Seal => Parent[t] \in v3)
  BY <1>1, <1>2, <1>3, LinkedIs
<1>6. /\ Export!NamesOf(v6)' = Export!NamesOf(v6) /\ Export!DirsOf(v6)' = Export!DirsOf(v6)
      /\ \A n : Export!Content(v6, n)' = Export!Content(v6, n)
      /\ Export!Linked' = Export!Linked
  BY ConstantOps, LinkedSame
<1>7. \A n \in Export!NamesOf(v6) \ v7' :
         n \in Export!Linked /\ (n \notin Export!Seal => Parent[n] \in v3)
  BY <1>2, <1>4, <1>5
<1>8. /\ v5' \in {"root", "inventory", "parent"} /\ (v5' = "parent" => v7' # {})
      /\ (v5' = "inventory" => v7' = Export!Seal) /\ (v5' = "root" => v7' = {})
  BY <1>4
<1>9. Export!ExportFits'
  BY <1>2, <1>4, <1>6, <1>7, <1>8, ConstantsSame DEF Export!ExportFits
<1>10. Export!ReceiptFits'
  BY SealedSame DEF Export!Inv
<1> QED BY <1>1, <1>4, <1>8, <1>9, <1>10, Quiet DEF Working, Counters

(* A name that is there has the content of this export. *)
LEMMA LookStep ==
  ASSUME ExportAssumption, Export!Inv, Export!Look
  PROVE  Export!Inv' /\ (\A n \in Export!Linked : v1'[n] = v1[n])
<1>1. v5 = "look" /\ UNCHANGED <<v1, v2, v3, v4, v6, v8>>
  BY DEF Export!Look, Export!tree
<1>2. /\ v6 \in Exports /\ Top \in v3 /\ Export!ExportFits
      /\ v3 \subseteq Export!Dirs /\ v4 \subseteq Export!Dirs \cup {"attempt"}
      /\ v7 \subseteq Export!Names /\ v2 = {}
  BY <1>1 DEF Export!Inv, Export!TypeOK, Export!ExportFits
<1>3. CASE v1[Export!Target] = Absent
  <2>1. v5' = "link" /\ UNCHANGED v7
    BY <1>3 DEF Export!Look, Export!Readable
  <2>2. /\ Export!NamesOf(v6)' = Export!NamesOf(v6) /\ Export!DirsOf(v6)' = Export!DirsOf(v6)
        /\ \A n : Export!Content(v6, n)' = Export!Content(v6, n)
        /\ Export!Linked' = Export!Linked /\ Export!Target' = Export!Target
    BY <1>1, <2>1, ConstantOps, LinkedSame, TargetSame
  <2>3. Export!ExportFits'
    BY <1>1, <1>2, <1>3, <2>1, <2>2, ConstantsSame DEF Export!ExportFits
  <2>4. Export!ReceiptFits'
    BY <1>1, SealedSame DEF Export!Inv
  <2> QED BY <1>1, <1>2, <2>1, <2>3, <2>4, Quiet DEF Working, Counters
<1>4. CASE v1[Export!Target] # Absent
  <2>1. Export!Target \in v7
    BY <1>1, <1>2, TargetIs DEF Export!ExportFits
  <2>2. Export!Target \in Export!Linked
    BY <1>2, <1>4, <2>1, LinkedIs
  <2>3. Export!Readable(Export!Target) /\ v1[Export!Target] = Export!Content(v6, Export!Target)
    BY <1>2, <1>4, <2>2 DEF Export!Readable, Export!ExportFits
  <2>4. Export!Advance
    BY <1>4, <2>3 DEF Export!Look
  <2> QED BY <1>1, <1>2, <1>4, <2>4, AdvanceStep
<1> QED BY <1>3, <1>4

(* The staging name goes. *)
LEMMA UnlinkStep ==
  ASSUME ExportAssumption, Export!Inv, Export!Unlink
  PROVE  Export!Inv' /\ (\A n \in Export!Linked : v1'[n] = v1[n])
<1>1. /\ v5 = "unlink" /\ v2' = v2 \ {Export!Target} /\ Export!Advance
      /\ UNCHANGED <<v1, v3, v4, v6, v8>>
  BY DEF Export!Unlink
<1>2. v2 = {Export!Target} /\ v1[Export!Target] # Absent
  BY <1>1 DEF Export!Inv, Export!ExportFits
<1>3. v2' = {}
  BY <1>1, <1>2
<1> QED BY <1>1, <1>2, <1>3, AdvanceStep

(* The inventory is complete when it is taken. *)
LEMMA InventoryStep ==
  ASSUME ExportAssumption, Export!Inv, Export!VerifyInventory
  PROVE  Export!Inv' /\ (\A n \in Export!Linked : v1'[n] = v1[n])
<1>1. /\ v5 = "inventory" /\ UNCHANGED <<v1, v2, v3, v4, v6, v7, v8>>
      /\ v5' = IF Export!InventoryVerified(v6) THEN "parent" ELSE "refused"
  BY DEF Export!VerifyInventory, Export!tree
<1>2. /\ v6 \in Exports /\ Top \in v3 /\ Export!ExportFits
      /\ v3 \subseteq Export!Dirs /\ v4 \subseteq Export!Dirs \cup {"attempt"}
      /\ v7 \subseteq Export!Names /\ v2 = {} /\ v7 = Export!Seal
  BY <1>1 DEF Export!Inv, Export!TypeOK, Export!ExportFits
<1>3. /\ v4 \cap Export!Dirs = {} /\ v3 \subseteq Export!DirsOf(v6)
      /\ \A n \in Export!Linked : n \in Export!NamesOf(v6) /\ v1[n] = Export!Content(v6, n)
      /\ \A n \in Export!NamesOf(v6) \ v7 :
            n \in Export!Linked /\ (n \notin Export!Seal => Parent[n] \in v3)
  BY <1>2 DEF Export!ExportFits
<1>4. \A p \in DOMAIN v6.files : p \in Export!NamesOf(v6) \ v7 /\ p \notin Export!Seal
  BY <1>2, ExportIs, NamesAre DEF Export!Seal
<1>5. v3 = Export!DirsOf(v6)
  BY <1>2, <1>3, <1>4 DEF Export!DirsOf
<1>6. Export!InventoryVerified(v6)
  BY <1>2, <1>3, <1>4, <1>5, LinkedIs
  DEF Export!InventoryVerified, Export!ScanAccepts, Export!Readable
<1>7. /\ Export!NamesOf(v6)' = Export!NamesOf(v6) /\ Export!DirsOf(v6)' = Export!DirsOf(v6)
      /\ \A n : Export!Content(v6, n)' = Export!Content(v6, n)
      /\ Export!Linked' = Export!Linked
  BY <1>1, ConstantOps, LinkedSame
<1>8. v5' = "parent" /\ v7 # {}
  BY <1>1, <1>2, <1>6, NamesAre
<1>9. Export!ExportFits'
  BY <1>1, <1>2, <1>7, <1>8, ConstantsSame DEF Export!ExportFits
<1>10. Export!ReceiptFits'
  BY <1>1, SealedSame DEF Export!Inv
<1> QED BY <1>1, <1>2, <1>8, <1>9, <1>10, Quiet DEF Working, Counters

(* Only a staging file in the root is found so late. *)
LEMMA RootStep ==
  ASSUME ExportAssumption, Export!Inv, Export!VerifyRoot
  PROVE  Export!Inv' /\ (\A n \in Export!Linked : v1'[n] = v1[n])
<1>1. /\ v5 = "root" /\ UNCHANGED <<v1, v2, v3, v4, v6, v7, v8>>
      /\ v5' = IF Export!RootVerified(v6) THEN "done" ELSE "refused"
  BY DEF Export!VerifyRoot, Export!tree
<1>2. /\ v6 \in Exports /\ Top \in v3 /\ Export!ExportFits
      /\ v3 \subseteq Export!Dirs /\ v4 \subseteq Export!Dirs \cup {"attempt"}
      /\ v7 \subseteq Export!Names /\ v2 = {} /\ v7 = {}
  BY <1>1 DEF Export!Inv, Export!TypeOK, Export!ExportFits
<1>3. Export!Seal \subseteq Export!Linked
  BY <1>2 DEF Export!ExportFits, Export!NamesOf
<1>4. \A n \in Export!Seal : Export!Readable(n) /\ v1[n] = Export!Content(v6, n)
  BY <1>2, <1>3, LinkedIs DEF Export!ExportFits, Export!Readable
<1>5. v5' = "refused" => "attempt" \in v4
  BY <1>1, <1>4 DEF Export!RootVerified
<1>6. v5' = "refused" => Export!RefusedBeforePublishing' /\ Export!RefusedForAReason'
  BY <1>1, <1>5 DEF Export!RefusedBeforePublishing, Export!RefusedForAReason
<1>7. Export!ReceiptFits'
  BY <1>1, SealedSame DEF Export!Inv
<1>8. v5' \in {"done", "refused"}
  BY <1>1
<1> QED BY <1>1, <1>2, <1>6, <1>7, <1>8, Quiet DEF Working, Counters

(* An export returns. *)
LEMMA ExportReturnStep ==
  ASSUME ExportAssumption, Export!Inv, Export!Return
  PROVE  Export!Inv' /\ (\A n \in Export!Linked : v1'[n] = v1[n])
<1>1. /\ v5 \in {"done", "refused"} /\ v5' = "idle" /\ v6' = Absent /\ v7' = {}
      /\ UNCHANGED <<v1, v2, v3, v4, v8>>
  BY DEF Export!Return, Export!tree
<1>2. /\ v3 \subseteq Export!Dirs /\ v4 \subseteq Export!Dirs \cup {"attempt"}
      /\ (v2 # {} => v4 # {})
  BY <1>1 DEF Export!Inv, Export!TypeOK
<1>3. Export!ReceiptFits'
  BY <1>1, SealedSame DEF Export!Inv
<1> QED BY <1>1, <1>2, <1>3, Quiet DEF Working, Counters

(* An exception leaves what was published. *)
LEMMA ExportAbortStep ==
  ASSUME ExportAssumption, Export!Inv, Export!Abort
  PROVE  Export!Inv' /\ (\A n \in Export!Linked : v1'[n] = v1[n])
<1>1. /\ v5' = "idle" /\ v6' = Absent /\ v7' = {} /\ UNCHANGED <<v1, v3, v4, v8>>
      /\ v2' = IF v5 = "unlink" THEN v2 \ {Export!Target} ELSE v2
  BY DEF Export!Abort
<1>2. v3 \subseteq Export!Dirs /\ v4 \subseteq Export!Dirs \cup {"attempt"}
  BY DEF Export!Inv, Export!TypeOK
<1>3. v2' \subseteq v2 /\ (v2' # {} => v4 # {})
  <2>1. v5 = "unlink" => v2 = {Export!Target}
    BY DEF Export!Inv, Export!ExportFits
  <2>2. v5 # "unlink" /\ v2 # {} => v4 # {}
    BY DEF Export!Inv
  <2> QED BY <1>1, <2>1, <2>2
<1>4. Export!ReceiptFits'
  BY <1>1, SealedSame DEF Export!Inv
<1> QED BY <1>1, <1>2, <1>3, <1>4, Quiet DEF Working, Counters

(* A crash leaves a staging file as well. *)
LEMMA ExportCrashStep ==
  ASSUME ExportAssumption, Export!Inv, Export!Crash
  PROVE  Export!Inv' /\ (\A n \in Export!Linked : v1'[n] = v1[n])
<1>1. /\ v5 \in {"link", "unlink"} /\ v5' = "idle" /\ v6' = Absent /\ v7' = {}
      /\ UNCHANGED <<v1, v2, v3, v8>> /\ v4' = v4 \cup {Export!DirOf(Export!Target)}
  BY DEF Export!Crash
<1>2. /\ v3 \subseteq Export!Dirs /\ v4 \subseteq Export!Dirs \cup {"attempt"}
      /\ v7 \subseteq Export!Names
  BY DEF Export!Inv, Export!TypeOK
<1>3. PICK t \in v7 : t = Export!Target
  BY <1>1, <1>2, TargetIs DEF Export!Inv, Export!ExportFits
<1>4. Export!DirOf(t) \in Export!Dirs \cup {"attempt"}
  BY <1>2, <1>3, NamesAre DEF Export!DirOf, Export!Dirs, Export!Seal
<1>5. Export!ReceiptFits'
  BY <1>1, SealedSame DEF Export!Inv
<1>6. v4' \subseteq Export!Dirs \cup {"attempt"} /\ v4' # {}
  BY <1>1, <1>2, <1>3, <1>4
<1> QED BY <1>1, <1>2, <1>5, <1>6, Quiet DEF Working, Counters

(* A name is published that was free, and the receipt is the last. *)
LEMMA LinkStep ==
  ASSUME ExportAssumption, Export!Inv, Export!Link
  PROVE  Export!Inv' /\ (\A n \in Export!Linked : v1'[n] = v1[n])
<1>1. /\ v5 = "link" /\ v5' = "unlink" /\ UNCHANGED <<v3, v4, v6, v7, v8>>
      /\ v1' = [v1 EXCEPT ![Export!Target] = Export!Content(v6, Export!Target)]
      /\ v2' = v2 \cup {Export!Target}
  BY DEF Export!Link
<1>2. /\ v6 \in Exports /\ Top \in v3 /\ Export!ExportFits /\ Export!TypeOK
      /\ v7 \subseteq Export!Names /\ v2 = {} /\ v7 # {} /\ v1[Export!Target] = Absent
      /\ v1 = [n \in Export!Names |-> v1[n]]
  BY <1>1 DEF Export!Inv, Export!TypeOK, Export!ExportFits
<1>3. /\ v4 \cap Export!Dirs = {} /\ v3 \subseteq Export!DirsOf(v6)
      /\ \A n \in Export!Linked : n \in Export!NamesOf(v6) /\ v1[n] = Export!Content(v6, n)
      /\ \A n \in Export!NamesOf(v6) \ v7 :
            n \in Export!Linked /\ (n \notin Export!Seal => Parent[n] \in v3)
      /\ v7 \subseteq Export!NamesOf(v6)
      /\ Export!Target \notin Export!Seal => Parent[Export!Target] \in v3
  BY <1>1, <1>2 DEF Export!ExportFits
<1>4. PICK t \in v7 : t = Export!Target
  BY <1>2, TargetIs
<1>5. PICK e \in Exports : e = v6
  BY <1>2
<1>6. /\ t \in Export!Seal => v7 \cap Export!Paths = {}
      /\ t = "export.json" => v7 = {"export.json"}
  BY <1>2, <1>4, TargetIs
<1>7. /\ v1' = [n \in Export!Names |-> v1'[n]] /\ v1'[t] = Export!Content(e, t)
      /\ \A n \in Export!Names : n # t => v1'[n] = v1[n]
  BY <1>1, <1>2, <1>4, <1>5
<1>8. Export!Content(e, t) # Absent
  BY <1>3, <1>4, <1>5, ExportIs
<1>9. Export!Linked' = Export!Linked \cup {t}
  BY <1>2, <1>4, <1>7, <1>8, ConstantsSame DEF Export!Linked
<1>10. t \notin Export!Linked
  BY <1>2, <1>4, LinkedIs
<1>11. \A n \in Export!Linked : v1'[n] = v1[n]
  BY <1>7, <1>10, LinkedIs
<1>12. /\ Export!NamesOf(v6)' = Export!NamesOf(v6) /\ Export!DirsOf(v6)' = Export!DirsOf(v6)
       /\ \A n : Export!Content(v6, n)' = Export!Content(v6, n)
       /\ Export!Target' = t
  BY <1>1, <1>4, ConstantOps, TargetSame
<1>13. \A n \in Export!Linked' : n \in Export!NamesOf(v6) /\ v1'[n] = Export!Content(v6, n)
  BY <1>3, <1>4, <1>5, <1>7, <1>9, <1>11
<1>14. v2' = {t}
  BY <1>1, <1>2, <1>4
<1>15. Export!ExportFits'
  BY <1>1, <1>2, <1>3, <1>4, <1>5, <1>7, <1>8, <1>9, <1>12, <1>13, <1>14, ConstantsSame
  DEF Export!ExportFits
<1>16. Export!TypeOK'
  BY <1>1, <1>2, <1>7, <1>9, <1>14, ConstantsSame DEF Export!TypeOK
<1>17. v1["export.json"] = Absent
  <2> SUFFICES ASSUME v1["export.json"] # Absent PROVE FALSE
    OBVIOUS
  <2>1. "export.json" \in Export!Linked
    BY LinkedIs, NamesAre
  <2>2. v1["export.json"] = v6
    BY <1>2, <1>3, <2>1, ExportIs
  <2>3. Export!Linked = Export!NamesOf(v6)
    BY <2>2 DEF Export!Inv, Export!ReceiptFits, Export!ReceiptSealsTheExport
  <2> QED BY <1>3, <1>4, <1>10, <2>3
<1>18. Export!ReceiptFits'
  <2>1. CASE t # "export.json"
    <3>1. v1'["export.json"] = Absent
      BY <1>7, <1>17, <2>1, NamesAre
    <3> QED BY <3>1 DEF Export!ReceiptFits
  <2>2. CASE t = "export.json"
    <3>1. v1'["export.json"] = e /\ v7 = {"export.json"}
      BY <1>6, <1>7, <2>2, ExportIs
    <3>2. Export!Linked' = Export!NamesOf(e)
      BY <1>3, <1>4, <1>5, <1>9, <1>13, <2>2, <3>1
    <3>3. ASSUME NEW p \in DOMAIN e.files PROVE Parent[p] \in v3
      <4>1. p \in Export!NamesOf(e) /\ p \in Export!Paths
        BY ExportIs
      <4>2. p \notin v7 /\ p \notin Export!Seal
        BY <3>1, <4>1, NamesAre
      <4> QED BY <1>3, <1>5, <4>1, <4>2
    <3>4. v3 = Export!DirsOf(e)
      BY <1>2, <1>3, <1>5, <3>3 DEF Export!DirsOf
    <3>5. \A n \in Export!Linked' : v1'[n] = Export!Content(e, n)
      BY <1>5, <1>13
    <3>6. /\ v1'["export.json"] = e /\ v6' = e /\ v3' = Export!DirsOf(e)
          /\ Export!Linked' = Export!NamesOf(e)
      BY <1>1, <1>5, <3>1, <3>2, <3>4
    <3> QED BY <3>5, <3>6 DEF Export!ReceiptFits, Export!ReceiptSealsTheExport, Export!NamesOf,
              Export!DirsOf, Export!Content, Export!OverlayFiles, Export!Seal
  <2> QED BY <2>1, <2>2
<1>19. Export!ArchiveCarriesTheCandidate'
  <2>1. \A p \in Export!Linked' \ Export!Seal : p \in DOMAIN e.files /\ v1'[p] = e.files[p]
    BY <1>5, <1>13, ExportIs DEF Export!Seal
  <2>2. v1'["candidate.zip"] # Absent => v1'["candidate.zip"] = Export!OverlayFiles(e)
    <3>1. CASE t = "candidate.zip"
      BY <1>7, <3>1, ExportIs
    <3>2. CASE t # "candidate.zip"
      <4>1. v1'["candidate.zip"] = v1["candidate.zip"]
        BY <1>7, <3>2, NamesAre
      <4>2. v1["candidate.zip"] # Absent => "candidate.zip" \in Export!Linked
        BY LinkedIs, NamesAre
      <4> QED BY <1>3, <1>5, <4>1, <4>2, ExportIs
    <3> QED BY <3>1, <3>2
  <2>3. v1'["candidate.zip"] # Absent =>
           \A p \in Export!Linked' \ Export!Seal :
              p \in DOMAIN v1'["candidate.zip"] /\ v1'["candidate.zip"][p] = v1'[p]
    BY <2>1, <2>2, ExportIs
  <2> QED BY <2>3, ConstantsSame DEF Export!ArchiveCarriesTheCandidate
<1>20. Export!RefusedBeforePublishing' /\ Export!RefusedForAReason'
  BY <1>1 DEF Export!RefusedBeforePublishing, Export!RefusedForAReason
<1>21. Export!Inv'
  BY <1>1, <1>2, <1>7, <1>15, <1>16, <1>18, <1>19, <1>20, ConstantsSame DEF Export!Inv
<1> QED BY <1>11, <1>21

(* At first nothing is published. *)
LEMMA ExportStart == ASSUME ExportAssumption, Export!Init PROVE Export!Inv
<1>1. /\ v1 = [n \in Export!Names |-> Absent] /\ v2 = {} /\ v3 = {} /\ v4 = {}
      /\ v5 = "idle" /\ v6 = Absent /\ v7 = {}
  BY DEF Export!Init
<1>2. \A n \in Export!Names : v1[n] = Absent
  BY <1>1
<1>3. Export!Linked = {} /\ v1["export.json"] = Absent /\ v1["candidate.zip"] = Absent
  BY <1>2, NamesAre DEF Export!Linked
<1>4. v1 = [n \in Export!Names |-> v1[n]]
  BY <1>1
<1>5. Export!TypeOK
  BY <1>1 DEF Export!TypeOK
<1>6. Export!ReceiptFits /\ Export!ArchiveCarriesTheCandidate
  BY <1>3 DEF Export!ReceiptFits, Export!ArchiveCarriesTheCandidate
<1>7. Export!RefusedBeforePublishing /\ Export!RefusedForAReason
  BY <1>1 DEF Export!RefusedBeforePublishing, Export!RefusedForAReason
<1> QED BY <1>1, <1>4, <1>5, <1>6, <1>7 DEF Export!Inv

(* Every action keeps the invariant, and what was published. *)
LEMMA ExportStep ==
  ASSUME ExportAssumption, Export!Inv, Export!Next
  PROVE  Export!Inv' /\ Export!PublishedIsFinal
<1>1. Export!Inv' /\ (\A n \in Export!Linked : v1'[n] = v1[n])
  BY ExportEnterStep, PreflightStep, ParentStep, LookStep, LinkStep, UnlinkStep, InventoryStep,
     RootStep, ExportReturnStep, ExportAbortStep, ExportCrashStep
  DEF Export!Next, Export!Program
<1> QED BY <1>1 DEF Export!PublishedIsFinal

(* A step of nothing keeps both. *)
LEMMA ExportStutters ==
  ASSUME Export!Inv, UNCHANGED all
  PROVE  Export!Inv' /\ Export!PublishedIsFinal
<1>1. UNCHANGED <<v1, v2, v3, v4, v5, v6, v7, v8>>
  BY DEF all
<1>2. Export!Linked' = Export!Linked /\ Export!Target' = Export!Target
  BY <1>1, LinkedSame, TargetSame
<1>3. /\ Export!NamesOf(v6)' = Export!NamesOf(v6) /\ Export!DirsOf(v6)' = Export!DirsOf(v6)
      /\ \A n : Export!Content(v6, n)' = Export!Content(v6, n)
  BY <1>1, ConstantOps
<1>4. Export!ReceiptFits' /\ Export!ArchiveCarriesTheCandidate'
  BY <1>1, SealedSame, ArchiveSame DEF Export!Inv
<1>5. Export!TypeOK'
  BY <1>1, <1>2, ConstantsSame DEF Export!Inv, Export!TypeOK
<1>6. Export!RefusedBeforePublishing' /\ Export!RefusedForAReason'
  BY <1>1, <1>2, <1>3 DEF Export!Inv, Export!RefusedBeforePublishing, Export!RefusedForAReason
<1>7. Export!ExportFits => Export!ExportFits'
  BY <1>1, <1>2, <1>3, ConstantsSame DEF Export!ExportFits
<1>8. Export!Inv'
  BY <1>1, <1>3, <1>4, <1>5, <1>6, <1>7, ConstantsSame DEF Export!Inv
<1> QED BY <1>1, <1>8 DEF Export!PublishedIsFinal

(* The properties follow from the invariant. *)
LEMMA ExportHolds ==
  ASSUME Export!Inv
  PROVE  /\ Export!TypeOK /\ Export!ReceiptSealsTheExport
         /\ Export!ArchiveCarriesTheCandidate /\ Export!RefusedBeforePublishing
         /\ Export!RefusedForAReason
  BY DEF Export!Inv, Export!ReceiptFits, Export!ReceiptSealsTheExport

-----------------------------------------------------------------------------
(* The theorem.                                                             *)

Parts == {"review", "export", "evaluation", "gapped", "pairs", "corpus"}

SealInv ==
  /\ part \in Parts
  /\ part = "review" => Review!Inv
  /\ part = "export" => Export!Inv

ReviewSealed ==
  part = "review" =>
    /\ Review!TypeOK /\ Review!DecisionAnswersTheRequest
    /\ Review!ClosedReviewIsComplete /\ Review!StatusLoadsUnlessCutOff
ExportSealed ==
  part = "export" =>
    /\ Export!TypeOK /\ Export!ReceiptSealsTheExport
    /\ Export!ArchiveCarriesTheCandidate /\ Export!RefusedBeforePublishing
    /\ Export!RefusedForAReason
StaysSealed ==
  /\ part = "review" => Review!EvidenceIsFinal
  /\ part = "export" => Export!PublishedIsFinal

(* The constants are those of the two parts. *)
LEMMA Assumed == ReviewAssumption /\ ExportAssumption
  BY SealAssumption DEF ReviewAssumption, ExportAssumption

(* The part that acts starts with its invariant, *)
LEMMA SealStarts == Init => SealInv
  BY Assumed, ReviewStart, ExportStart DEF Init, SealInv, Parts

(* keeps it, *)
LEMMA SealSteps ==
  ASSUME SealInv, [Next]_all
  PROVE  SealInv' /\ [StaysSealed]_all
<1>1. CASE ReviewActs
  <2>1. part = "review" /\ part' = part /\ Review!Next /\ Review!Inv
    BY <1>1 DEF ReviewActs, Rest7, SealInv
  <2>2. Review!Inv' /\ Grows
    BY <2>1, Assumed, ReviewStep
  <2> QED BY <2>1, <2>2, ReviewGrows DEF SealInv, StaysSealed, Parts
<1>2. CASE ExportActs
  <2>1. part = "export" /\ part' = part /\ Export!Next /\ Export!Inv
    BY <1>2 DEF ExportActs, SealInv
  <2> QED BY <2>1, Assumed, ExportStep DEF SealInv, StaysSealed, Parts
<1>3. CASE EvaluationActs \/ GappedActs \/ PairsActs \/ CorpusActs
  <2>1. part \in {"evaluation", "gapped", "pairs", "corpus"} /\ part' = part
    BY <1>3 DEF EvaluationActs, GappedActs, PairsActs, CorpusActs, Rest5, Rest7
  <2> QED BY <2>1 DEF SealInv, StaysSealed, Parts
<1>4. CASE UNCHANGED all
  <2>1. part' = part
    BY <1>4 DEF all
  <2> QED BY <1>4, <2>1, ReviewStutters, ExportStutters DEF SealInv, Parts
<1> QED BY <1>1, <1>2, <1>3, <1>4 DEF Next

(* and has its properties. *)
LEMMA SealHolds == SealInv => ReviewSealed /\ ExportSealed
  BY Assumed, ReviewHolds, ExportHolds DEF SealInv, ReviewSealed, ExportSealed

(* A decision answers the one closed request, by its reviewer and in its    *)
(* window, and a closed review is complete; an export that has its receipt  *)
(* is whole and carries the candidate; both are refused only where a        *)
(* cut-off operation or a different one went before; and nothing that was   *)
(* published is ever replaced, for any constants of the two parts.          *)
(* (decide_final_review, export_candidate, _publish_immutable_file)         *)
THEOREM OutcomeSealed == Spec => OutcomeIsSealed
<1>1. Init => SealInv
  BY SealStarts
<1>2. SealInv /\ [Next]_all => SealInv' /\ [StaysSealed]_all
  BY SealSteps
<1>3. SealInv => ReviewSealed /\ ExportSealed
  BY SealHolds
<1>4. Spec => []ReviewSealed /\ []ExportSealed /\ [][StaysSealed]_all
  BY <1>1, <1>2, <1>3, PTL DEF Spec
<1> QED BY <1>4 DEF OutcomeIsSealed, ReviewSealed, ExportSealed, StaysSealed
=============================================================================
