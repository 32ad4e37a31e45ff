------------------------- MODULE Knowledge_proofs -------------------------
(***************************************************************************)
(* What a run starts from and what its roles are told, for any number of   *)
(* processes, calls and edits, any source and any reference in it.  The    *)
(* four parts share no state, so each has its own invariant:               *)
(*                                                                         *)
(*   start     the ten files of a start appear in their order, each says   *)
(*             what its caller or the files before it say, one process     *)
(*             makes the tree, and every process knows only what is there; *)
(*   session   a chain's files appear in their order, each bound to those  *)
(*             before it, and a call has found, written or verified only   *)
(*             what is there; a chain left open has nobody at work on it;  *)
(*   scope     what a build selected is the least set that its entry and   *)
(*             its references give, so builds cannot differ in more than   *)
(*             their choice between files of one node;                     *)
(*   progress  an attempt's files appear in their order, what was seen     *)
(*             since a poll began lies between its last answer and now,    *)
(*             and what a poll has missed tells which phase was seen.      *)
(***************************************************************************)
EXTENDS MCKnowledge, Integers, Sequences, FiniteSetTheorems, TLAPS

-----------------------------------------------------------------------------
(* The start of a run.                                                      *)

(* No input, and nothing a file says, is None. *)
LEMMA NotAbsent ==
  ASSUME Start!RunStartAssumption, NEW i \in Start!Inputs
  PROVE  /\ i.request \in Requests /\ i.config \in Configs
         /\ i.request # None /\ i.config # None /\ "empty" # None /\ "opened" # None
         /\ <<i.request, i.config, i.config>> # None
         /\ <<i.request, i.config, <<i.request, i.config, i.config>>>> # None
<1>1. i.request \in Requests /\ i.config \in Configs
  BY DEF Start!Inputs
<1>2. <<i.request, i.config, i.config>> \in Start!Indexes
  BY <1>1 DEF Start!Indexes
<1>3. <<i.request, i.config, <<i.request, i.config, i.config>>>> \in Start!Anchors
  BY <1>1, <1>2 DEF Start!Anchors
<1> QED BY <1>1, <1>2, <1>3 DEF Start!RunStartAssumption

(* The ten files, in their order. *)
LEMMA OrderIs ==
  /\ Start!Names = {"context", "runtime", "checkpoint", "initialized", "bench", "request",
                    "config", "contract", "evidence", "anchor"}
  /\ Start!Order["context"] = 1 /\ Start!Order["runtime"] = 2 /\ Start!Order["checkpoint"] = 3
  /\ Start!Order["initialized"] = 4 /\ Start!Order["bench"] = 5 /\ Start!Order["request"] = 6
  /\ Start!Order["config"] = 7 /\ Start!Order["contract"] = 8 /\ Start!Order["evidence"] = 9
  /\ Start!Order["anchor"] = 10
  BY DEF Start!Names, Start!Order

(* There are ten of them. *)
LEMMA OrderFits == \A f \in Start!Names : Start!Order[f] \in 1..10
  BY OrderIs

(* The file after another one. *)
LEMMA Follows ==
  ASSUME NEW f \in Start!Names, f # "anchor"
  PROVE  /\ Start!Following(f) \in Start!Names
         /\ IF f = "initialized" /\ ~ v10 THEN Start!Following(f) = "request"
            ELSE Start!Order[Start!Following(f)] = Start!Order[f] + 1
<1>1. CASE f = "initialized" /\ ~ v10
  BY <1>1, OrderIs DEF Start!Following
<1>2. CASE ~(f = "initialized" /\ ~ v10)
  <2>1. \E g \in Start!Names : Start!Order[g] = Start!Order[f] + 1
    BY OrderIs
  <2> QED BY <1>2, <2>1 DEF Start!Following
<1> QED BY <1>1, <1>2

(* What a process writes is what its caller says. *)
LEMMA ContentIsSaid ==
  ASSUME NEW f \in Start!Names, NEW i \in Start!Inputs, f \notin {"runtime", "checkpoint"},
         \A g \in Start!Names : Start!Order[g] < Start!Order[f] => Start!Right(g, i)
  PROVE  Start!Content(f, i) = Start!Said(f, i)
<1>1. CASE f \notin {"evidence", "anchor"}
  BY <1>1, OrderIs DEF Start!Content, Start!Said
<1>2. CASE f = "evidence"
  BY <1>2, OrderIs DEF Start!Content, Start!Said, Start!Right
<1>3. CASE f = "anchor"
  BY <1>3, OrderIs DEF Start!Content, Start!Said, Start!Right
<1> QED BY <1>1, <1>2, <1>3

(* A file that is there stays as it is; only the checkpoint is opened. *)
WriteOnce ==
  /\ v10' = v10
  /\ \A f \in Start!Names :
       v1[f] = None \/ v1'[f] = v1[f] \/ (f = "checkpoint" /\ v1'[f] = "opened")

(* What a file says for an input it says for good. *)
LEMMA RightStays ==
  ASSUME Start!RunStartAssumption, WriteOnce, NEW f \in Start!Names, NEW i \in Start!Inputs,
         Start!Right(f, i)
  PROVE  Start!Right(f, i)'
<1>1. CASE f \in {"runtime", "checkpoint"}
  BY <1>1, NotAbsent DEF Start!Right, WriteOnce
<1>2. CASE f = "bench"
  BY <1>2, NotAbsent DEF Start!Right, WriteOnce
<1>3. CASE f \notin {"runtime", "checkpoint", "bench"}
  <2>1. Start!Said(f, i) # None
    BY <1>3, NotAbsent DEF Start!Said
  <2>2. Start!Said(f, i)' = Start!Said(f, i)
    BY DEF Start!Said
  <2> QED BY <1>3, <2>1, <2>2 DEF Start!Right, WriteOnce
<1> QED BY <1>1, <1>2, <1>3

(* What a process knows of the files stays true. *)
LEMMA StartFitStays ==
  ASSUME Start!RunStartAssumption, WriteOnce, NEW p \in Procs, Start!Fit(p), v5'[p] = v5[p]
  PROVE  Start!Fit(p)'
<1> DEFINE c == v5[p]
<1>0. Start!Doing(p)' = c.pc /\ Start!Doing(p) = c.pc /\ Start!Passed(p)' = Start!Passed(p)
  BY DEF Start!Doing, Start!Passed
<1>a. Start!Passed(p) \subseteq Start!Names
  BY DEF Start!Passed
<1>1. CASE c = Start!Idle
  BY <1>1 DEF Start!Fit, Start!Idle
<1>2. CASE /\ c \in [pc: {"looked"}, input: Start!Inputs, whole: BOOLEAN]
           /\ v1["context"] = c.input.request
           /\ \A f \in {"context", "runtime", "checkpoint", "initialized"} : v1[f] # None
           /\ c.whole => Start!Whole
  <2>1. \A f \in {"context", "runtime", "checkpoint", "initialized"} : v1'[f] # None
    BY <1>2, OrderIs, NotAbsent DEF WriteOnce
  <2>2. v1'["context"] = c.input.request
    BY <1>2, OrderIs DEF WriteOnce
  <2>3. Start!Whole => Start!Whole'
    BY OrderIs DEF WriteOnce, Start!Whole, Start!Stored, Start!Portable
  <2> QED BY <1>2, <2>1, <2>2, <2>3 DEF Start!Fit
<1>3. CASE /\ c \in [pc: {"next", "staged", "linked", "verify"}, at: Start!Names,
                     input: Start!Inputs]
           /\ c.at = "bench" => v10
           /\ c.at = "checkpoint" => c.pc = "next"
           /\ c.pc = "verify" => c.at \in {"bench", "request"}
           /\ \A f \in Start!Passed(p) : Start!Right(f, c.input)
  <2>1. \A f \in Start!Passed(p) : Start!Right(f, c.input)'
    BY <1>3, <1>a, RightStays
  <2>2. v10' = v10
    BY DEF WriteOnce
  <2> QED BY <1>0, <1>3, <2>1, <2>2 DEF Start!Fit
<1>4. CASE /\ c \in [pc: {"compose", "open", "invoke"}, input: Start!Inputs]
           /\ \A f \in Start!Names : Start!Right(f, c.input)
           /\ c.pc = "invoke" => v1["checkpoint"] = "opened"
  <2>1. \A f \in Start!Names : Start!Right(f, c.input)'
    BY <1>4, RightStays
  <2>2. c.pc = "invoke" => v1'["checkpoint"] = "opened"
    BY <1>4, OrderIs, NotAbsent DEF WriteOnce
  <2> QED BY <1>0, <1>4, <2>1, <2>2 DEF Start!Fit
<1> QED BY <1>0, <1>1, <1>2, <1>3, <1>4 DEF Start!Fit

(* At first there is no file and nobody started. *)
LEMMA StartStart == ASSUME Start!RunStartAssumption, Start!Init PROVE Start!Inv
<1>1. /\ v10 \in BOOLEAN /\ v1 = [f \in Start!Names |-> None] /\ v2 = FALSE /\ v3 = {}
      /\ v4 = TRUE /\ v5 = [p \in Procs |-> Start!Idle] /\ v6 = FALSE /\ v7 = 0
      /\ v8 = FALSE /\ v9 = <<>>
  BY DEF Start!Init
<1>2. \A p \in Procs : v5[p] = Start!Idle /\ Start!Doing(p) = "idle"
  BY <1>1 DEF Start!Doing, Start!Idle
<1>3. Start!TypeOK
  <2>1. v9 \in Seq(Start!Inputs) /\ v7 \in Nat /\ v7 <= MaxCalls
    BY <1>1 DEF Start!RunStartAssumption
  <2> QED BY <1>1, <1>2, <2>1 DEF Start!TypeOK
<1>4. Start!ProcsFit
  BY <1>1, <1>2 DEF Start!ProcsFit, Start!Fit
<1>5. Start!InOrder /\ Start!FilesAgree
  BY <1>1, OrderIs DEF Start!InOrder, Start!FilesAgree
<1>6. Start!StarterIsAlone /\ Start!NothingAtFirst
  BY <1>1, <1>2 DEF Start!StarterIsAlone, Start!NothingAtFirst
<1>7. Start!OneAtATime
  BY <1>1, <1>2 DEF Start!OneAtATime
<1>8. Start!StartedIsSeen
  BY <1>1 DEF Start!StartedIsSeen
<1> QED BY <1>1, <1>3, <1>4, <1>5, <1>6, <1>7, <1>8 DEF Start!Inv, Start!DispatchedFromTheEvidence

(* The source may change, or nothing. *)
LEMMA StartKept ==
  ASSUME Start!Inv, UNCHANGED <<v1, v2, v3, v5, v6, v7, v8, v9, v10>>, v4' \in BOOLEAN
  PROVE  Start!Inv'
<1>1. Start!TypeOK'
  BY DEF Start!Inv, Start!TypeOK, Start!Doing
<1>2. Start!ProcsFit'
  <2>1. \A p \in Procs : Start!Fit(p)'
    BY DEF Start!Inv, Start!ProcsFit, Start!Fit, Start!Doing, Start!Passed, Start!Right,
       Start!Said, Start!Whole, Start!Stored
  <2> QED BY <2>1 DEF Start!Inv, Start!ProcsFit
<1>3. Start!InOrder' /\ Start!FilesAgree' /\ Start!DispatchedFromTheEvidence'
  BY DEF Start!Inv, Start!InOrder, Start!FilesAgree, Start!DispatchedFromTheEvidence
<1>4. Start!StarterIsAlone' /\ Start!NothingAtFirst' /\ Start!OneAtATime' /\ Start!StartedIsSeen'
  BY DEF Start!Inv, Start!StarterIsAlone, Start!NothingAtFirst, Start!OneAtATime,
     Start!StartedIsSeen, Start!Doing
<1> QED BY <1>1, <1>2, <1>3, <1>4 DEF Start!Inv

(* What is sealed when the graph is started stays. *)
LEMMA DispatchesStay ==
  ASSUME Start!RunStartAssumption, Start!Inv, WriteOnce, v9' = v9
  PROVE  Start!DispatchedFromTheEvidence'
<1>1. ASSUME NEW n \in 1..Len(v9)
      PROVE  /\ v1'["request"] = v9[n].request /\ v1'["config"] = v9[n].config
             /\ v1'["contract"] = v9[n].config
             /\ v1'["evidence"] = <<v1'["request"], v1'["config"], v1'["contract"]>>
             /\ v1'["anchor"] # None
  <2>1. v9[n] \in Start!Inputs
    BY DEF Start!Inv, Start!TypeOK
  <2>2. /\ v1["request"] = v9[n].request /\ v1["config"] = v9[n].config
        /\ v1["contract"] = v9[n].config
        /\ v1["evidence"] = <<v1["request"], v1["config"], v1["contract"]>>
        /\ v1["anchor"] # None
    BY DEF Start!Inv, Start!DispatchedFromTheEvidence
  <2>3. /\ v1["request"] # None /\ v1["config"] # None /\ v1["contract"] # None
        /\ v1["evidence"] # None
    BY <2>1, <2>2, NotAbsent
  <2>4. ASSUME NEW f \in {"request", "config", "contract", "evidence", "anchor"}
        PROVE  v1'[f] = v1[f]
    BY <2>2, <2>3, OrderIs DEF WriteOnce
  <2> QED BY <2>2, <2>4
<1> QED BY <1>1 DEF Start!DispatchedFromTheEvidence

(* A process that is in a call goes on with it. *)
LEMMA StartGoesOn ==
  ASSUME Start!RunStartAssumption, Start!Inv, NEW p \in Procs, NEW s, v5[p] # Start!Idle,
         v5' = [v5 EXCEPT ![p] = s], UNCHANGED <<v6, v7, v8, v9, v10>>,
         v2' \in BOOLEAN, v3' \subseteq {"evidence", "state"}, v4' \in BOOLEAN,
         WriteOnce, Start!InOrder', Start!FilesAgree', Start!StartedIsSeen', Start!Fit(p)',
         s.pc \in {"next", "staged", "linked"} /\ Start!Order[s.at] <= 4 =>
            /\ \A q \in Procs : q # p => v5[q] = Start!Idle
            /\ \A f \in Start!Names : Start!Order[f] > Start!Order[s.at] => v1'[f] = None
            /\ s.pc # "linked" => v1'[s.at] = None,
         ~ v8 /\ v6 => s.pc \in {"idle", "looked"}
  PROVE  Start!Inv'
<1>1. v5'[p] = s /\ \A q \in Procs : q # p => v5'[q] = v5[q]
  BY DEF Start!Inv, Start!ProcsFit
<1>2. \A q \in Procs : Start!Doing(q)' = v5'[q].pc /\ Start!Doing(q) = v5[q].pc
  BY DEF Start!Doing
<1>3. \A q \in Procs : Start!Fit(q)'
  BY <1>1, StartFitStays DEF Start!Inv, Start!ProcsFit
<1>4. Start!ProcsFit'
  BY <1>1, <1>3 DEF Start!Inv, Start!ProcsFit
<1>5. Start!TypeOK'
  <2>1. \A q \in Procs :
          /\ Start!Doing(q)' \in {"idle", "looked", "next", "staged", "linked", "verify",
                                  "compose", "open", "invoke"}
          /\ Start!Doing(q)' \in {"next", "staged", "linked", "verify"} =>
               v5'[q].at \in Start!Names
    BY <1>2, <1>3 DEF Start!Fit, Start!Idle
  <2>2. DOMAIN v1' = Start!Names
    BY DEF Start!InOrder
  <2> QED BY <2>1, <2>2 DEF Start!Inv, Start!TypeOK
<1>6. Start!NothingAtFirst'
  BY DEF Start!Inv, Start!NothingAtFirst
<1>7. Start!StarterIsAlone'
  <2>1. ASSUME NEW q \in Procs, q # p, v5[q].pc \in {"next", "staged", "linked"}
        PROVE  Start!Order[v5[q].at] > 4
    <3>1. v5[q].at \in Start!Names
      BY <1>2, <2>1 DEF Start!Inv, Start!TypeOK
    <3> QED BY <1>2, <2>1, <3>1, OrderFits DEF Start!Inv, Start!StarterIsAlone
  <2>2. ASSUME NEW q \in Procs, q # p, v5'[q].pc \in {"next", "staged", "linked"}
        PROVE  ~(Start!Order[v5'[q].at] <= 4)
    <3>1. v5[q].at \in Start!Names
      BY <1>1, <1>2, <2>2 DEF Start!Inv, Start!TypeOK
    <3> QED BY <1>1, <2>1, <2>2, <3>1, OrderFits
  <2> QED BY <1>1, <1>2, <2>2 DEF Start!StarterIsAlone
<1>8. Start!OneAtATime'
  BY <1>1, <1>2 DEF Start!Inv, Start!OneAtATime
<1> QED BY <1>4, <1>5, <1>6, <1>7, <1>8, DispatchesStay DEF Start!Inv

(* While no file changes, they agree and are in order as before. *)
LEMMA FilesStay ==
  ASSUME Start!Inv, UNCHANGED <<v1, v10>>
  PROVE  WriteOnce /\ Start!InOrder' /\ Start!FilesAgree'
  BY DEF Start!Inv, Start!InOrder, Start!FilesAgree, WriteOnce

(* A process fails, dies, or ends. *)
LEMMA StartCrashes ==
  ASSUME Start!RunStartAssumption, Start!Inv, NEW p \in Procs, v5[p] # Start!Idle,
         Start!Fail(p), UNCHANGED <<v1, v2, v4, v6, v7, v8, v9, v10>>,
         v3' \subseteq {"evidence", "state"}
  PROVE  Start!Inv'
<1>1. v5' = [v5 EXCEPT ![p] = Start!Idle] /\ Start!Idle.pc = "idle"
  BY DEF Start!Fail, Start!Become, Start!Idle
<1>2. Start!Fit(p)'
  BY <1>1 DEF Start!Inv, Start!ProcsFit, Start!Fit
<1>3. v2' \in BOOLEAN /\ v4' \in BOOLEAN /\ Start!StartedIsSeen'
  BY DEF Start!Inv, Start!TypeOK, Start!StartedIsSeen
<1> QED BY <1>1, <1>2, <1>3, StartGoesOn, FilesStay

(* A process that is in a call knows what its state says. *)
LEMMA WorkFits ==
  ASSUME Start!Inv, NEW p \in Procs, Start!Doing(p) \in {"next", "staged", "linked", "verify"}
  PROVE  /\ v5[p] \in [pc: {"next", "staged", "linked", "verify"}, at: Start!Names,
                       input: Start!Inputs]
         /\ v5[p] # Start!Idle /\ v5[p].pc = Start!Doing(p)
         /\ v5[p].at = "bench" => v10
         /\ v5[p].at = "checkpoint" => v5[p].pc = "next"
         /\ v5[p].pc = "verify" => v5[p].at \in {"bench", "request"}
         /\ \A f \in Start!Passed(p) : Start!Right(f, v5[p].input)
  BY DEF Start!Inv, Start!ProcsFit, Start!Fit, Start!Doing, Start!Idle

(* A process whose files are published knows that all are right. *)
LEMMA EndFits ==
  ASSUME Start!Inv, NEW p \in Procs, Start!Doing(p) \in {"compose", "open", "invoke"}
  PROVE  /\ v5[p] \in [pc: {"compose", "open", "invoke"}, input: Start!Inputs]
         /\ v5[p] # Start!Idle /\ v5[p].pc = Start!Doing(p)
         /\ \A f \in Start!Names : Start!Right(f, v5[p].input)
         /\ v5[p].pc = "invoke" => v1["checkpoint"] = "opened"
  BY DEF Start!Inv, Start!ProcsFit, Start!Fit, Start!Doing, Start!Idle

(* Nobody goes on with a start of a graph that has started. *)
LEMMA NotStarted ==
  ASSUME Start!Inv, NEW p \in Procs, ~ v8, Start!Doing(p) \notin {"idle", "looked"}
  PROVE  ~ v6
  BY DEF Start!Inv, Start!OneAtATime

(* The file a process has come to is written, and it comes to the next one. *)
LEMMA WrittenFits ==
  ASSUME Start!Inv, NEW p \in Procs, Start!Doing(p) \in {"next", "linked"},
         v5' = [v5 EXCEPT ![p] = Start!Written(p)], v10' = v10,
         NEW i, i = v5[p].input,
         \A g \in Start!Names : Start!Order[g] <= Start!Order[v5[p].at] => Start!Right(g, i)'
  PROVE  /\ Start!Fit(p)'
         /\ Start!Written(p).pc \in {"next", "staged", "linked"} =>
               /\ Start!Written(p).pc = "next"
               /\ Start!Written(p).at \in Start!Names
               /\ Start!Order[Start!Written(p).at] > Start!Order[v5[p].at]
<1> DEFINE c == v5[p]
           s == Start!Written(p)
<1>1. /\ c \in [pc: {"next", "staged", "linked", "verify"}, at: Start!Names,
                input: Start!Inputs]
      /\ c.at = "bench" => v10
  BY WorkFits
<1>2. v5'[p] = s /\ Start!Doing(p)' = s.pc
  BY DEF Start!Inv, Start!ProcsFit, Start!Doing
<1>3. CASE c.at = "anchor"
  <2>1. s = [pc |-> "compose", input |-> c.input]
    BY <1>3 DEF Start!Written
  <2>2. \A g \in Start!Names : Start!Right(g, i)'
    BY <1>3, OrderIs, OrderFits
  <2> QED BY <1>1, <1>2, <2>1, <2>2 DEF Start!Fit
<1>4. CASE c.at # "anchor"
  <2> DEFINE n == Start!Following(c.at)
  <2>1. /\ n \in Start!Names
        /\ IF c.at = "initialized" /\ ~ v10 THEN n = "request"
           ELSE Start!Order[n] = Start!Order[c.at] + 1
    BY <1>1, <1>4, Follows
  <2> HIDE DEF n
  <2>2. s = [c EXCEPT !.pc = IF c.at = "initialized" THEN "verify" ELSE "next", !.at = n]
    BY <1>1, <1>4 DEF Start!Written, n
  <2>3. /\ s \in [pc: {"next", "staged", "linked", "verify"}, at: Start!Names,
                  input: Start!Inputs]
        /\ s.input = c.input /\ s.at = n
        /\ s.pc = IF c.at = "initialized" THEN "verify" ELSE "next"
    BY <1>1, <2>1, <2>2
  <2>4. /\ Start!Order[n] > Start!Order[c.at]
        /\ n = "bench" => v10
        /\ n = "checkpoint" => s.pc = "next"
        /\ s.pc = "verify" => n \in {"bench", "request"}
    BY <1>1, <2>1, <2>3, OrderIs
  <2>5. Start!Passed(p)' = {g \in Start!Names : Start!Order[g] < Start!Order[n]}
    BY <1>2, <2>3 DEF Start!Passed
  <2>6. ASSUME NEW g \in Start!Names, Start!Order[g] < Start!Order[n]
        PROVE  Start!Right(g, i)'
    <3>1. CASE Start!Order[g] <= Start!Order[c.at]
      BY <3>1
    <3>2. CASE g = "bench" /\ ~ v10
      BY <3>2 DEF Start!Right
    <3> QED BY <1>1, <2>1, <2>6, <3>1, <3>2, OrderIs
  <2> QED BY <1>2, <2>1, <2>3, <2>4, <2>5, <2>6 DEF Start!Fit
<1> QED BY <1>3, <1>4

(* The checkpoint of a new session is made by the one process there is. *)
LEMMA StartMakesCheckpoint ==
  ASSUME Start!RunStartAssumption, Start!Inv, NEW p \in Procs, Start!Stage(p),
         v5[p].at = "checkpoint"
  PROVE  Start!Inv'
<1> DEFINE c == v5[p]
           s == Start!Written(p)
<1>0. PICK i \in Start!Inputs : i = v5[p].input
  BY WorkFits DEF Start!Stage
<1>1. /\ v1' = [v1 EXCEPT !["checkpoint"] = "empty"] /\ v5' = [v5 EXCEPT ![p] = s]
      /\ UNCHANGED <<v2, v3, v4, v6, v7, v8, v9, v10>> /\ Start!Doing(p) = "next"
  BY DEF Start!Stage, Start!Become, Start!Content
<1>2. /\ c \in [pc: {"next", "staged", "linked", "verify"}, at: Start!Names,
                input: Start!Inputs]
      /\ c # Start!Idle /\ c.pc = "next"
      /\ \A f \in Start!Names : Start!Order[f] < 3 => Start!Right(f, i)
      /\ v1["checkpoint"] = None
      /\ \A q \in Procs : q # p => v5[q] = Start!Idle
      /\ \A f \in Start!Names : Start!Order[f] > 3 => v1[f] = None
  <2>1. Start!Order[c.at] = 3 /\ Start!Passed(p) = {f \in Start!Names : Start!Order[f] < 3}
    BY <1>1, OrderIs DEF Start!Passed
  <2>2. /\ v1["checkpoint"] = None
        /\ \A q \in Procs : q # p => v5[q] = Start!Idle
        /\ \A f \in Start!Names : Start!Order[f] > 3 => v1[f] = None
    BY <1>1, <2>1 DEF Start!Inv, Start!StarterIsAlone
  <2> QED BY <1>0, <1>1, <2>1, <2>2, WorkFits
<1>3. /\ v1'["checkpoint"] = "empty"
      /\ \A f \in Start!Names : f # "checkpoint" => v1'[f] = v1[f]
      /\ v1' = [f \in Start!Names |-> v1'[f]]
  BY <1>1, OrderIs DEF Start!Inv, Start!InOrder
<1>4. WriteOnce
  BY <1>1, <1>2, <1>3 DEF WriteOnce
<1>5. \A f \in Start!Names : Start!Order[f] < 3 => v1[f] # None
  BY <1>2, OrderIs, NotAbsent DEF Start!Right, Start!Said
<1>6. Start!InOrder'
  <2>1. \A f \in Start!Names : Start!Order[f] > 3 => v1'[f] = None
    BY <1>2, <1>3, OrderIs
  <2>2. \A f \in Start!Names : Start!Order[f] <= 3 => v1'[f] # None
    BY <1>3, <1>5, NotAbsent, OrderIs, <1>2
  <2> QED BY <1>1, <1>3, <2>1, <2>2, OrderIs DEF Start!InOrder
<1>7. Start!FilesAgree'
  BY <1>3, OrderIs DEF Start!Inv, Start!FilesAgree
<1>8. Start!StartedIsSeen' /\ ~ v6
  BY <1>1, <1>2, OrderIs DEF Start!Inv, Start!StartedIsSeen
<1>9. \A g \in Start!Names : Start!Order[g] <= Start!Order[c.at] => Start!Right(g, i)'
  <2>2. \A g \in Start!Names : Start!Order[g] < 3 => Start!Right(g, i)'
    BY <1>2, <1>4, RightStays
  <2>3. Start!Right("checkpoint", i)'
    BY <1>2, <1>3, NotAbsent DEF Start!Right
  <2> QED BY <2>2, <2>3, OrderIs, OrderFits
<1>10. /\ Start!Fit(p)'
       /\ s.pc \in {"next", "staged", "linked"} =>
               /\ s.pc = "next" /\ s.at \in Start!Names
               /\ Start!Order[s.at] > Start!Order[c.at]
  BY <1>0, <1>1, <1>9, WrittenFits
<1>11. v2' \in BOOLEAN /\ v3' \subseteq {"evidence", "state"} /\ v4' \in BOOLEAN
  BY <1>1 DEF Start!Inv, Start!TypeOK
<1>12. \A f \in Start!Names : Start!Order[f] > 3 => v1'[f] = None
  BY <1>2, <1>3, OrderIs
<1>13. s.pc \in {"next", "staged", "linked"} =>
         /\ \A q \in Procs : q # p => v5[q] = Start!Idle
         /\ \A f \in Start!Names : Start!Order[f] > Start!Order[s.at] => v1'[f] = None
         /\ v1'[s.at] = None
  BY <1>2, <1>10, <1>12, OrderIs, OrderFits
<1> HIDE DEF s
<1> QED BY <1>1, <1>2, <1>4, <1>6, <1>7, <1>8, <1>10, <1>11, <1>13, StartGoesOn

(* Whoever makes the tree is alone with it. *)
LEMMA Alone ==
  ASSUME Start!Inv, NEW p \in Procs, Start!Doing(p) \in {"next", "staged", "linked"},
         Start!Order[v5[p].at] <= 4
  PROVE  /\ \A q \in Procs : q # p => v5[q] = Start!Idle
         /\ \A f \in Start!Names : Start!Order[f] > Start!Order[v5[p].at] => v1[f] = None
         /\ Start!Doing(p) # "linked" => v1[v5[p].at] = None
  BY DEF Start!Inv, Start!StarterIsAlone

(* What is before the file a process has come to is right. *)
LEMMA BeforeIsRight ==
  ASSUME Start!Inv, NEW p \in Procs, Start!Doing(p) \in {"next", "staged", "linked", "verify"},
         NEW i, i = v5[p].input, NEW f \in Start!Names,
         \/ Start!Order[f] < Start!Order[v5[p].at]
         \/ Start!Doing(p) = "linked" /\ f = v5[p].at
  PROVE  Start!Right(f, i)
<1>1. f \in Start!Passed(p)
  <2>1. Start!Order[f] < Start!Order[v5[p].at] => Start!Order[f] <= Start!Order[v5[p].at]
    BY WorkFits, OrderFits
  <2>2. Start!Order[f] <= Start!Order[f]
    BY OrderFits
  <2> QED BY <2>1, <2>2 DEF Start!Passed
<1> QED BY <1>1, WorkFits

(* A process comes to the next file; no file changes. *)
LEMMA StartComesOn ==
  ASSUME Start!RunStartAssumption, Start!Inv, NEW p \in Procs,
         Start!Doing(p) \in {"next", "linked"}, v5[p].at # "checkpoint",
         Start!Become(p, Start!Written(p)), UNCHANGED <<v1, v2, v3, v4, v6, v7, v8, v9, v10>>,
         Start!Right(v5[p].at, v5[p].input)
  PROVE  Start!Inv'
<1> DEFINE c == v5[p]
           s == Start!Written(p)
<1>1. v5' = [v5 EXCEPT ![p] = s]
  BY DEF Start!Become
<1>2. PICK i \in Start!Inputs : i = c.input
  BY WorkFits
<1>3. c.at \in Start!Names /\ c # Start!Idle
  BY WorkFits
<1>4. WriteOnce /\ Start!InOrder' /\ Start!FilesAgree'
  BY FilesStay
<1>5. \A g \in Start!Names : Start!Order[g] <= Start!Order[c.at] => Start!Right(g, i)'
  <2>1. \A g \in Start!Names : Start!Order[g] < Start!Order[c.at] => Start!Right(g, i)
    BY <1>2, BeforeIsRight
  <2>2. \A g \in Start!Names : Start!Order[g] <= Start!Order[c.at] =>
          g = c.at \/ Start!Order[g] < Start!Order[c.at]
    BY <1>3, OrderIs
  <2> QED BY <1>2, <1>3, <1>4, <2>1, <2>2, RightStays
<1>6. /\ Start!Fit(p)'
      /\ s.pc \in {"next", "staged", "linked"} =>
               /\ s.pc = "next" /\ s.at \in Start!Names
               /\ Start!Order[s.at] > Start!Order[c.at]
  BY <1>1, <1>2, <1>5, WrittenFits
<1> HIDE DEF s
<1>7. s.pc \in {"next", "staged", "linked"} /\ Start!Order[s.at] <= 4 =>
         /\ \A q \in Procs : q # p => v5[q] = Start!Idle
         /\ \A f \in Start!Names : Start!Order[f] > Start!Order[s.at] => v1'[f] = None
         /\ s.pc # "linked" => v1'[s.at] = None
  BY <1>3, <1>6, OrderFits, Alone
<1>8. ~ v8 /\ v6 => s.pc \in {"idle", "looked"}
  BY NotStarted
<1>9. v2' \in BOOLEAN /\ v3' \subseteq {"evidence", "state"} /\ v4' \in BOOLEAN
      /\ Start!StartedIsSeen'
  BY DEF Start!Inv, Start!TypeOK, Start!StartedIsSeen
<1> QED BY <1>1, <1>3, <1>4, <1>6, <1>7, <1>8, <1>9, StartGoesOn

(* A process prepares what it will publish, or finds its new session verified. *)
LEMMA StartStages ==
  ASSUME Start!RunStartAssumption, Start!Inv, NEW p \in Procs, NEW t,
         \/ Start!Doing(p) = "next" /\ t = "staged"
         \/ Start!Doing(p) = "verify" /\ t = "next",
         v5[p].at # "checkpoint", Start!Become(p, [v5[p] EXCEPT !.pc = t]),
         UNCHANGED <<v1, v2, v3, v4, v6, v7, v8, v9, v10>>
  PROVE  Start!Inv'
<1> DEFINE c == v5[p]
           s == [c EXCEPT !.pc = t]
<1>1. v5' = [v5 EXCEPT ![p] = s]
  BY DEF Start!Become
<1>2. /\ c \in [pc: {"next", "staged", "linked", "verify"}, at: Start!Names,
                input: Start!Inputs]
      /\ c # Start!Idle
      /\ c.at = "bench" => v10
      /\ c.pc = "verify" => c.at \in {"bench", "request"}
      /\ c.pc = Start!Doing(p)
      /\ \A f \in Start!Passed(p) : Start!Right(f, c.input)
  BY WorkFits
<1>3. /\ s \in [pc: {"next", "staged", "linked", "verify"}, at: Start!Names,
                input: Start!Inputs]
      /\ s.pc = t /\ s.at = c.at /\ s.input = c.input
  BY <1>2
<1> HIDE DEF s
<1>4. v5'[p] = s /\ Start!Doing(p)' = t /\ Start!Passed(p)' = Start!Passed(p)
  BY <1>1, <1>3 DEF Start!Inv, Start!ProcsFit, Start!Doing, Start!Passed
<1>5. WriteOnce /\ Start!InOrder' /\ Start!FilesAgree'
  BY FilesStay
<1>6. Start!Fit(p)'
  <2>1. PICK i \in Start!Inputs : i = c.input
    BY <1>2
  <2>2. \A f \in Start!Passed(p) : f \in Start!Names /\ Start!Right(f, i)
    BY <1>2, <2>1 DEF Start!Passed
  <2>3. \A f \in Start!Passed(p) : Start!Right(f, i)'
    BY <2>1, <2>2, <1>5, RightStays
  <2>4. v5'[p].input = i
    BY <1>3, <1>4, <2>1
  <2>5. \A f \in Start!Passed(p)' : Start!Right(f, v5[p].input)'
    BY <1>4, <2>3, <2>4
  <2>6. v10' = v10 /\ s.at # "checkpoint"
    BY <1>3
  <2> QED BY <1>2, <1>3, <1>4, <2>5, <2>6 DEF Start!Fit
<1>7. s.pc \in {"next", "staged", "linked"} /\ Start!Order[s.at] <= 4 =>
         /\ \A q \in Procs : q # p => v5[q] = Start!Idle
         /\ \A f \in Start!Names : Start!Order[f] > Start!Order[s.at] => v1'[f] = None
         /\ s.pc # "linked" => v1'[s.at] = None
  BY <1>2, <1>3, Alone, OrderIs
<1>8. ~ v8 /\ v6 => s.pc \in {"idle", "looked"}
  BY NotStarted
<1>9. v2' \in BOOLEAN /\ v3' \subseteq {"evidence", "state"} /\ v4' \in BOOLEAN
      /\ Start!StartedIsSeen'
  BY DEF Start!Inv, Start!TypeOK, Start!StartedIsSeen
<1>10. v5[p] # Start!Idle
  BY <1>2
<1> HIDE DEF c
<1> QED BY <1>1, <1>10, <1>5, <1>6, <1>7, <1>8, <1>9, StartGoesOn

(* Every file is staged before it is published. *)
LEMMA StartStage ==
  ASSUME Start!RunStartAssumption, Start!Inv, NEW p \in Procs, Start!Stage(p)
  PROVE  Start!Inv'
<1> DEFINE c == v5[p]
           value == Start!Content(c.at, c.input)
<1>1. Start!Doing(p) = "next" /\ UNCHANGED <<v2, v4, v3, v6, v7, v8, v9, v10>>
  BY DEF Start!Stage
<1>2. c \in [pc: {"next", "staged", "linked", "verify"}, at: Start!Names, input: Start!Inputs]
      /\ c # Start!Idle
  BY <1>1, WorkFits
<1>3. CASE c.at = "checkpoint"
  BY <1>3, StartMakesCheckpoint
<1>4. CASE c.at # "checkpoint" /\ Start!Become(p, [c EXCEPT !.pc = "staged"]) /\ UNCHANGED v1
  BY <1>1, <1>4, StartStages
<1>5. CASE /\ c.at # "checkpoint" /\ Start!Become(p, Start!Written(p)) /\ UNCHANGED v1
           /\ Start!Root(c.at) # "state" /\ v1[c.at] = value
  <2>1. c.at \in Start!Portable
    BY <1>5 DEF Start!Root
  <2>2. PICK i \in Start!Inputs : i = c.input
    BY <1>2
  <2>3. value = Start!Said(c.at, i)
    BY <1>1, <1>2, <2>1, <2>2, BeforeIsRight, ContentIsSaid DEF Start!Portable
  <2>4. Start!Right(c.at, i)
    BY <1>5, <2>1, <2>3 DEF Start!Right, Start!Portable
  <2> QED BY <1>1, <1>5, <2>2, <2>4, StartComesOn
<1>6. CASE c.at # "checkpoint" /\ Start!Fail(p) /\ UNCHANGED v1
  BY <1>1, <1>2, <1>6, StartCrashes DEF Start!Inv, Start!TypeOK
<1>7. CASE c.at # "checkpoint"
  BY <1>4, <1>5, <1>6, <1>7 DEF Start!Stage
<1> QED BY <1>3, <1>7

(* The staged copy goes, and the process comes to the next file. *)
LEMMA StartUnlink ==
  ASSUME Start!RunStartAssumption, Start!Inv, NEW p \in Procs, Start!Unlink(p)
  PROVE  Start!Inv'
<1>1. /\ Start!Doing(p) = "linked" /\ Start!Become(p, Start!Written(p))
      /\ UNCHANGED <<v1, v2, v3, v4, v6, v7, v8, v9, v10>>
  BY DEF Start!Unlink
<1>2. v5[p].at \in Start!Names /\ v5[p].at # "checkpoint"
  BY <1>1, WorkFits
<1>3. PICK i : i = v5[p].input
  OBVIOUS
<1>4. Start!Right(v5[p].at, i)
  BY <1>1, <1>2, <1>3, BeforeIsRight
<1> QED BY <1>1, <1>2, <1>3, <1>4, StartComesOn

(* A link makes a file, or leaves the one that says the same. *)
LEMMA StartLinks ==
  ASSUME Start!RunStartAssumption, Start!Inv, NEW p \in Procs, Start!Doing(p) = "staged",
         NEW value, value = Start!Content(v5[p].at, v5[p].input),
         v1[v5[p].at] \in {None, value},
         v1' = [v1 EXCEPT ![v5[p].at] = value],
         Start!Become(p, [v5[p] EXCEPT !.pc = "linked"]),
         UNCHANGED <<v2, v3, v4, v6, v7, v8, v9, v10>>
  PROVE  Start!Inv'
<1> DEFINE c == v5[p]
           s == [c EXCEPT !.pc = "linked"]
<1>1. v5' = [v5 EXCEPT ![p] = s]
  BY DEF Start!Become
<1>2. /\ c \in [pc: {"next", "staged", "linked", "verify"}, at: Start!Names,
                input: Start!Inputs]
      /\ c # Start!Idle
      /\ c.at = "bench" => v10
      /\ c.at # "checkpoint"
  BY WorkFits
<1>3. /\ s \in [pc: {"next", "staged", "linked", "verify"}, at: Start!Names,
                input: Start!Inputs]
      /\ s.pc = "linked" /\ s.at = c.at /\ s.input = c.input
  BY <1>2
<1> HIDE DEF s
<1>4. v5'[p] = s /\ Start!Doing(p)' = "linked"
  BY <1>1, <1>3 DEF Start!Inv, Start!ProcsFit, Start!Doing
<1>5. PICK i \in Start!Inputs : i = c.input
  BY <1>2
<1>6. PICK f \in Start!Names : f = c.at
  BY <1>2
<1>7. /\ v1' = [g \in Start!Names |-> v1'[g]]
      /\ v1'[f] = value
      /\ \A g \in Start!Names : g # f => v1'[g] = v1[g]
      /\ v1[f] \in {None, value}
  BY <1>6 DEF Start!Inv, Start!InOrder
<1>8. WriteOnce
  BY <1>7 DEF WriteOnce
<1>9. \A g \in Start!Names : Start!Order[g] < Start!Order[f] => Start!Right(g, i)
  BY <1>5, <1>6, BeforeIsRight
<1>10. value = IF f = "runtime" THEN i.request ELSE Start!Said(f, i)
  <2>1. CASE f = "runtime"
    BY <2>1, <1>5, <1>6 DEF Start!Content
  <2>2. CASE f # "runtime"
    BY <2>2, <1>2, <1>5, <1>6, <1>9, ContentIsSaid
  <2> QED BY <2>1, <2>2
<1>11. value # None
  BY <1>10, NotAbsent DEF Start!Said
<1>12. Start!Right(f, i)'
  BY <1>2, <1>6, <1>7, <1>10, <1>11 DEF Start!Right, Start!Said
<1>13. \A g \in Start!Names :
         Start!Order[g] < Start!Order[f] => v1[g] # None \/ (g = "bench" /\ ~ v10)
  BY <1>9, NotAbsent DEF Start!Right, Start!Said
<1>14. v1[f] = None => \A g \in Start!Names : Start!Order[g] > Start!Order[f] => v1[g] = None
  BY <1>2, <1>6, OrderFits DEF Start!Inv, Start!InOrder
<1>15. Start!InOrder'
  <2>1. ~ v10' => v1'["bench"] = None
    BY <1>2, <1>6, <1>7, OrderIs DEF Start!Inv, Start!InOrder
  <2>2. ASSUME NEW g \in Start!Names, NEW h \in Start!Names, v1'[h] # None,
               Start!Order[g] < Start!Order[h]
        PROVE  v1'[g] # None \/ (g = "bench" /\ ~ v10')
    <3>1. CASE g = f
      BY <3>1, <1>7, <1>11
    <3>2. CASE g # f /\ h = f
      BY <2>2, <3>2, <1>7, <1>13
    <3>3. CASE g # f /\ h # f
      BY <2>2, <3>3, <1>7 DEF Start!Inv, Start!InOrder
    <3> QED BY <3>1, <3>2, <3>3
  <2> QED BY <1>7, <2>1, <2>2 DEF Start!InOrder
<1>16. Start!FilesAgree'
  <2>1. CASE v1[f] = value
    <3>1. \A g \in Start!Names : v1'[g] = v1[g]
      BY <2>1, <1>7
    <3>2. \A g \in {"context", "bench", "config", "initialized", "request", "contract",
                    "evidence", "anchor"} : v1'[g] = v1[g]
      BY <3>1, OrderIs
    <3> QED BY <3>2 DEF Start!Inv, Start!FilesAgree
  <2>2. CASE v1[f] = None
    <3> USE NotAbsent DEF Start!Inv, Start!FilesAgree, Start!Right, Start!Said
    <3>0. \A g \in Start!Names : g # f => v1'[g] = v1[g]
      BY <1>7
    <3>a. \A g \in Start!Names : Start!Order[g] > Start!Order[f] => v1'[g] = None
      BY <2>2, <1>7, <1>14, OrderFits
    <3>b. i.request \in {j.request : j \in Start!Inputs} /\ i.config \in Configs
      BY NotAbsent
    <3>1. CASE f = "context"
      <4>1. v1'["context"] = i.request
        BY <1>7, <1>10, <3>1, OrderIs
      <4>2. \A g \in {"bench", "config", "initialized", "request", "contract", "evidence", "anchor"} :
                v1'[g] = None
        BY <3>a, <3>1, OrderIs
      <4> QED BY <3>b, <4>1, <4>2
    <3>8. CASE f \in {"runtime", "checkpoint"}
      <4>1. \A g \in Start!Names \ {"runtime", "checkpoint"} : v1'[g] = v1[g]
        BY <1>6, <1>7, <3>0, <3>8, OrderIs
      <4>2. \A g \in {"context", "bench", "config", "initialized", "request", "contract",
                      "evidence", "anchor"} : v1'[g] = v1[g]
        BY <4>1, OrderIs
      <4> QED BY <4>2
    <3>2. CASE f \in {"initialized", "bench"}
      <4>1. \A g \in Start!Names : Start!Order[g] <= 3 => v1'[g] = v1[g]
        BY <3>0, <3>2, OrderIs
      <4>2. \A g \in {"config", "request", "contract", "evidence", "anchor"} : v1'[g] = None
        BY <3>a, <3>2, OrderIs
      <4>3. v1["context"] = i.request /\ v1'["context"] = i.request
        BY <1>9, <3>2, <4>1, OrderIs
      <4>4. v1'[f] = IF f = "bench" THEN i.config ELSE i.request
        BY <1>7, <1>10, <3>2
      <4>5. CASE f = "initialized"
        <5>1. v1'["bench"] = None /\ v1'["initialized"] = i.request
          BY <3>a, <4>4, <4>5, OrderIs
        <5> QED BY <3>b, <4>2, <4>3, <5>1
      <4>6. CASE f = "bench"
        <5>1. v1'["initialized"] = v1["initialized"] /\ v1'["bench"] = i.config
          BY <3>0, <4>4, <4>6, OrderIs
        <5> QED BY <3>b, <4>2, <4>3, <5>1
      <4> QED BY <3>2, <4>5, <4>6
    <3>3. CASE f = "request"
      BY <1>7, <1>9, <1>10, <3>0, <3>a, <3>b, <3>3, OrderIs
    <3>4. CASE f = "config"
      <4>1. v1["bench"] \in {None, i.config}
        BY <1>9, <3>4, OrderIs DEF Start!InOrder
      <4>2. \A g \in {"context", "bench", "initialized", "request"} : v1'[g] = v1[g]
        BY <3>0, <3>4, OrderIs
      <4>3. v1'["config"] = i.config
        BY <1>7, <1>10, <3>4
      <4>4. \A g \in {"contract", "evidence", "anchor"} : v1'[g] = None
        BY <3>a, <3>4, OrderIs
      <4> QED BY <3>b, <4>1, <4>2, <4>3, <4>4
    <3>5. CASE f = "contract"
      <4>1. \A g \in {"context", "bench", "initialized", "request", "config"} : v1'[g] = v1[g]
        BY <3>0, <3>5, OrderIs
      <4>2. v1["config"] = i.config /\ v1'["contract"] = i.config
        BY <1>7, <1>9, <1>10, <3>5, OrderIs
      <4>3. \A g \in {"evidence", "anchor"} : v1'[g] = None
        BY <3>a, <3>5, OrderIs
      <4> QED BY <4>1, <4>2, <4>3
    <3>6. CASE f = "evidence"
      <4>1. \A g \in {"context", "bench", "initialized", "request", "config", "contract"} :
                v1'[g] = v1[g]
        BY <3>0, <3>6, OrderIs
      <4>2. v1["request"] = i.request /\ v1["config"] = i.config /\ v1["contract"] = i.config
        BY <1>9, <3>6, OrderIs
      <4>3. v1'["evidence"] = <<i.request, i.config, i.config>>
        BY <1>7, <1>10, <3>6
      <4>4. v1'["anchor"] = None
        BY <3>a, <3>6, OrderIs
      <4> QED BY <4>1, <4>2, <4>3, <4>4
    <3>7. CASE f = "anchor"
      <4>1. \A g \in Start!Names \ {"anchor"} : v1'[g] = v1[g]
        BY <3>0, <3>7
      <4>2. /\ v1["request"] = i.request /\ v1["config"] = i.config
            /\ v1["evidence"] = <<i.request, i.config, i.config>>
        BY <1>9, <3>7, OrderIs
      <4>3. v1'["anchor"] = <<i.request, i.config, <<i.request, i.config, i.config>>>>
        BY <1>7, <1>10, <3>7
      <4>4. v1'["anchor"] = <<v1'["request"], v1'["config"], v1'["evidence"]>>
        BY <4>1, <4>2, <4>3, OrderIs
      <4> QED BY <4>1, <4>4, OrderIs
    <3> QED BY <3>1, <3>2, <3>3, <3>4, <3>5, <3>6, <3>7, <3>8, OrderIs
  <2> QED BY <1>7, <2>1, <2>2
<1>17. Start!Fit(p)'
  <2>1. Start!Passed(p)' = {g \in Start!Names : Start!Order[g] <= Start!Order[f]}
    BY <1>3, <1>4, <1>6 DEF Start!Passed
  <2>2. \A g \in Start!Names : Start!Order[g] <= Start!Order[f] =>
          g = f \/ Start!Order[g] < Start!Order[f]
    BY OrderIs
  <2>3. \A g \in Start!Names : Start!Order[g] <= Start!Order[f] => Start!Right(g, i)'
    BY <2>2, <1>8, <1>9, <1>12, RightStays
  <2>4. v5'[p].input = i /\ v10' = v10
    BY <1>3, <1>4, <1>5
  <2>5. \A g \in Start!Passed(p)' : Start!Right(g, v5[p].input)'
    BY <2>1, <2>3, <2>4
  <2> QED BY <1>2, <1>3, <1>4, <2>4, <2>5 DEF Start!Fit
<1>18. s.pc \in {"next", "staged", "linked"} /\ Start!Order[s.at] <= 4 =>
         /\ \A q \in Procs : q # p => v5[q] = Start!Idle
         /\ \A g \in Start!Names : Start!Order[g] > Start!Order[s.at] => v1'[g] = None
         /\ s.pc # "linked" => v1'[s.at] = None
  BY <1>3, <1>6, <1>7, Alone, OrderFits
<1>19. ~ v8 /\ v6 => s.pc \in {"idle", "looked"}
  BY NotStarted
<1>20. v2' \in BOOLEAN /\ v3' \subseteq {"evidence", "state"} /\ v4' \in BOOLEAN
  BY DEF Start!Inv, Start!TypeOK
<1>21. Start!StartedIsSeen'
  BY <1>2, <1>6, <1>7, <1>11, OrderIs DEF Start!Inv, Start!StartedIsSeen
<1>22. v5[p] # Start!Idle
  BY <1>2
<1> HIDE DEF c
<1> QED BY <1>1, <1>8, <1>15, <1>16, <1>17, <1>18, <1>19, <1>20, <1>21, <1>22, StartGoesOn

(* A file is published by a link, and the staged copy goes next. *)
LEMMA StartLink ==
  ASSUME Start!RunStartAssumption, Start!Inv, NEW p \in Procs, Start!Link(p)
  PROVE  Start!Inv'
<1>1. Start!Doing(p) = "staged" /\ UNCHANGED <<v2, v3, v4, v6, v7, v8, v9, v10>>
  BY DEF Start!Link
<1>2. PICK value : value = Start!Content(v5[p].at, v5[p].input)
  OBVIOUS
<1>3. CASE v1[v5[p].at] \in {None, value}
  BY <1>1, <1>2, <1>3, StartLinks DEF Start!Link
<1>4. CASE v1[v5[p].at] \notin {None, value}
  BY <1>1, <1>2, <1>4, WorkFits, StartCrashes DEF Start!Link, Start!Inv, Start!TypeOK
<1> QED BY <1>3, <1>4

(* A process goes on past the publishing of files: it is not the starter. *)
LEMMA StartEnds ==
  ASSUME Start!RunStartAssumption, Start!Inv, NEW p \in Procs,
         Start!Doing(p) \in {"compose", "open"}, NEW t \in {"open", "invoke"},
         Start!Become(p, [v5[p] EXCEPT !.pc = t]), v2' \in BOOLEAN,
         UNCHANGED <<v3, v4, v6, v7, v8, v9, v10>>,
         IF t = "open" THEN UNCHANGED v1
         ELSE v1' = [v1 EXCEPT !["checkpoint"] = "opened"]
  PROVE  Start!Inv'
<1> DEFINE c == v5[p]
           s == [c EXCEPT !.pc = t]
<1>1. v5' = [v5 EXCEPT ![p] = s]
  BY DEF Start!Become
<1>2. /\ c \in [pc: {"compose", "open", "invoke"}, input: Start!Inputs]
      /\ c # Start!Idle
      /\ \A f \in Start!Names : Start!Right(f, c.input)
  BY EndFits
<1>3. /\ s \in [pc: {"compose", "open", "invoke"}, input: Start!Inputs]
      /\ s.pc = t /\ s.input = c.input
  BY <1>2
<1> HIDE DEF s
<1>4. v5'[p] = s /\ Start!Doing(p)' = t
  BY <1>1, <1>3 DEF Start!Inv, Start!ProcsFit, Start!Doing
<1>5. /\ v1' = [g \in Start!Names |-> v1'[g]]
      /\ \A g \in Start!Names : g # "checkpoint" => v1'[g] = v1[g]
      /\ v1'["checkpoint"] = IF t = "open" THEN v1["checkpoint"] ELSE "opened"
  BY OrderIs DEF Start!Inv, Start!InOrder
<1>6. WriteOnce
  BY <1>5 DEF WriteOnce
<1>7. v1["checkpoint"] # None /\ v1'["checkpoint"] # None
  BY <1>2, <1>5, OrderIs, NotAbsent DEF Start!Right
<1>8. Start!InOrder'
  BY <1>5, <1>7, OrderIs DEF Start!Inv, Start!InOrder
<1>9. Start!FilesAgree'
  BY <1>5, OrderIs DEF Start!Inv, Start!FilesAgree
<1>10. Start!Fit(p)'
  <2>1. PICK i \in Start!Inputs : i = c.input
    BY <1>2
  <2>2. \A g \in Start!Names : Start!Right(g, i)'
    BY <1>2, <1>6, <2>1, RightStays
  <2>3. v5'[p].input = i
    BY <1>3, <1>4, <2>1
  <2>4. \A g \in Start!Names : Start!Right(g, v5[p].input)'
    BY <2>2, <2>3
  <2> QED BY <1>3, <1>4, <1>5, <2>4 DEF Start!Fit
<1>11. Start!StartedIsSeen'
  BY <1>5, OrderIs DEF Start!Inv, Start!StartedIsSeen
<1>12. ~ v8 /\ v6 => s.pc \in {"idle", "looked"}
  BY NotStarted
<1>13. v3' \subseteq {"evidence", "state"} /\ v4' \in BOOLEAN
  BY DEF Start!Inv, Start!TypeOK
<1>14. v5[p] # Start!Idle /\ s.pc \notin {"next", "staged", "linked"}
  BY <1>2, <1>3
<1> HIDE DEF c
<1> QED BY <1>1, <1>6, <1>8, <1>9, <1>10, <1>11, <1>12, <1>13, <1>14, StartGoesOn

(* A start is composed of what was published. *)
LEMMA StartCompose ==
  ASSUME Start!RunStartAssumption, Start!Inv, NEW p \in Procs, Start!Compose(p)
  PROVE  Start!Inv'
  BY StartEnds DEF Start!Compose

(* The checkpoint of a session is opened, by whoever composed it. *)
LEMMA StartOpens ==
  ASSUME Start!RunStartAssumption, Start!Inv, NEW p \in Procs, Start!OpenCheckpoint(p)
  PROVE  Start!Inv'
<1>1. /\ Start!Doing(p) = "open" /\ v5[p] # Start!Idle
      /\ UNCHANGED <<v2, v3, v4, v6, v7, v8, v9, v10>>
      /\ v2' \in BOOLEAN /\ v3' \subseteq {"evidence", "state"} /\ v4' \in BOOLEAN
  BY EndFits DEF Start!OpenCheckpoint, Start!Inv, Start!TypeOK
<1>2. CASE Start!Fail(p) /\ UNCHANGED v1
  BY <1>1, <1>2, StartCrashes
<1>3. CASE v4 /\ ~ v6
  BY <1>1, <1>3, StartEnds DEF Start!OpenCheckpoint
<1>4. CASE v4 /\ v6
  <2>1. v1["checkpoint"] = "opened" /\ v1' = [v1 EXCEPT !["checkpoint"] = "opened"]
    BY <1>4 DEF Start!OpenCheckpoint, Start!Inv, Start!StartedIsSeen
  <2>2. v1' = v1
    <3>1. v1 = [g \in Start!Names |-> v1[g]]
      BY DEF Start!Inv, Start!InOrder
    <3>2. v1' = [g \in Start!Names |-> IF g = "checkpoint" THEN "opened" ELSE v1[g]]
      BY <2>1, <3>1, OrderIs
    <3>3. \A g \in Start!Names : (IF g = "checkpoint" THEN "opened" ELSE v1[g]) = v1[g]
      BY <2>1
    <3> QED BY <3>1, <3>2, <3>3
  <2> QED BY <1>1, <1>4, <2>2, StartCrashes DEF Start!OpenCheckpoint
<1> QED BY <1>2, <1>3, <1>4 DEF Start!OpenCheckpoint

(* A session that was initialized is verified before it is used. *)
LEMMA StartVerifies ==
  ASSUME Start!RunStartAssumption, Start!Inv, NEW p \in Procs, Start!VerifyInitialized(p)
  PROVE  Start!Inv'
<1>1. /\ Start!Doing(p) = "verify" /\ v5[p] # Start!Idle /\ v5[p].at # "checkpoint"
      /\ UNCHANGED <<v1, v2, v3, v4, v6, v7, v8, v9, v10>>
      /\ v3' \subseteq {"evidence", "state"}
  BY WorkFits DEF Start!VerifyInitialized, Start!Inv, Start!TypeOK
<1>2. CASE Start!Fail(p)
  BY <1>1, <1>2, StartCrashes
<1>3. CASE Start!Become(p, [v5[p] EXCEPT !.pc = "next"])
  BY <1>1, <1>3, StartStages
<1> QED BY <1>2, <1>3 DEF Start!VerifyInitialized

(* A process may die anywhere. *)
LEMMA StartCrash ==
  ASSUME Start!RunStartAssumption, Start!Inv, NEW p \in Procs, Start!Crash(p)
  PROVE  Start!Inv'
<1>1. v5[p] # Start!Idle
  BY DEF Start!Crash, Start!Doing, Start!Idle
<1>2. v3' \subseteq {"evidence", "state"}
  BY DEF Start!Crash, Start!Inv, Start!TypeOK, Start!Root
<1> QED BY <1>1, <1>2, StartCrashes DEF Start!Crash, Start!Fail

(* The graph starts with the inputs that were checked against the evidence. *)
LEMMA StartInvokes ==
  ASSUME Start!RunStartAssumption, Start!Inv, NEW p \in Procs, Start!Invoke(p)
  PROVE  Start!Inv'
<1>1. /\ Start!Doing(p) = "invoke" /\ v6' = TRUE /\ v9' = Append(v9, v5[p].input)
      /\ v5' = [v5 EXCEPT ![p] = Start!Idle] /\ UNCHANGED <<v1, v2, v3, v4, v7, v8, v10>>
  BY DEF Start!Invoke, Start!Become
<1>2. /\ v5[p].input \in Start!Inputs /\ v5[p] # Start!Idle
      /\ \A f \in Start!Names : Start!Right(f, v5[p].input)
      /\ v1["checkpoint"] = "opened"
  BY <1>1, EndFits
<1>3. PICK i \in Start!Inputs : i = v5[p].input
  BY <1>2
<1>4. /\ v1["request"] = i.request /\ v1["config"] = i.config /\ v1["contract"] = i.config
      /\ v1["evidence"] = <<i.request, i.config, i.config>> /\ v1["anchor"] # None
  BY <1>2, <1>3, OrderIs, NotAbsent DEF Start!Right, Start!Said
<1>5. v5'[p] = Start!Idle /\ \A q \in Procs : q # p => v5'[q] = v5[q]
  BY <1>1 DEF Start!Inv, Start!ProcsFit
<1>6. \A q \in Procs : Start!Doing(q)' = v5'[q].pc /\ Start!Doing(q) = v5[q].pc
  BY DEF Start!Doing
<1>7. Start!Idle.pc = "idle"
  BY DEF Start!Idle
<1>8. WriteOnce /\ Start!InOrder' /\ Start!FilesAgree'
  BY <1>1, FilesStay
<1>9. Start!ProcsFit'
  <2>1. \A q \in Procs : q # p => Start!Fit(q)'
    BY <1>5, <1>8, StartFitStays DEF Start!Inv, Start!ProcsFit
  <2>2. Start!Fit(p)'
    BY <1>5 DEF Start!Fit
  <2> QED BY <1>1, <2>1, <2>2 DEF Start!Inv, Start!ProcsFit
<1>10. v9 \in Seq(Start!Inputs) /\ v9' \in Seq(Start!Inputs) /\ Len(v9') = Len(v9) + 1
       /\ v9'[Len(v9) + 1] = i /\ \A n \in 1..Len(v9) : v9'[n] = v9[n]
  BY <1>1, <1>3 DEF Start!Inv, Start!TypeOK
<1>11. Start!TypeOK'
  <2>1. \A q \in Procs :
          /\ Start!Doing(q)' \in {"idle", "looked", "next", "staged", "linked", "verify",
                                  "compose", "open", "invoke"}
          /\ Start!Doing(q)' \in {"next", "staged", "linked", "verify"} =>
               v5'[q].at \in Start!Names
    BY <1>5, <1>6, <1>7 DEF Start!Inv, Start!TypeOK
  <2> QED BY <1>1, <1>10, <2>1 DEF Start!Inv, Start!TypeOK
<1>12. Start!NothingAtFirst'
  BY <1>1, <1>2 DEF Start!Inv, Start!NothingAtFirst
<1>13. Start!StarterIsAlone'
  <2>1. \A q \in Procs : q # p /\ Start!Doing(q) \in {"next", "staged", "linked"} =>
          ~(Start!Order[v5[q].at] <= 4)
    BY <1>2 DEF Start!Inv, Start!StarterIsAlone
  <2> QED BY <1>5, <1>6, <1>7, <2>1 DEF Start!StarterIsAlone
<1>14. Start!StartedIsSeen'
  <2>1. v9' # <<>>
    BY <1>10
  <2> QED BY <1>1, <1>2, <1>4, <2>1 DEF Start!StartedIsSeen
<1>15. Start!OneAtATime'
  <2>1. ASSUME ~ v8 PROVE v9 = <<>> /\ \A q \in Procs : v5'[q] = Start!Idle
    <3>1. ~ v6
      BY <1>1, <2>1, NotStarted
    <3> QED BY <1>2, <1>5, <2>1, <3>1 DEF Start!Inv, Start!StartedIsSeen, Start!OneAtATime
  <2>2. ~ v8 => Len(v9') <= 1
    BY <2>1, <1>10
  <2> QED BY <1>1, <1>6, <1>7, <2>1, <2>2 DEF Start!OneAtATime
<1>16. Start!DispatchedFromTheEvidence'
  <2>1. ASSUME NEW n \in 1..Len(v9')
        PROVE  /\ v1["request"] = v9'[n].request /\ v1["config"] = v9'[n].config
               /\ v1["contract"] = v9'[n].config
               /\ v1["evidence"] = <<v1["request"], v1["config"], v1["contract"]>>
               /\ v1["anchor"] # None
    <3>1. CASE n \in 1..Len(v9)
      BY <3>1, <1>10 DEF Start!Inv, Start!DispatchedFromTheEvidence
    <3>2. CASE n = Len(v9) + 1
      BY <3>2, <1>4, <1>10
    <3> QED BY <1>10, <2>1, <3>1, <3>2
  <2> QED BY <1>1, <2>1 DEF Start!DispatchedFromTheEvidence
<1> QED BY <1>8, <1>9, <1>11, <1>12, <1>13, <1>14, <1>15, <1>16 DEF Start!Inv

(* A process enters a call while nobody makes the tree. *)
LEMMA StartEnters ==
  ASSUME Start!RunStartAssumption, Start!Inv, NEW p \in Procs, NEW s, Start!Enter(p),
         Start!Become(p, s), UNCHANGED <<v1, v2, v3, v4, v6, v9, v10>>, Start!Fit(p)',
         \A q \in Procs : Start!Doing(q) \in {"next", "staged", "linked"} =>
            Start!Order[v5[q].at] > 4,
         \/ s.pc = "looked"
         \/ /\ s.pc = "next" /\ s.at = "context" /\ ~ v6
            /\ \A q \in Procs : v5[q] = Start!Idle
            /\ \A f \in Start!Names : v1[f] = None
  PROVE  Start!Inv'
<1>1. /\ v5' = [v5 EXCEPT ![p] = s] /\ v7' = v7 + 1 /\ v7 < MaxCalls
      /\ v8' = (v8 \/ \E q \in Procs : Start!Doing(q) # "idle") /\ Start!Doing(p) = "idle"
  BY DEF Start!Enter, Start!Become
<1>2. v5'[p] = s /\ \A q \in Procs : q # p => v5'[q] = v5[q]
  BY <1>1 DEF Start!Inv, Start!ProcsFit
<1>3. \A q \in Procs : Start!Doing(q)' = v5'[q].pc /\ Start!Doing(q) = v5[q].pc
  BY DEF Start!Doing
<1>4. WriteOnce /\ Start!InOrder' /\ Start!FilesAgree'
  BY FilesStay
<1>5. Start!ProcsFit'
  <2>1. \A q \in Procs : q # p => Start!Fit(q)'
    BY <1>2, <1>4, StartFitStays DEF Start!Inv, Start!ProcsFit
  <2> QED BY <1>1, <2>1 DEF Start!Inv, Start!ProcsFit
<1>6. Start!TypeOK'
  <2>1. ASSUME NEW q \in Procs
        PROVE  /\ Start!Doing(q)' \in {"idle", "looked", "next", "staged", "linked", "verify",
                                        "compose", "open", "invoke"}
               /\ Start!Doing(q)' \in {"next", "staged", "linked", "verify"} =>
                    v5'[q].at \in Start!Names
    <3>1. CASE q = p
      <4>1. Start!Doing(q)' = s.pc /\ v5'[q].at = s.at
        BY <1>2, <1>3, <3>1
      <4>2. s.pc = "looked" \/ (s.pc = "next" /\ s.at = "context")
        OBVIOUS
      <4>3. "context" \in Start!Names
        BY OrderIs
      <4> QED BY <4>1, <4>2, <4>3
    <3>2. CASE q # p
      <4>1. Start!Doing(q)' = Start!Doing(q) /\ v5'[q].at = v5[q].at
        BY <1>2, <1>3, <3>2
      <4> QED BY <4>1 DEF Start!Inv, Start!TypeOK
    <3> QED BY <3>1, <3>2
  <2>2. v7' \in Nat /\ v7' <= MaxCalls /\ v8' \in BOOLEAN
    BY <1>1 DEF Start!Inv, Start!TypeOK, Start!RunStartAssumption
  <2> QED BY <1>1, <2>1, <2>2 DEF Start!Inv, Start!TypeOK
<1>7. Start!NothingAtFirst'
  BY <1>1 DEF Start!Inv, Start!TypeOK, Start!NothingAtFirst
<1>8. Start!StarterIsAlone'
  <2>1. \A q \in Procs : q # p /\ Start!Doing(q) \in {"next", "staged", "linked"} =>
          ~(Start!Order[v5[q].at] <= 4)
    BY OrderFits DEF Start!Inv, Start!TypeOK
  <2>2. s.pc = "looked" => Start!StarterIsAlone'
    BY <1>2, <1>3, <2>1 DEF Start!StarterIsAlone
  <2>3. s.pc = "next" => Start!StarterIsAlone'
    BY <1>2, <1>3, <2>1, OrderIs DEF Start!StarterIsAlone, Start!Idle
  <2> QED BY <2>2, <2>3
<1>9. Start!StartedIsSeen'
  BY DEF Start!Inv, Start!StartedIsSeen
<1>10. Start!OneAtATime'
  <2>1. ASSUME ~ v8'
        PROVE  /\ ~ v8
               /\ \A q \in Procs : q # p => v5'[q] = Start!Idle
    BY <1>1, <1>2, <2>1 DEF Start!Inv, Start!ProcsFit, Start!Fit, Start!Doing
  <2>2. ~ v8' => Len(v9') <= 1
    BY <2>1 DEF Start!Inv, Start!OneAtATime
  <2>3. ASSUME ~ v8', v6', NEW q \in Procs PROVE Start!Doing(q)' \in {"idle", "looked"}
    BY <1>2, <1>3, <2>1, <2>3 DEF Start!Idle
  <2>4. ~ v8' => \A q \in Procs, r \in Procs : q = r \/ v5'[q] = Start!Idle \/ v5'[r] = Start!Idle
    BY <2>1
  <2> QED BY <2>1, <2>2, <2>3, <2>4 DEF Start!OneAtATime, Start!Idle
<1> QED BY <1>4, <1>5, <1>6, <1>7, <1>8, <1>9, <1>10, DispatchesStay DEF Start!Inv

(* A start begins with a tree of its own, or fails. *)
LEMMA StartStarts ==
  ASSUME Start!RunStartAssumption, Start!Inv, NEW p \in Procs, Start!Start(p)
  PROVE  Start!Inv'
<1>1. PICK i \in Start!Inputs :
        /\ v7 = 0 /\ Start!Enter(p) /\ Start!Become(p, Start!Going(i, "context"))
        /\ UNCHANGED <<v10, v1, v2, v3, v4, v6, v9>>
  BY DEF Start!Start
<1> DEFINE s == Start!Going(i, "context")
<1>2. /\ s \in [pc: {"next", "staged", "linked", "verify"}, at: Start!Names,
                input: Start!Inputs]
      /\ s.pc = "next" /\ s.at = "context"
  BY OrderIs DEF Start!Going
<1>3. /\ \A q \in Procs : v5[q] = Start!Idle
      /\ \A f \in Start!Names : v1[f] = None
  BY <1>1 DEF Start!Inv, Start!NothingAtFirst
<1>4. ~ v6
  BY <1>3, OrderIs DEF Start!Inv, Start!StartedIsSeen
<1>5. v5'[p] = s
  BY <1>1 DEF Start!Inv, Start!ProcsFit, Start!Become
<1> HIDE DEF s
<1>6. Start!Fit(p)'
  <2>1. Start!Doing(p)' = "next" /\ Start!Passed(p)' = {}
    BY <1>2, <1>5, OrderIs DEF Start!Doing, Start!Passed
  <2> QED BY <1>2, <1>5, <2>1 DEF Start!Fit
<1>7. \A q \in Procs : Start!Doing(q) = "idle"
  <2>1. Start!Idle.pc = "idle"
    BY DEF Start!Idle
  <2> QED BY <1>3, <2>1 DEF Start!Doing
<1>8. Start!Become(p, s) /\ UNCHANGED <<v1, v2, v3, v4, v6, v9, v10>>
  BY <1>1 DEF s
<1> QED BY <1>1, <1>2, <1>3, <1>4, <1>6, <1>7, <1>8, StartEnters

(* A recovery begins with what the files say. *)
LEMMA StartRecovers ==
  ASSUME Start!RunStartAssumption, Start!Inv, NEW p \in Procs, Start!Recover(p)
  PROVE  Start!Inv'
<1> DEFINE State(i) == [pc |-> "looked", input |-> i, whole |-> Start!Whole]
<1>1. PICK i \in Start!Inputs :
        /\ Start!Enter(p) /\ Start!Loaded /\ v1["context"] = i.request /\ Start!PrefixStored
        /\ Start!Become(p, State(i))
        /\ UNCHANGED <<v10, v1, v2, v3, v4, v6, v9>>
  BY DEF Start!Recover
<1> DEFINE s == State(i)
<1>2. s \in [pc: {"looked"}, input: Start!Inputs, whole: BOOLEAN] /\ s.pc = "looked"
      /\ s.input = i /\ s.whole = Start!Whole
  BY DEF Start!Whole
<1>3. v5'[p] = s
  BY <1>1 DEF Start!Inv, Start!ProcsFit, Start!Become
<1>4. Start!Become(p, s)
  BY <1>1
<1> HIDE DEF s, State
<1>5. \A f \in {"context", "runtime", "checkpoint", "initialized"} : v1[f] # None
  BY <1>1 DEF Start!Loaded
<1>6. Start!Fit(p)'
  <2>1. Start!Whole' = Start!Whole
    BY <1>1 DEF Start!Whole, Start!Stored
  <2> QED BY <1>1, <1>2, <1>3, <1>5, <2>1 DEF Start!Fit
<1>7. ASSUME NEW q \in Procs, Start!Doing(q) \in {"next", "staged", "linked"},
             Start!Order[v5[q].at] <= 4
      PROVE  FALSE
  <2>1. v5[q].at = "initialized" /\ Start!Doing(q) \in {"staged", "linked"}
    BY <1>5, <1>7, Alone, WorkFits, OrderIs
  <2>2. Start!Strays("evidence")
    BY <2>1 DEF Start!Strays, Start!Root, Start!Portable
  <2> QED BY <1>1, <2>2 DEF Start!PrefixStored
<1>8. \A q \in Procs : Start!Doing(q) \in {"next", "staged", "linked"} =>
        Start!Order[v5[q].at] > 4
  BY <1>7, WorkFits, OrderFits
<1>9. UNCHANGED <<v1, v2, v3, v4, v6, v9, v10>>
  BY <1>1
<1> QED BY <1>1, <1>2, <1>4, <1>6, <1>8, <1>9, StartEnters

(* A recovery looks at the graph it found. *)
LEMMA StartLooks ==
  ASSUME Start!RunStartAssumption, Start!Inv, NEW p \in Procs, Start!LookAtState(p)
  PROVE  Start!Inv'
<1>1. /\ Start!Doing(p) = "looked" /\ UNCHANGED <<v10, v1, v2, v3, v4, v6, v7, v8, v9>>
      /\ v3' \subseteq {"evidence", "state"} /\ v2' \in BOOLEAN /\ v4' \in BOOLEAN
  BY DEF Start!LookAtState, Start!Inv, Start!TypeOK
<1>2. /\ v5[p] # Start!Idle /\ v5[p].input \in Start!Inputs
      /\ v1["context"] = v5[p].input.request
      /\ \A f \in {"context", "runtime", "checkpoint", "initialized"} : v1[f] # None
  BY <1>1 DEF Start!Inv, Start!ProcsFit, Start!Fit, Start!Doing, Start!Idle
<1>3. CASE Start!Fail(p)
  BY <1>1, <1>2, <1>3, StartCrashes
<1>4. CASE /\ Start!StateUntouched(v5[p].input, v5[p].whole)
           /\ Start!Become(p, Start!Going(v5[p].input, "request"))
  <2>1. PICK i \in Start!Inputs : i = v5[p].input
    BY <1>2
  <2> DEFINE s == Start!Going(i, "request")
  <2>2. /\ s \in [pc: {"next", "staged", "linked", "verify"}, at: Start!Names,
                  input: Start!Inputs]
        /\ s.pc = "next" /\ s.at = "request" /\ s.input = i
    BY OrderIs DEF Start!Going
  <2>3. v5' = [v5 EXCEPT ![p] = s]
    BY <1>4, <2>1 DEF Start!Become
  <2>4. v5'[p] = s
    BY <2>3 DEF Start!Inv, Start!ProcsFit
  <2> HIDE DEF s
  <2>5. v1["checkpoint"] = "empty" /\ (v10 => v1["bench"] = i.config)
    BY <1>4, <2>1 DEF Start!StateUntouched
  <2>6. v1["initialized"] = i.request
    BY <1>2, <2>1 DEF Start!Inv, Start!FilesAgree
  <2>7. \A f \in Start!Names : Start!Order[f] < 6 => Start!Right(f, i)
    BY <1>2, <2>1, <2>5, <2>6, OrderIs DEF Start!Right, Start!Said
  <2>8. WriteOnce /\ Start!InOrder' /\ Start!FilesAgree'
    BY <1>1, FilesStay
  <2>9. Start!Fit(p)'
    <3>1. Start!Doing(p)' = "next" /\ Start!Passed(p)' = {f \in Start!Names : Start!Order[f] < 6}
      BY <2>2, <2>4, OrderIs DEF Start!Doing, Start!Passed
    <3>2. \A f \in Start!Names : Start!Order[f] < 6 => Start!Right(f, i)'
      BY <2>7, <2>8, RightStays
    <3>3. \A f \in Start!Passed(p)' : Start!Right(f, v5[p].input)'
      BY <2>2, <2>4, <3>1, <3>2
    <3> QED BY <2>2, <2>4, <3>1, <3>3 DEF Start!Fit
  <2>10. ~ v6 /\ Start!StartedIsSeen'
    BY <1>1, <2>5 DEF Start!Inv, Start!StartedIsSeen
  <2>11. ~(Start!Order[s.at] <= 4)
    BY <2>2, OrderIs
  <2> QED BY <1>1, <1>2, <2>3, <2>8, <2>9, <2>10, <2>11, StartGoesOn
<1> QED BY <1>3, <1>4 DEF Start!LookAtState

(* Every action keeps the invariant. *)
LEMMA StartStep == ASSUME Start!RunStartAssumption, Start!Inv, Start!Next PROVE Start!Inv'
<1>1. ASSUME Start!EditSource PROVE Start!Inv'
  BY <1>1, StartKept DEF Start!EditSource
<1> QED BY <1>1, StartStarts, StartRecovers, StartLooks, StartStage, StartLink, StartUnlink,
     StartVerifies, StartCompose, StartOpens, StartInvokes, StartCrash DEF Start!Next

(* The properties follow from the invariant. *)
LEMMA StartHolds ==
  ASSUME Start!RunStartAssumption, Start!Inv
  PROVE  /\ Start!TypeOK /\ Start!DispatchedFromTheEvidence /\ Start!OneDispatch
         /\ Start!CleanCrashResumes /\ Start!AnchorSealsOneCaller
<1>1. Start!OneDispatch
  BY DEF Start!Inv, Start!TypeOK, Start!OneDispatch, Start!OneAtATime
<1>2. ASSUME NEW f \in Start!Names, v1[f] # None
      PROVE  \A g \in Start!Names : Start!Order[g] < Start!Order[f] =>
                v1[g] # None \/ (g = "bench" /\ ~ v10)
  BY <1>2 DEF Start!Inv, Start!InOrder
<1>3. v1["anchor"] # None => Start!Whole
  BY <1>2, OrderIs DEF Start!Whole, Start!Stored, Start!Portable
<1>4. Start!AnchorSealsOneCaller
  <2>1. ASSUME v1["anchor"] # None
        PROVE  /\ v1["anchor"] = <<v1["request"], v1["config"], v1["evidence"]>>
               /\ v1["contract"] = v1["config"]
    BY <1>2, <2>1, OrderIs DEF Start!Inv, Start!FilesAgree
  <2> QED BY <1>3, <2>1 DEF Start!AnchorSealsOneCaller
<1>5. Start!CleanCrashResumes
  <2> SUFFICES ASSUME /\ \A p \in Procs : Start!Doing(p) = "idle"
                      /\ v3 = {} /\ v4 /\ ~ v8
                      /\ v1["initialized"] # None
                      /\ v10 => v1["bench"] # None
                      /\ v1["checkpoint"] = "empty"
               PROVE  \E i \in Start!Inputs :
                        /\ v1["context"] = i.request
                        /\ v1["request"] \in {None, i.request}
                        /\ {v1["config"], v1["contract"]} \subseteq {None, i.config}
                        /\ Start!Loaded /\ Start!PrefixStored
                        /\ Start!StateUntouched(i, Start!Whole)
    BY DEF Start!CleanCrashResumes
  <2>1. \A f \in {"context", "runtime", "checkpoint", "initialized"} : v1[f] # None
    BY <1>2, OrderIs
  <2>2. ~ Start!Strays("evidence") /\ ~ Start!Strays("state")
    BY DEF Start!Strays
  <2>3. PICK j \in Start!Inputs : j.request = v1["context"]
    BY <2>1 DEF Start!Inv, Start!FilesAgree
  <2>4. PICK c \in Configs : /\ v1["bench"] \in {None, c} /\ v1["config"] \in {None, c}
                             /\ v1["contract"] \in {None, c}
    <3>1. j.config \in Configs
      BY <2>3, NotAbsent
    <3>2. CASE v1["bench"] # None
      BY <3>2 DEF Start!Inv, Start!FilesAgree
    <3>3. CASE v1["bench"] = None /\ v1["config"] # None
      BY <3>3 DEF Start!Inv, Start!FilesAgree
    <3>4. CASE v1["bench"] = None /\ v1["config"] = None
      BY <3>1, <3>4 DEF Start!Inv, Start!FilesAgree
    <3> QED BY <3>2, <3>3, <3>4
  <2> DEFINE i == [request |-> v1["context"], config |-> c]
  <2>5. i \in Start!Inputs /\ i.request = v1["context"] /\ i.config = c
    BY <2>3, <2>4, NotAbsent DEF Start!Inputs
  <2> HIDE DEF i
  <2>6. Start!Loaded
    BY <2>1 DEF Start!Loaded
  <2>7. Start!PrefixStored
    <3>1. {"context", "initialized"} \subseteq Start!Stored
      BY <2>1 DEF Start!Stored, Start!Portable
    <3>2. \A f \in Start!Stored : f \in Start!Names /\ v1[f] # None
      BY OrderIs DEF Start!Stored, Start!Portable
    <3>3. \A g \in Start!Portable : g \in Start!Names /\ g # "bench"
      BY OrderIs DEF Start!Portable
    <3>4. \A f \in Start!Stored, g \in Start!Portable :
            Start!Order[g] < Start!Order[f] => v1[g] # None
      BY <1>2, <3>2, <3>3
    <3> QED BY <2>2, <3>1, <3>4 DEF Start!PrefixStored, Start!Stored
  <2>8. v1["request"] \in {None, i.request}
    BY <2>5 DEF Start!Inv, Start!FilesAgree
  <2>9. Start!StateUntouched(i, Start!Whole)
    <3>1. v10 => v1["bench"] = i.config
      BY <2>4, <2>5
    <3>2. ASSUME v1["anchor"] # None
          PROVE  /\ Start!Whole /\ v1["request"] = i.request
                 /\ v1["config"] = i.config /\ v1["contract"] = i.config
      BY <1>2, <1>3, <2>4, <2>5, <2>8, <3>2, OrderIs
    <3> QED BY <2>2, <3>1, <3>2 DEF Start!StateUntouched
  <2> QED BY <2>4, <2>5, <2>6, <2>7, <2>8, <2>9
<1> QED BY <1>1, <1>4, <1>5 DEF Start!Inv

-----------------------------------------------------------------------------
(* The scope of the graph.                                                  *)

(* Both modules count alike. *)
LEMMA SameCardinality == \A S : Scope!Cardinality(S) = Cardinality(S)
  BY DEF Scope!Cardinality, Cardinality

(* Both modules mean the same by finite. *)
LEMMA SameFinite == \A S : Scope!IsFiniteSet(S) <=> IsFiniteSet(S)
  BY DEF Scope!IsFiniteSet, IsFiniteSet

(* Whatever is the entry, it gives nodes. *)
LEMMA SeedsAreNodes ==
  ASSUME Scope!GraphScopeAssumption, Scope!InputFits
  PROVE  Scope!Seeds \subseteq Nodes
  BY DEF Scope!GraphScopeAssumption, Scope!InputFits, Scope!Seeds

(* A reference is of a file, which has a node, to a node. *)
LEMMA FoundFits ==
  ASSUME Scope!GraphScopeAssumption, Scope!InputFits, NEW P, NEW r \in Scope!Found(P)
  PROVE  /\ r \in v1 /\ r.file \in SourceFiles /\ r.to \in Nodes /\ NodeOf[r.file] \in Nodes
         /\ r.file \in P
  BY DEF Scope!GraphScopeAssumption, Scope!InputFits, Scope!Found

(* At first nothing was parsed. *)
LEMMA ScopeStart == ASSUME Scope!GraphScopeAssumption, Scope!Init PROVE Scope!Inv
  BY DEF Scope!Init, Scope!Inv, Scope!InputFits

(* A step of another part keeps it. *)
LEMMA ScopeKept == ASSUME Scope!Inv, UNCHANGED Scope!vars PROVE Scope!Inv'
<1> USE DEF Scope!vars, Scope!input
<1>1. Scope!InputFits'
  BY DEF Scope!Inv, Scope!InputFits
<1>2. Scope!PassFits => Scope!PassFits'
  BY DEF Scope!PassFits, Scope!Found, Scope!Seeds, Scope!Least, Scope!Closed,
     Scope!ClosedUnder, Scope!PullsBack
<1>3. Scope!Built(v11) => Scope!Built(v11)'
  BY DEF Scope!Built, Scope!Found, Scope!Seeds, Scope!Least, Scope!ClosedUnder,
     Scope!PullsBack, Scope!GraphOf
<1> QED BY <1>1, <1>2, <1>3 DEF Scope!Inv, Scope!GraphOf

(* The input of a build stays, and so does what was built of it. *)
LEMMA BuiltStays ==
  ASSUME Scope!InputFits, UNCHANGED Scope!input
  PROVE  /\ Scope!InputFits' /\ Scope!Seeds' = Scope!Seeds
         /\ \A P : Scope!Found(P)' = Scope!Found(P)
         /\ \A E, S : Scope!Least(E, S)' = Scope!Least(E, S)
         /\ \A g : Scope!Built(g)' = Scope!Built(g)
<1> USE DEF Scope!input
<1>1. Scope!InputFits'
  BY DEF Scope!InputFits
<1>2. Scope!Seeds' = Scope!Seeds
  BY DEF Scope!Seeds
<1>3. \A P : Scope!Found(P)' = Scope!Found(P)
  BY DEF Scope!Found
<1>4. \A E, S : Scope!Least(E, S)' = Scope!Least(E, S)
  BY <1>2 DEF Scope!Least
<1>5. \A g : Scope!Built(g)' = Scope!Built(g)
  BY <1>2, <1>3, <1>4 DEF Scope!Built
<1> QED BY <1>1, <1>2, <1>3, <1>4, <1>5

(* One file of every node is parsed, and the entry is selected. *)
LEMMA ScopeParses ==
  ASSUME Scope!GraphScopeAssumption, Scope!Inv, Scope!Parse
  PROVE  Scope!Inv'
<1>1. PICK P \in Scope!Choices :
        /\ v5 = "parse" /\ v6' = Scope!Found(P) /\ v5' = "forward" /\ v7' = Scope!Seeds
        /\ v8' = v6' /\ v9' = FALSE /\ UNCHANGED <<Scope!input, v10, v11>>
  BY DEF Scope!Parse
<1>2. Scope!InputFits /\ v10 = Scope!NoGraph /\ (v11 = Scope!NoGraph \/ Scope!Built(v11))
  BY <1>1 DEF Scope!Inv
<1>3. /\ Scope!InputFits' /\ Scope!Seeds' = Scope!Seeds
      /\ \A Q : Scope!Found(Q)' = Scope!Found(Q)
      /\ \A g : Scope!Built(g)' = Scope!Built(g)
  BY <1>1, <1>2, BuiltStays
<1>4. Scope!PassFits'
  BY <1>1, <1>2, <1>3, SeedsAreNodes DEF Scope!PassFits, Scope!Least
<1> QED BY <1>1, <1>2, <1>3, <1>4 DEF Scope!Inv

(* What a selected file refers to is selected. *)
LEMMA ScopeForward ==
  ASSUME Scope!GraphScopeAssumption, Scope!Inv, Scope!Forward
  PROVE  Scope!Inv'
<1> DEFINE pulls(r) == NodeOf[r.file] \in v7
<1>1. PICK r \in v8 :
        /\ v5 = "forward" /\ v5' = v5 /\ v6' = v6 /\ v8' = v8 \ {r}
        /\ v7' = IF pulls(r) THEN v7 \cup {r.to} ELSE v7
        /\ v9' = (v9 \/ (pulls(r) /\ r.to \notin v7))
        /\ UNCHANGED <<Scope!input, v10, v11>>
  BY DEF Scope!Forward, Scope!Take
<1>2. /\ Scope!InputFits /\ Scope!PassFits /\ v10 = Scope!NoGraph
      /\ (v11 = Scope!NoGraph \/ Scope!Built(v11))
  BY <1>1 DEF Scope!Inv
<1>3. PICK P \in Scope!Choices : v6 = Scope!Found(P)
  BY <1>2 DEF Scope!PassFits
<1>4. r \in v6 /\ r.to \in Nodes
  BY <1>1, <1>2, <1>3, FoundFits DEF Scope!PassFits
<1>5. /\ Scope!InputFits' /\ Scope!Seeds' = Scope!Seeds
      /\ \A Q : Scope!Found(Q)' = Scope!Found(Q)
      /\ \A g : Scope!Built(g)' = Scope!Built(g)
      /\ \A E, S : Scope!Least(E, S)' = Scope!Least(E, S)
  BY <1>1, <1>2, BuiltStays
<1>6. Scope!Least(v6, v7')
  <2>1. ASSUME NEW T \in SUBSET Nodes, Scope!Seeds \subseteq T, Scope!ClosedUnder(v6, T)
        PROVE  v7' \subseteq T
    <3>1. v7 \subseteq T
      BY <1>2, <2>1 DEF Scope!PassFits, Scope!Least
    <3>2. pulls(r) => r.to \in T
      BY <1>4, <2>1, <3>1 DEF Scope!ClosedUnder
    <3> QED BY <1>1, <3>1, <3>2
  <2> QED BY <2>1 DEF Scope!Least
<1>7. Scope!Least(v6, v7)'
  BY <1>1, <1>5, <1>6
<1>8. ~ v9' => \A e \in v6' \ v8' : NodeOf[e.file] \in v7' => e.to \in v7'
  BY <1>1, <1>2 DEF Scope!PassFits
<1>9. v7 \subseteq v7' /\ v7' \subseteq Nodes /\ v8' \subseteq v6'
  BY <1>1, <1>2, <1>4 DEF Scope!PassFits
<1>10. Scope!PassFits'
  BY <1>1, <1>2, <1>3, <1>5, <1>7, <1>8, <1>9 DEF Scope!PassFits
<1> QED BY <1>1, <1>2, <1>5, <1>10 DEF Scope!Inv

(* What refers to a selected file, and is scanned, is selected. *)
LEMMA ScopeReverse ==
  ASSUME Scope!GraphScopeAssumption, Scope!Inv, Scope!Reverse
  PROVE  Scope!Inv'
<1> DEFINE pulls(r) == Scope!PullsBack(r, v7)
<1>1. PICK r \in v8 :
        /\ v5 = "reverse" /\ v5' = v5 /\ v6' = v6 /\ v8' = v8 \ {r}
        /\ v7' = IF pulls(r) THEN v7 \cup {NodeOf[r.file]} ELSE v7
        /\ v9' = (v9 \/ (pulls(r) /\ NodeOf[r.file] \notin v7))
        /\ UNCHANGED <<Scope!input, v10, v11>>
  BY DEF Scope!Reverse, Scope!Take
<1>2. /\ Scope!InputFits /\ Scope!PassFits /\ v10 = Scope!NoGraph
      /\ (v11 = Scope!NoGraph \/ Scope!Built(v11))
  BY <1>1 DEF Scope!Inv
<1>3. PICK P \in Scope!Choices : v6 = Scope!Found(P)
  BY <1>2 DEF Scope!PassFits
<1>4. r \in v6 /\ NodeOf[r.file] \in Nodes
  BY <1>1, <1>2, <1>3, FoundFits DEF Scope!PassFits
<1>5. /\ Scope!InputFits' /\ Scope!Seeds' = Scope!Seeds
      /\ \A Q : Scope!Found(Q)' = Scope!Found(Q)
      /\ \A g : Scope!Built(g)' = Scope!Built(g)
      /\ \A E, S : Scope!Least(E, S)' = Scope!Least(E, S)
  BY <1>1, <1>2, BuiltStays
<1>6. Scope!Least(v6, v7')
  <2>1. ASSUME NEW T \in SUBSET Nodes, Scope!Seeds \subseteq T, Scope!ClosedUnder(v6, T)
        PROVE  v7' \subseteq T
    <3>1. v7 \subseteq T
      BY <1>2, <2>1 DEF Scope!PassFits, Scope!Least
    <3>2. pulls(r) => NodeOf[r.file] \in T
      BY <1>4, <2>1, <3>1 DEF Scope!ClosedUnder, Scope!PullsBack
    <3> QED BY <1>1, <3>1, <3>2
  <2> QED BY <2>1 DEF Scope!Least
<1>7. Scope!Least(v6, v7)'
  BY <1>1, <1>5, <1>6
<1>8. ~ v9' => /\ \A e \in v6' : NodeOf[e.file] \in v7' => e.to \in v7'
               /\ \A e \in v6' \ v8' : Scope!PullsBack(e, v7)' => NodeOf[e.file] \in v7'
  <2>1. ASSUME ~ v9' PROVE ~ v9 /\ v7' = v7 /\ (pulls(r) => NodeOf[r.file] \in v7)
    BY <1>1, <2>1
  <2>2. v7' = v7 => \A e : Scope!PullsBack(e, v7)' = Scope!PullsBack(e, v7)
    BY DEF Scope!PullsBack
  <2> QED BY <1>1, <1>2, <2>1, <2>2 DEF Scope!PassFits
<1>9. v7 \subseteq v7' /\ v7' \subseteq Nodes /\ v8' \subseteq v6'
  BY <1>1, <1>2, <1>4 DEF Scope!PassFits
<1>10. Scope!PassFits'
  BY <1>1, <1>2, <1>3, <1>5, <1>7, <1>8, <1>9 DEF Scope!PassFits
<1> QED BY <1>1, <1>2, <1>5, <1>10 DEF Scope!Inv

(* A pass that changed nothing is the last one, and the graph is closed. *)
LEMMA ScopePassEnds ==
  ASSUME Scope!Inv, Scope!PassDone
  PROVE  Scope!Inv'
<1>1. /\ v5 \in {"forward", "reverse"} /\ v8 = {} /\ v6' = v6 /\ v7' = v7
      /\ IF v5 = "forward" THEN v5' = "reverse" /\ v8' = v6 /\ v9' = v9
         ELSE /\ v5' = IF v9 THEN "forward" ELSE "freeze"
              /\ v8' = IF v9 THEN v6 ELSE {}
              /\ v9' = FALSE
      /\ UNCHANGED <<Scope!input, v10, v11>>
  BY DEF Scope!PassDone
<1>2. /\ Scope!InputFits /\ Scope!PassFits /\ v10 = Scope!NoGraph
      /\ (v11 = Scope!NoGraph \/ Scope!Built(v11))
  BY <1>1 DEF Scope!Inv
<1>3. /\ Scope!InputFits' /\ Scope!Seeds' = Scope!Seeds
      /\ \A Q : Scope!Found(Q)' = Scope!Found(Q)
      /\ \A g : Scope!Built(g)' = Scope!Built(g)
      /\ \A E, S : Scope!Least(E, S)' = Scope!Least(E, S)
  BY <1>1, <1>2, BuiltStays
<1>4. Scope!Least(v6, v7)'
  BY <1>1, <1>2, <1>3 DEF Scope!PassFits
<1>5. \A e : Scope!PullsBack(e, v7)' = Scope!PullsBack(e, v7)
  BY <1>1 DEF Scope!PullsBack
<1>6. v5' = "freeze" => v8' = {} /\ Scope!Closed(v7)'
  <2>1. v5' = "freeze" => v5 = "reverse" /\ ~ v9 /\ v8' = {}
    BY <1>1
  <2>2. v5' = "freeze" => Scope!Closed(v7)
    BY <1>1, <1>2, <2>1 DEF Scope!PassFits, Scope!Closed, Scope!ClosedUnder
  <2> QED BY <1>1, <1>5, <2>1, <2>2 DEF Scope!Closed, Scope!ClosedUnder
<1>7. v5' = "reverse" /\ ~ v9' => \A e \in v6' : NodeOf[e.file] \in v7' => e.to \in v7'
  BY <1>1, <1>2 DEF Scope!PassFits
<1>8. Scope!PassFits'
  BY <1>1, <1>2, <1>3, <1>4, <1>5, <1>6, <1>7 DEF Scope!PassFits
<1> QED BY <1>1, <1>2, <1>3, <1>8 DEF Scope!Inv

(* The graph is what was found of what was selected. *)
LEMMA ScopeFreezes ==
  ASSUME Scope!Inv, Scope!Freeze
  PROVE  Scope!Inv'
<1>1. /\ v5 = "freeze" /\ v10' = Scope!GraphOf(v6, v7) /\ v5' = "frozen"
      /\ UNCHANGED <<Scope!input, v6, v7, v8, v9, v11>>
  BY DEF Scope!Freeze
<1>2. Scope!InputFits /\ Scope!PassFits /\ (v11 = Scope!NoGraph \/ Scope!Built(v11))
  BY <1>1 DEF Scope!Inv
<1>3. /\ Scope!InputFits' /\ Scope!Seeds' = Scope!Seeds
      /\ \A Q : Scope!Found(Q)' = Scope!Found(Q)
      /\ \A g : Scope!Built(g)' = Scope!Built(g)
      /\ \A E, S : Scope!Least(E, S)' = Scope!Least(E, S)
  BY <1>1, <1>2, BuiltStays
<1>4. Scope!Closed(v7)' /\ Scope!Least(v6, v7)'
  BY <1>1, <1>2, <1>3 DEF Scope!PassFits, Scope!Closed, Scope!ClosedUnder, Scope!PullsBack
<1>5. Scope!PassFits'
  BY <1>1, <1>2, <1>3, <1>4 DEF Scope!PassFits
<1> QED BY <1>1, <1>2, <1>3, <1>5 DEF Scope!Inv, Scope!GraphOf

(* The source is built again, with other choices. *)
LEMMA ScopeBuildsAgain ==
  ASSUME Scope!Inv, Scope!BuildAgain
  PROVE  Scope!Inv'
<1>1. /\ v5 = "frozen" /\ v11 = Scope!NoGraph /\ v11' = v10 /\ v5' = "parse"
      /\ v6' = {} /\ v7' = {} /\ v10' = Scope!NoGraph /\ UNCHANGED <<Scope!input, v8, v9>>
  BY DEF Scope!BuildAgain
<1>2. Scope!InputFits /\ Scope!PassFits /\ v10 = Scope!GraphOf(v6, v7)
  BY <1>1 DEF Scope!Inv
<1>3. Scope!InputFits' /\ \A g : Scope!Built(g)' = Scope!Built(g)
  BY <1>1, <1>2, BuiltStays
<1>4. PICK P \in Scope!Choices : v6 = Scope!Found(P)
  BY <1>2 DEF Scope!PassFits
<1>5. Scope!Built(v10)
  <2>1. v10.nodes = v7
    BY <1>2 DEF Scope!GraphOf
  <2>2. Scope!ClosedUnder(v6, v7) /\ Scope!Least(v6, v7)
    BY <1>1, <1>2 DEF Scope!PassFits, Scope!Closed
  <2>3. Scope!Seeds \subseteq v7 /\ v7 \subseteq Nodes
    BY <1>2 DEF Scope!PassFits
  <2>4. v10 = Scope!GraphOf(v6, v10.nodes)
    BY <1>2, <2>1
  <2> QED BY <1>4, <2>1, <2>2, <2>3, <2>4 DEF Scope!Built
<1>6. Scope!Built(v11')
  BY <1>1, <1>5
<1>7. Scope!Built(v11)'
  BY <1>3, <1>6
<1>8. v8' = {}
  BY <1>1, <1>2 DEF Scope!PassFits
<1> QED BY <1>1, <1>3, <1>7, <1>8 DEF Scope!Inv

(* Every action keeps the invariant. *)
LEMMA ScopeStep == ASSUME Scope!GraphScopeAssumption, Scope!Inv, Scope!Next PROVE Scope!Inv'
  BY ScopeParses, ScopeForward, ScopeReverse, ScopePassEnds, ScopeFreezes, ScopeBuildsAgain
  DEF Scope!Next

(* What is frozen is a build of the source. *)
LEMMA FrozenIsBuilt ==
  ASSUME Scope!Inv, v5 = "frozen"
  PROVE  /\ Scope!Built(v10) /\ v10 = Scope!GraphOf(v6, v7) /\ v10.nodes = v7
         /\ Scope!ClosedUnder(v6, v7) /\ Scope!Least(v6, v7) /\ Scope!Seeds \subseteq v7
         /\ v7 \subseteq Nodes
<1>1. Scope!PassFits /\ v10 = Scope!GraphOf(v6, v7)
  BY DEF Scope!Inv
<1>2. v10.nodes = v7
  BY <1>1 DEF Scope!GraphOf
<1>3. /\ Scope!ClosedUnder(v6, v7) /\ Scope!Least(v6, v7)
      /\ Scope!Seeds \subseteq v7 /\ v7 \subseteq Nodes
  BY <1>1 DEF Scope!PassFits, Scope!Closed
<1>4. v10 = Scope!GraphOf(v6, v10.nodes)
  BY <1>1, <1>2
<1>5. Scope!Built(v10)
  BY <1>1, <1>2, <1>3, <1>4 DEF Scope!Built, Scope!PassFits
<1> QED BY <1>1, <1>2, <1>3, <1>5

(* What is selected from a file is reached from it. *)
LEMMA SelectedIsReachable ==
  ASSUME Scope!GraphScopeAssumption, Scope!Inv, v5 = "frozen", v3 # "directory"
  PROVE  v7 \subseteq Scope!Reachable
<1>1. /\ v10 = Scope!GraphOf(v6, v7) /\ Scope!ClosedUnder(v6, v7) /\ Scope!Least(v6, v7)
      /\ Scope!Seeds \subseteq v7 /\ v7 \subseteq Nodes
  BY FrozenIsBuilt
<1>2. v3 \in SourceFiles
  BY DEF Scope!GraphScopeAssumption, Scope!Inv, Scope!InputFits
<1> SUFFICES ASSUME NEW S \in SUBSET Nodes,
                    {NodeOf[f] : f \in {v3} \cap SourceFiles} \subseteq S,
                    Scope!EitherWay(S) \subseteq S
             PROVE  v7 \subseteq S
  BY <1>1 DEF Scope!Reachable
<1>3. Scope!Seeds \subseteq v7 \cap S
  BY <1>1, <1>2 DEF Scope!Seeds
<1>4. v10.edges = {r \in v6 : NodeOf[r.file] \in v7 /\ r.to \in v7}
  BY <1>1 DEF Scope!GraphOf
<1>5. \A r \in v10.edges : /\ NodeOf[r.file] \in S => r.to \in S
                           /\ r.to \in S => NodeOf[r.file] \in S
  BY DEF Scope!EitherWay
<1>6. Scope!ClosedUnder(v6, v7 \cap S)
  <2>1. ASSUME NEW r \in v6
        PROVE  /\ NodeOf[r.file] \in v7 \cap S => r.to \in v7 \cap S
               /\ Scope!PullsBack(r, v7 \cap S) => NodeOf[r.file] \in v7 \cap S
    <3>1. NodeOf[r.file] \in v7 => r.to \in v7
      BY <1>1 DEF Scope!ClosedUnder
    <3>2. Scope!PullsBack(r, v7 \cap S) => r.to \in v7 \cap S /\ Scope!PullsBack(r, v7)
      BY DEF Scope!PullsBack
    <3>3. Scope!PullsBack(r, v7) => NodeOf[r.file] \in v7
      BY <1>1 DEF Scope!ClosedUnder
    <3> QED BY <1>4, <1>5, <3>1, <3>2, <3>3
  <2> QED BY <2>1 DEF Scope!ClosedUnder
<1> QED BY <1>1, <1>3, <1>6 DEF Scope!Least

(* A node without twins has its one file parsed, in every build. *)
LEMMA OneFileIsParsed ==
  ASSUME Scope!GraphScopeAssumption, NEW P \in Scope!Choices, NEW f \in SourceFiles \ Context,
         NodeOf[f] \notin Scope!Twins
  PROVE  f \in P
<1> DEFINE n == NodeOf[f]
           F == Scope!ParsedOf(n)
<1>1. n \in Nodes /\ f \in F /\ IsFiniteSet(F) /\ n \in Scope!Indexed
  <2>1. n \in Nodes /\ f \in F /\ F \subseteq SourceFiles
    BY DEF Scope!GraphScopeAssumption, Scope!FilesOf, Scope!ParsedOf
  <2>2. IsFiniteSet(SourceFiles)
    BY SameFinite DEF Scope!GraphScopeAssumption
  <2> QED BY <2>1, <2>2, FS_Subset DEF Scope!Indexed
<1>2. Cardinality(F) \in Nat /\ ~(Cardinality(F) > 1)
  BY <1>1, FS_CardinalityType, SameCardinality DEF Scope!Twins
<1>3. Cardinality(P \cap F) = 1
  BY <1>1, SameCardinality DEF Scope!Choices
<1>4. \E g : F = {g}
  <2>1. Cardinality(F) # 0
    BY <1>1, FS_EmptySet
  <2>2. Cardinality(F) = 1
    BY <1>2, <2>1
  <2> QED BY <1>1, <2>2, FS_Singleton
<1>5. P \cap F # {}
  BY <1>3, FS_EmptySet
<1> QED BY <1>1, <1>4, <1>5

(* Two builds of one source that select no twin select the same. *)
LEMMA BuildsAgree ==
  ASSUME Scope!GraphScopeAssumption, Scope!InputFits,
         NEW P \in Scope!Choices, NEW Q \in Scope!Choices, NEW S \in SUBSET Nodes,
         NEW T \in SUBSET Nodes,
         Scope!Seeds \subseteq S, Scope!Seeds \subseteq T,
         Scope!ClosedUnder(Scope!Found(P), S), Scope!Least(Scope!Found(P), S),
         Scope!ClosedUnder(Scope!Found(Q), T),
         Scope!Twins \cap (S \cup T) = {}
  PROVE  /\ S \subseteq T
         /\ \A r \in Scope!Found(P) : NodeOf[r.file] \in S => r \in Scope!Found(Q)
<1>1. \A r \in Scope!Found(P) : NodeOf[r.file] \in S => r \in Scope!Found(Q)
  <2>1. ASSUME NEW r \in Scope!Found(P), NodeOf[r.file] \in S PROVE r \in Scope!Found(Q)
    <3>1. r.file \in SourceFiles \ Context
      BY DEF Scope!GraphScopeAssumption, Scope!InputFits, Scope!Found
    <3>2. r.file \in Q
      BY <2>1, <3>1, OneFileIsParsed
    <3> QED BY <3>2 DEF Scope!Found
  <2> QED BY <2>1
<1>2. Scope!ClosedUnder(Scope!Found(P), S \cap T)
  <2>1. ASSUME NEW r \in Scope!Found(P)
        PROVE  /\ NodeOf[r.file] \in S \cap T => r.to \in S \cap T
               /\ Scope!PullsBack(r, S \cap T) => NodeOf[r.file] \in S \cap T
    <3>1. Scope!PullsBack(r, S \cap T) => Scope!PullsBack(r, S) /\ Scope!PullsBack(r, T)
      BY DEF Scope!PullsBack
    <3>2. /\ NodeOf[r.file] \in S => r.to \in S
          /\ Scope!PullsBack(r, S) => NodeOf[r.file] \in S
      BY DEF Scope!ClosedUnder
    <3>3. r \in Scope!Found(Q) => /\ NodeOf[r.file] \in T => r.to \in T
                                  /\ Scope!PullsBack(r, T) => NodeOf[r.file] \in T
      BY DEF Scope!ClosedUnder
    <3> QED BY <1>1, <3>1, <3>2, <3>3
  <2> QED BY <2>1 DEF Scope!ClosedUnder
<1>3. S \subseteq S \cap T
  BY <1>2 DEF Scope!Least
<1> QED BY <1>1, <1>3

(* Any two builds select the same, but for the twins. *)
LEMMA ScopeIsOne ==
  ASSUME Scope!GraphScopeAssumption, Scope!Inv, v5 = "frozen", v11 # Scope!NoGraph,
         Scope!Twins \cap (v10.nodes \cup v11.nodes) = {}
  PROVE  v10 = v11
<1>1. Scope!InputFits /\ Scope!Built(v10) /\ Scope!Built(v11)
  BY FrozenIsBuilt DEF Scope!Inv
<1>2. PICK P \in Scope!Choices :
        /\ Scope!Seeds \subseteq v10.nodes /\ v10.nodes \subseteq Nodes
        /\ Scope!ClosedUnder(Scope!Found(P), v10.nodes)
        /\ Scope!Least(Scope!Found(P), v10.nodes)
        /\ v10 = Scope!GraphOf(Scope!Found(P), v10.nodes)
  BY <1>1 DEF Scope!Built
<1>3. PICK Q \in Scope!Choices :
        /\ Scope!Seeds \subseteq v11.nodes /\ v11.nodes \subseteq Nodes
        /\ Scope!ClosedUnder(Scope!Found(Q), v11.nodes)
        /\ Scope!Least(Scope!Found(Q), v11.nodes)
        /\ v11 = Scope!GraphOf(Scope!Found(Q), v11.nodes)
  BY <1>1 DEF Scope!Built
<1>4. PICK S \in SUBSET Nodes : S = v10.nodes
  BY <1>2
<1>5. PICK T \in SUBSET Nodes : T = v11.nodes
  BY <1>3
<1>6. /\ S \subseteq T
      /\ \A r \in Scope!Found(P) : NodeOf[r.file] \in S => r \in Scope!Found(Q)
  BY <1>1, <1>2, <1>3, <1>4, <1>5, BuildsAgree
<1>7. /\ T \subseteq S
      /\ \A r \in Scope!Found(Q) : NodeOf[r.file] \in T => r \in Scope!Found(P)
  <2>1. Scope!Twins \cap (T \cup S) = {}
    BY <1>4, <1>5
  <2> QED BY <1>1, <1>2, <1>3, <1>4, <1>5, <2>1, BuildsAgree
<1>8. S = T
  BY <1>6, <1>7
<1>9. Scope!GraphOf(Scope!Found(P), S) = Scope!GraphOf(Scope!Found(Q), S)
  <2>1. {r \in Scope!Found(P) : NodeOf[r.file] \in S /\ r.to \in S}
          = {r \in Scope!Found(Q) : NodeOf[r.file] \in S /\ r.to \in S}
    BY <1>6, <1>7, <1>8
  <2>2. {r \in Scope!Found(P) : NodeOf[r.file] \in S /\ ~ Scope!Resolved(r.to)}
          = {r \in Scope!Found(Q) : NodeOf[r.file] \in S /\ ~ Scope!Resolved(r.to)}
    BY <1>6, <1>7, <1>8
  <2> QED BY <2>1, <2>2 DEF Scope!GraphOf
<1> QED BY <1>2, <1>3, <1>4, <1>5, <1>8, <1>9

(* What the second scan counts was found, if the counts agree. *)
LEMMA CountedIsFound ==
  ASSUME Scope!GraphScopeAssumption, Scope!Inv, NEW r \in v1, r.scanned,
         Scope!InSource(r.file, r.to) = Scope!InGraph(r.file, r.to)
  PROVE  \E e \in v10.edges : e.file = r.file /\ e.to = r.to
<1> DEFINE R == {q \in v1 : q.file = r.file /\ q.to = r.to /\ q.scanned}
           M == {m \in R \X (1..2) : m[2] <= m[1].times}
           G == {e \in v10.edges : e.file = r.file /\ e.to = r.to /\ e.scanned}
<1>1. <<r, 1>> \in M
  <2>1. r.times \in 1..2
    BY DEF Scope!GraphScopeAssumption, Scope!Inv, Scope!InputFits
  <2> QED BY <2>1
<1>2. IsFiniteSet(M)
  <2>1. IsFiniteSet(R)
    BY SameFinite, FS_Subset DEF Scope!GraphScopeAssumption, Scope!Inv, Scope!InputFits
  <2>2. IsFiniteSet(1..2)
    <3>1. 1 \in Int /\ 2 \in Int
      OBVIOUS
    <3> QED BY <3>1, FS_Interval
  <2>3. IsFiniteSet(R \X (1..2))
    BY <2>1, <2>2, FS_Product
  <2> HIDE DEF R
  <2>4. M \subseteq R \X (1..2)
    OBVIOUS
  <2> QED BY <2>3, <2>4, FS_Subset
<1>3. Cardinality(M) # 0
  BY <1>1, <1>2, FS_EmptySet
<1>4. Cardinality(M) = Cardinality(G)
  BY SameCardinality DEF Scope!InSource, Scope!InGraph
<1> HIDE DEF M, G
<1>5. G # {}
  BY <1>3, <1>4, FS_EmptySet
<1> QED BY <1>5 DEF G

(* The properties follow from the invariant. *)
LEMMA ScopeHolds ==
  ASSUME Scope!GraphScopeAssumption, Scope!Inv
  PROVE  /\ Scope!TypeOK /\ Scope!ScopeIsClosure /\ Scope!BuilderAndAssuranceAgree
         /\ Scope!AssuredIsComplete /\ Scope!DeterministicOtherwise
<1>1. v10 \in {Scope!GraphOf(v6, v7), Scope!NoGraph} /\ v6 \subseteq v1 \ v2
  BY DEF Scope!Inv, Scope!PassFits, Scope!Found
<1>2. Scope!TypeOK
  <2>1. /\ v2 \subseteq v1 /\ v1 \subseteq Candidates
        /\ v8 \subseteq v6 /\ v7 \subseteq Nodes
    BY DEF Scope!Inv, Scope!InputFits, Scope!PassFits
  <2>2. CASE v10 = Scope!GraphOf(v6, v7)
    <3>1. v10.nodes = v7 /\ v10.digests \subseteq SourceFiles
          /\ v10.edges = {r \in v6 : NodeOf[r.file] \in v7 /\ r.to \in v7}
      BY <2>2 DEF Scope!GraphOf
    <3> QED BY <1>1, <2>1, <3>1 DEF Scope!Inv, Scope!TypeOK
  <2>3. CASE v10 = Scope!NoGraph
    <3>1. v10.nodes = {} /\ v10.digests = {} /\ v10.edges = {}
      BY <2>3 DEF Scope!NoGraph
    <3> QED BY <1>1, <2>1, <3>1 DEF Scope!Inv, Scope!TypeOK
  <2> QED BY <1>1, <2>2, <2>3
<1>3. Scope!ScopeIsClosure
  <2> SUFFICES ASSUME v5 \in {"freeze", "frozen"}
               PROVE  /\ Scope!Seeds \subseteq v7 /\ Scope!Closed(v7)
                      /\ \A T \in SUBSET v7 :
                           Scope!Seeds \subseteq T /\ Scope!Closed(T) => T = v7
    BY DEF Scope!ScopeIsClosure
  <2>1. Scope!PassFits
    BY DEF Scope!Inv
  <2> QED BY <2>1 DEF Scope!PassFits, Scope!Closed, Scope!Least
<1>4. Scope!BuilderAndAssuranceAgree
  <2> SUFFICES ASSUME v5 = "frozen"
               PROVE  /\ "orphan" \notin Scope!Discrepancies
                      /\ "unreachable" \in Scope!Discrepancies => v3 = "directory"
    BY DEF Scope!BuilderAndAssuranceAgree
  <2>1. v10 = Scope!GraphOf(v6, v7) /\ \A r \in v6 : r.file \in SourceFiles
    <3>1. Scope!PassFits /\ Scope!InputFits
      BY DEF Scope!Inv
    <3> QED BY <3>1, FrozenIsBuilt, FoundFits DEF Scope!PassFits
  <2>2. /\ v10.digests = {f \in SourceFiles : NodeOf[f] \in v7}
        /\ \A r \in v10.edges \cup v10.warnings : r \in v6 /\ NodeOf[r.file] \in v7
    BY <2>1 DEF Scope!GraphOf
  <2>3. "orphan" \notin Scope!Discrepancies
    BY <2>1, <2>2 DEF Scope!Discrepancies
  <2>4. v3 # "directory" => \A f \in v10.digests : NodeOf[f] \in Scope!Reachable
    BY <2>2, SelectedIsReachable
  <2>5. v3 # "directory" => "unreachable" \notin Scope!Discrepancies
    BY <2>4 DEF Scope!Discrepancies
  <2> QED BY <2>3, <2>5
<1>5. Scope!AssuredIsComplete
  <2> SUFFICES ASSUME v5 = "frozen", Scope!Status = "assured"
               PROVE  /\ v4 \subseteq SourceFiles \cup Plain
                      /\ \A f \in v4 \ Context :
                           /\ f \in v10.digests \ Dynamic
                           /\ \A r \in v1 : r.file = f /\ r.scanned =>
                                Scope!Resolved(r.to) /\ \E e \in v10.edges : e.file = f /\ e.to = r.to
    BY DEF Scope!AssuredIsComplete
  <2>1. Scope!Discrepancies = {} /\ Scope!Constructs = {}
    BY DEF Scope!Status
  <2>2. Scope!Missing = {} /\ Scope!Reconciled /\ Scope!SecurityCovered
    <3>1. Scope!Missing # {} => "missing" \in Scope!Discrepancies
      BY DEF Scope!Discrepancies
    <3>2. ~ Scope!Reconciled => "count" \in Scope!Discrepancies
      BY DEF Scope!Discrepancies
    <3>3. ~ Scope!SecurityCovered => "security" \in Scope!Discrepancies
      BY DEF Scope!Discrepancies
    <3> QED BY <2>1, <3>1, <3>2, <3>3
  <2>3. v4 \subseteq SourceFiles \cup Plain
    BY <2>2 DEF Scope!Missing
  <2>4. ASSUME NEW f \in v4 \ Context
        PROVE  f \in v10.digests \ Dynamic
    <3>1. f \in Scope!Bearing \ Scope!Missing
      BY <2>2 DEF Scope!Bearing
    <3>2. f \notin v10.digests => "not in graph" \in Scope!Discrepancies
      BY <3>1 DEF Scope!Discrepancies
    <3> QED BY <2>1, <3>2 DEF Scope!Constructs
  <2>5. ASSUME NEW f \in v4, NEW r \in v1, r.file = f, r.scanned
        PROVE  Scope!Resolved(r.to) /\ \E e \in v10.edges : e.file = f /\ e.to = r.to
    <3>1. r.to \in Nodes
      BY DEF Scope!GraphScopeAssumption, Scope!Inv, Scope!InputFits
    <3>2. Scope!InSource(r.file, r.to) = Scope!InGraph(r.file, r.to)
      BY <2>2, <2>5, <3>1 DEF Scope!Reconciled
    <3>3. \E e \in v10.edges : e.file = f /\ e.to = r.to
      BY <2>5, <3>2, CountedIsFound
    <3> QED BY <2>2, <3>3 DEF Scope!SecurityCovered
  <2> QED BY <2>3, <2>4, <2>5
<1>6. Scope!DeterministicOtherwise
  BY ScopeIsOne DEF Scope!DeterministicOtherwise
<1> QED BY <1>2, <1>3, <1>4, <1>5, <1>6

-----------------------------------------------------------------------------
(* The session of the graph.                                                *)

(* Nothing that is there is replaced or removed. *)
Grown(f, g) ==
    \A chain \in Session!Chains :
        /\ DOMAIN f[chain] \subseteq DOMAIN g[chain]
        /\ \A n \in DOMAIN f[chain] : g[chain][n] = f[chain][n]

(* At first there is no file and no call. *)
LEMMA SessionStart == ASSUME Session!GraphSessionAssumption, Session!Init PROVE Session!Inv
<1> USE DEF Session!Init, Session!Chains, Session!Present, Session!Steps
<1>0. \A chain \in Session!Chains \cup {"stop"} : v1[chain] = <<>> /\ DOMAIN v1[chain] = {}
  OBVIOUS
<1>1. Session!TypeOK
  BY <1>0 DEF Session!TypeOK, Session!GraphSessionAssumption, Session!Doing, Session!Idle
<1>2. Session!FilesFit
  <2>1. v1 = [chain \in Session!Chains \cup {"stop"} |-> v1[chain]]
    OBVIOUS
  <2>2. \A chain \in Session!Chains : v1[chain] = [n \in Session!Present(chain) |-> v1[chain][n]]
    BY <1>0
  <2> QED BY <2>1, <2>2, <1>0 DEF Session!FilesFit, Session!Whole
<1>3. Session!CallsFit
  BY DEF Session!CallsFit, Session!Fit, Session!Idle
<1> QED BY <1>1, <1>2, <1>3 DEF Session!Inv, Session!ExposedFits, Session!CutFits

(* A step of another part keeps it. *)
LEMMA SessionKept ==
  ASSUME Session!Inv, UNCHANGED <<v1, v2, v3, v4, v5, v6, v7, v8, v9>>
  PROVE  Session!Inv'
<1> USE DEF Session!Chains, Session!Present, Session!Steps, Session!Whole, Session!Cut,
        Session!Doing, Session!Before, Session!Reports
<1>1. Session!TypeOK'
  BY DEF Session!Inv, Session!TypeOK
<1>2. Session!FilesFit'
  BY DEF Session!Inv, Session!FilesFit
<1>3. Session!CallsFit'
  BY DEF Session!Inv, Session!CallsFit, Session!Fit
<1>4. Session!ExposedFits'
  BY DEF Session!Inv, Session!ExposedFits
<1>5. Session!CutFits'
  BY DEF Session!Inv, Session!CutFits
<1> QED BY <1>1, <1>2, <1>3, <1>4, <1>5 DEF Session!Inv

(* What a call relies on stays while the files grow and the Wiki stays. *)
LEMMA CallFitStays ==
  ASSUME Session!FilesFit', Grown(v1, v1'), v3' = v3, NEW p \in Procs, Session!Fit(p),
         v4'[p] = v4[p]
  PROVE  Session!Fit(p)'
<1> USE DEF Session!Doing
<1>1. \A chain \in Session!Chains : /\ Session!Present(chain) \subseteq Session!Present(chain)'
                                    /\ Session!Whole(chain) => Session!Whole(chain)'
  BY DEF Grown, Session!Present, Session!Whole, Session!FilesFit
<1>2. \A policy : Session!Reports(policy) => Session!Reports(policy)'
  BY DEF Grown, Session!Present, Session!Reports, Session!Chains
<1>3. \A x : x \in Session!Chains => x \in {"graph", "assurance"}
  BY DEF Session!Chains
<1>4. "graph" \in Session!Chains
  BY DEF Session!Chains
<1> DEFINE c == v4[p]
<1>5. CASE c = Session!Idle
  BY <1>5 DEF Session!Fit
<1>6. CASE c \in [pc: {"look"}, chain: Session!Chains, at: Session!Steps,
                  found: SUBSET Session!Steps, policy: Policies]
  <2>1. c.pc = "look" /\ c.chain \in Session!Chains
    BY <1>6
  <2>2. /\ c.found \subseteq Session!Present(c.chain)
        /\ \A n \in c.found : n < c.at
        /\ c.chain = "assurance" => Session!Whole("graph")
    BY <2>1 DEF Session!Fit, Session!Idle
  <2>3. /\ c.found \subseteq Session!Present(c.chain)'
        /\ c.chain = "assurance" => Session!Whole("graph")'
    BY <2>1, <2>2, <1>1, <1>4
  <2> QED BY <1>6, <2>2, <2>3 DEF Session!Fit
<1>7. CASE c \in [pc: {"build"}, policy: Policies]
  BY <1>7 DEF Session!Fit
<1>8. CASE c \in [pc: {"load"}, policy: Policies]
  <2>1. Session!Whole("graph")
    BY <1>8 DEF Session!Fit, Session!Idle
  <2> QED BY <1>8, <2>1, <1>1, <1>4 DEF Session!Fit
<1>9. CASE c \in [pc: {"write", "verify"}, chain: Session!Chains, at: Session!Steps,
                  graph: {Session!Graph(Bound)}, policy: Policies]
  <2>1. c.pc \in {"write", "verify"} /\ c.chain \in Session!Chains
    BY <1>9
  <2>2. /\ \A n \in Session!Steps : n < c.at => n \in Session!Present(c.chain)
        /\ c.chain = "assurance" => Session!Whole("graph")
        /\ c.chain = "assurance" /\ c.at > 1 => Session!Reports(c.policy)
        /\ c.pc = "verify" => Session!Whole(c.chain) /\ c.at = 4
    BY <2>1 DEF Session!Fit, Session!Idle
  <2>3. /\ \A n \in Session!Steps : n < c.at => n \in Session!Present(c.chain)'
        /\ c.chain = "assurance" => Session!Whole("graph")'
        /\ c.chain = "assurance" /\ c.at > 1 => Session!Reports(c.policy)'
        /\ c.pc = "verify" => Session!Whole(c.chain)' /\ c.at = 4
    BY <2>1, <2>2, <1>1, <1>2, <1>4
  <2> QED BY <1>9, <2>3 DEF Session!Fit
<1>10. CASE \/ c \in [pc: {"decide", "wiki"}, policy: Policies]
            \/ c \in [pc: {"expose"}, policy: Policies, moved: BOOLEAN]
  <2>1. c.pc \in {"decide", "wiki", "expose"}
    BY <1>10
  <2>2. /\ \A chain \in Session!Chains : Session!Whole(chain)
        /\ Session!Reports(c.policy)
        /\ c.pc # "decide" => c.policy \in Assured
        /\ c.pc = "expose" /\ Benchmark => v3 = Pinned \/ c.moved
    BY <2>1 DEF Session!Fit, Session!Idle
  <2>3. /\ \A chain \in Session!Chains : Session!Whole(chain)'
        /\ Session!Reports(c.policy)'
    BY <2>2, <1>1, <1>2
  <2> QED BY <1>10, <2>2, <2>3 DEF Session!Fit
<1> QED BY <1>5, <1>6, <1>7, <1>8, <1>9, <1>10 DEF Session!Fit

(* A call moved, and the others are as they were. *)
LEMMA CallsMove ==
  ASSUME Session!FilesFit', Grown(v1, v1'), v3' = v3, Session!CallsFit, NEW p \in Procs, NEW s,
         v4' = [v4 EXCEPT ![p] = s], Session!Fit(p)'
  PROVE  Session!CallsFit' /\ v4'[p] = s /\ \A q \in Procs \ {p} : v4'[q] = v4[q]
<1>1. v4'[p] = s /\ (\A q \in Procs \ {p} : v4'[q] = v4[q])
      /\ v4' = [q \in Procs |-> v4'[q]]
  BY DEF Session!CallsFit
<1>2. \A q \in Procs \ {p} : Session!Fit(q)'
  BY <1>1, CallFitStays DEF Session!CallsFit
<1> QED BY <1>1, <1>2 DEF Session!CallsFit

(* What was exposed stays what the files say. *)
LEMMA ExposedStays ==
  ASSUME Session!ExposedFits, Grown(v1, v1'), v7' = v7
  PROVE  Session!ExposedFits'
<1>1. \A policy : Session!Reports(policy) => /\ Session!Reports(policy)'
                                             /\ v1'["assurance"][1] = v1["assurance"][1]
  BY DEF Grown, Session!Present, Session!Reports, Session!Chains
<1> QED BY <1>1 DEF Session!ExposedFits

(* The new state of a call does not touch the chains that were left open. *)
Careful(s) ==
    \A chain \in v9 :
        /\ ~(s.pc = "write" /\ s.chain = chain)
        /\ chain = "graph" => s.pc # "build"
        /\ s.pc = "look" /\ s.chain = chain =>
               \A n \in Session!Present(chain) : n < s.at => n \in s.found

(* A call moved, and the files may have grown. *)
LEMMA Moves ==
  ASSUME Session!Inv, NEW p \in Procs, NEW s, v4' = [v4 EXCEPT ![p] = s],
         UNCHANGED <<v2, v3, v5, v6, v7, v8, v9>>, Session!FilesFit', Grown(v1, v1'),
         \A chain \in v9 : Session!Present(chain)' = Session!Present(chain),
         Session!Fit(p)', Careful(s)
  PROVE  Session!Inv'
<1>1. v3' = v3 /\ v7' = v7
  OBVIOUS
<1>2. Session!CallsFit' /\ v4'[p] = s /\ \A q \in Procs \ {p} : v4'[q] = v4[q]
  BY <1>1, CallsMove DEF Session!Inv
<1>3. Session!ExposedFits'
  BY <1>1, ExposedStays DEF Session!Inv
<1>4. Session!CutFits'
  BY <1>2 DEF Session!Inv, Session!CutFits, Session!Cut, Session!Whole, Session!Doing, Careful
<1>5. Session!TypeOK'
  <2>1. \A q \in Procs : Session!Doing(q)' \in
           {"idle", "look", "build", "load", "write", "verify", "decide", "wiki", "expose"}
    BY <1>2 DEF Session!CallsFit, Session!Fit, Session!Doing, Session!Idle
  <2>2. DOMAIN v1' = Session!Chains \cup {"stop"}
        /\ \A chain \in Session!Chains : Session!Present(chain)' \subseteq Session!Steps
    BY DEF Session!FilesFit
  <2> QED BY <2>1, <2>2 DEF Session!Inv, Session!TypeOK
<1> QED BY <1>2, <1>3, <1>4, <1>5 DEF Session!Inv

(* A call moved, and no file did. *)
LEMMA CallGoesOn ==
  ASSUME Session!Inv, NEW p \in Procs, NEW s, v4' = [v4 EXCEPT ![p] = s],
         UNCHANGED <<v1, v2, v3, v5, v6, v7, v8, v9>>, Session!Fit(p)', Careful(s)
  PROVE  Session!Inv'
<1>1. Grown(v1, v1') /\ \A chain \in v9 : Session!Present(chain)' = Session!Present(chain)
  BY DEF Grown, Session!Present
<1>2. Session!FilesFit'
  BY DEF Session!Inv, Session!FilesFit, Session!Present, Session!Whole, Session!Before,
     Session!Chains, Session!Steps
<1>3. UNCHANGED <<v2, v3, v5, v6, v7, v8, v9>>
  OBVIOUS
<1> QED BY <1>1, <1>2, <1>3, Moves

(* A call that fails, or dies, is over. *)
LEMMA GivesUp ==
  ASSUME Session!Inv, NEW p \in Procs, Session!Fail(p),
         UNCHANGED <<v1, v2, v3, v5, v6, v7, v8, v9>>
  PROVE  Session!Inv'
<1>1. v4' = [v4 EXCEPT ![p] = Session!Idle]
  BY DEF Session!Fail, Session!Become
<1>2. v4'[p] = Session!Idle
  BY <1>1 DEF Session!Inv, Session!CallsFit
<1>3. Session!Fit(p)'
  BY <1>2 DEF Session!Fit
<1>4. Careful(Session!Idle)
  BY DEF Careful, Session!Idle
<1> QED BY <1>1, <1>3, <1>4, CallGoesOn

(* A chain that is whole was not left open. *)
LEMMA WholeIsNotCut ==
  ASSUME Session!CutFits, NEW chain, Session!Whole(chain) PROVE chain \notin v9
  BY DEF Session!CutFits, Session!Cut

(* The graph that is loaded is whole and sealed. *)
LEMMA LoadStep ==
  ASSUME Session!Inv, NEW p \in Procs, Session!Load(p) PROVE Session!Inv'
<1> DEFINE s == Session!Writing("graph", 2, v1["graph"][1], v4[p].policy)
<1>1. v4' = [v4 EXCEPT ![p] = s] /\ UNCHANGED <<v1, v2, v3, v5, v6, v7, v8, v9>>
  BY DEF Session!Load, Session!Become
<1>2. v4'[p] = s
  BY <1>1 DEF Session!Inv, Session!CallsFit
<1>3. v4[p].policy \in Policies /\ Session!Whole("graph")
  BY DEF Session!Load, Session!Doing, Session!Inv, Session!CallsFit, Session!Fit, Session!Idle
<1>4. 1 \in Session!Present("graph") /\ v1["graph"][1] = Session!Graph(Bound)
  BY <1>3 DEF Session!Whole, Session!Steps, Session!Inv, Session!FilesFit
<1>5. Session!Fit(p)'
  <2>1. s \in [pc: {"write", "verify"}, chain: Session!Chains, at: Session!Steps,
               graph: {Session!Graph(Bound)}, policy: Policies]
    BY <1>3, <1>4 DEF Session!Writing, Session!Chains, Session!Steps
  <2>2. \A n \in Session!Steps : n < 2 => n \in Session!Present("graph")'
    BY <1>1, <1>4 DEF Session!Steps, Session!Present
  <2>3. s.pc = "write" /\ s.chain = "graph" /\ s.at = 2
    BY DEF Session!Writing
  <2> QED BY <1>2, <2>1, <2>2, <2>3 DEF Session!Fit, Session!Doing
<1>6. "graph" \notin v9
  BY <1>3, WholeIsNotCut DEF Session!Inv
<1>7. Careful(s)
  BY <1>6 DEF Careful, Session!Writing
<1> QED BY <1>1, <1>5, <1>7, CallGoesOn

(* A graph that is built is of the source the session is bound to. *)
LEMMA BuildStep ==
  ASSUME Session!Inv, NEW p \in Procs, Session!Build(p) PROVE Session!Inv'
<1>0. UNCHANGED <<v1, v2, v3, v5, v6, v7, v8, v9>>
  BY DEF Session!Build
<1>1. v4[p].policy \in Policies /\ "graph" \notin v9
  <2>1. v4[p].pc = "build"
    BY DEF Session!Build, Session!Doing
  <2>2. v4[p].policy \in Policies
    BY <2>1 DEF Session!Inv, Session!CallsFit, Session!Fit, Session!Idle
  <2>3. "graph" \notin v9
    BY <2>1 DEF Session!Inv, Session!CutFits, Session!Doing
  <2> QED BY <2>2, <2>3
<1>2. \A n \in Session!Steps : \A g : (n > 1 => 1 \in Session!Present("graph")) /\ n < 3
          /\ g = Session!Graph(Bound)
          /\ Session!Become(p, Session!Writing("graph", n, g, v4[p].policy)) => Session!Inv'
  <2> SUFFICES ASSUME NEW n \in Session!Steps, NEW g, n > 1 => 1 \in Session!Present("graph"),
                      n < 3, g = Session!Graph(Bound),
                      Session!Become(p, Session!Writing("graph", n, g, v4[p].policy))
               PROVE  Session!Inv'
    OBVIOUS
  <2> DEFINE s == Session!Writing("graph", n, g, v4[p].policy)
  <2>1. v4' = [v4 EXCEPT ![p] = s]
    BY DEF Session!Become
  <2>2. v4'[p] = s
    BY <2>1 DEF Session!Inv, Session!CallsFit
  <2>3. Session!Fit(p)'
    <3>1. s \in [pc: {"write", "verify"}, chain: Session!Chains, at: Session!Steps,
                 graph: {Session!Graph(Bound)}, policy: Policies]
      BY <1>1 DEF Session!Writing, Session!Chains
    <3>2. \A k \in Session!Steps : k < n => k \in Session!Present("graph")'
      BY <1>0 DEF Session!Steps, Session!Present
    <3>3. s.pc = "write" /\ s.chain = "graph" /\ s.at = n
      BY DEF Session!Writing
    <3> QED BY <2>2, <3>1, <3>2, <3>3 DEF Session!Fit, Session!Doing
  <2>4. Careful(s)
    BY <1>1 DEF Careful, Session!Writing
  <2> QED BY <1>0, <2>1, <2>3, <2>4, CallGoesOn
<1>3. CASE 1 \in Session!Present("graph")
  <2>1. v1["graph"][1] = Session!Graph(Bound)
    BY <1>3 DEF Session!Inv, Session!FilesFit
  <2>2. Session!Become(p, Session!Writing("graph", 2, v1["graph"][1], v4[p].policy))
    BY <1>3 DEF Session!Build
  <2>3. 2 \in Session!Steps
    BY DEF Session!Steps
  <2> QED BY <2>1, <2>2, <2>3, <1>2, <1>3
<1>4. CASE 1 \notin Session!Present("graph") /\ v2 # Bound
  BY <1>0, <1>4, GivesUp DEF Session!Build
<1>5. CASE 1 \notin Session!Present("graph") /\ v2 = Bound
  <2>1. Session!Become(p, Session!Writing("graph", 1, Session!Graph(v2), v4[p].policy))
    BY <1>5 DEF Session!Build
  <2>2. 1 \in Session!Steps
    BY DEF Session!Steps
  <2> QED BY <2>1, <2>2, <1>2, <1>5
<1> QED BY <1>3, <1>4, <1>5

(* A call may die anywhere. *)
LEMMA CrashStep ==
  ASSUME Session!Inv, NEW p \in Procs, Session!Crash(p) PROVE Session!Inv'
  BY GivesUp DEF Session!Crash

(* The call decides about whole chains and its report. *)
LEMMA Decides ==
  ASSUME Session!Inv, NEW p \in Procs, NEW policy \in Policies,
         v4' = [v4 EXCEPT ![p] = [pc |-> "decide", policy |-> policy]],
         UNCHANGED <<v1, v2, v3, v5, v6, v7, v8, v9>>,
         \A chain \in Session!Chains : Session!Whole(chain), Session!Reports(policy)
  PROVE  Session!Inv'
<1> DEFINE s == [pc |-> "decide", policy |-> policy]
<1>1. v4'[p] = s
  BY DEF Session!Inv, Session!CallsFit
<1>2. (\A chain \in Session!Chains : Session!Whole(chain)') /\ Session!Reports(policy)'
  BY DEF Session!Whole, Session!Present, Session!Reports
<1>3. s \in [pc: {"decide", "wiki"}, policy: Policies] /\ s.pc = "decide" /\ s.policy = policy
  OBVIOUS
<1>4. Session!Fit(p)'
  BY <1>1, <1>2, <1>3 DEF Session!Fit, Session!Doing
<1>5. Careful(s)
  BY DEF Careful
<1> QED BY <1>4, <1>5, CallGoesOn

(* A state of looking: what was found is there, and of a chain that was left *)
(* open nothing was overlooked.                                              *)
LookFits(chain, n, found, policy) ==
    /\ Session!Looking(chain, n, found, policy) \in
           [pc: {"look"}, chain: Session!Chains, at: Session!Steps,
            found: SUBSET Session!Steps, policy: Policies]
    /\ found \subseteq Session!Present(chain)
    /\ \A k \in found : k < n
    /\ chain = "assurance" => Session!Whole("graph")
    /\ chain \in v9 => \A k \in Session!Present(chain) : k < n => k \in found

(* The call looks at a chain. *)
LEMMA Looks ==
  ASSUME Session!Inv, NEW p \in Procs, NEW chain, NEW n, NEW found, NEW policy,
         LookFits(chain, n, found, policy),
         v4' = [v4 EXCEPT ![p] = Session!Looking(chain, n, found, policy)],
         UNCHANGED <<v1, v2, v3, v5, v6, v7, v8, v9>>
  PROVE  Session!Inv'
<1> DEFINE s == Session!Looking(chain, n, found, policy)
<1>1. v4'[p] = s
  BY DEF Session!Inv, Session!CallsFit
<1>2. /\ found \subseteq Session!Present(chain)'
      /\ chain = "assurance" => Session!Whole("graph")'
  BY DEF LookFits, Session!Whole, Session!Present
<1>3. s.pc = "look" /\ s.chain = chain /\ s.found = found /\ s.at = n
  BY DEF Session!Looking
<1>4. Session!Fit(p)'
  BY <1>1, <1>2, <1>3 DEF Session!Fit, Session!Doing, LookFits
<1>5. Careful(s)
  BY <1>3 DEF Careful, LookFits
<1> QED BY <1>4, <1>5, CallGoesOn

(* A report that is sealed is the report of the policy it was sealed for. *)
LEMMA SealedReports ==
  ASSUME Session!FilesFit, NEW p \in Procs, Session!Sealed(p, "assurance")
  PROVE  Session!Whole("assurance") /\ Session!Whole("graph") /\ Session!Reports(v4[p].policy)
<1>1. \A n \in Session!Steps : n \in Session!Present("assurance")
  BY DEF Session!Sealed
<1>2. Session!Present("assurance") = Session!Steps
  BY <1>1 DEF Session!FilesFit, Session!Chains
<1>3. Session!Whole("assurance") /\ Session!Whole("graph")
  BY <1>2 DEF Session!Whole, Session!FilesFit, Session!Steps
<1>4. 1 \in Session!Present("graph") /\ 1 \in Session!Present("assurance")
  BY <1>3 DEF Session!Whole, Session!Steps
<1>5. v1["graph"][1] = Session!Graph(Bound)
  BY <1>4 DEF Session!FilesFit
<1>6. v1["assurance"][1] = Session!Value(p, "assurance", 1)
  BY DEF Session!Sealed, Session!Steps
<1>7. Session!Value(p, "assurance", 1) = Session!Report(Bound, v1["graph"][1], v4[p].policy)
  BY DEF Session!Value
<1> QED BY <1>3, <1>4, <1>5, <1>6, <1>7 DEF Session!Reports

(* What was written is read back. *)
LEMMA VerifyStep ==
  ASSUME Session!Inv, NEW p \in Procs, Session!Verify(p) PROVE Session!Inv'
<1>0. UNCHANGED <<v1, v2, v3, v5, v6, v7, v8, v9>>
  BY DEF Session!Verify
<1>1. /\ v4[p].policy \in Policies /\ v4[p].chain \in Session!Chains
      /\ Session!Whole(v4[p].chain)
  <2>1. v4[p].pc = "verify"
    BY DEF Session!Verify, Session!Doing
  <2> QED BY <2>1 DEF Session!Inv, Session!CallsFit, Session!Fit, Session!Idle, Session!Doing
<1>2. CASE ~ Session!Sealed(p, v4[p].chain)
  BY <1>0, <1>2, GivesUp DEF Session!Verify
<1>3. CASE Session!Sealed(p, v4[p].chain) /\ v4[p].chain = "graph"
  <2>1. v4' = [v4 EXCEPT ![p] = Session!Looking("assurance", 1, {}, v4[p].policy)]
    BY <1>3 DEF Session!Verify, Session!Become, Session!Looking
  <2>2. \A k \in Session!Present("assurance") : k \in Nat /\ ~ k < 1
    BY DEF Session!Chains, Session!Steps, Session!Inv, Session!FilesFit
  <2>3. LookFits("assurance", 1, {}, v4[p].policy)
    BY <1>1, <1>3, <2>2 DEF LookFits, Session!Looking, Session!Chains, Session!Steps
  <2> QED BY <1>0, <2>1, <2>3, Looks
<1>4. CASE Session!Sealed(p, v4[p].chain) /\ v4[p].chain # "graph"
  <2>1. v4[p].chain = "assurance"
    BY <1>1, <1>4 DEF Session!Chains
  <2>2. v4' = [v4 EXCEPT ![p] = [pc |-> "decide", policy |-> v4[p].policy]]
    BY <1>4 DEF Session!Verify, Session!Become
  <2>3. /\ \A chain \in Session!Chains : Session!Whole(chain)
        /\ Session!Reports(v4[p].policy)
    BY <1>4, <2>1, SealedReports DEF Session!Inv, Session!Chains
  <2> QED BY <1>0, <1>1, <2>2, <2>3, Decides
<1> QED BY <1>2, <1>3, <1>4

(* The Wiki that is compared is the one that is pinned. *)
LEMMA CheckWikiStep ==
  ASSUME Session!Inv, NEW p \in Procs, Session!CheckWiki(p) PROVE Session!Inv'
<1>0. UNCHANGED <<v1, v2, v3, v5, v6, v7, v8, v9>>
  BY DEF Session!CheckWiki
<1>1. /\ v4[p].policy \in Policies /\ v4[p].policy \in Assured
      /\ \A chain \in Session!Chains : Session!Whole(chain)
      /\ Session!Reports(v4[p].policy)
  <2>1. v4[p].pc = "wiki"
    BY DEF Session!CheckWiki, Session!Doing
  <2> QED BY <2>1 DEF Session!Inv, Session!CallsFit, Session!Fit, Session!Idle, Session!Doing
<1>2. CASE Benchmark /\ v3 # Pinned
  BY <1>0, <1>2, GivesUp DEF Session!CheckWiki
<1>3. CASE ~(Benchmark /\ v3 # Pinned)
  <2> PICK policy \in Policies : policy = v4[p].policy
    BY <1>1
  <2> DEFINE s == [pc |-> "expose", policy |-> policy, moved |-> FALSE]
  <2>1. v4' = [v4 EXCEPT ![p] = s]
    BY <1>3 DEF Session!CheckWiki, Session!Become
  <2>2. v4'[p] = s
    BY <2>1 DEF Session!Inv, Session!CallsFit
  <2>3. /\ \A chain \in Session!Chains : Session!Whole(chain)'
        /\ Session!Reports(policy)'
        /\ Benchmark => v3' = Pinned
    BY <1>0, <1>1, <1>3 DEF Session!Whole, Session!Present, Session!Reports
  <2>4. /\ s \in [pc: {"expose"}, policy: Policies, moved: BOOLEAN]
        /\ s.pc = "expose" /\ s.policy = policy
    OBVIOUS
  <2>5. Session!Fit(p)'
    BY <1>1, <2>2, <2>3, <2>4 DEF Session!Fit, Session!Doing
  <2>6. Careful(s)
    BY DEF Careful
  <2> QED BY <1>0, <2>1, <2>5, <2>6, CallGoesOn
<1> QED BY <1>2, <1>3

(* The last file was looked for. *)
LEMMA LookIsDone ==
  ASSUME Session!Inv, NEW p \in Procs, v4[p].pc = "look", v4[p].at = 4,
         NEW found, found = v4[p].found \cup ({4} \cap Session!Present(v4[p].chain)),
         Session!LookDone(p, found), UNCHANGED <<v1, v2, v3, v5, v6, v7, v8, v9>>
  PROVE  Session!Inv'
<1> PICK chain, policy : chain = v4[p].chain /\ policy = v4[p].policy
  OBVIOUS
<1>1. /\ policy \in Policies /\ chain \in Session!Chains /\ v4[p].found \subseteq Session!Steps
      /\ v4[p].found \subseteq Session!Present(chain)
      /\ chain = "assurance" => Session!Whole("graph")
  BY DEF Session!Inv, Session!CallsFit, Session!Fit, Session!Idle, Session!Doing
<1>2. Session!Present(chain) \subseteq Session!Steps
  BY <1>1 DEF Session!Inv, Session!FilesFit
<1>3. found \subseteq Session!Present(chain)
  BY <1>1
<1>4. chain \in v9 => found = Session!Present(chain) /\ found # {} /\ found # Session!Steps
  <2> SUFFICES ASSUME chain \in v9
               PROVE  found = Session!Present(chain) /\ found # {} /\ found # Session!Steps
    OBVIOUS
  <2>1. \A n \in Session!Present(chain) : n < 4 => n \in v4[p].found
    BY DEF Session!Inv, Session!CutFits, Session!Doing
  <2>2. \A n \in Session!Present(chain) : n < 4 \/ n = 4
    BY <1>2 DEF Session!Steps
  <2>3. found = Session!Present(chain)
    BY <1>3, <2>1, <2>2
  <2> QED BY <2>3 DEF Session!Inv, Session!CutFits, Session!Cut, Session!Whole
<1>e. Session!Steps # {}
  BY DEF Session!Steps
<1>5. CASE found = {} /\ chain = "graph"
  <2> DEFINE s == [pc |-> "build", policy |-> policy]
  <2>1. v4' = [v4 EXCEPT ![p] = s]
    BY <1>e, <1>5 DEF Session!LookDone, Session!Become
  <2>2. v4'[p] = s
    BY <2>1 DEF Session!Inv, Session!CallsFit
  <2>3. Session!Fit(p)'
    BY <1>1, <2>2 DEF Session!Fit
  <2>4. Careful(s)
    BY <1>4, <1>5 DEF Careful
  <2> QED BY <2>1, <2>3, <2>4, CallGoesOn
<1>6. CASE found = {} /\ chain = "assurance"
  <2> DEFINE s == Session!Writing("assurance", 1, Session!Graph(Bound), policy)
  <2>1. Session!Become(p, Session!Writing("assurance", 1, v1["graph"][1], policy))
    BY <1>e, <1>6 DEF Session!LookDone
  <2>2. 1 \in Session!Present("graph") /\ v1["graph"][1] = Session!Graph(Bound)
    <3>1. 1 \in Session!Present("graph")
      BY <1>1, <1>6 DEF Session!Whole, Session!Steps
    <3> QED BY <3>1 DEF Session!Inv, Session!FilesFit
  <2>3. v4' = [v4 EXCEPT ![p] = s]
    BY <2>1, <2>2 DEF Session!Become
  <2>4. v4'[p] = s
    BY <2>3 DEF Session!Inv, Session!CallsFit
  <2>5. Session!Fit(p)'
    <3>1. s \in [pc: {"write", "verify"}, chain: Session!Chains, at: Session!Steps,
                 graph: {Session!Graph(Bound)}, policy: Policies]
      BY <1>1 DEF Session!Writing, Session!Chains, Session!Steps
    <3>2. Session!Whole("graph")' /\ \A k \in Session!Steps : ~ k < 1
      BY <1>1, <1>6 DEF Session!Whole, Session!Present, Session!Steps
    <3>3. s.pc = "write" /\ s.chain = "assurance" /\ s.at = 1
      BY DEF Session!Writing
    <3> QED BY <2>4, <3>1, <3>2, <3>3 DEF Session!Fit, Session!Doing
  <2>6. Careful(s)
    BY <1>4, <1>6 DEF Careful, Session!Writing
  <2> QED BY <2>3, <2>5, <2>6, CallGoesOn
<1>7. CASE found = Session!Steps /\ Session!Sealed(p, chain)
  <2>1. found # {} /\ Session!Whole(chain) /\ chain \notin v9
    BY <1>2, <1>3, <1>4, <1>7 DEF Session!Steps, Session!Whole
  <2>2. CASE chain = "graph"
    <3> DEFINE s == [pc |-> "load", policy |-> policy]
    <3>1. v4' = [v4 EXCEPT ![p] = s]
      BY <1>7, <2>1, <2>2 DEF Session!LookDone, Session!Become
    <3>2. v4'[p] = s
      BY <3>1 DEF Session!Inv, Session!CallsFit
    <3>3. Session!Whole("graph")'
      BY <2>1, <2>2 DEF Session!Whole, Session!Present
    <3>4. Session!Fit(p)'
      BY <1>1, <3>2, <3>3 DEF Session!Fit
    <3>5. Careful(s)
      BY DEF Careful
    <3> QED BY <3>1, <3>4, <3>5, CallGoesOn
  <2>3. CASE chain = "assurance"
    <3>1. v4' = [v4 EXCEPT ![p] = [pc |-> "decide", policy |-> policy]]
      BY <1>7, <2>1, <2>3 DEF Session!LookDone, Session!Become
    <3>2. /\ \A c \in Session!Chains : Session!Whole(c)
          /\ Session!Reports(policy)
      BY <1>7, <2>3, SealedReports DEF Session!Inv, Session!Chains
    <3> QED BY <1>1, <3>1, <3>2, Decides
  <2> QED BY <1>1, <2>2, <2>3 DEF Session!Chains
<1>8. CASE found # {} /\ ~(found = Session!Steps /\ Session!Sealed(p, chain))
  <2>1. Session!Fail(p)
    BY <1>8 DEF Session!LookDone
  <2> QED BY <2>1, GivesUp
<1> QED BY <1>1, <1>e, <1>5, <1>6, <1>7, <1>8 DEF Session!Chains

(* The files of a chain are looked for one after the other. *)
LEMMA LookStep ==
  ASSUME Session!Inv, NEW p \in Procs, Session!Look(p) PROVE Session!Inv'
<1>0. UNCHANGED <<v1, v2, v3, v5, v6, v7, v8, v9>> /\ v4[p].pc = "look"
  BY DEF Session!Look, Session!Doing
<1> PICK chain, policy, n, before : chain = v4[p].chain /\ policy = v4[p].policy
                                    /\ n = v4[p].at /\ before = v4[p].found
  OBVIOUS
<1> DEFINE found == before \cup ({n} \cap Session!Present(chain))
<1>1. /\ v4[p] \in [pc: {"look"}, chain: Session!Chains, at: Session!Steps,
                    found: SUBSET Session!Steps, policy: Policies]
      /\ before \subseteq Session!Present(chain)
      /\ \A k \in before : k < n
      /\ chain = "assurance" => Session!Whole("graph")
  BY <1>0 DEF Session!Inv, Session!CallsFit, Session!Fit, Session!Idle, Session!Doing
<1>2. policy \in Policies /\ chain \in Session!Chains /\ n \in Session!Steps
      /\ before \in SUBSET Session!Steps
  BY <1>1
<1>3. CASE n < 4
  <2>1. n + 1 \in Session!Steps /\ n \in Nat
    BY <1>2, <1>3 DEF Session!Steps
  <2>2. v4' = [v4 EXCEPT ![p] = Session!Looking(chain, n + 1, found, policy)]
    BY <1>3 DEF Session!Look, Session!Become
  <2>4. /\ found \in SUBSET Session!Steps /\ found \subseteq Session!Present(chain)
        /\ \A k \in found : k < n + 1
    BY <1>1, <1>2, <2>1 DEF Session!Steps
  <2>5. chain \in v9 => \A k \in Session!Present(chain) : k < n + 1 => k \in found
    <3> SUFFICES ASSUME chain \in v9, NEW k \in Session!Present(chain), k < n + 1
                 PROVE  k \in found
      OBVIOUS
    <3>1. k \in Nat
      BY <1>2 DEF Session!Inv, Session!FilesFit, Session!Steps
    <3>2. k < n => k \in before
      BY <1>0 DEF Session!Inv, Session!CutFits, Session!Doing
    <3> QED BY <2>1, <3>1, <3>2
  <2> HIDE DEF found
  <2>6. LookFits(chain, n + 1, found, policy)
    BY <1>1, <1>2, <2>1, <2>4, <2>5 DEF LookFits, Session!Looking
  <2> QED BY <1>0, <2>2, <2>6, Looks
<1>4. CASE ~ n < 4
  <2>1. n = 4
    BY <1>2, <1>4 DEF Session!Steps
  <2>2. Session!LookDone(p, found)
    BY <1>4 DEF Session!Look
  <2> QED BY <1>0, <2>1, <2>2, LookIsDone
<1> QED BY <1>3, <1>4

(* A chain is extended, or confirmed: the others stay, and nothing is lost. *)
LEMMA PutFits ==
  ASSUME Session!FilesFit, NEW chain \in Session!Chains \cup {"stop"}, NEW n \in Session!Steps,
         NEW value, Session!Put(chain, n, value),
         n \in Session!Present(chain) => v1[chain][n] = value
  PROVE  /\ v1' = [c \in Session!Chains \cup {"stop"} |-> v1'[c]]
         /\ \A c \in Session!Chains \cup {"stop"} :
                c # chain => v1'[c] = v1[c] /\ Session!Present(c)' = Session!Present(c)
         /\ Session!Present(chain)' = Session!Present(chain) \cup {n}
         /\ v1'[chain] = [k \in Session!Present(chain)' |-> v1'[chain][k]]
         /\ v1'[chain][n] = value
         /\ \A k \in Session!Present(chain) : v1'[chain][k] = v1[chain][k]
         /\ Grown(v1, v1')
<1> DEFINE new == [k \in Session!Present(chain) \cup {n} |-> IF k = n THEN value ELSE v1[chain][k]]
<1>1. v1' = [v1 EXCEPT ![chain] = new]
  BY DEF Session!Put
<1>2. v1 = [c \in Session!Chains \cup {"stop"} |-> v1[c]]
  BY DEF Session!FilesFit
<1> HIDE DEF new
<1>3. /\ v1' = [c \in Session!Chains \cup {"stop"} |-> v1'[c]]
      /\ v1'[chain] = new
      /\ \A c \in Session!Chains \cup {"stop"} : c # chain => v1'[c] = v1[c]
  BY <1>1, <1>2
<1>4. /\ DOMAIN new = Session!Present(chain) \cup {n}
      /\ new = [k \in DOMAIN new |-> new[k]]
      /\ new[n] = value
      /\ \A k \in Session!Present(chain) : new[k] = v1[chain][k]
  BY DEF new
<1>5. \A c : Session!Present(c)' = DOMAIN (v1'[c]) /\ Session!Present(c) = DOMAIN (v1[c])
  BY DEF Session!Present
<1>6. Grown(v1, v1')
  <2> SUFFICES ASSUME NEW c \in Session!Chains
               PROVE  /\ DOMAIN v1[c] \subseteq DOMAIN v1'[c]
                      /\ \A k \in DOMAIN v1[c] : v1'[c][k] = v1[c][k]
    BY DEF Grown
  <2>1. CASE c = chain
    BY <2>1, <1>3, <1>4, <1>5
  <2>2. CASE c # chain
    BY <2>2, <1>3, <1>5
  <2> QED BY <2>1, <2>2
<1> QED BY <1>3, <1>4, <1>5, <1>6

(* A report that stops a run is not of a chain. *)
LEMMA StopFits ==
  ASSUME Session!FilesFit, NEW value, Session!Put("stop", 1, value), Session!Present("stop") = {}
  PROVE  /\ Session!FilesFit' /\ Grown(v1, v1')
         /\ \A c \in Session!Chains : Session!Present(c)' = Session!Present(c)
<1>1. 1 \in Session!Steps /\ "stop" \notin Session!Chains
  BY DEF Session!Steps, Session!Chains
<1>2. /\ v1' = [c \in Session!Chains \cup {"stop"} |-> v1'[c]]
      /\ \A c \in Session!Chains \cup {"stop"} :
             c # "stop" => v1'[c] = v1[c] /\ Session!Present(c)' = Session!Present(c)
      /\ Grown(v1, v1')
  BY <1>1, PutFits
<1>3. \A c \in Session!Chains : v1'[c] = v1[c] /\ Session!Present(c)' = Session!Present(c)
  BY <1>1, <1>2
<1>4. Session!FilesFit'
  BY <1>2, <1>3 DEF Session!FilesFit, Session!Chains, Session!Whole, Session!Before
<1> QED BY <1>2, <1>3, <1>4

(* The next file of a chain is what comes after those that are there. *)
LEMMA WriteFits ==
  ASSUME Session!FilesFit, NEW p \in Procs, NEW chain \in Session!Chains, NEW n \in Session!Steps,
         NEW value, value = Session!Value(p, chain, n), Session!Put(chain, n, value),
         n \in Session!Present(chain) => v1[chain][n] = value,
         chain = "graph" => v4[p].graph = Session!Graph(Bound),
         \A k \in Session!Steps : k < n => k \in Session!Present(chain),
         chain = "assurance" => Session!Whole("graph")
  PROVE  /\ Session!FilesFit' /\ Grown(v1, v1')
         /\ \A c \in Session!Chains : c # chain => Session!Present(c)' = Session!Present(c)
         /\ Session!Present(chain)' = Session!Present(chain) \cup {n}
         /\ v1'[chain][n] = value
<1>1. /\ v1' = [c \in Session!Chains \cup {"stop"} |-> v1'[c]]
      /\ \A c \in Session!Chains \cup {"stop"} :
             c # chain => v1'[c] = v1[c] /\ Session!Present(c)' = Session!Present(c)
      /\ Session!Present(chain)' = Session!Present(chain) \cup {n}
      /\ v1'[chain] = [k \in Session!Present(chain)' |-> v1'[chain][k]]
      /\ v1'[chain][n] = value
      /\ \A k \in Session!Present(chain) : v1'[chain][k] = v1[chain][k]
      /\ Grown(v1, v1')
  <2>1. chain \in Session!Chains \cup {"stop"}
    OBVIOUS
  <2>2. /\ v1' = [c \in Session!Chains \cup {"stop"} |-> v1'[c]]
        /\ \A c \in Session!Chains \cup {"stop"} :
               c # chain => v1'[c] = v1[c] /\ Session!Present(c)' = Session!Present(c)
        /\ Session!Present(chain)' = Session!Present(chain) \cup {n}
    BY <2>1, PutFits
  <2>3. /\ v1'[chain] = [k \in Session!Present(chain)' |-> v1'[chain][k]]
        /\ v1'[chain][n] = value
        /\ \A k \in Session!Present(chain) : v1'[chain][k] = v1[chain][k]
    BY <2>1, PutFits
  <2>4. Grown(v1, v1')
    BY <2>1, PutFits
  <2> QED BY <2>2, <2>3, <2>4
<1>2. \A c \in Session!Chains : /\ Session!Present(c) \subseteq Session!Present(c)'
                                /\ \A k \in Session!Present(c) : v1'[c][k] = v1[c][k]
  BY <1>1
<1>3. \A c \in Session!Chains :
          /\ v1'[c] = [k \in Session!Present(c)' |-> v1'[c][k]]
          /\ Session!Present(c)' \subseteq Session!Steps
          /\ \A m \in Session!Present(c)', k \in Session!Steps : k < m => k \in Session!Present(c)'
  <2> SUFFICES ASSUME NEW c \in Session!Chains
               PROVE  /\ v1'[c] = [k \in Session!Present(c)' |-> v1'[c][k]]
                      /\ Session!Present(c)' \subseteq Session!Steps
                      /\ \A m \in Session!Present(c)', k \in Session!Steps :
                             k < m => k \in Session!Present(c)'
    OBVIOUS
  <2>0. /\ v1[c] = [k \in Session!Present(c) |-> v1[c][k]]
        /\ Session!Present(c) \subseteq Session!Steps
        /\ \A m \in Session!Present(c), k \in Session!Steps : k < m => k \in Session!Present(c)
    BY DEF Session!FilesFit
  <2>1. CASE c = chain
    BY <2>0, <2>1, <1>1
  <2>2. CASE c # chain
    <3>1. v1'[c] = v1[c] /\ Session!Present(c)' = Session!Present(c)
      BY <2>2, <1>1
    <3> QED BY <2>0, <3>1
  <2> QED BY <2>1, <2>2
(* What is before a file is as it was. *)
<1>4. \A c \in Session!Chains, m \in Session!Steps :
          (\A k \in Session!Steps : k < m => k \in Session!Present(c))
          => Session!Before(c, m)' = Session!Before(c, m)
  <2> SUFFICES ASSUME NEW c \in Session!Chains, NEW m \in Session!Steps,
                      \A k \in Session!Steps : k < m => k \in Session!Present(c)
               PROVE  Session!Before(c, m)' = Session!Before(c, m)
    OBVIOUS
  <2>1. \A k \in 1 .. m - 1 : v1'[c][k] = v1[c][k]
    BY <1>2 DEF Session!Steps
  <2> QED BY <2>1 DEF Session!Before
<1>5. Session!Whole("graph") => Session!Whole("graph")'
  BY <1>2, <1>3 DEF Session!Whole, Session!Chains
<1>6. \A m \in Session!Present("graph")' :
          v1'["graph"][m] = IF m = 1 THEN Session!Graph(Bound) ELSE Session!Before("graph", m)'
  <2> SUFFICES ASSUME NEW m \in Session!Present("graph")'
               PROVE  v1'["graph"][m] = IF m = 1 THEN Session!Graph(Bound)
                                        ELSE Session!Before("graph", m)'
    OBVIOUS
  <2>0. "graph" \in Session!Chains
    BY DEF Session!Chains
  <2>1. CASE m \in Session!Present("graph")
    <3>1. v1["graph"][m] = IF m = 1 THEN Session!Graph(Bound) ELSE Session!Before("graph", m)
      BY <2>1 DEF Session!FilesFit
    <3>2. m \in Session!Steps /\ \A k \in Session!Steps : k < m => k \in Session!Present("graph")
      BY <2>0, <2>1 DEF Session!FilesFit
    <3>3. Session!Before("graph", m)' = Session!Before("graph", m)
      BY <2>0, <3>2, <1>4
    <3> QED BY <2>0, <2>1, <3>1, <3>3, <1>2
  <2>2. CASE m \notin Session!Present("graph")
    <3>1. chain = "graph" /\ m = n
      BY <2>0, <2>2, <1>1
    <3>2. Session!Before("graph", m)' = Session!Before("graph", m)
      BY <2>0, <3>1, <1>4
    <3>3. value = IF n = 1 THEN Session!Graph(Bound) ELSE Session!Before("graph", n)
      BY <3>1 DEF Session!Value, Session!Steps
    <3> QED BY <3>1, <3>2, <3>3, <1>1
  <2> QED BY <2>1, <2>2
<1>7. Session!Present("assurance")' # {} => Session!Whole("graph")
  <2>1. chain # "assurance" => Session!Present("assurance")' = Session!Present("assurance")
    BY <1>1 DEF Session!Chains
  <2> QED BY <2>1 DEF Session!FilesFit
<1>8. \A m \in Session!Present("assurance")' :
          m > 1 => v1'["assurance"][m]
                   = <<Session!Before("graph", 4)', Session!Before("assurance", m)'>>
  <2> SUFFICES ASSUME NEW m \in Session!Present("assurance")', m > 1
               PROVE  v1'["assurance"][m]
                      = <<Session!Before("graph", 4)', Session!Before("assurance", m)'>>
    OBVIOUS
  <2>0. /\ "graph" \in Session!Chains /\ "assurance" \in Session!Chains /\ 4 \in Session!Steps
        /\ \A k \in Session!Steps : k \in Session!Present("graph")
    BY <1>7 DEF Session!Chains, Session!Steps, Session!Whole
  <2>1. Session!Before("graph", 4)' = Session!Before("graph", 4)
    BY <2>0, <1>4
  <2>2. CASE m \in Session!Present("assurance")
    <3>1. v1["assurance"][m] = <<Session!Before("graph", 4), Session!Before("assurance", m)>>
      BY <2>2 DEF Session!FilesFit
    <3>2. /\ m \in Session!Steps
          /\ \A k \in Session!Steps : k < m => k \in Session!Present("assurance")
      BY <2>0, <2>2 DEF Session!FilesFit
    <3>3. Session!Before("assurance", m)' = Session!Before("assurance", m)
      BY <2>0, <3>2, <1>4
    <3> QED BY <2>0, <2>1, <2>2, <3>1, <3>3, <1>2
  <2>3. CASE m \notin Session!Present("assurance")
    <3>1. chain = "assurance" /\ m = n
      BY <2>0, <2>3, <1>1
    <3>2. Session!Before("assurance", m)' = Session!Before("assurance", m)
      BY <2>0, <3>1, <1>4
    <3>3. value = <<Session!Before("graph", 4), Session!Before("assurance", n)>>
      BY <3>1 DEF Session!Value, Session!Steps
    <3> QED BY <3>1, <2>1, <3>2, <3>3, <1>1
  <2> QED BY <2>2, <2>3
<1>9. Session!FilesFit'
  BY <1>1, <1>3, <1>5, <1>6, <1>7, <1>8 DEF Session!FilesFit
<1> QED BY <1>1, <1>9

(* A file is written after those before it, or was, by another call. *)
LEMMA WriteStep ==
  ASSUME Session!Inv, NEW p \in Procs, Session!Write(p) PROVE Session!Inv'
<1>0. UNCHANGED <<v2, v3, v5, v6, v7, v8, v9>> /\ v4[p].pc = "write"
  BY DEF Session!Write, Session!Doing
<1> PICK chain, n, policy : chain = v4[p].chain /\ n = v4[p].at /\ policy = v4[p].policy
  OBVIOUS
<1> PICK value : value = Session!Value(p, chain, n)
  OBVIOUS
<1>1. /\ v4[p] \in [pc: {"write", "verify"}, chain: Session!Chains, at: Session!Steps,
                    graph: {Session!Graph(Bound)}, policy: Policies]
      /\ \A k \in Session!Steps : k < n => k \in Session!Present(chain)
      /\ chain = "assurance" => Session!Whole("graph")
      /\ chain = "assurance" /\ n > 1 => Session!Reports(policy)
  BY <1>0 DEF Session!Inv, Session!CallsFit, Session!Fit, Session!Idle, Session!Doing
<1>2. /\ chain \in Session!Chains /\ n \in Session!Steps /\ policy \in Policies
      /\ v4[p].graph = Session!Graph(Bound)
  BY <1>1
<1>3. chain \notin v9
  BY <1>0 DEF Session!Inv, Session!CutFits, Session!Doing
<1>4. CASE n \in Session!Present(chain) /\ v1[chain][n] # value
  BY <1>0, <1>4, GivesUp DEF Session!Write
<1>5. CASE n \in Session!Present(chain) => v1[chain][n] = value
  <2>1. Session!Put(chain, n, value) /\ Session!Written(p)
    BY <1>5 DEF Session!Write
  <2>2. /\ Session!FilesFit' /\ Grown(v1, v1')
        /\ \A c \in Session!Chains : c # chain => Session!Present(c)' = Session!Present(c)
        /\ Session!Present(chain)' = Session!Present(chain) \cup {n}
        /\ v1'[chain][n] = value
    BY <1>1, <1>2, <1>5, <2>1, WriteFits DEF Session!Inv
  <2>4. \A c \in v9 : Session!Present(c)' = Session!Present(c)
    BY <1>3, <2>2 DEF Session!Inv, Session!CutFits
  <2>5. chain = "assurance" => Session!Whole("graph")'
    BY <1>1, <2>2 DEF Grown, Session!Whole, Session!FilesFit, Session!Chains
  <2>6. chain = "assurance" => Session!Reports(policy)'
    <3> SUFFICES ASSUME chain = "assurance" PROVE Session!Reports(policy)'
      OBVIOUS
    <3>1. CASE n = 1
      <4>1. 1 \in Session!Present("graph") /\ v1["graph"][1] = Session!Graph(Bound)
        BY <1>1 DEF Session!Whole, Session!Steps, Session!Inv, Session!FilesFit
      <4>2. value = Session!Report(Bound, Session!Graph(Bound), policy)
        BY <3>1, <4>1 DEF Session!Value
      <4> QED BY <2>2, <3>1, <4>2 DEF Session!Reports
    <3>2. CASE n # 1
      <4>1. Session!Reports(policy)
        BY <1>1, <1>2, <3>2 DEF Session!Steps
      <4> QED BY <4>1, <2>2 DEF Session!Reports, Grown, Session!Present, Session!Chains
    <3> QED BY <3>1, <3>2
  <2>7. CASE n < 4
    <3> DEFINE s == Session!Writing(chain, n + 1, Session!Graph(Bound), policy)
    <3>1. v4' = [v4 EXCEPT ![p] = s]
      BY <1>2, <2>1, <2>7 DEF Session!Written, Session!Become
    <3>2. v4'[p] = s
      BY <3>1 DEF Session!Inv, Session!CallsFit
    <3>3. s \in [pc: {"write", "verify"}, chain: Session!Chains, at: Session!Steps,
                 graph: {Session!Graph(Bound)}, policy: Policies]
      BY <1>2, <2>7 DEF Session!Writing, Session!Steps
    <3>4. s.pc = "write" /\ s.chain = chain /\ s.at = n + 1 /\ s.policy = policy
      BY DEF Session!Writing
    <3>5. \A k \in Session!Steps : k < n + 1 => k \in Session!Present(chain)'
      BY <1>1, <1>2, <2>2 DEF Session!Steps
    <3>6. Session!Fit(p)'
      BY <2>5, <2>6, <3>2, <3>3, <3>4, <3>5 DEF Session!Fit, Session!Doing
    <3>7. Careful(s)
      BY <1>3, <3>4 DEF Careful
    <3> HIDE DEF s
    <3> QED BY <1>0, <2>2, <2>4, <3>1, <3>6, <3>7, Moves
  <2>8. CASE ~ n < 4
    <3> DEFINE s == [v4[p] EXCEPT !.pc = "verify"]
    <3> PICK state : state = s
      OBVIOUS
    <3>1. v4' = [v4 EXCEPT ![p] = state]
      BY <2>1, <2>8 DEF Session!Written, Session!Become
    <3>2. v4'[p] = state
      BY <3>1 DEF Session!Inv, Session!CallsFit
    <3>3. /\ state \in [pc: {"write", "verify"}, chain: Session!Chains, at: Session!Steps,
                        graph: {Session!Graph(Bound)}, policy: Policies]
          /\ state.pc = "verify" /\ state.chain = chain /\ state.at = n /\ state.policy = policy
      BY <1>1
    <3>4. n = 4 /\ \A k \in Session!Steps : k < 4 \/ k = 4
      BY <1>2, <2>8 DEF Session!Steps
    <3>5. \A k \in Session!Steps : k \in Session!Present(chain)'
      BY <1>1, <2>2, <3>4
    <3>6. Session!Whole(chain)'
      BY <1>2, <2>2, <3>5 DEF Session!Whole, Session!FilesFit
    <3>7. Session!Fit(p)'
      BY <2>5, <2>6, <3>2, <3>3, <3>4, <3>5, <3>6 DEF Session!Fit, Session!Doing
    <3>8. Careful(state)
      BY <3>3 DEF Careful
    <3> QED BY <1>0, <2>2, <2>4, <3>1, <3>7, <3>8, Moves
  <2> QED BY <2>7, <2>8
<1> QED BY <1>4, <1>5

(* A graph that is not assured stops the run. *)
LEMMA DecideStep ==
  ASSUME Session!Inv, NEW p \in Procs, Session!Decide(p) PROVE Session!Inv'
<1>0. UNCHANGED <<v2, v3, v5, v6, v7, v8, v9>>
  BY DEF Session!Decide
<1> PICK policy : policy = v4[p].policy
  OBVIOUS
<1>1. /\ v4[p] \in [pc: {"decide", "wiki"}, policy: Policies]
      /\ \A chain \in Session!Chains : Session!Whole(chain)
      /\ Session!Reports(policy)
  <2>1. v4[p].pc = "decide"
    BY DEF Session!Decide, Session!Doing
  <2> QED BY <2>1 DEF Session!Inv, Session!CallsFit, Session!Fit, Session!Idle, Session!Doing
<1>2. CASE policy \in Assured
  <2> PICK s : s = [v4[p] EXCEPT !.pc = "wiki"]
    OBVIOUS
  <2>1. v4' = [v4 EXCEPT ![p] = s] /\ v1' = v1
    BY <1>2 DEF Session!Decide, Session!Become
  <2>2. v4'[p] = s
    BY <2>1 DEF Session!Inv, Session!CallsFit
  <2>3. (\A chain \in Session!Chains : Session!Whole(chain)') /\ Session!Reports(policy)'
    BY <1>1, <2>1 DEF Session!Whole, Session!Present, Session!Reports
  <2>4. s \in [pc: {"decide", "wiki"}, policy: Policies] /\ s.pc = "wiki" /\ s.policy = policy
    BY <1>1
  <2>5. Session!Fit(p)'
    BY <1>2, <2>2, <2>3, <2>4 DEF Session!Fit, Session!Doing
  <2>6. Careful(s)
    BY <2>4 DEF Careful
  <2> QED BY <1>0, <2>1, <2>5, <2>6, CallGoesOn
<1>3. CASE policy \notin Assured /\ Session!Present("stop") # {}
  BY <1>0, <1>3, GivesUp DEF Session!Decide
<1>4. CASE policy \notin Assured /\ Session!Present("stop") = {}
  <2>1. Session!Put("stop", 1, v1["assurance"][1]) /\ v4' = [v4 EXCEPT ![p] = Session!Idle]
    BY <1>4 DEF Session!Decide, Session!Fail, Session!Become
  <2>2. /\ Session!FilesFit' /\ Grown(v1, v1')
        /\ \A c \in Session!Chains : Session!Present(c)' = Session!Present(c)
    BY <1>4, <2>1, StopFits DEF Session!Inv
  <2>3. \A c \in v9 : Session!Present(c)' = Session!Present(c)
    BY <2>2 DEF Session!Inv, Session!CutFits
  <2>4. v4'[p] = Session!Idle
    BY <2>1 DEF Session!Inv, Session!CallsFit
  <2>5. Session!Fit(p)'
    BY <2>4 DEF Session!Fit
  <2>6. Careful(Session!Idle)
    BY DEF Careful, Session!Idle
  <2> QED BY <1>0, <2>1, <2>2, <2>3, <2>5, <2>6, Moves
<1> QED BY <1>2, <1>3, <1>4

(* A chain that is open while nobody works was left open. *)
LEMMA BeginStep ==
  ASSUME Session!GraphSessionAssumption, Session!Inv, NEW p \in Procs, Session!Begin(p)
  PROVE  Session!Inv'
<1>0. UNCHANGED <<v1, v2, v3, v6, v7, v8>> /\ v4[p] = Session!Idle
  <2>1. v4[p].pc = "idle"
    BY DEF Session!Begin, Session!Doing
  <2>2. v4[p] = Session!Idle
    BY <2>1 DEF Session!Inv, Session!CallsFit, Session!Fit, Session!Doing
  <2> QED BY <2>2 DEF Session!Begin
<1>1. PICK policy \in Policies : Session!Become(p, Session!Looking("graph", 1, {}, policy))
  BY DEF Session!Begin
<1> DEFINE s == Session!Looking("graph", 1, {}, policy)
<1>2. v4' = [v4 EXCEPT ![p] = s]
  BY <1>1 DEF Session!Become
<1>3. /\ s.pc = "look" /\ s.chain = "graph" /\ s.at = 1 /\ s.found = {}
      /\ s \in [pc: {"look"}, chain: Session!Chains, at: Session!Steps,
                found: SUBSET Session!Steps, policy: Policies]
  BY DEF Session!Looking, Session!Chains, Session!Steps
<1>4. v4'[p] = s
  BY <1>2 DEF Session!Inv, Session!CallsFit
<1>5. Session!Fit(p)'
  BY <1>3, <1>4 DEF Session!Fit
<1>6. Grown(v1, v1') /\ v3' = v3 /\ v7' = v7
  BY <1>0 DEF Grown
<1>7. Session!FilesFit'
  BY <1>0 DEF Session!Inv, Session!FilesFit, Session!Present, Session!Whole, Session!Before,
     Session!Chains, Session!Steps
<1>8. Session!CallsFit' /\ \A q \in Procs \ {p} : v4'[q] = v4[q]
  BY <1>2, <1>5, <1>6, <1>7, CallsMove DEF Session!Inv
<1>9. Session!ExposedFits'
  BY <1>6, ExposedStays DEF Session!Inv
<1>10. Session!CutFits'
  <2>1. \A k \in Session!Present("graph") : k \in Nat /\ ~ k < 1
    BY DEF Session!Inv, Session!FilesFit, Session!Chains, Session!Steps
  <2>2. CASE Session!AllIdle
    <3>1. \A q \in Procs \ {p} : v4'[q].pc = "idle"
      BY <2>2, <1>8 DEF Session!AllIdle, Session!Doing
    <3>2. v9' = v9 \cup {chain \in Session!Chains : Session!Cut(chain)}
      BY <2>2 DEF Session!Begin
    <3>3. v9' \subseteq Session!Chains /\ \A chain \in v9' : Session!Cut(chain)
      BY <3>2 DEF Session!Inv, Session!CutFits
    <3>4. \A chain \in v9' : Session!Cut(chain)'
      BY <1>0, <3>3 DEF Session!Cut, Session!Present, Session!Whole
    <3>5. Session!Present("graph")' = Session!Present("graph")
      BY <1>0 DEF Session!Present
    <3> QED BY <1>3, <1>4, <2>1, <3>1, <3>3, <3>4, <3>5 DEF Session!CutFits, Session!Doing
  <2>3. CASE ~ Session!AllIdle
    <3>1. v9' = v9
      BY <2>3 DEF Session!Begin
    <3>2. \A chain : Session!Present(chain)' = Session!Present(chain)
                     /\ (Session!Cut(chain) => Session!Cut(chain)')
      BY <1>0 DEF Session!Cut, Session!Present, Session!Whole
    <3> QED BY <1>3, <1>4, <1>8, <2>1, <3>1, <3>2
            DEF Session!Inv, Session!CutFits, Session!Doing
  <2> QED BY <2>2, <2>3
<1>11. Session!TypeOK'
  <2>1. \A q \in Procs : Session!Doing(q)' \in
           {"idle", "look", "build", "load", "write", "verify", "decide", "wiki", "expose"}
    BY <1>8 DEF Session!CallsFit, Session!Fit, Session!Doing, Session!Idle
  <2>2. v5' \in 0 .. MaxCalls
    BY DEF Session!Begin, Session!Inv, Session!TypeOK, Session!GraphSessionAssumption
  <2> QED BY <1>0, <2>1, <2>2 DEF Session!Inv, Session!TypeOK, Session!Present
<1> QED BY <1>0, <1>7, <1>8, <1>9, <1>10, <1>11 DEF Session!Inv

(* What is exposed is whole, sealed and assured. *)
LEMMA ExposeStep ==
  ASSUME Session!Inv, NEW p \in Procs, Session!Expose(p) PROVE Session!Inv'
<1>0. UNCHANGED <<v1, v2, v3, v5, v6, v9>>
  BY DEF Session!Expose
<1> PICK policy, moved : policy = v4[p].policy /\ moved = v4[p].moved
  OBVIOUS
<1>1. /\ policy \in Assured /\ moved \in BOOLEAN
      /\ \A chain \in Session!Chains : Session!Whole(chain)
      /\ Session!Reports(policy)
      /\ Benchmark => v3 = Pinned \/ moved
  <2>1. v4[p].pc = "expose"
    BY DEF Session!Expose, Session!Doing
  <2> QED BY <2>1 DEF Session!Inv, Session!CallsFit, Session!Fit, Session!Idle, Session!Doing
<1>2. /\ \A n \in Session!Steps :
             n \in Session!Present("graph") /\ n \in Session!Present("assurance")
      /\ v1["graph"][1] = Session!Graph(Bound)
      /\ v1["assurance"][1] = Session!Report(Bound, v1["graph"][1], policy)
  BY <1>1 DEF Session!Whole, Session!Chains, Session!Inv, Session!FilesFit, Session!Steps,
     Session!Reports
<1>3. Session!Sealed(p, "graph")
  <2> SUFFICES ASSUME NEW n \in Session!Steps, n # 1
               PROVE  v1["graph"][n] = Session!Value(p, "graph", n)
    BY <1>2 DEF Session!Sealed
  <2>1. v1["graph"][n] = Session!Before("graph", n)
    BY <1>2 DEF Session!Inv, Session!FilesFit
  <2> QED BY <2>1 DEF Session!Value, Session!Steps
<1>4. Session!Sealed(p, "assurance")
  <2> SUFFICES ASSUME NEW n \in Session!Steps
               PROVE  v1["assurance"][n] = Session!Value(p, "assurance", n)
    BY <1>2 DEF Session!Sealed
  <2>1. CASE n = 1
    BY <1>2, <2>1 DEF Session!Value
  <2>2. CASE n # 1
    <3>1. n > 1
      BY <2>2 DEF Session!Steps
    <3>2. v1["assurance"][n] = <<Session!Before("graph", 4), Session!Before("assurance", n)>>
      BY <1>2, <3>1 DEF Session!Inv, Session!FilesFit
    <3> QED BY <3>1, <3>2, <2>2 DEF Session!Value
  <2> QED BY <2>1, <2>2
<1>5. v8' = FALSE
  BY <1>1, <1>3, <1>4 DEF Session!Expose, Session!Inv, Session!Chains
<1>6. v4' = [v4 EXCEPT ![p] = Session!Idle]
  BY DEF Session!Expose, Session!Fail, Session!Become
<1>7. v4'[p] = Session!Idle
  BY <1>6 DEF Session!Inv, Session!CallsFit
<1>8. Session!Fit(p)'
  BY <1>7 DEF Session!Fit
<1>9. Session!FilesFit' /\ Grown(v1, v1') /\ v3' = v3
  BY <1>0 DEF Grown, Session!Inv, Session!FilesFit, Session!Present, Session!Whole,
     Session!Before, Session!Chains, Session!Steps
<1>10. Session!CallsFit' /\ \A q \in Procs \ {p} : v4'[q] = v4[q]
  BY <1>6, <1>8, <1>9, CallsMove DEF Session!Inv
<1>11. Session!ExposedFits'
  <2> DEFINE new == [graph |-> v1["graph"][1], report |-> v1["assurance"][1], wiki |-> v3,
                     moved |-> moved]
  <2>1. v7' = v7 \cup {new}
    BY DEF Session!Expose
  <2>2. /\ new \in [graph: {Session!Graph(Bound)}, report: {v1["assurance"][1]}, wiki: Wikis,
                    moved: BOOLEAN]
        /\ new.wiki = v3 /\ new.moved = moved
    BY <1>1, <1>2 DEF Session!Inv, Session!TypeOK
  <2>3. \E x \in Assured : Session!Reports(x)'
    BY <1>0, <1>1 DEF Session!Reports, Session!Present
  <2> HIDE DEF new
  <2>4. \A c \in v7' : /\ c \in [graph: {Session!Graph(Bound)}, report: {v1'["assurance"][1]},
                                 wiki: Wikis, moved: BOOLEAN]
                       /\ Benchmark => c.wiki = Pinned \/ c.moved
    BY <1>0, <1>1, <2>1, <2>2 DEF Session!Inv, Session!ExposedFits
  <2> QED BY <2>3, <2>4 DEF Session!ExposedFits
<1>12. Session!CutFits'
  BY <1>0, <1>7, <1>10 DEF Session!Inv, Session!CutFits, Session!Cut, Session!Present,
     Session!Whole, Session!Doing, Session!Idle
<1>13. Session!TypeOK'
  <2>1. \A q \in Procs : Session!Doing(q)' \in
           {"idle", "look", "build", "load", "write", "verify", "decide", "wiki", "expose"}
    BY <1>10 DEF Session!CallsFit, Session!Fit, Session!Doing, Session!Idle
  <2>2. \A c \in v7' : c.wiki \in Wikis /\ c.moved \in BOOLEAN
    BY <1>11 DEF Session!ExposedFits
  <2> QED BY <1>0, <2>1, <2>2 DEF Session!Inv, Session!TypeOK, Session!Present
<1> QED BY <1>5, <1>9, <1>10, <1>11, <1>12, <1>13 DEF Session!Inv

(* Editing the source touches no file of the run. *)
LEMMA EditSourceStep == ASSUME Session!GraphSessionAssumption, Session!Inv, Session!EditSource
                        PROVE  Session!Inv'
<1> USE DEF Session!EditSource, Session!Chains, Session!Present, Session!Steps, Session!Whole,
        Session!Cut, Session!Doing, Session!Before, Session!Reports
<1>1. Session!TypeOK'
  BY DEF Session!Inv, Session!TypeOK, Session!GraphSessionAssumption
<1>2. Session!FilesFit'
  BY DEF Session!Inv, Session!FilesFit
<1>3. Session!CallsFit'
  BY DEF Session!Inv, Session!CallsFit, Session!Fit
<1>4. Session!ExposedFits'
  BY DEF Session!Inv, Session!ExposedFits
<1>5. Session!CutFits'
  BY DEF Session!Inv, Session!CutFits
<1> QED BY <1>1, <1>2, <1>3, <1>4, <1>5 DEF Session!Inv

(* Editing the Wiki is noted by the calls that are about to read it. *)
LEMMA EditWikiStep == ASSUME Session!GraphSessionAssumption, Session!Inv, Session!EditWiki
                      PROVE  Session!Inv'
<1>0. UNCHANGED <<v1, v2, v5, v7, v8, v9>>
  BY DEF Session!EditWiki
<1>1. /\ v4' = [p \in Procs |-> v4'[p]]
      /\ \A p \in Procs : v4'[p] = IF v4[p].pc = "expose" THEN [v4[p] EXCEPT !.moved = TRUE]
                                   ELSE v4[p]
  BY DEF Session!EditWiki, Session!Doing
<1>2. \A p \in Procs : v4[p].pc = "expose" =>
          /\ v4'[p] \in [pc: {"expose"}, policy: Policies, moved: BOOLEAN]
          /\ v4'[p].moved = TRUE /\ v4'[p].policy = v4[p].policy /\ v4'[p].pc = "expose"
  <2> SUFFICES ASSUME NEW p \in Procs, v4[p].pc = "expose"
               PROVE  /\ v4'[p] \in [pc: {"expose"}, policy: Policies, moved: BOOLEAN]
                      /\ v4'[p].moved = TRUE /\ v4'[p].policy = v4[p].policy
                      /\ v4'[p].pc = "expose"
    OBVIOUS
  <2>1. v4[p] \in [pc: {"expose"}, policy: Policies, moved: BOOLEAN]
    BY DEF Session!Inv, Session!CallsFit, Session!Fit, Session!Idle, Session!Doing
  <2>2. v4'[p] = [v4[p] EXCEPT !.moved = TRUE]
    BY <1>1
  <2> QED BY <2>1, <2>2
<1>3. Session!FilesFit' /\ Grown(v1, v1')
  BY <1>0 DEF Grown, Session!Inv, Session!FilesFit, Session!Present, Session!Whole,
     Session!Before, Session!Chains, Session!Steps
<1>4. \A p \in Procs : Session!Fit(p)'
  <2> SUFFICES ASSUME NEW p \in Procs PROVE Session!Fit(p)'
    OBVIOUS
  <2>1. (\A chain : Session!Whole(chain)' = Session!Whole(chain))
        /\ (\A policy : Session!Reports(policy)' = Session!Reports(policy))
        /\ (\A chain : Session!Present(chain)' = Session!Present(chain))
    BY <1>0 DEF Session!Whole, Session!Present, Session!Reports
  <2>2. CASE v4[p].pc = "expose"
    <3> PICK policy : policy = v4[p].policy
      OBVIOUS
    <3>1. /\ \A chain \in Session!Chains : Session!Whole(chain)
          /\ Session!Reports(policy) /\ policy \in Assured
      BY <2>2 DEF Session!Inv, Session!CallsFit, Session!Fit, Session!Idle, Session!Doing
    <3>2. (\A chain \in Session!Chains : Session!Whole(chain)') /\ Session!Reports(policy)'
      BY <2>1, <3>1
    <3>3. /\ v4'[p] \in [pc: {"expose"}, policy: Policies, moved: BOOLEAN]
          /\ v4'[p].moved = TRUE /\ v4'[p].policy = policy /\ v4'[p].pc = "expose"
      BY <1>2, <2>2
    <3> QED BY <3>1, <3>2, <3>3 DEF Session!Fit, Session!Doing
  <2>3. CASE v4[p].pc # "expose"
    <3>1. v4'[p] = v4[p]
      BY <1>1, <2>3
    <3> QED BY <2>1, <2>3, <3>1 DEF Session!Inv, Session!CallsFit, Session!Fit, Session!Doing
  <2> QED BY <2>2, <2>3
<1>5. Session!CallsFit'
  BY <1>1, <1>4 DEF Session!CallsFit
<1>6. Session!ExposedFits'
  BY <1>0, <1>3, ExposedStays DEF Session!Inv
<1>7. \A p \in Procs : v4'[p].pc = "expose" \/ v4'[p] = v4[p]
  BY <1>1, <1>2
<1>8. Session!CutFits'
  BY <1>0, <1>7 DEF Session!Inv, Session!CutFits, Session!Cut, Session!Present, Session!Whole,
     Session!Doing
<1>9. Session!TypeOK'
  <2>1. \A p \in Procs : Session!Doing(p)' \in
           {"idle", "look", "build", "load", "write", "verify", "decide", "wiki", "expose"}
    BY <1>7 DEF Session!Inv, Session!TypeOK, Session!Doing
  <2>2. v3' \in Wikis /\ v6' \in 0 .. MaxEdits
    BY DEF Session!EditWiki, Session!Inv, Session!TypeOK, Session!GraphSessionAssumption
  <2> QED BY <1>0, <2>1, <2>2 DEF Session!Inv, Session!TypeOK, Session!Present
<1> QED BY <1>0, <1>3, <1>5, <1>6, <1>8, <1>9 DEF Session!Inv

(* Every action keeps the invariant. *)
LEMMA SessionStep ==
  ASSUME Session!GraphSessionAssumption, Session!Inv, Session!Next PROVE Session!Inv'
<1>1. ASSUME NEW p \in Procs,
             \/ Session!Begin(p) \/ Session!Look(p) \/ Session!Build(p) \/ Session!Load(p)
             \/ Session!Write(p) \/ Session!Verify(p) \/ Session!Decide(p)
             \/ Session!CheckWiki(p) \/ Session!Expose(p) \/ Session!Crash(p)
      PROVE  Session!Inv'
  BY <1>1, BeginStep, LookStep, BuildStep, LoadStep, WriteStep, VerifyStep, DecideStep,
     CheckWikiStep, ExposeStep, CrashStep
<1> QED BY <1>1, EditSourceStep, EditWikiStep DEF Session!Next

(* The properties follow from the invariant. *)
LEMMA SessionHolds ==
  ASSUME Session!Inv
  PROVE  /\ Session!TypeOK /\ Session!SealedWhenExposed /\ Session!OneEvidence
         /\ Session!PinnedUnlessMoved /\ Session!CutIsForGood
<1>1. Session!OneEvidence
  <2> SUFFICES ASSUME NEW c \in v7
               PROVE  /\ c.graph = Session!Graph(Bound) /\ c.report[3] \in Assured
                      /\ c.report = v1["assurance"][1]
    BY DEF Session!OneEvidence
  <2>1. PICK policy \in Assured : Session!Reports(policy)
    BY DEF Session!Inv, Session!ExposedFits
  <2>2. c.graph = Session!Graph(Bound) /\ c.report = v1["assurance"][1]
    BY DEF Session!Inv, Session!ExposedFits
  <2> QED BY <2>1, <2>2 DEF Session!Reports, Session!Report
<1>2. Session!PinnedUnlessMoved
  BY DEF Session!Inv, Session!ExposedFits, Session!PinnedUnlessMoved
<1>3. Session!CutIsForGood
  BY DEF Session!Inv, Session!CutFits, Session!CutIsForGood
<1> QED BY <1>1, <1>2, <1>3 DEF Session!Inv, Session!SealedWhenExposed

-----------------------------------------------------------------------------
(* The live phases.                                                         *)

(* A moment is an attempt and a phase, and they are ordered. *)
Moments == [attempt: 0 .. Attempts, phase: DOMAIN Progress!Rank]

(* A phase has a place in the order. *)
LEMMA Ranks ==
  /\ DOMAIN Progress!Rank = {"pending", "engineer", "validator", "complete"}
  /\ Progress!Rank["pending"] = 1 /\ Progress!Rank["engineer"] = 2
  /\ Progress!Rank["validator"] = 3 /\ Progress!Rank["complete"] = 4
  /\ \A phase \in DOMAIN Progress!Rank : Progress!Rank[phase] \in 1 .. 4
  BY DEF Progress!Rank

(* The order of the moments is transitive. *)
LEMMA Ordered ==
  ASSUME Progress!LiveProgressAssumption, NEW a, NEW b, NEW c,
         a.attempt \in 0 .. Attempts, a.phase \in DOMAIN Progress!Rank,
         b.attempt \in 0 .. Attempts, b.phase \in DOMAIN Progress!Rank,
         c.attempt \in 0 .. Attempts, c.phase \in DOMAIN Progress!Rank,
         Progress!Before(a, b), Progress!Before(b, c)
  PROVE  Progress!Before(a, c)
<1>1. /\ Progress!Rank[a.phase] \in 1 .. 4 /\ Progress!Rank[b.phase] \in 1 .. 4
      /\ Progress!Rank[c.phase] \in 1 .. 4
  BY Ranks
<1> QED BY <1>1 DEF Progress!Before, Progress!LiveProgressAssumption

(* A file is there when its first copy is. *)
LEMMA PresentIsOut ==
  ASSUME Progress!FilesFit, NEW kind \in Progress!Kinds, NEW n \in 1 .. Attempts
  PROVE  Progress!Present(<<kind, n>>) <=> Progress!Out(kind, n)
  BY DEF Progress!FilesFit, Progress!Files, Progress!Present, Progress!Roots, Progress!Out

(* What the phase of an attempt is. *)
LEMMA PhaseIs ==
  ASSUME Progress!FilesFit, NEW n \in 1 .. Attempts
  PROVE  /\ Progress!PhaseOf(n) = IF Progress!Out("report", n) THEN "complete"
                                  ELSE IF Progress!Out("engineer", n) THEN "validator"
                                  ELSE "engineer"
         /\ n \in Progress!Latest <=> Progress!Out("lease", n)
  BY PresentIsOut DEF Progress!PhaseOf, Progress!Latest, Progress!Kinds

(* The phase now is of the latest attempt. *)
LEMMA NowIs ==
  ASSUME Progress!LiveProgressAssumption, Progress!FilesFit
  PROVE  /\ Progress!PhaseNow \in Moments
         /\ \/ Progress!Latest = {} /\ Progress!PhaseNow = Progress!Phase(0, "pending")
            \/ \E n \in Progress!Latest :
                 /\ n \in 1 .. Attempts /\ \A k \in Progress!Latest : k <= n
                 /\ Progress!PhaseNow = Progress!Phase(n, Progress!PhaseOf(n))
<1>1. CASE Progress!Latest = {}
  BY <1>1, Ranks DEF Progress!PhaseNow, Progress!Phase, Moments, Progress!LiveProgressAssumption
<1>2. CASE Progress!Latest # {}
  <2>1. \E n \in Progress!Latest : \A k \in Progress!Latest : k <= n
    BY <1>2 DEF Progress!FilesFit
  <2>2. /\ Progress!Attempt \in Progress!Latest
        /\ \A k \in Progress!Latest : k <= Progress!Attempt
    BY <2>1 DEF Progress!Attempt
  <2>3. Progress!Attempt \in 1 .. Attempts
    BY <2>2 DEF Progress!Latest
  <2>4. Progress!PhaseNow = Progress!Phase(Progress!Attempt, Progress!PhaseOf(Progress!Attempt))
    BY <1>2 DEF Progress!PhaseNow
  <2>5. Progress!PhaseOf(Progress!Attempt) \in DOMAIN Progress!Rank
    BY Ranks DEF Progress!PhaseOf
  <2>6. Progress!PhaseNow \in Moments
    BY <2>3, <2>4, <2>5 DEF Progress!Phase, Moments, Progress!LiveProgressAssumption
  <2> QED BY <2>2, <2>3, <2>4, <2>6
<1> QED BY <1>1, <1>2

(* The latest attempt is the one after which none began. *)
LEMMA LatestIs ==
  ASSUME Progress!LiveProgressAssumption, Progress!FilesFit, NEW n \in 1 .. Attempts,
         Progress!Out("lease", n), \A k \in 1 .. Attempts : k > n => ~ Progress!Out("lease", k)
  PROVE  Progress!PhaseNow = Progress!Phase(n, Progress!PhaseOf(n))
<1>1. n \in Progress!Latest /\ \A k \in Progress!Latest : k \in 1 .. Attempts /\ k <= n
  BY PhaseIs DEF Progress!Latest, Progress!LiveProgressAssumption
<1>2. PICK m \in Progress!Latest :
        /\ m \in 1 .. Attempts /\ \A k \in Progress!Latest : k <= m
        /\ Progress!PhaseNow = Progress!Phase(m, Progress!PhaseOf(m))
  BY <1>1, NowIs
<1>3. m = n
  BY <1>1, <1>2 DEF Progress!LiveProgressAssumption
<1> QED BY <1>2, <1>3

(* While an attempt's lease is missing, no later attempt began. *)
LEMMA NoneLater ==
  ASSUME Progress!LiveProgressAssumption, Progress!FilesFit, NEW n \in 1 .. Attempts,
         ~ Progress!Out("lease", n)
  PROVE  \A k \in 1 .. Attempts : k >= n => ~ Progress!Out("lease", k)
<1>1. \A k \in 1 .. Attempts : k > n => ~ Progress!Out("lease", k)
  BY DEF Progress!FilesFit, Progress!Files, Progress!Kinds, Progress!Out,
     Progress!LiveProgressAssumption
<1> QED BY <1>1 DEF Progress!LiveProgressAssumption

(* At first there is no file, no poll and no answer. *)
LEMMA ProgressStart == ASSUME Progress!LiveProgressAssumption, Progress!Init PROVE Progress!Inv
<1> USE DEF Progress!Init
<1>1. \A r \in Progress!Roots, f \in Progress!Files : v1[r][f] = 0
  OBVIOUS
<1>2. \A kind \in Progress!Kinds, n \in 1 .. Attempts : <<kind, n>> \in Progress!Files
  BY DEF Progress!Files
<1>3. \A kind \in Progress!Kinds, n \in 1 .. Attempts : ~ Progress!Out(kind, n)
  BY <1>1, <1>2 DEF Progress!Out, Progress!Roots
<1>4. Progress!Latest = {}
  BY <1>1, <1>2 DEF Progress!Latest, Progress!Present, Progress!Kinds
<1>5. Progress!FilesFit
  BY <1>1, <1>3, <1>4 DEF Progress!FilesFit, Progress!Kinds, Progress!Roots
<1>6. Progress!TypeOK
  <2>1. v1 \in [Progress!Roots -> [Progress!Files -> 0 .. v2]]
    OBVIOUS
  <2>2. v4.pc = "none" /\ v3 \in BOOLEAN /\ Len(v5) = 0
    BY DEF Progress!NoPoll
  <2> QED BY <2>1, <2>2 DEF Progress!TypeOK, Progress!LiveProgressAssumption
<1>7. Progress!SeenFits /\ Progress!AnswersFit /\ Progress!PollFits
  BY DEF Progress!SeenFits, Progress!AnswersFit, Progress!PollFits, Progress!NeverBack
<1> QED BY <1>5, <1>6, <1>7 DEF Progress!Inv

(* Nothing that is looked at changed. *)
LEMMA PhaseStays ==
  ASSUME v1' = v1
  PROVE  /\ Progress!FilesFit => Progress!FilesFit'
         /\ Progress!PhaseNow' = Progress!PhaseNow
         /\ \A n : Progress!PhaseOf(n)' = Progress!PhaseOf(n)
         /\ \A kind, n : Progress!Out(kind, n)' = Progress!Out(kind, n)
<1>1. \A kind, n : Progress!Out(kind, n)' = Progress!Out(kind, n)
  BY DEF Progress!Out
<1>2. \A f : Progress!Present(f)' = Progress!Present(f)
  BY DEF Progress!Present
<1>3. \A n : Progress!PhaseOf(n)' = Progress!PhaseOf(n)
  BY <1>2 DEF Progress!PhaseOf
<1>4. Progress!Latest' = Progress!Latest
  BY <1>2 DEF Progress!Latest
<1>5. Progress!Attempt' = Progress!Attempt
  BY <1>4 DEF Progress!Attempt
<1>6. Progress!PhaseNow' = Progress!PhaseNow
  BY <1>3, <1>4, <1>5 DEF Progress!PhaseNow
<1>7. Progress!FilesFit => Progress!FilesFit'
  BY <1>1, <1>4 DEF Progress!FilesFit
<1> QED BY <1>1, <1>3, <1>6, <1>7

(* An element of a sequence over a set is in the set. *)
LEMMA MemberOf ==
  ASSUME NEW S, NEW s \in Seq(S)
  PROVE  \A j \in 1 .. Len(s) : s[j] \in S
  OBVIOUS

(* A file is published, or promoted: one more publication. *)
LEMMA PutIs ==
  ASSUME Progress!TypeOK, v2 \in Nat, NEW root \in Progress!Roots, NEW f \in Progress!Files,
         Progress!Put(root, f)
  PROVE  /\ v2' = v2 + 1 /\ v2' \in Nat
         /\ v1' \in [Progress!Roots -> [Progress!Files -> 0 .. v2']]
         /\ v1[root][f] = 0 /\ v1'[root][f] = v2' /\ v1'[root][f] # 0
         /\ \A r \in Progress!Roots, g \in Progress!Files :
                r # root \/ g # f => v1'[r][g] = v1[r][g]
<1>1. v2' = v2 + 1 /\ v2' \in Nat /\ v1[root][f] = 0
  BY DEF Progress!Put
<1>2. PICK new : new = v2 + 1
  OBVIOUS
<1>3. v1' = [v1 EXCEPT ![root][f] = new]
  BY <1>1, <1>2 DEF Progress!Put
<1>4. PICK row : row = [v1[root] EXCEPT ![f] = new]
  OBVIOUS
<1>5. v1' = [v1 EXCEPT ![root] = row]
  BY <1>3, <1>4
<1>6. v1 \in [Progress!Roots -> [Progress!Files -> 0 .. v2]]
  BY DEF Progress!TypeOK
<1>7. \A r \in Progress!Roots : v1[r] \in [Progress!Files -> 0 .. new]
  BY <1>2, <1>6
<1>8. /\ row \in [Progress!Files -> 0 .. new] /\ row[f] = new
      /\ \A g \in Progress!Files : g # f => row[g] = v1[root][g]
  <2>1. new \in 0 .. new
    BY <1>2
  <2>2. v1[root] \in [Progress!Files -> 0 .. new]
    BY <1>7
  <2> QED BY <1>4, <2>1, <2>2
<1>9. /\ v1' \in [Progress!Roots -> [Progress!Files -> 0 .. new]]
      /\ v1'[root] = row /\ \A r \in Progress!Roots : r # root => v1'[r] = v1[r]
  BY <1>5, <1>6, <1>7, <1>8
<1> QED BY <1>1, <1>2, <1>8, <1>9

(* A file appeared, or moved: the phase moved on, and the poll saw it. *)
LEMMA Observed ==
  ASSUME Progress!LiveProgressAssumption, Progress!Inv,
         v1' \in [Progress!Roots -> [Progress!Files -> 0 .. v2']], v2' \in Nat, v3' \in BOOLEAN,
         UNCHANGED <<v4, v5>>, Progress!Observe, Progress!FilesFit',
         Progress!PhaseNow' \in Moments, Progress!Before(Progress!PhaseNow, Progress!PhaseNow'),
         \A f \in Progress!Files :
             v1["inflight"][f] # 0 => v1'["inflight"][f] = v1["inflight"][f],
         \A n \in 1 .. Attempts :
             \/ /\ Progress!PhaseOf(n)' = Progress!PhaseOf(n)
                /\ Progress!Out("lease", n)' = Progress!Out("lease", n)
                /\ Progress!Out("engineer", n)' = Progress!Out("engineer", n)
             \/ /\ Progress!PhaseNow' = Progress!Phase(n, Progress!PhaseOf(n)')
                /\ \/ Progress!Out("engineer", n)' = Progress!Out("engineer", n)
                   \/ Progress!PhaseOf(n)' = "validator"
  PROVE  Progress!Inv'
<1> USE DEF Progress!Inv
<1>1. Progress!PhaseNow \in Moments /\ Progress!PhaseNow' \in Moments
  BY NowIs
<1>2. Progress!TypeOK'
  BY DEF Progress!TypeOK
<1>3. v6' = IF v4 = Progress!NoPoll THEN {} ELSE v6 \cup {Progress!PhaseNow'}
  BY DEF Progress!Observe
<1>4. v6 \subseteq v6'
  BY <1>3 DEF Progress!SeenFits
<1>5. \A kind \in Progress!Kinds, n \in 1 .. Attempts :
          Progress!Out(kind, n) => /\ Progress!Out(kind, n)'
                                   /\ v1'["inflight"][<<kind, n>>] = v1["inflight"][<<kind, n>>]
  BY DEF Progress!Out, Progress!Files
<1>6. \A j \in 1 .. Len(v5) : /\ v5[j].attempt \in 0 .. Attempts
                              /\ v5[j].phase \in DOMAIN Progress!Rank
  <2>1. v5 \in Seq([attempt: 0 .. Attempts, phase: DOMAIN Progress!Rank, start: Nat])
    BY DEF Progress!AnswersFit
  <2>2. \A j \in 1 .. Len(v5) :
            v5[j] \in [attempt: 0 .. Attempts, phase: DOMAIN Progress!Rank, start: Nat]
    BY ONLY <2>1, MemberOf
  <2> QED BY <2>2
<1>7. \A a : /\ a.attempt \in 0 .. Attempts /\ a.phase \in DOMAIN Progress!Rank
             /\ Progress!Before(a, Progress!PhaseNow)
             => Progress!Before(a, Progress!PhaseNow')
  BY <1>1, Ordered DEF Moments
<1>8. Progress!SeenFits'
  <2>1. v6' \subseteq Moments
    BY <1>1, <1>3 DEF Progress!SeenFits, Moments
  <2>2. IF v4' = Progress!NoPoll THEN v6' = {} ELSE Progress!PhaseNow' \in v6'
    BY <1>3
  <2>3. Progress!Before(Progress!PhaseNow', Progress!PhaseNow')
    <3>1. Progress!PhaseNow'.attempt \in Nat /\ Progress!Rank[Progress!PhaseNow'.phase] \in 1 .. 4
      BY <1>1, Ranks DEF Moments, Progress!LiveProgressAssumption
    <3> QED BY <3>1 DEF Progress!Before
  <2>4. \A s \in v6 : Progress!Before(s, Progress!PhaseNow')
    BY <1>7 DEF Progress!SeenFits
  <2>5. \A s \in v6' : Progress!Before(s, Progress!PhaseNow')
    BY <1>3, <2>3, <2>4
  <2>6. \A j \in 1 .. Len(v5) : Progress!Before(v5[j], Progress!PhaseNow')
    BY <1>6, <1>7 DEF Progress!AnswersFit
  <2>7. \A s \in v6' : \A j \in 1 .. Len(v5) : Progress!Before(v5[j], s)
    BY <1>3, <2>6 DEF Progress!SeenFits
  <2> QED BY <2>1, <2>2, <2>5, <2>7 DEF Progress!SeenFits, Moments
<1>9. Progress!AnswersFit'
  <2>1. Progress!NeverBack'
    BY DEF Progress!AnswersFit, Progress!NeverBack
  <2>2. \A j \in 1 .. Len(v5) : Progress!Before(v5[j], Progress!PhaseNow')
    BY <1>6, <1>7 DEF Progress!AnswersFit
  <2>3. \A j \in 1 .. Len(v5) : v5[j].phase = "engineer" =>
            /\ v5[j].attempt \in 1 .. Attempts
            /\ Progress!Out("lease", v5[j].attempt)'
            /\ v5[j].start = v1'["inflight"][<<"lease", v5[j].attempt>>]
    <3> SUFFICES ASSUME NEW j \in 1 .. Len(v5), v5[j].phase = "engineer"
                 PROVE  /\ v5[j].attempt \in 1 .. Attempts
                        /\ Progress!Out("lease", v5[j].attempt)'
                        /\ v5[j].start = v1'["inflight"][<<"lease", v5[j].attempt>>]
      OBVIOUS
    <3>1. PICK n \in 1 .. Attempts :
            /\ n = v5[j].attempt /\ Progress!Out("lease", n)
            /\ v5[j].start = v1["inflight"][<<"lease", n>>]
      BY DEF Progress!AnswersFit
    <3>2. Progress!Out("lease", n)' /\ v1'["inflight"][<<"lease", n>>] = v1["inflight"][<<"lease", n>>]
      BY <1>5, <3>1 DEF Progress!Kinds
    <3> QED BY <3>1, <3>2 DEF Progress!Out
  <2> QED BY <2>1, <2>2, <2>3 DEF Progress!AnswersFit
<1>10. Progress!PollFits'
  <2>1. CASE v4 = Progress!NoPoll
    BY <2>1 DEF Progress!PollFits
  <2>2. CASE v4 # Progress!NoPoll
    <3>1. Progress!PhaseNow' \in v6'
      BY <1>3, <2>2
    <3>2. \A n \in 1 .. Attempts : Progress!Known(n) => Progress!Known(n)'
      BY <1>4, <3>1 DEF Progress!Known
    <3>3. Progress!Known(0) => Progress!Known(0)'
      BY <1>4 DEF Progress!Known
    <3>4. \A n \in 1 .. Attempts : n - 1 \in 1 .. Attempts \/ n - 1 = 0
      BY DEF Progress!LiveProgressAssumption
    <3>5. \A n \in 1 .. Attempts : Progress!Known(n - 1) => Progress!Known(n - 1)'
      BY <3>2, <3>3, <3>4
    <3>6. \A n \in 1 .. Attempts : Progress!Unreported(n) => Progress!Unreported(n)'
      BY <1>4, <3>1 DEF Progress!Unreported
    <3>7. /\ v4 \in [pc: {"look"}, file: Progress!Files, turn: {1, 2}, mark: Nat,
                     for: {"attempt", "report", "engineer", "validator", "clock"}]
          /\ Len(v5) < MaxPolls
      BY <2>2 DEF Progress!PollFits
    <3>8. \A n \in 1 .. Attempts :
              /\ Progress!Out("lease", n) => Progress!Out("lease", n)'
              /\ Progress!Out("report", n) => Progress!Out("report", n)'
      BY <1>5 DEF Progress!Kinds
    <3>9. PICK n \in 1 .. Attempts :
           \/ /\ v4.for = "attempt" /\ v4.file = <<"lease", n>>
              /\ Progress!Known(n) /\ (v4.turn = 2 => Progress!Known(n - 1))
           \/ /\ v4.for = "report" /\ v4.file = <<"report", n>>
              /\ Progress!Out("lease", n) /\ Progress!Known(n)
              /\ (v4.turn = 2 => Progress!Unreported(n))
           \/ /\ v4.for = "engineer" /\ v4.file = <<"engineer", n>>
              /\ Progress!Out("lease", n) /\ Progress!Known(n)
              /\ \/ v4.mark = 1 /\ Progress!Out("report", n)
                 \/ /\ v4.mark = 0 /\ Progress!Unreported(n)
                    /\ v4.turn = 2 => Progress!Phase(n, "engineer") \in v6
           \/ /\ v4.for = "validator" /\ v4.file = <<"validator", n>>
              /\ Progress!Phase(n, "validator") \in v6
           \/ /\ v4.for = "clock" /\ v4.file = <<"lease", n>>
              /\ v4.turn = 1 /\ Progress!Out("lease", n) /\ Progress!Phase(n, "engineer") \in v6
      BY <2>2 DEF Progress!PollFits
    <3> QED BY <1>4, <3>2, <3>5, <3>6, <3>7, <3>8, <3>9 DEF Progress!PollFits
  <2> QED BY <2>1, <2>2
<1> QED BY <1>2, <1>8, <1>9, <1>10

(* What follows what is out. *)
LEMMA FollowingIs ==
  ASSUME NEW n \in 1 .. Attempts, Progress!FilesFit, NEW kind \in Progress!Following(n)
  PROVE  /\ kind \in Progress!Kinds
         /\ \/ kind = "lease" /\ \A k \in Progress!Kinds : ~ Progress!Out(k, n)
            \/ /\ kind = "engineer" /\ Progress!Out("lease", n) /\ ~ Progress!Out("engineer", n)
               /\ ~ Progress!Out("report", n)
            \/ /\ kind = "report" /\ Progress!Out("lease", n) /\ Progress!Out("engineer", n)
               /\ ~ Progress!Out("report", n)
            \/ /\ kind \in {"validator", "assessment"}
               /\ Progress!Out("lease", n) /\ Progress!Out("engineer", n) /\ Progress!Out("report", n)
<1>1. \A k \in Progress!Kinds : Progress!Out(k, n) <=> v1["inflight"][<<k, n>>] # 0
  BY DEF Progress!Out
<1>2. /\ Progress!Out("engineer", n) => Progress!Out("lease", n)
      /\ Progress!Out("report", n) => Progress!Out("engineer", n)
      /\ Progress!Out("validator", n) \/ Progress!Out("assessment", n) => Progress!Out("report", n)
  BY DEF Progress!FilesFit
<1> QED BY <1>1, <1>2 DEF Progress!Following, Progress!Kinds

(* What is there, after a step that promotes nothing that is not out. *)
LEMMA OutNow ==
  ASSUME \A f \in Progress!Files : v1'["evidence"][f] # 0 => v1'["inflight"][f] # 0
  PROVE  /\ \A kind \in Progress!Kinds, n \in 1 .. Attempts :
                Progress!Present(<<kind, n>>)' <=> Progress!Out(kind, n)'
         /\ \A n \in 1 .. Attempts :
                /\ Progress!PhaseOf(n)' = IF Progress!Out("report", n)' THEN "complete"
                                          ELSE IF Progress!Out("engineer", n)' THEN "validator"
                                          ELSE "engineer"
                /\ n \in Progress!Latest' <=> Progress!Out("lease", n)'
<1>1. \A kind \in Progress!Kinds, n \in 1 .. Attempts :
          Progress!Present(<<kind, n>>)' <=> Progress!Out(kind, n)'
  BY DEF Progress!Files, Progress!Present, Progress!Roots, Progress!Out
<1> QED BY <1>1 DEF Progress!PhaseOf, Progress!Latest, Progress!Kinds

(* The phase after a step is that of the latest attempt. *)
LEMMA LatestNow ==
  ASSUME NEW n \in 1 .. Attempts, n \in Progress!Latest', Progress!LiveProgressAssumption,
         \A k \in Progress!Latest' : k \in 1 .. Attempts /\ k <= n
  PROVE  /\ Progress!PhaseNow' = Progress!Phase(n, Progress!PhaseOf(n)')
         /\ Progress!PhaseNow' \in Moments
<1>1. \A m \in Progress!Latest' : (\A k \in Progress!Latest' : k <= m) => m = n
  BY DEF Progress!LiveProgressAssumption
<1>2. n = Progress!Attempt'
  BY <1>1 DEF Progress!Attempt
<1>3. Progress!PhaseNow' = Progress!Phase(n, Progress!PhaseOf(n)')
  BY <1>2 DEF Progress!PhaseNow, Progress!Phase
<1>4. Progress!PhaseOf(n)' \in DOMAIN Progress!Rank
  BY Ranks DEF Progress!PhaseOf
<1> QED BY <1>3, <1>4 DEF Progress!Phase, Moments, Progress!LiveProgressAssumption

(* A file that is published moves the phase of the latest attempt on. *)
LEMMA PublishStep ==
  ASSUME Progress!LiveProgressAssumption, Progress!Inv, Progress!Publish
  PROVE  Progress!Inv'
<1>1. Progress!TypeOK /\ v2 \in Nat /\ Progress!FilesFit
  BY DEF Progress!Inv
<1>2. PICK n \in 1 .. Attempts, kind \in Progress!Kinds :
        /\ kind \in Progress!Following(n)
        /\ v1["evidence"][<<"lease", n>>] = 0
        /\ \A k \in (n + 1) .. Attempts : v1["inflight"][<<"lease", k>>] = 0
        /\ n > 1 => v1["evidence"][<<"lease", n - 1>>] # 0
        /\ Progress!Put("inflight", <<kind, n>>)
  BY DEF Progress!Publish
<1>3. UNCHANGED <<v3, v4, v5>> /\ Progress!Observe
  BY DEF Progress!Publish
<1>4. /\ v2' \in Nat /\ v1' \in [Progress!Roots -> [Progress!Files -> 0 .. v2']]
      /\ v1'["inflight"][<<kind, n>>] # 0 /\ v1["inflight"][<<kind, n>>] = 0
      /\ \A g \in Progress!Files : g # <<kind, n>> => v1'["inflight"][g] = v1["inflight"][g]
      /\ \A g \in Progress!Files : v1'["evidence"][g] = v1["evidence"][g]
  <2>1. "inflight" \in Progress!Roots /\ "evidence" \in Progress!Roots /\ <<kind, n>> \in Progress!Files
    BY <1>2 DEF Progress!Roots, Progress!Files
  <2> QED BY <1>1, <1>2, <2>1, PutIs
<1>5. \A k \in Progress!Kinds, m \in 1 .. Attempts :
          Progress!Out(k, m)' <=> Progress!Out(k, m) \/ (k = kind /\ m = n)
  <2>1. \A k \in Progress!Kinds, m \in 1 .. Attempts : <<k, m>> \in Progress!Files
    BY DEF Progress!Files
  <2>2. \A k \in Progress!Kinds, m \in 1 .. Attempts :
            k # kind \/ m # n => v1'["inflight"][<<k, m>>] = v1["inflight"][<<k, m>>]
    BY <1>4, <2>1
  <2> QED BY <1>4, <2>2 DEF Progress!Out
<1>6. \A f \in Progress!Files : v1'["evidence"][f] # 0 => v1'["inflight"][f] # 0
  BY <1>1, <1>4 DEF Progress!FilesFit
<1>7. kind = "lease" <=> ~ Progress!Out("lease", n)
  BY <1>1, <1>2, FollowingIs DEF Progress!Kinds
<1>8. Progress!Out("lease", n)' /\ "lease" \in Progress!Kinds
  BY <1>5, <1>7 DEF Progress!Kinds
<1>9. \A k \in 1 .. Attempts : k > n => ~ Progress!Out("lease", k)'
  <2>1. \A k \in 1 .. Attempts : k > n => k \in (n + 1) .. Attempts
    BY DEF Progress!LiveProgressAssumption
  <2> QED BY <1>2, <1>5, <1>8, <2>1 DEF Progress!Out
<1>10. /\ n \in Progress!Latest'
       /\ \A k \in Progress!Latest' : k \in 1 .. Attempts /\ k <= n
  <2>1. \A k \in Progress!Latest' : k \in 1 .. Attempts
    BY DEF Progress!Latest
  <2>2. \A k \in 1 .. Attempts : k \in Progress!Latest' <=> Progress!Out("lease", k)'
    BY <1>6, OutNow
  <2> QED BY <1>8, <1>9, <2>1, <2>2 DEF Progress!LiveProgressAssumption
<1>11. Progress!PhaseNow' = Progress!Phase(n, Progress!PhaseOf(n)') /\ Progress!PhaseNow' \in Moments
  BY <1>10, LatestNow
<1>12. \A k \in 1 .. Attempts : k < n => v1["evidence"][<<"lease", k>>] # 0
  <2>1. CASE n = 1
    BY <2>1
  <2>2. CASE n > 1
    <3>1. n - 1 \in 1 .. Attempts /\ v1["evidence"][<<"lease", n - 1>>] # 0
      BY <1>2, <2>2 DEF Progress!LiveProgressAssumption
    <3>2. Progress!Out("lease", n - 1)
      BY <1>1, <1>8, <3>1 DEF Progress!FilesFit, Progress!Files, Progress!Out
    <3>3. \A k \in 1 .. Attempts : k < n - 1 => v1["evidence"][<<"lease", k>>] # 0
      BY <1>1, <3>1, <3>2 DEF Progress!FilesFit
    <3> QED BY <3>1, <3>3 DEF Progress!LiveProgressAssumption
  <2> QED BY <2>1, <2>2 DEF Progress!LiveProgressAssumption
<1>13. Progress!FilesFit'
  <2>1. \A m \in 1 .. Attempts :
           /\ Progress!Out("engineer", m)' => Progress!Out("lease", m)'
           /\ Progress!Out("report", m)' => Progress!Out("engineer", m)'
           /\ Progress!Out("validator", m)' \/ Progress!Out("assessment", m)' => Progress!Out("report", m)'
    <3>1. \A m \in 1 .. Attempts :
             /\ Progress!Out("engineer", m) => Progress!Out("lease", m)
             /\ Progress!Out("report", m) => Progress!Out("engineer", m)
             /\ Progress!Out("validator", m) \/ Progress!Out("assessment", m) => Progress!Out("report", m)
      BY <1>1 DEF Progress!FilesFit
    <3>2. \/ kind = "lease"
          \/ kind = "engineer" /\ Progress!Out("lease", n)
          \/ kind = "report" /\ Progress!Out("engineer", n)
          \/ kind \in {"validator", "assessment"} /\ Progress!Out("report", n)
      BY <1>1, <1>2, FollowingIs
    <3> QED BY <1>5, <3>1, <3>2 DEF Progress!Kinds
  <2>2. \A m \in 1 .. Attempts : Progress!Out("lease", m)' =>
            \A k \in 1 .. Attempts : k < m => v1'["evidence"][<<"lease", k>>] # 0
    <3>1. \A m \in 1 .. Attempts : Progress!Out("lease", m) =>
              \A k \in 1 .. Attempts : k < m => v1["evidence"][<<"lease", k>>] # 0
      BY <1>1 DEF Progress!FilesFit
    <3>2. \A k \in 1 .. Attempts : v1'["evidence"][<<"lease", k>>] = v1["evidence"][<<"lease", k>>]
      BY <1>4, <1>8 DEF Progress!Files
    <3> QED BY <1>5, <1>8, <1>12, <3>1, <3>2
  <2> QED BY <1>6, <1>10, <2>1, <2>2 DEF Progress!FilesFit
<1>14. /\ \A m \in 1 .. Attempts :
              Progress!PhaseOf(m)' = IF Progress!Out("report", m)' THEN "complete"
                                     ELSE IF Progress!Out("engineer", m)' THEN "validator"
                                     ELSE "engineer"
       /\ \A m \in 1 .. Attempts :
              Progress!PhaseOf(m) = IF Progress!Out("report", m) THEN "complete"
                                     ELSE IF Progress!Out("engineer", m) THEN "validator"
                                     ELSE "engineer"
  BY <1>1, <1>6, OutNow, PhaseIs
<1>15. Progress!Before(Progress!PhaseNow, Progress!PhaseNow')
  <2>1. Progress!Rank[Progress!PhaseOf(n)] <= Progress!Rank[Progress!PhaseOf(n)']
    <3>1. /\ Progress!Out("report", n) => Progress!Out("report", n)'
          /\ Progress!Out("engineer", n) => Progress!Out("engineer", n)'
      BY <1>5 DEF Progress!Kinds
    <3> QED BY <1>14, <3>1, Ranks
  <2>2. \A k \in Progress!Latest : k \in 1 .. Attempts /\ k <= n
    <3>1. \A k \in Progress!Latest : k \in 1 .. Attempts /\ Progress!Out("lease", k)
      BY <1>1, PhaseIs DEF Progress!Latest
    <3> QED BY <1>5, <1>8, <1>9, <3>1 DEF Progress!LiveProgressAssumption
  <2>3. CASE Progress!Latest = {}
    <3>1. Progress!PhaseNow = Progress!Phase(0, "pending")
      BY <2>3 DEF Progress!PhaseNow
    <3> QED BY <1>11, <3>1 DEF Progress!Before, Progress!Phase
  <2>4. ASSUME NEW m \in Progress!Latest, m \in 1 .. Attempts,
               Progress!PhaseNow = Progress!Phase(m, Progress!PhaseOf(m))
        PROVE  Progress!Before(Progress!PhaseNow, Progress!PhaseNow')
    <3>1. m <= n
      BY <2>2
    <3>2. CASE m < n
      BY <1>11, <2>4, <3>2 DEF Progress!Before, Progress!Phase
    <3>3. CASE m = n
      BY <1>11, <2>1, <2>4, <3>3 DEF Progress!Before, Progress!Phase
    <3>4. m < n \/ m = n
      BY <2>4, <3>1 DEF Progress!LiveProgressAssumption
    <3> QED BY <3>2, <3>3, <3>4
  <2>5. \/ Progress!Latest = {}
        \/ \E m \in Progress!Latest :
             /\ m \in 1 .. Attempts
             /\ Progress!PhaseNow = Progress!Phase(m, Progress!PhaseOf(m))
    BY <1>1, NowIs
  <2> QED BY <2>3, <2>4, <2>5
<1>16. \A f \in Progress!Files :
          v1["inflight"][f] # 0 => v1'["inflight"][f] = v1["inflight"][f]
  BY <1>4
<1>17. ASSUME NEW m \in 1 .. Attempts
       PROVE
         \/ /\ Progress!PhaseOf(m)' = Progress!PhaseOf(m)
            /\ Progress!Out("lease", m)' = Progress!Out("lease", m)
            /\ Progress!Out("engineer", m)' = Progress!Out("engineer", m)
         \/ /\ Progress!PhaseNow' = Progress!Phase(m, Progress!PhaseOf(m)')
            /\ \/ Progress!Out("engineer", m)' = Progress!Out("engineer", m)
               \/ Progress!PhaseOf(m)' = "validator"
  <2>0. \A k \in Progress!Kinds : Progress!Out(k, m) \in BOOLEAN /\ Progress!Out(k, m)' \in BOOLEAN
    BY DEF Progress!Out
  <2>1. CASE m # n
    <3>1. \A k \in Progress!Kinds : Progress!Out(k, m)' = Progress!Out(k, m)
      BY <1>5, <2>0, <2>1
    <3> QED BY <1>14, <3>1 DEF Progress!Kinds
  <2>2. CASE m = n
    <3>1. CASE kind = "engineer"
      <4>1. ~ Progress!Out("report", n)' /\ Progress!Out("engineer", n)'
        BY <1>1, <1>2, <1>5, <3>1, FollowingIs DEF Progress!Kinds
      <4>2. Progress!PhaseOf(n)' = "validator"
        BY <1>14, <4>1
      <4> QED BY <1>11, <2>2, <4>2
    <3>2. CASE kind # "engineer"
      <4>1. Progress!Out("engineer", m)' = Progress!Out("engineer", m)
        BY <1>5, <2>0, <3>2 DEF Progress!Kinds
      <4> QED BY <1>11, <2>2, <4>1
    <3> QED BY <3>1, <3>2
  <2> QED BY <2>1, <2>2
<1>18. v3' \in BOOLEAN
  BY <1>1, <1>3 DEF Progress!TypeOK
<1>19. UNCHANGED <<v4, v5>>
  BY <1>3
<1> QED BY <1>3, <1>4, <1>11, <1>13, <1>15, <1>16, <1>17, <1>18, <1>19, Observed

(* A promotion changes no phase. *)
LEMMA PromoteStep ==
  ASSUME Progress!LiveProgressAssumption, Progress!Inv, Progress!Promote
  PROVE  Progress!Inv'
<1>1. Progress!TypeOK /\ v2 \in Nat /\ Progress!FilesFit
  BY DEF Progress!Inv
<1> DEFINE open == {f \in Progress!Files : v1["inflight"][f] # 0 /\ v1["evidence"][f] = 0}
<1>2. PICK f \in open : Progress!Put("evidence", f) /\ v3' = (open # {f})
  BY DEF Progress!Promote
<1>3. UNCHANGED <<v4, v5>> /\ Progress!Observe
  BY DEF Progress!Promote
<1>4. /\ v2' \in Nat /\ v1' \in [Progress!Roots -> [Progress!Files -> 0 .. v2']]
      /\ v1'["evidence"][f] # 0
      /\ \A g \in Progress!Files : g # f => v1'["evidence"][g] = v1["evidence"][g]
      /\ \A g \in Progress!Files : v1'["inflight"][g] = v1["inflight"][g]
  <2>1. "inflight" \in Progress!Roots /\ "evidence" \in Progress!Roots /\ f \in Progress!Files
    BY <1>2 DEF Progress!Roots
  <2> QED BY <1>1, <1>2, <2>1, PutIs
<1>5. \A k \in Progress!Kinds, m \in 1 .. Attempts : Progress!Out(k, m)' = Progress!Out(k, m)
  BY <1>4 DEF Progress!Out, Progress!Files
<1>6. \A g \in Progress!Files : /\ v1'["evidence"][g] # 0 => v1'["inflight"][g] # 0
                                /\ v1["evidence"][g] # 0 => v1'["evidence"][g] # 0
  BY <1>1, <1>2, <1>4 DEF Progress!FilesFit
<1>7. \A k \in Progress!Kinds, m \in 1 .. Attempts :
          Progress!Present(<<k, m>>)' <=> Progress!Present(<<k, m>>)
  BY <1>1, <1>5, <1>6, OutNow, PresentIsOut
<1>8. \A m \in 1 .. Attempts : Progress!PhaseOf(m)' = Progress!PhaseOf(m)
  BY <1>7 DEF Progress!PhaseOf, Progress!Kinds
<1>9. Progress!Latest' = Progress!Latest
  BY <1>7 DEF Progress!Latest, Progress!Kinds
<1>10. Progress!Attempt' = Progress!Attempt
  BY <1>9 DEF Progress!Attempt
<1>11. Progress!PhaseNow' = Progress!PhaseNow
  <2>1. CASE Progress!Latest = {}
    BY <1>9, <2>1 DEF Progress!PhaseNow, Progress!Phase
  <2>2. CASE Progress!Latest # {}
    <3>1. Progress!Attempt \in 1 .. Attempts
      BY <1>1, <2>2 DEF Progress!FilesFit, Progress!Attempt, Progress!Latest
    <3>2. Progress!PhaseOf(Progress!Attempt)' = Progress!PhaseOf(Progress!Attempt)
      BY <1>8, <1>10, <3>1
    <3> QED BY <1>9, <1>10, <2>2, <3>2 DEF Progress!PhaseNow, Progress!Phase
  <2> QED BY <2>1, <2>2
<1>12. Progress!PhaseNow' \in Moments /\ Progress!Before(Progress!PhaseNow, Progress!PhaseNow')
  <2>1. Progress!PhaseNow \in Moments
    BY <1>1, NowIs
  <2>2. Progress!PhaseNow.attempt \in Nat /\ Progress!Rank[Progress!PhaseNow.phase] \in 1 .. 4
    BY <2>1, Ranks DEF Moments, Progress!LiveProgressAssumption
  <2> QED BY <1>11, <2>1, <2>2 DEF Progress!Before
<1>13. Progress!FilesFit'
  <2>1. \A m \in 1 .. Attempts :
           /\ Progress!Out("engineer", m)' => Progress!Out("lease", m)'
           /\ Progress!Out("report", m)' => Progress!Out("engineer", m)'
           /\ Progress!Out("validator", m)' \/ Progress!Out("assessment", m)' => Progress!Out("report", m)'
    BY <1>1, <1>5 DEF Progress!FilesFit, Progress!Kinds
  <2>2. \A m \in 1 .. Attempts : Progress!Out("lease", m)' =>
            \A k \in 1 .. Attempts : k < m => v1'["evidence"][<<"lease", k>>] # 0
    <3>1. \A m \in 1 .. Attempts : Progress!Out("lease", m) =>
              \A k \in 1 .. Attempts : k < m => v1["evidence"][<<"lease", k>>] # 0
      BY <1>1 DEF Progress!FilesFit
    <3>2. \A k \in 1 .. Attempts :
              v1["evidence"][<<"lease", k>>] # 0 => v1'["evidence"][<<"lease", k>>] # 0
      BY <1>6 DEF Progress!Files, Progress!Kinds
    <3>3. \A m \in 1 .. Attempts : Progress!Out("lease", m)' = Progress!Out("lease", m)
      BY <1>5 DEF Progress!Kinds
    <3> QED BY <3>1, <3>2, <3>3
  <2>3. Progress!Latest' = {} \/ \E n \in Progress!Latest' : \A k \in Progress!Latest' : k <= n
    BY <1>1, <1>9 DEF Progress!FilesFit
  <2> QED BY <1>6, <2>1, <2>2, <2>3 DEF Progress!FilesFit
<1>14. \A g \in Progress!Files :
          v1["inflight"][g] # 0 => v1'["inflight"][g] = v1["inflight"][g]
  BY <1>4
<1>15. \A m \in 1 .. Attempts :
         \/ /\ Progress!PhaseOf(m)' = Progress!PhaseOf(m)
            /\ Progress!Out("lease", m)' = Progress!Out("lease", m)
            /\ Progress!Out("engineer", m)' = Progress!Out("engineer", m)
         \/ /\ Progress!PhaseNow' = Progress!Phase(m, Progress!PhaseOf(m)')
            /\ \/ Progress!Out("engineer", m)' = Progress!Out("engineer", m)
               \/ Progress!PhaseOf(m)' = "validator"
  BY <1>5, <1>8 DEF Progress!Kinds
<1>16. v3' \in BOOLEAN
  BY <1>2
<1>17. UNCHANGED <<v4, v5>>
  BY <1>3
<1> QED BY <1>3, <1>4, <1>12, <1>13, <1>14, <1>15, <1>16, <1>17, Observed

(* A poll that only looks further leaves the files and the answers as they are. *)
LEMMA ProgressFilesStay ==
  ASSUME Progress!Inv, UNCHANGED <<v1, v2>>, v3' \in BOOLEAN
  PROVE  /\ v2' \in Nat /\ Progress!FilesFit'
         /\ v1' \in [Progress!Roots -> [Progress!Files -> 0 .. v2']]
         /\ UNCHANGED v5 => Progress!AnswersFit'
         /\ UNCHANGED <<v4, v5, v6>> => Progress!Inv'
<1>1. /\ v2' \in Nat /\ Progress!FilesFit'
      /\ v1' \in [Progress!Roots -> [Progress!Files -> 0 .. v2']]
  BY PhaseStays DEF Progress!Inv, Progress!TypeOK
<1>2. ASSUME UNCHANGED v5 PROVE Progress!AnswersFit'
  <2>1. \A j \in 1 .. Len(v5) : Progress!Out("lease", v5[j].attempt)' = Progress!Out("lease", v5[j].attempt)
    BY <1>2 DEF Progress!Out
  <2>2. Progress!NeverBack'
    BY <1>2 DEF Progress!Inv, Progress!AnswersFit, Progress!NeverBack
  <2> QED BY <1>2, <2>1, <2>2, PhaseStays DEF Progress!Inv, Progress!AnswersFit
<1>3. ASSUME UNCHANGED <<v4, v5, v6>> PROVE Progress!Inv'
  <2>1. Progress!TypeOK'
    BY <1>1, <1>3 DEF Progress!Inv, Progress!TypeOK
  <2>2. Progress!SeenFits'
    BY <1>3, PhaseStays DEF Progress!Inv, Progress!SeenFits
  <2>3. \A n : /\ Progress!Known(n)' = Progress!Known(n)
               /\ Progress!Unreported(n)' = Progress!Unreported(n)
               /\ \A kind : Progress!Out(kind, n)' = Progress!Out(kind, n)
    BY <1>3, PhaseStays DEF Progress!Known, Progress!Unreported
  <2>4. Progress!PollFits'
    BY <1>3, <2>3 DEF Progress!Inv, Progress!PollFits
  <2> QED BY <1>1, <1>2, <1>3, <2>1, <2>2, <2>4 DEF Progress!Inv
<1> QED BY <1>1, <1>2, <1>3

(* The end of an operation changes no file. *)
LEMMA EndStep ==
  ASSUME Progress!LiveProgressAssumption, Progress!Inv, Progress!EndOperation
  PROVE  Progress!Inv'
<1>1. UNCHANGED <<v1, v2, v4, v5, v6>> /\ v3' \in BOOLEAN
  BY DEF Progress!EndOperation
<1> QED BY <1>1, ProgressFilesStay

(* A poll begins with the last attempt. *)
LEMMA PollStep ==
  ASSUME Progress!LiveProgressAssumption, Progress!Inv, Progress!Poll
  PROVE  Progress!Inv'
<1>1. /\ v4 = Progress!NoPoll /\ Len(v5) < MaxPolls
      /\ v4' = Progress!Goal("lease", Attempts, "attempt", 0)
      /\ v6' = {Progress!PhaseNow} /\ UNCHANGED <<v1, v2, v3, v5>>
  BY DEF Progress!Poll
<1>2. Progress!FilesFit /\ Progress!AnswersFit /\ v3' \in BOOLEAN /\ Attempts \in 1 .. Attempts
  BY <1>1 DEF Progress!Inv, Progress!TypeOK, Progress!LiveProgressAssumption
<1>3. /\ v2' \in Nat /\ Progress!FilesFit' /\ Progress!AnswersFit'
      /\ v1' \in [Progress!Roots -> [Progress!Files -> 0 .. v2']]
  BY <1>1, <1>2, ProgressFilesStay
<1>4. Progress!PhaseNow' = Progress!PhaseNow /\ Progress!PhaseNow \in Moments
  BY <1>1, <1>2, NowIs, PhaseStays
<1>5. v4'.pc = "look" /\ v4' # Progress!NoPoll
  BY <1>1 DEF Progress!Goal, Progress!NoPoll
<1>6. Progress!TypeOK'
  BY <1>1, <1>2, <1>3, <1>5 DEF Progress!Inv, Progress!TypeOK, Progress!Goal, Progress!Files,
     Progress!Kinds
<1>7. Progress!SeenFits'
  <2>1. Progress!Before(Progress!PhaseNow, Progress!PhaseNow)
    <3>1. Progress!PhaseNow.attempt \in Nat /\ Progress!Rank[Progress!PhaseNow.phase] \in 1 .. 4
      BY <1>4, Ranks DEF Moments, Progress!LiveProgressAssumption
    <3> QED BY <3>1 DEF Progress!Before
  <2>2. \A j \in 1 .. Len(v5) : Progress!Before(v5[j], Progress!PhaseNow)
    BY <1>2 DEF Progress!AnswersFit
  <2> QED BY <1>1, <1>4, <1>5, <2>1, <2>2 DEF Progress!SeenFits, Moments
<1>8. Progress!PollFits'
  <2>1. Progress!Known(Attempts)'
    <3>1. Progress!Out("lease", Attempts) =>
              Progress!PhaseNow = Progress!Phase(Attempts, Progress!PhaseOf(Attempts))
      BY <1>2, LatestIs DEF Progress!LiveProgressAssumption
    <3>2. Attempts # 0
      BY DEF Progress!LiveProgressAssumption
    <3>3. /\ Progress!Out("lease", Attempts)' = Progress!Out("lease", Attempts)
          /\ Progress!PhaseOf(Attempts)' = Progress!PhaseOf(Attempts)
      BY <1>1, PhaseStays
    <3> QED BY <1>1, <3>1, <3>2, <3>3 DEF Progress!Known
  <2>2. v4' \in [pc: {"look"}, file: Progress!Files, turn: {1, 2}, mark: Nat,
                 for: {"attempt", "report", "engineer", "validator", "clock"}]
    BY <1>1, <1>2 DEF Progress!Goal, Progress!Files, Progress!Kinds
  <2>3. v4'.for = "attempt" /\ v4'.file = <<"lease", Attempts>> /\ v4'.turn = 1
    BY <1>1 DEF Progress!Goal
  <2> QED BY <1>1, <1>2, <2>1, <2>2, <2>3 DEF Progress!PollFits
<1> QED BY <1>3, <1>6, <1>7, <1>8 DEF Progress!Inv

(* A poll that looks further keeps what was seen. *)
LEMMA LookGoes ==
  ASSUME Progress!Inv, UNCHANGED <<v1, v2, v3, v5, v6>>, v4 # Progress!NoPoll,
         v4' # Progress!NoPoll, Progress!PollFits'
  PROVE  Progress!Inv'
<1>1. v3' \in BOOLEAN
  BY DEF Progress!Inv, Progress!TypeOK
<1>2. /\ v2' \in Nat /\ Progress!FilesFit' /\ Progress!AnswersFit'
      /\ v1' \in [Progress!Roots -> [Progress!Files -> 0 .. v2']]
  BY <1>1, ProgressFilesStay
<1>3. /\ v4'.pc = "look" /\ v4'.file \in Progress!Files /\ v4'.turn \in {1, 2}
      /\ Len(v5) < MaxPolls
  BY DEF Progress!PollFits
<1>4. Progress!TypeOK'
  BY <1>1, <1>2, <1>3 DEF Progress!Inv, Progress!TypeOK
<1>5. Progress!SeenFits'
  BY PhaseStays DEF Progress!Inv, Progress!SeenFits
<1> QED BY <1>2, <1>4, <1>5 DEF Progress!Inv

(* A poll that ends forgets what was seen. *)
LEMMA LookEnds ==
  ASSUME Progress!Inv, UNCHANGED <<v1, v2, v3>>, v4' = Progress!NoPoll, v6' = {},
         Progress!AnswersFit', Len(v5') <= MaxPolls
  PROVE  Progress!Inv'
<1>1. v3' \in BOOLEAN
  BY DEF Progress!Inv, Progress!TypeOK
<1>2. /\ v2' \in Nat /\ Progress!FilesFit'
      /\ v1' \in [Progress!Roots -> [Progress!Files -> 0 .. v2']]
  BY <1>1, ProgressFilesStay
<1>3. Progress!TypeOK'
  BY <1>1, <1>2 DEF Progress!TypeOK, Progress!NoPoll
<1>4. Progress!SeenFits' /\ Progress!PollFits'
  BY DEF Progress!SeenFits, Progress!PollFits
<1> QED BY <1>2, <1>3, <1>4 DEF Progress!Inv

(* The file system refuses. *)
LEMMA UnreadableStep ==
  ASSUME Progress!Inv, Progress!Unreadable
  PROVE  Progress!Inv'
<1>1. UNCHANGED <<v1, v2, v3, v5>> /\ v4' = Progress!NoPoll /\ v6' = {}
  BY DEF Progress!Unreadable
<1>2. v3' \in BOOLEAN /\ Len(v5') <= MaxPolls
  BY <1>1 DEF Progress!Inv, Progress!TypeOK
<1>3. Progress!AnswersFit'
  BY <1>1, <1>2, ProgressFilesStay
<1> QED BY <1>1, <1>2, <1>3, LookEnds

(* An answer that was seen is after those before it, and not after now. *)
LEMMA LookAnswers ==
  ASSUME Progress!LiveProgressAssumption, Progress!Inv, UNCHANGED <<v1, v2, v3>>, v6' = {},
         v4 # Progress!NoPoll,
         NEW n \in 0 .. Attempts, NEW phase \in DOMAIN Progress!Rank, NEW start \in Nat,
         Progress!Answer(n, phase, start), Progress!Phase(n, phase) \in v6,
         phase = "engineer" => /\ n \in 1 .. Attempts /\ Progress!Out("lease", n)
                               /\ start = v1["inflight"][<<"lease", n>>]
  PROVE  Progress!Inv' /\ Progress!AnswerWasTrue
<1> DEFINE answer == [attempt |-> n, phase |-> phase, start |-> start]
<1> DEFINE Answers == [attempt: 0 .. Attempts, phase: DOMAIN Progress!Rank, start: Nat]
<1>1. v5' = Append(v5, answer) /\ v4' = Progress!NoPoll
  BY DEF Progress!Answer
<1>2. answer \in Answers /\ v5 \in Seq(Answers)
  BY DEF Progress!Inv, Progress!AnswersFit
<1>3. /\ v5' \in Seq(Answers) /\ Len(v5') = Len(v5) + 1 /\ Len(v5) \in Nat
      /\ v5'[Len(v5) + 1] = answer /\ \A j \in 1 .. Len(v5) : v5'[j] = v5[j]
  <2> HIDE DEF Answers, answer
  <2> QED BY ONLY <1>1, <1>2
<1>4. Len(v5) < MaxPolls
  BY DEF Progress!Inv, Progress!PollFits
<1>5. \A j \in 1 .. Len(v5) : Progress!Before(v5[j], answer)
  <2>1. \A j \in 1 .. Len(v5) : Progress!Before(v5[j], Progress!Phase(n, phase))
    BY DEF Progress!Inv, Progress!SeenFits
  <2> QED BY <2>1 DEF Progress!Before, Progress!Phase
<1>6. Progress!Before(answer, Progress!PhaseNow)
  <2>1. Progress!Before(Progress!Phase(n, phase), Progress!PhaseNow)
    BY DEF Progress!Inv, Progress!SeenFits
  <2> QED BY <2>1 DEF Progress!Before, Progress!Phase
<1>7. Progress!PhaseNow' = Progress!PhaseNow
  BY PhaseStays
<1>8. Progress!NeverBack'
  <2>1. \A i, j \in 1 .. Len(v5) : i < j => Progress!Before(v5[i], v5[j])
    BY DEF Progress!Inv, Progress!AnswersFit, Progress!NeverBack
  <2> HIDE DEF answer
  <2> SUFFICES ASSUME NEW i \in 1 .. Len(v5'), NEW j \in 1 .. Len(v5'), i < j
               PROVE  Progress!Before(v5'[i], v5'[j])
    BY DEF Progress!NeverBack
  <2>2. \A k \in 1 .. Len(v5') : k \in 1 .. Len(v5) \/ k = Len(v5) + 1
    BY ONLY <1>3
  <2>3. i \in 1 .. Len(v5)
    BY ONLY <1>3, i \in 1 .. Len(v5'), j \in 1 .. Len(v5'), i < j
  <2> QED BY <1>3, <1>5, <2>1, <2>2, <2>3
<1>9. \A j \in 1 .. Len(v5') :
         /\ Progress!Before(v5'[j], Progress!PhaseNow)
         /\ v5'[j].phase = "engineer" =>
              /\ v5'[j].attempt \in 1 .. Attempts
              /\ v1["inflight"][<<"lease", v5'[j].attempt>>] # 0
              /\ v5'[j].start = v1["inflight"][<<"lease", v5'[j].attempt>>]
  <2>1. \A j \in 1 .. Len(v5) :
         /\ Progress!Before(v5[j], Progress!PhaseNow)
         /\ v5[j].phase = "engineer" =>
              /\ v5[j].attempt \in 1 .. Attempts
              /\ v1["inflight"][<<"lease", v5[j].attempt>>] # 0
              /\ v5[j].start = v1["inflight"][<<"lease", v5[j].attempt>>]
    BY DEF Progress!Inv, Progress!AnswersFit, Progress!Out
  <2>2. answer.phase = "engineer" =>
              /\ answer.attempt \in 1 .. Attempts
              /\ v1["inflight"][<<"lease", answer.attempt>>] # 0
              /\ answer.start = v1["inflight"][<<"lease", answer.attempt>>]
    BY DEF Progress!Out
  <2> HIDE DEF answer
  <2>3. \A j \in 1 .. Len(v5') : j \in 1 .. Len(v5) \/ j = Len(v5) + 1
    BY <1>3
  <2> QED BY <1>3, <1>6, <2>1, <2>2, <2>3
<1>10. Progress!AnswersFit'
  <2>1. \A j \in 1 .. Len(v5') :
         /\ Progress!Before(v5'[j], Progress!PhaseNow')
         /\ v5'[j].phase = "engineer" =>
              /\ v5'[j].attempt \in 1 .. Attempts
              /\ v1'["inflight"][<<"lease", v5'[j].attempt>>] # 0
              /\ v5'[j].start = v1'["inflight"][<<"lease", v5'[j].attempt>>]
    BY <1>7, <1>9
  <2> QED BY <1>3, <1>8, <2>1 DEF Progress!AnswersFit, Progress!Out
<1>11. Len(v5') <= MaxPolls
  BY <1>3, <1>4 DEF Progress!LiveProgressAssumption
<1>12. Progress!AnswerWasTrue
  <2>1. Progress!Phase(answer.attempt, answer.phase) \in v6
    OBVIOUS
  <2> HIDE DEF answer
  <2> QED BY <1>3, <2>1 DEF Progress!AnswerWasTrue
<1> QED BY <1>1, <1>10, <1>11, <1>12, LookEnds

(* What a poll that looks for g knows of attempt n. *)
Goals == [pc: {"look"}, file: Progress!Files, turn: {1, 2}, mark: Nat,
          for: {"attempt", "report", "engineer", "validator", "clock"}]
Knows(g, n) ==
    \/ /\ g.for = "attempt" /\ g.file = <<"lease", n>>
       /\ Progress!Known(n) /\ (g.turn = 2 => Progress!Known(n - 1))
    \/ /\ g.for = "report" /\ g.file = <<"report", n>>
       /\ Progress!Out("lease", n) /\ Progress!Known(n) /\ (g.turn = 2 => Progress!Unreported(n))
    \/ /\ g.for = "engineer" /\ g.file = <<"engineer", n>>
       /\ Progress!Out("lease", n) /\ Progress!Known(n)
       /\ \/ g.mark = 1 /\ Progress!Out("report", n)
          \/ /\ g.mark = 0 /\ Progress!Unreported(n)
             /\ g.turn = 2 => Progress!Phase(n, "engineer") \in v6
    \/ /\ g.for = "validator" /\ g.file = <<"validator", n>>
       /\ Progress!Phase(n, "validator") \in v6
    \/ /\ g.for = "clock" /\ g.file = <<"lease", n>>
       /\ g.turn = 1 /\ Progress!Out("lease", n) /\ Progress!Phase(n, "engineer") \in v6

(* A poll that looks knows something of one attempt. *)
LEMMA PollKnows ==
  ASSUME Progress!Inv, v4 # Progress!NoPoll
  PROVE  /\ v4 \in Goals /\ Len(v5) < MaxPolls
         /\ \E n \in 1 .. Attempts : Knows(v4, n)
  BY DEF Progress!Inv, Progress!PollFits, Goals, Knows

(* A poll goes on with another look. *)
LEMMA LookGoesTo ==
  ASSUME Progress!Inv, UNCHANGED <<v1, v2, v3, v5>>, v4 # Progress!NoPoll,
         v6' = IF v4' = Progress!NoPoll THEN {} ELSE v6,
         NEW g \in Goals, v4' = g, NEW n \in 1 .. Attempts, Knows(g, n)
  PROVE  Progress!Inv' /\ Progress!AnswerWasTrue
<1>1. v4' # Progress!NoPoll
  <2>1. g.pc = "look"
    BY DEF Goals
  <2> QED BY <2>1 DEF Progress!NoPoll
<1>2. v6' = v6
  BY <1>1
<1>3. /\ \A m : /\ Progress!Known(m)' = Progress!Known(m)
                /\ Progress!Unreported(m)' = Progress!Unreported(m)
      /\ \A kind, m : Progress!Out(kind, m)' = Progress!Out(kind, m)
  BY <1>2, PhaseStays DEF Progress!Known, Progress!Unreported
<1>4. Progress!PollFits'
  <2>1. v4' \in Goals /\ Len(v5') < MaxPolls
    BY PollKnows
  <2> QED BY <1>2, <1>3, <2>1 DEF Knows, Goals, Progress!PollFits
<1>5. Progress!AnswerWasTrue
  <2>1. Len(v5) \in Nat
    BY DEF Progress!Inv, Progress!AnswersFit
  <2> QED BY <2>1 DEF Progress!AnswerWasTrue
<1> QED BY <1>1, <1>2, <1>4, <1>5, LookGoes

(* A look finds the file in one of the roots, or in none, or has yet to look. *)
PollFound(root) ==
    \/ /\ root \in {"inflight", "evidence"} /\ v1[root][v4.file] # 0
       /\ root = "evidence" => v4.turn = 2
    \/ root = "none" /\ v4.turn = 2

(* What a look comes to. *)
LEMMA LookFinds ==
  ASSUME Progress!Inv, Progress!Look
  PROVE  /\ v4 # Progress!NoPoll /\ UNCHANGED <<v1, v2, v3>>
         /\ v6' = IF v4' = Progress!NoPoll THEN {} ELSE v6
         /\ \/ /\ v4.turn = 1 /\ v1["inflight"][v4.file] = 0
               /\ v4' = [v4 EXCEPT !.turn = 2] /\ UNCHANGED v5
            \/ \E root \in {"inflight", "evidence", "none"} : PollFound(root) /\ Progress!Resolved(root)
<1>1. v4 # Progress!NoPoll
  BY DEF Progress!Look, Progress!NoPoll
<1>2. v4.turn \in {1, 2}
  BY <1>1, PollKnows DEF Goals
<1> QED BY <1>1, <1>2 DEF Progress!Look, Progress!LookIn, PollFound

(* The second look is after the first one found nothing. *)
LEMMA LookTurns ==
  ASSUME Progress!LiveProgressAssumption, Progress!Inv, v4 # Progress!NoPoll,
         NEW n \in 1 .. Attempts, Knows(v4, n), v4.turn = 1, v1["inflight"][v4.file] = 0,
         NEW g, g = [v4 EXCEPT !.turn = 2]
  PROVE  Knows(g, n) /\ g \in Goals
<1>1. /\ g \in Goals /\ g.turn = 2 /\ g.for = v4.for /\ g.file = v4.file /\ g.mark = v4.mark
  BY PollKnows DEF Goals
<1>2. Progress!FilesFit /\ Progress!PhaseNow \in v6
  BY DEF Progress!Inv, Progress!SeenFits
<1>3. \A kind \in Progress!Kinds : v4.file = <<kind, n>> => ~ Progress!Out(kind, n)
  BY DEF Progress!Out
<1>4. Progress!Known(n) /\ Progress!Out("lease", n) =>
          Progress!Phase(n, Progress!PhaseOf(n)) \in v6
  BY DEF Progress!Known, Progress!LiveProgressAssumption
<1>5. CASE v4.for = "attempt" /\ v4.file = <<"lease", n>>
  <2>1. \A k \in 1 .. Attempts : k >= n => ~ Progress!Out("lease", k)
    BY <1>2, <1>3, <1>5, NoneLater DEF Progress!Kinds
  <2>2. CASE n = 1
    <3>1. Progress!Latest = {}
      BY <1>2, <2>1, <2>2, PhaseIs DEF Progress!Latest, Progress!LiveProgressAssumption
    <3> QED BY <1>1, <1>2, <1>5, <2>2, <3>1 DEF Knows, Progress!Known, Progress!PhaseNow
  <2>3. CASE n > 1
    <3>1. n - 1 \in 1 .. Attempts /\ n - 1 # 0
      BY <2>3 DEF Progress!LiveProgressAssumption
    <3>2. \A k \in 1 .. Attempts : k > n - 1 => ~ Progress!Out("lease", k)
      BY <2>1 DEF Progress!LiveProgressAssumption
    <3>3. Progress!Out("lease", n - 1) =>
              Progress!PhaseNow = Progress!Phase(n - 1, Progress!PhaseOf(n - 1))
      BY <1>2, <3>1, <3>2, LatestIs
    <3> QED BY <1>1, <1>2, <1>5, <3>1, <3>3 DEF Knows, Progress!Known
  <2> QED BY <2>2, <2>3 DEF Progress!LiveProgressAssumption
<1>6. CASE v4.for = "report" /\ v4.file = <<"report", n>>
  <2>1. ~ Progress!Out("report", n)
    BY <1>3, <1>6 DEF Progress!Kinds
  <2>2. Progress!Unreported(n)
    BY <1>2, <1>4, <1>6, <2>1, PhaseIs DEF Knows, Progress!Unreported
  <2> QED BY <1>1, <1>6, <2>2 DEF Knows
<1>7. CASE v4.for = "engineer" /\ v4.file = <<"engineer", n>>
  <2>1. ~ Progress!Out("engineer", n) /\ ~ Progress!Out("report", n)
    BY <1>2, <1>3, <1>7 DEF Progress!Kinds, Progress!FilesFit
  <2>2. Progress!Phase(n, "engineer") \in v6
    BY <1>2, <1>4, <1>7, <2>1, PhaseIs DEF Knows
  <2> QED BY <1>1, <1>7, <2>2 DEF Knows
<1>8. CASE v4.for = "validator"
  BY <1>1, <1>8 DEF Knows
<1>9. CASE v4.for = "clock"
  BY <1>3, <1>9 DEF Knows, Progress!Kinds
<1> QED BY <1>1, <1>5, <1>6, <1>7, <1>8, <1>9 DEF Knows

(* A copy that was found is of a file that is out. *)
LEMMA FoundIsOut ==
  ASSUME Progress!Inv, v4 # Progress!NoPoll, NEW n \in 1 .. Attempts, NEW kind \in Progress!Kinds,
         v4.file = <<kind, n>>, NEW root \in {"inflight", "evidence", "none"}, PollFound(root),
         root # "none"
  PROVE  Progress!Out(kind, n) /\ v1[root][v4.file] \in Nat
<1>1. <<kind, n>> \in Progress!Files /\ root \in Progress!Roots
  BY DEF Progress!Files, Progress!Roots
<1>2. v1[root][<<kind, n>>] # 0
  BY DEF PollFound
<1>3. v1[root][<<kind, n>>] \in 0 .. v2 /\ v2 \in Nat
  BY <1>1 DEF Progress!Inv, Progress!TypeOK
<1> QED BY <1>1, <1>2, <1>3 DEF Progress!Out, Progress!Inv, Progress!FilesFit, Progress!Roots

(* The goals a poll goes on with. *)
LEMMA GoalIs ==
  ASSUME NEW kind \in Progress!Kinds, NEW n \in 1 .. Attempts, NEW mark \in Nat,
         NEW then \in {"attempt", "report", "engineer", "validator", "clock"}
  PROVE  LET g == Progress!Goal(kind, n, then, mark)
         IN  /\ g \in Goals /\ g.for = then /\ g.file = <<kind, n>> /\ g.turn = 1 /\ g.mark = mark
  BY DEF Progress!Goal, Goals, Progress!Files

(* What is found or not decides what the poll looks for next, or answers. *)
LEMMA LookResolves ==
  ASSUME Progress!LiveProgressAssumption, Progress!Inv, v4 # Progress!NoPoll,
         UNCHANGED <<v1, v2, v3>>, v6' = IF v4' = Progress!NoPoll THEN {} ELSE v6,
         NEW root \in {"inflight", "evidence", "none"}, PollFound(root), Progress!Resolved(root)
  PROVE  Progress!Inv' /\ Progress!AnswerWasTrue
<1>1. PICK n \in 1 .. Attempts : Knows(v4, n)
  BY PollKnows
<1>2. v4.file[2] = n /\ v4.turn \in {1, 2} /\ v4.mark \in Nat
  BY <1>1, PollKnows DEF Knows, Goals
<1>3. root = "none" => v4.turn = 2
  BY DEF PollFound
<1>4. Progress!Known(n) /\ Progress!Out("lease", n) =>
          Progress!Phase(n, Progress!PhaseOf(n)) \in v6
  BY DEF Progress!Known, Progress!LiveProgressAssumption
<1>5. ASSUME NEW phase \in DOMAIN Progress!Rank, NEW m \in 0 .. Attempts, NEW start \in Nat,
             Progress!Answer(m, phase, start), Progress!Phase(m, phase) \in v6,
             phase = "engineer" => /\ m \in 1 .. Attempts /\ Progress!Out("lease", m)
                                   /\ start = v1["inflight"][<<"lease", m>>]
      PROVE  Progress!Inv' /\ Progress!AnswerWasTrue
  <2>1. v6' = {}
    BY <1>5 DEF Progress!Answer
  <2> QED BY <1>5, <2>1, LookAnswers
<1>6. ASSUME NEW kind \in Progress!Kinds, NEW m \in 1 .. Attempts, NEW mark \in Nat,
             NEW then \in {"attempt", "report", "engineer", "validator", "clock"}, UNCHANGED v5,
             v4' = Progress!Goal(kind, m, then, mark), Knows(Progress!Goal(kind, m, then, mark), m)
      PROVE  Progress!Inv' /\ Progress!AnswerWasTrue
  BY <1>6, GoalIs, LookGoesTo
<1>7. CASE v4.for = "attempt"
  <2>1. v4.file = <<"lease", n>> /\ Progress!Known(n) /\ (v4.turn = 2 => Progress!Known(n - 1))
    BY <1>1, <1>7 DEF Knows
  <2>2. CASE root # "none"
    <3>1. v4' = Progress!Goal("report", n, "report", 0) /\ UNCHANGED v5
      BY <1>2, <1>7, <2>2 DEF Progress!Resolved
    <3>2. Progress!Out("lease", n)
      BY <2>1, <2>2, FoundIsOut DEF Progress!Kinds
    <3>3. Knows(Progress!Goal("report", n, "report", 0), n)
      BY <2>1, <3>2 DEF Knows, Progress!Goal
    <3> QED BY <1>6, <3>1, <3>3 DEF Progress!Kinds
  <2>3. CASE root = "none" /\ n > 1
    <3>1. v4' = Progress!Goal("lease", n - 1, "attempt", 0) /\ UNCHANGED v5
      BY <1>2, <1>7, <2>3 DEF Progress!Resolved
    <3>2. n - 1 \in 1 .. Attempts
      BY <2>3 DEF Progress!LiveProgressAssumption
    <3>3. Knows(Progress!Goal("lease", n - 1, "attempt", 0), n - 1)
      BY <1>3, <2>1, <2>3 DEF Knows, Progress!Goal
    <3> QED BY <1>6, <3>1, <3>2, <3>3 DEF Progress!Kinds
  <2>4. CASE root = "none" /\ n = 1
    <3>1. Progress!Answer(0, "pending", 0)
      BY <1>2, <1>7, <2>4 DEF Progress!Resolved
    <3>2. Progress!Phase(0, "pending") \in v6
      BY <1>3, <2>1, <2>4 DEF Progress!Known
    <3>3. "pending" \in DOMAIN Progress!Rank /\ 0 \in 0 .. Attempts
      BY Ranks DEF Progress!LiveProgressAssumption
    <3> QED BY <1>5, <3>1, <3>2, <3>3
  <2>5. n > 1 \/ n = 1
    BY DEF Progress!LiveProgressAssumption
  <2> QED BY <2>2, <2>3, <2>4, <2>5
<1>8. CASE v4.for = "report"
  <2>1. /\ v4.file = <<"report", n>> /\ Progress!Out("lease", n) /\ Progress!Known(n)
        /\ v4.turn = 2 => Progress!Unreported(n)
    BY <1>1, <1>8 DEF Knows
  <2>2. PICK mark \in {0, 1} : mark = IF root # "none" THEN 1 ELSE 0
    OBVIOUS
  <2>3. v4' = Progress!Goal("engineer", n, "engineer", mark) /\ UNCHANGED v5
    BY <1>2, <1>8, <2>2 DEF Progress!Resolved
  <2>4. root # "none" => Progress!Out("report", n)
    BY <2>1, FoundIsOut DEF Progress!Kinds
  <2>5. Knows(Progress!Goal("engineer", n, "engineer", mark), n)
    BY <1>3, <2>1, <2>2, <2>4 DEF Knows, Progress!Goal
  <2> QED BY <1>6, <2>2, <2>3, <2>5 DEF Progress!Kinds
<1>9. CASE v4.for = "engineer"
  <2>1. /\ v4.file = <<"engineer", n>> /\ Progress!Out("lease", n) /\ Progress!Known(n)
        /\ \/ v4.mark = 1 /\ Progress!Out("report", n)
           \/ /\ v4.mark = 0 /\ Progress!Unreported(n)
              /\ v4.turn = 2 => Progress!Phase(n, "engineer") \in v6
    BY <1>1, <1>9 DEF Knows
  <2>2. CASE v4.mark = 1
    <3>1. Progress!Answer(n, "complete", 0)
      BY <1>2, <1>9, <2>2 DEF Progress!Resolved
    <3>2. Progress!PhaseOf(n) = "complete"
      BY <2>1, <2>2, PhaseIs DEF Progress!Inv
    <3>3. "complete" \in DOMAIN Progress!Rank /\ n \in 0 .. Attempts
      BY Ranks DEF Progress!LiveProgressAssumption
    <3> QED BY <1>4, <1>5, <2>1, <3>1, <3>2, <3>3
  <2>3. CASE v4.mark = 0 /\ root # "none"
    <3>1. Progress!Out("engineer", n) /\ v1[root][v4.file] \in Nat
      BY <2>1, <2>3, FoundIsOut DEF Progress!Kinds
    <3>2. PICK mark \in Nat : mark = v1[root][v4.file]
      BY <3>1
    <3>3. v4' = Progress!Goal("validator", n, "validator", mark) /\ UNCHANGED v5
      BY <1>2, <1>9, <2>3, <3>2 DEF Progress!Resolved
    <3>4. Knows(Progress!Goal("validator", n, "validator", mark), n)
      BY <2>1, <2>3, <3>1 DEF Knows, Progress!Goal, Progress!Unreported
    <3> QED BY <1>6, <3>3, <3>4 DEF Progress!Kinds
  <2>4. CASE v4.mark = 0 /\ root = "none"
    <3>1. v4' = Progress!Goal("lease", n, "clock", 0) /\ UNCHANGED v5
      BY <1>2, <1>9, <2>4 DEF Progress!Resolved
    <3>2. Knows(Progress!Goal("lease", n, "clock", 0), n)
      BY <1>3, <2>1, <2>4 DEF Knows, Progress!Goal
    <3> QED BY <1>6, <3>1, <3>2 DEF Progress!Kinds
  <2> QED BY <2>1, <2>2, <2>3, <2>4
<1>10. CASE v4.for = "validator"
  <2>1. v4.file = <<"validator", n>> /\ Progress!Phase(n, "validator") \in v6
    BY <1>1, <1>10 DEF Knows
  <2>2. root # "none" => v1[root][v4.file] \in Nat
    BY <2>1, FoundIsOut DEF Progress!Kinds
  <2>3. PICK start \in Nat : start = IF root # "none" THEN v1[root][v4.file] ELSE v4.mark
    BY <1>2, <2>2
  <2>4. Progress!Answer(n, "validator", start)
    BY <1>2, <1>10, <2>3 DEF Progress!Resolved
  <2>5. "validator" \in DOMAIN Progress!Rank /\ n \in 0 .. Attempts
    BY Ranks DEF Progress!LiveProgressAssumption
  <2> QED BY <1>5, <2>1, <2>4, <2>5
<1>11. CASE v4.for = "clock"
  <2>1. /\ v4.file = <<"lease", n>> /\ v4.turn = 1
        /\ Progress!Out("lease", n) /\ Progress!Phase(n, "engineer") \in v6
    BY <1>1, <1>11 DEF Knows
  <2>2. root = "inflight"
    BY <2>1 DEF PollFound
  <2>3. v1["inflight"][<<"lease", n>>] \in Nat
    BY <2>1, <2>2, FoundIsOut DEF Progress!Kinds
  <2>4. PICK start \in Nat : start = v1["inflight"][<<"lease", n>>]
    BY <2>3
  <2>5. Progress!Answer(n, "engineer", start)
    BY <1>2, <1>11, <2>1, <2>2, <2>4 DEF Progress!Resolved
  <2>6. "engineer" \in DOMAIN Progress!Rank /\ n \in 0 .. Attempts
    BY Ranks DEF Progress!LiveProgressAssumption
  <2> QED BY <1>5, <2>1, <2>4, <2>5, <2>6
<1> QED BY <1>1, <1>7, <1>8, <1>9, <1>10, <1>11 DEF Knows

(* Every look keeps the invariant, and answers what was seen. *)
LEMMA PollLooks ==
  ASSUME Progress!LiveProgressAssumption, Progress!Inv, Progress!Look
  PROVE  Progress!Inv' /\ Progress!AnswerWasTrue
<1>1. /\ v4 # Progress!NoPoll /\ UNCHANGED <<v1, v2, v3>>
      /\ v6' = IF v4' = Progress!NoPoll THEN {} ELSE v6
      /\ \/ /\ v4.turn = 1 /\ v1["inflight"][v4.file] = 0
            /\ v4' = [v4 EXCEPT !.turn = 2] /\ UNCHANGED v5
         \/ \E root \in {"inflight", "evidence", "none"} : PollFound(root) /\ Progress!Resolved(root)
  BY LookFinds
<1>2. CASE v4.turn = 1 /\ v1["inflight"][v4.file] = 0 /\ v4' = [v4 EXCEPT !.turn = 2] /\ UNCHANGED v5
  <2>1. PICK n \in 1 .. Attempts : Knows(v4, n)
    BY <1>1, PollKnows
  <2>2. PICK g : g = [v4 EXCEPT !.turn = 2]
    OBVIOUS
  <2>3. Knows(g, n) /\ g \in Goals
    BY <1>1, <1>2, <2>1, <2>2, LookTurns
  <2>4. v4' = g /\ UNCHANGED <<v1, v2, v3, v5>>
    BY <1>1, <1>2, <2>2
  <2> QED BY <1>1, <2>3, <2>4, LookGoesTo
<1>3. ASSUME NEW root \in {"inflight", "evidence", "none"}, PollFound(root), Progress!Resolved(root)
      PROVE  Progress!Inv' /\ Progress!AnswerWasTrue
  BY <1>1, <1>3, LookResolves
<1> QED BY <1>1, <1>2, <1>3

(* Every action keeps the invariant, and answers what was seen. *)
LEMMA ProgressStep ==
  ASSUME Progress!LiveProgressAssumption, Progress!Inv, Progress!Next
  PROVE  Progress!Inv' /\ Progress!AnswerWasTrue
<1>1. ASSUME UNCHANGED v5 PROVE Progress!AnswerWasTrue
  <2>1. Len(v5) \in Nat
    BY DEF Progress!Inv, Progress!AnswersFit
  <2> QED BY <1>1, <2>1 DEF Progress!AnswerWasTrue
<1>2. CASE Progress!Publish
  BY <1>1, <1>2, PublishStep DEF Progress!Publish
<1>3. CASE Progress!EndOperation
  BY <1>1, <1>3, EndStep DEF Progress!EndOperation
<1>4. CASE Progress!Promote
  <2>1. UNCHANGED v5
    BY <1>4 DEF Progress!Promote
  <2> QED BY <1>1, <1>4, <2>1, PromoteStep
<1>5. CASE Progress!Poll
  BY <1>1, <1>5, PollStep DEF Progress!Poll
<1>6. CASE Progress!Look
  BY <1>6, PollLooks
<1>7. CASE Progress!Unreadable
  BY <1>1, <1>7, UnreadableStep DEF Progress!Unreadable
<1> QED BY <1>2, <1>3, <1>4, <1>5, <1>6, <1>7 DEF Progress!Next

(* At first nothing has a clock. *)
LEMMA ClockStart == ASSUME Progress!LiveProgressAssumption, Progress!Init PROVE Progress!Clocked
<1>1. /\ \A r \in Progress!Roots, f \in Progress!Files : v1[r][f] = 0
      /\ v3 = FALSE /\ v4 = Progress!NoPoll /\ v5 = <<>>
  BY DEF Progress!Init
<1>2. \A kind \in Progress!Kinds, n \in 1 .. Attempts : <<kind, n>> \in Progress!Files
  BY DEF Progress!Files
<1>3. Progress!CopiesFit
  BY <1>1, <1>2 DEF Progress!CopiesFit, Progress!Kinds, Progress!Roots
<1>4. Progress!StartsFit
  BY <1>1 DEF Progress!StartsFit, Progress!Validating
<1> QED BY <1>3, <1>4 DEF Progress!Clocked

(* Whose report is there, has its phase of validation behind it. *)
LEMMA ReportedIsPast ==
  ASSUME Progress!LiveProgressAssumption, Progress!FilesFit, NEW n \in 1 .. Attempts,
         Progress!Out("report", n)
  PROVE  Progress!Before(Progress!Phase(n, "complete"), Progress!PhaseNow)
<1>1. Progress!Out("lease", n)
  BY DEF Progress!FilesFit
<1>2. n \in Progress!Latest /\ Progress!PhaseOf(n) = "complete"
  BY <1>1, PhaseIs
<1>3. PICK m \in Progress!Latest :
        /\ m \in 1 .. Attempts /\ \A k \in Progress!Latest : k <= m
        /\ Progress!PhaseNow = Progress!Phase(m, Progress!PhaseOf(m))
  BY <1>2, NowIs
<1>4. n < m \/ n = m
  BY <1>2, <1>3 DEF Progress!LiveProgressAssumption
<1>5. CASE n < m
  BY <1>3, <1>5 DEF Progress!Before, Progress!Phase
<1>6. CASE n = m
  BY <1>2, <1>3, <1>6, Ranks DEF Progress!Before, Progress!Phase
<1> QED BY <1>4, <1>5, <1>6

(* What the clocks rest on stays while files appear and move. *)
LEMMA ClockGoesOn ==
  ASSUME Progress!LiveProgressAssumption, Progress!Inv, Progress!Inv', Progress!Clocked,
         UNCHANGED <<v4, v5>>, v6 \subseteq v6', v6' \subseteq v6 \cup {Progress!PhaseNow'},
         v4 = Progress!NoPoll => v6' = {}, Progress!CopiesFit',
         \A f \in Progress!Files : v1["inflight"][f] # 0 => v1'["inflight"][f] = v1["inflight"][f]
  PROVE  Progress!Clocked'
<1>1. \A n \in 1 .. Attempts, kind \in Progress!Kinds :
          Progress!Out(kind, n) => /\ Progress!Out(kind, n)'
                                   /\ v1'["inflight"][<<kind, n>>] = v1["inflight"][<<kind, n>>]
  BY DEF Progress!Out, Progress!Files
<1>2. \A n \in 1 .. Attempts : Progress!Out("engineer", n) => Progress!OutputAt(n)' = Progress!OutputAt(n)
  BY <1>1 DEF Progress!OutputAt, Progress!Kinds
<1>3. ASSUME NEW n \in 1 .. Attempts, NEW start, Progress!StartFits(n, start)
      PROVE  Progress!StartFits(n, start)' /\ Progress!OutputAt(n)' = Progress!OutputAt(n)
  <2>1. Progress!OutputAt(n)' = Progress!OutputAt(n) /\ Progress!Out("engineer", n)'
    BY <1>1, <1>2, <1>3 DEF Progress!StartFits, Progress!Kinds
  <2>2. Progress!Out("report", n) => Progress!Out("report", n)'
    BY <1>1 DEF Progress!Kinds
  <2> QED BY <1>3, <2>1, <2>2 DEF Progress!StartFits
<1>4. ASSUME NEW n \in 1 .. Attempts, \A s \in v6 : Progress!Before(Progress!Phase(n, "complete"), s)
      PROVE  \A s \in v6' : Progress!Before(Progress!Phase(n, "complete"), s)
  <2>1. CASE v4 = Progress!NoPoll
    BY <2>1
  <2>2. CASE v4 # Progress!NoPoll
    <3>1. Progress!PhaseNow \in v6 /\ Progress!PhaseNow \in Moments
      BY <2>2, NowIs DEF Progress!Inv, Progress!SeenFits
    <3>2. /\ v6' \subseteq Moments /\ Progress!PhaseNow' \in v6'
          /\ \A s \in v6' : Progress!Before(s, Progress!PhaseNow')
      BY <2>2 DEF Progress!Inv, Progress!SeenFits, Moments
    <3>3. Progress!Before(Progress!PhaseNow, Progress!PhaseNow')
      BY <3>1, <3>2
    <3>4. PICK done : done = Progress!Phase(n, "complete")
      OBVIOUS
    <3>5. /\ done.attempt \in 0 .. Attempts /\ done.phase \in DOMAIN Progress!Rank
          /\ Progress!Before(done, Progress!PhaseNow)
      BY <1>4, <3>1, <3>4, Ranks DEF Progress!Phase, Progress!LiveProgressAssumption
    <3>6. PICK was, is : /\ was = Progress!PhaseNow /\ is = Progress!PhaseNow'
                         /\ was \in Moments /\ is \in Moments
      BY <3>1, <3>2
    <3>7. Progress!Before(done, is)
      BY <3>3, <3>5, <3>6, Ordered DEF Moments
    <3> QED BY <1>4, <3>4, <3>6, <3>7
  <2> QED BY <2>1, <2>2
<1>5. Progress!Validating' = Progress!Validating
  BY DEF Progress!Validating
<1>6. ASSUME NEW j \in Progress!Validating, NEW n, n = v5[j].attempt
      PROVE  /\ n \in 1 .. Attempts /\ Progress!StartFits(n, v5[j].start)'
             /\ v5[j].start # Progress!OutputAt(n)' =>
                    \A s \in v6' : Progress!Before(Progress!Phase(n, "complete"), s)
             /\ \A k \in Progress!Validating :
                    j < k /\ v5[k].attempt = n => v5[j].start = Progress!OutputAt(n)'
  <2>1. /\ n \in 1 .. Attempts /\ Progress!StartFits(n, v5[j].start)
        /\ v5[j].start # Progress!OutputAt(n) =>
               \A s \in v6 : Progress!Before(Progress!Phase(n, "complete"), s)
        /\ \A k \in Progress!Validating :
               j < k /\ v5[k].attempt = n => v5[j].start = Progress!OutputAt(n)
    BY <1>6 DEF Progress!Clocked, Progress!StartsFit
  <2>2. Progress!StartFits(n, v5[j].start)' /\ Progress!OutputAt(n)' = Progress!OutputAt(n)
    BY <1>3, <2>1
  <2> QED BY <1>4, <2>1, <2>2
<1>7. v4 # Progress!NoPoll /\ v4.for = "validator" => Progress!StartFits(v4.file[2], v4.mark)'
  <2> SUFFICES ASSUME v4 # Progress!NoPoll, v4.for = "validator"
               PROVE  Progress!StartFits(v4.file[2], v4.mark)'
    OBVIOUS
  <2>1. PICK n \in 1 .. Attempts : v4.file = <<"validator", n>>
    BY PollKnows DEF Knows
  <2>2. Progress!StartFits(n, v4.mark)
    BY <2>1 DEF Progress!Clocked, Progress!StartsFit
  <2> QED BY <1>3, <2>1, <2>2
<1>8. Progress!StartsFit'
  BY <1>5, <1>6, <1>7 DEF Progress!StartsFit
<1> QED BY <1>8 DEF Progress!Clocked

(* A copy that is put is the newest. *)
LEMMA CopiesGoOn ==
  ASSUME Progress!LiveProgressAssumption, Progress!Inv, Progress!Clocked,
         NEW root \in Progress!Roots, NEW kind \in Progress!Kinds, NEW m \in 1 .. Attempts,
         Progress!Put(root, <<kind, m>>),
         root = "evidence" \/ kind # "engineer" => Progress!OutputAt(m) # 0 \/ kind \notin {"engineer", "validator"},
         \A n \in 1 .. Attempts :
             v3' \/ v1'["evidence"][<<"lease", n>>] # 0 \/ v1'["evidence"][<<"engineer", n>>] # 0 =>
                 (v1'["inflight"][<<"engineer", n>>] # 0 => v1'["inflight"][<<"report", n>>] # 0)
  PROVE  Progress!CopiesFit'
<1>1. Progress!TypeOK /\ v2 \in Nat /\ <<kind, m>> \in Progress!Files /\ Progress!FilesFit
  BY DEF Progress!Inv, Progress!Files
<1>2. /\ v2' = v2 + 1 /\ v1[root][<<kind, m>>] = 0 /\ v1'[root][<<kind, m>>] = v2'
      /\ \A r \in Progress!Roots, g \in Progress!Files :
             r # root \/ g # <<kind, m>> => v1'[r][g] = v1[r][g]
      /\ \A r \in Progress!Roots, g \in Progress!Files : v1[r][g] \in 0 .. v2
  <2>1. \A r \in Progress!Roots, g \in Progress!Files : v1[r][g] \in 0 .. v2
    BY <1>1 DEF Progress!TypeOK
  <2> QED BY <1>1, <2>1, PutIs
<1>3. ASSUME NEW n \in 1 .. Attempts, NEW r \in Progress!Roots, NEW k \in {"engineer", "validator"},
             v1'[r][<<k, n>>] # 0
      PROVE  /\ v1'["inflight"][<<"engineer", n>>] # 0
             /\ v1'["inflight"][<<"engineer", n>>] <= v1'[r][<<k, n>>]
  <2>1. /\ "inflight" \in Progress!Roots /\ <<k, n>> \in Progress!Files
        /\ <<"engineer", n>> \in Progress!Files
    BY DEF Progress!Roots, Progress!Files, Progress!Kinds
  <2>2. v1[r][<<k, n>>] # 0 =>
            /\ v1["inflight"][<<"engineer", n>>] # 0
            /\ v1["inflight"][<<"engineer", n>>] <= v1[r][<<k, n>>]
    BY DEF Progress!Clocked, Progress!CopiesFit, Progress!OutputAt
  <2>3. CASE r = root /\ <<k, n>> = <<kind, m>>
    <3>1. k = kind /\ n = m
      BY <2>3
    <3>2. CASE root = "inflight" /\ kind = "engineer"
      BY <1>1, <1>2, <2>3, <3>1, <3>2
    <3>3. CASE root = "evidence" \/ kind # "engineer"
      <4>1. v1["inflight"][<<"engineer", n>>] # 0
        BY <3>1, <3>3 DEF Progress!OutputAt
      <4>2. v1'["inflight"][<<"engineer", n>>] = v1["inflight"][<<"engineer", n>>]
        BY <1>2, <2>1, <2>3, <3>3, <4>1
      <4>3. v1["inflight"][<<"engineer", n>>] \in 0 .. v2 /\ v1'[r][<<k, n>>] = v2 + 1
        BY <1>2, <2>1, <2>3
      <4> QED BY <1>1, <4>1, <4>2, <4>3
    <3> QED BY <3>2, <3>3 DEF Progress!Roots
  <2>4. CASE ~ (r = root /\ <<k, n>> = <<kind, m>>)
    <3>1. v1'[r][<<k, n>>] = v1[r][<<k, n>>]
      BY <1>2, <2>1, <2>4
    <3>2. v1'["inflight"][<<"engineer", n>>] = v1["inflight"][<<"engineer", n>>]
      BY <1>2, <1>3, <2>1, <2>2, <3>1
    <3> QED BY <1>3, <2>2, <3>1, <3>2
  <2> QED BY <2>3, <2>4
<1> QED BY <1>3 DEF Progress!CopiesFit, Progress!OutputAt, Progress!Out

(* A file that is published leaves the clocks. *)
LEMMA ClockPublishes ==
  ASSUME Progress!LiveProgressAssumption, Progress!Inv, Progress!Inv', Progress!Clocked,
         Progress!Publish
  PROVE  Progress!Clocked'
<1>1. Progress!TypeOK /\ v2 \in Nat /\ Progress!FilesFit
  BY DEF Progress!Inv
<1>2. PICK n \in 1 .. Attempts, kind \in Progress!Kinds :
        /\ kind \in Progress!Following(n)
        /\ v1["evidence"][<<"lease", n>>] = 0
        /\ Progress!Put("inflight", <<kind, n>>)
  BY DEF Progress!Publish
<1>3. ~ v3 /\ UNCHANGED <<v3, v4, v5>> /\ Progress!Observe
  BY DEF Progress!Publish
<1>4. /\ v1["inflight"][<<kind, n>>] = 0
      /\ \A g \in Progress!Files : g # <<kind, n>> => v1'["inflight"][g] = v1["inflight"][g]
      /\ \A g \in Progress!Files : v1'["evidence"][g] = v1["evidence"][g]
      /\ v1'["inflight"][<<kind, n>>] # 0
  <2>1. "inflight" \in Progress!Roots /\ "evidence" \in Progress!Roots /\ <<kind, n>> \in Progress!Files
    BY <1>2 DEF Progress!Roots, Progress!Files
  <2> QED BY <1>1, <1>2, <2>1, PutIs
<1>5. kind = "validator" => Progress!OutputAt(n) # 0
  BY <1>1, <1>2, FollowingIs DEF Progress!OutputAt, Progress!Out
<1>6. \A m \in 1 .. Attempts :
          v3' \/ v1'["evidence"][<<"lease", m>>] # 0 \/ v1'["evidence"][<<"engineer", m>>] # 0 =>
              (v1'["inflight"][<<"engineer", m>>] # 0 => v1'["inflight"][<<"report", m>>] # 0)
  <2> SUFFICES ASSUME NEW m \in 1 .. Attempts,
                      v1["evidence"][<<"lease", m>>] # 0 \/ v1["evidence"][<<"engineer", m>>] # 0,
                      v1'["inflight"][<<"engineer", m>>] # 0
               PROVE  v1'["inflight"][<<"report", m>>] # 0
    BY <1>3, <1>4 DEF Progress!Files, Progress!Kinds
  <2>1. <<"engineer", m>> \in Progress!Files /\ <<"report", m>> \in Progress!Files
    BY DEF Progress!Files, Progress!Kinds
  <2>2. <<"engineer", m>> # <<kind, n>>
    <3> SUFFICES ASSUME m = n, kind = "engineer" PROVE FALSE
      OBVIOUS
    <3>1. v1["inflight"][<<"engineer", m>>] = 0 /\ v1["evidence"][<<"engineer", m>>] # 0
      BY <1>2, <1>4
    <3> QED BY <1>1, <2>1, <3>1 DEF Progress!FilesFit
  <2>3. v1["inflight"][<<"engineer", m>>] # 0
    BY <1>4, <2>1, <2>2
  <2>4. v1["inflight"][<<"report", m>>] # 0
    BY <2>3 DEF Progress!Clocked, Progress!CopiesFit, Progress!Out
  <2> QED BY <1>4, <2>1, <2>4
<1>7. Progress!CopiesFit'
  BY <1>2, <1>5, <1>6, CopiesGoOn DEF Progress!Roots
<1>8. \A f \in Progress!Files : v1["inflight"][f] # 0 => v1'["inflight"][f] = v1["inflight"][f]
  BY <1>4
<1>9. v6' = IF v4 = Progress!NoPoll THEN {} ELSE v6 \cup {Progress!PhaseNow'}
  BY <1>3 DEF Progress!Observe
<1>10. v6 \subseteq v6'
  BY <1>9 DEF Progress!Inv, Progress!SeenFits
<1> QED BY <1>3, <1>7, <1>8, <1>9, <1>10, ClockGoesOn

(* A promotion leaves the clocks. *)
LEMMA ClockPromotes ==
  ASSUME Progress!LiveProgressAssumption, Progress!Inv, Progress!Inv', Progress!Clocked,
         Progress!Promote
  PROVE  Progress!Clocked'
<1>1. Progress!TypeOK /\ v2 \in Nat /\ Progress!FilesFit
  BY DEF Progress!Inv
<1>2. PICK f \in Progress!Files : v1["inflight"][f] # 0 /\ Progress!Put("evidence", f)
  BY DEF Progress!Promote
<1>3. PICK kind \in Progress!Kinds, n \in 1 .. Attempts : f = <<kind, n>>
  BY DEF Progress!Files
<1>4. v3 /\ UNCHANGED <<v4, v5>> /\ Progress!Observe
  BY DEF Progress!Promote
<1>5. \A g \in Progress!Files : v1'["inflight"][g] = v1["inflight"][g]
  <2>1. "inflight" \in Progress!Roots /\ "evidence" \in Progress!Roots
    BY DEF Progress!Roots
  <2> QED BY <1>1, <1>2, <2>1, PutIs
<1>6. kind \in {"engineer", "validator"} => Progress!OutputAt(n) # 0
  BY <1>2, <1>3 DEF Progress!Clocked, Progress!CopiesFit, Progress!Roots
<1>7. \A m \in 1 .. Attempts :
          v1'["inflight"][<<"engineer", m>>] # 0 => v1'["inflight"][<<"report", m>>] # 0
  <2>1. \A m \in 1 .. Attempts : <<"engineer", m>> \in Progress!Files /\ <<"report", m>> \in Progress!Files
    BY DEF Progress!Files, Progress!Kinds
  <2>2. \A m \in 1 .. Attempts :
            v1["inflight"][<<"engineer", m>>] # 0 => v1["inflight"][<<"report", m>>] # 0
    BY <1>4 DEF Progress!Clocked, Progress!CopiesFit, Progress!Out
  <2> QED BY <1>5, <2>1, <2>2
<1>8. Progress!CopiesFit'
  BY <1>2, <1>3, <1>6, <1>7, CopiesGoOn DEF Progress!Roots
<1>9. v6' = IF v4 = Progress!NoPoll THEN {} ELSE v6 \cup {Progress!PhaseNow'}
  BY <1>4 DEF Progress!Observe
<1>10. v6 \subseteq v6'
  BY <1>9 DEF Progress!Inv, Progress!SeenFits
<1> QED BY <1>4, <1>5, <1>8, <1>9, <1>10, ClockGoesOn

(* An operation that ends has its last attempt reported, or without output. *)
LEMMA ClockEnds ==
  ASSUME Progress!LiveProgressAssumption, Progress!Inv, Progress!Inv', Progress!Clocked,
         Progress!EndOperation
  PROVE  Progress!Clocked'
<1>1. Progress!FilesFit /\ UNCHANGED <<v1, v2, v4, v5, v6>>
  BY DEF Progress!Inv, Progress!EndOperation
<1>2. PICK n \in 1 .. Attempts :
        Progress!Following(n) \in {{}, {"engineer"}} /\ v1["evidence"][<<"lease", n>>] = 0
  BY DEF Progress!EndOperation, Progress!Over
<1>3. \A k \in Progress!Kinds : Progress!Out(k, n) <=> v1["inflight"][<<k, n>>] # 0
  BY DEF Progress!Out
<1>4. /\ Progress!Out("lease", n)
      /\ Progress!Out("engineer", n) => Progress!Out("report", n)
  <2>1. /\ Progress!Out("engineer", n) => Progress!Out("lease", n)
        /\ Progress!Out("report", n) => Progress!Out("engineer", n)
        /\ Progress!Out("validator", n) \/ Progress!Out("assessment", n) => Progress!Out("report", n)
    BY <1>1 DEF Progress!FilesFit
  <2> QED BY <1>2, <1>3, <2>1 DEF Progress!Following, Progress!Kinds
<1>5. ASSUME NEW m \in 1 .. Attempts, Progress!Out("engineer", m) PROVE Progress!Out("report", m)
  <2>1. CASE m = n
    BY <1>4, <1>5, <2>1
  <2>2. CASE m < n
    <3>1. v1["evidence"][<<"lease", m>>] # 0
      BY <1>1, <1>4, <2>2 DEF Progress!FilesFit
    <3> QED BY <1>5, <3>1 DEF Progress!Clocked, Progress!CopiesFit
  <2>3. CASE m > n
    <3>1. Progress!Out("lease", m)
      BY <1>1, <1>5 DEF Progress!FilesFit
    <3>2. v1["evidence"][<<"lease", n>>] # 0
      BY <1>1, <2>3, <3>1 DEF Progress!FilesFit
    <3> QED BY <1>2, <3>2
  <2> QED BY <2>1, <2>2, <2>3 DEF Progress!LiveProgressAssumption
<1>6. Progress!CopiesFit'
  BY <1>1, <1>5 DEF Progress!Clocked, Progress!CopiesFit, Progress!Out, Progress!OutputAt
<1>7. v4 = Progress!NoPoll => v6' = {}
  BY <1>1 DEF Progress!Inv, Progress!SeenFits
<1> QED BY <1>1, <1>6, <1>7, ClockGoesOn

(* A poll that begins or looks further leaves the clocks. *)
LEMMA ClockStays ==
  ASSUME Progress!Clocked, UNCHANGED <<v1, v5>>, v3' => v3,
         \A n \in 1 .. Attempts :
             \/ \A s \in v6' : Progress!Before(Progress!Phase(n, "complete"), s)
             \/ v6' \subseteq v6
             \/ ~ Progress!Out("report", n),
         v4' # Progress!NoPoll /\ v4'.for = "validator" => Progress!StartFits(v4'.file[2], v4'.mark)
  PROVE  Progress!Clocked'
<1>1. \A n : /\ Progress!OutputAt(n)' = Progress!OutputAt(n)
             /\ \A kind : Progress!Out(kind, n)' = Progress!Out(kind, n)
  BY DEF Progress!OutputAt, Progress!Out
<1>2. \A n, start : Progress!StartFits(n, start)' = Progress!StartFits(n, start)
  BY <1>1 DEF Progress!StartFits
<1>3. Progress!CopiesFit'
  BY <1>1 DEF Progress!Clocked, Progress!CopiesFit
<1>4. Progress!Validating' = Progress!Validating
  BY DEF Progress!Validating
<1>5. ASSUME NEW j \in Progress!Validating, NEW n, n = v5[j].attempt
      PROVE  /\ n \in 1 .. Attempts /\ Progress!StartFits(n, v5[j].start)
             /\ v5[j].start # Progress!OutputAt(n) =>
                    \A s \in v6' : Progress!Before(Progress!Phase(n, "complete"), s)
             /\ \A k \in Progress!Validating :
                    j < k /\ v5[k].attempt = n => v5[j].start = Progress!OutputAt(n)
  <2>1. /\ n \in 1 .. Attempts /\ Progress!StartFits(n, v5[j].start)
        /\ v5[j].start # Progress!OutputAt(n) =>
               \A s \in v6 : Progress!Before(Progress!Phase(n, "complete"), s)
        /\ \A k \in Progress!Validating :
               j < k /\ v5[k].attempt = n => v5[j].start = Progress!OutputAt(n)
    BY <1>5 DEF Progress!Clocked, Progress!StartsFit
  <2>2. v5[j].start # Progress!OutputAt(n) => Progress!Out("report", n)
    BY <2>1 DEF Progress!StartFits
  <2> QED BY <2>1, <2>2
<1>6. Progress!StartsFit'
  BY <1>1, <1>2, <1>4, <1>5 DEF Progress!StartsFit
<1> QED BY <1>3, <1>6 DEF Progress!Clocked

(* Whoever was seen to be validated has only answers of the output's time. *)
LEMMA ClockAnswers ==
  ASSUME Progress!LiveProgressAssumption, Progress!Inv, Progress!Clocked,
         UNCHANGED <<v1, v2, v3>>, v6' = {},
         NEW n \in 0 .. Attempts, NEW phase \in DOMAIN Progress!Rank, NEW start \in Nat,
         Progress!Answer(n, phase, start),
         phase = "validator" => /\ n \in 1 .. Attempts /\ Progress!StartFits(n, start)
                                /\ Progress!Phase(n, "validator") \in v6
  PROVE  Progress!Clocked'
<1> DEFINE answer == [attempt |-> n, phase |-> phase, start |-> start]
           Answers == [attempt: 0 .. Attempts, phase: DOMAIN Progress!Rank, start: Nat]
<1>1. v5' = Append(v5, answer) /\ v4' = Progress!NoPoll
  BY DEF Progress!Answer
<1>2. answer \in Answers /\ v5 \in Seq(Answers)
  BY DEF Progress!Inv, Progress!AnswersFit
<1>3. /\ Len(v5') = Len(v5) + 1 /\ Len(v5) \in Nat
      /\ v5'[Len(v5) + 1] = answer /\ \A j \in 1 .. Len(v5) : v5'[j] = v5[j]
  <2> HIDE DEF Answers, answer
  <2> QED BY ONLY <1>1, <1>2
<1>4. answer.attempt = n /\ answer.phase = phase /\ answer.start = start
  OBVIOUS
<1> HIDE DEF answer
<1>5. /\ \A m : Progress!OutputAt(m)' = Progress!OutputAt(m)
      /\ \A m, kind : Progress!Out(kind, m)' = Progress!Out(kind, m)
  BY DEF Progress!OutputAt, Progress!Out
<1>6. \A m, s : Progress!StartFits(m, s)' = Progress!StartFits(m, s)
  BY <1>5 DEF Progress!StartFits
<1>7. Progress!CopiesFit'
  BY <1>5 DEF Progress!Clocked, Progress!CopiesFit
<1>8. \A j \in Progress!Validating' :
          \/ v5'[j] = v5[j] /\ j \in Progress!Validating
          \/ v5'[j] = answer /\ j = Len(v5) + 1 /\ phase = "validator"
  <2>1. \A j \in 1 .. Len(v5') : j \in 1 .. Len(v5) \/ j = Len(v5) + 1
    BY ONLY <1>3
  <2> QED BY <1>3, <1>4, <2>1 DEF Progress!Validating
<1>9. \A j \in Progress!Validating : j \in 1 .. Len(v5)
  BY DEF Progress!Validating
<1>10. ASSUME phase = "validator", NEW j \in Progress!Validating, v5[j].attempt = n
       PROVE  v5[j].start = Progress!OutputAt(n)
  <2> SUFFICES ASSUME v5[j].start # Progress!OutputAt(n) PROVE FALSE
    OBVIOUS
  <2>1. Progress!Before(Progress!Phase(n, "complete"), Progress!Phase(n, "validator"))
    BY <1>10 DEF Progress!Clocked, Progress!StartsFit
  <2>2. n \in Nat
    BY DEF Progress!LiveProgressAssumption
  <2> QED BY <2>1, <2>2, Ranks DEF Progress!Before, Progress!Phase
<1>11. ASSUME NEW j \in Progress!Validating', NEW m, m = v5'[j].attempt
       PROVE  /\ m \in 1 .. Attempts /\ Progress!StartFits(m, v5'[j].start)
              /\ \A k \in Progress!Validating' :
                     j < k /\ v5'[k].attempt = m => v5'[j].start = Progress!OutputAt(m)
  <2>1. CASE v5'[j] = v5[j] /\ j \in Progress!Validating
    <3>1. /\ m \in 1 .. Attempts /\ Progress!StartFits(m, v5[j].start)
          /\ \A k \in Progress!Validating :
                 j < k /\ v5[k].attempt = m => v5[j].start = Progress!OutputAt(m)
      BY <1>11, <2>1 DEF Progress!Clocked, Progress!StartsFit
    <3>2. ASSUME NEW k \in Progress!Validating', j < k, v5'[k].attempt = m
          PROVE  v5'[j].start = Progress!OutputAt(m)
      BY <1>4, <1>8, <1>10, <1>11, <2>1, <3>1, <3>2
    <3> QED BY <2>1, <3>1, <3>2
  <2>2. CASE v5'[j] = answer /\ j = Len(v5) + 1 /\ phase = "validator"
    <3>1. ASSUME NEW k \in Progress!Validating', j < k PROVE FALSE
      <4>1. k \in 1 .. Len(v5) \/ k = Len(v5) + 1
        BY <1>8, <1>9
      <4> QED BY ONLY <1>3, <2>2, <3>1, <4>1
    <3> QED BY <1>4, <1>11, <2>2, <3>1
  <2> QED BY <1>8, <2>1, <2>2
<1>12. Progress!StartsFit'
  BY <1>1, <1>5, <1>6, <1>11 DEF Progress!StartsFit
<1> QED BY <1>7, <1>12 DEF Progress!Clocked

(* What a look finds is no older than the output, and newer only with a report. *)
LEMMA ClockLooks ==
  ASSUME Progress!LiveProgressAssumption, Progress!Inv, Progress!Clocked, Progress!Look
  PROVE  Progress!Clocked'
<1>1. /\ v4 # Progress!NoPoll /\ UNCHANGED <<v1, v2, v3>>
      /\ v6' = IF v4' = Progress!NoPoll THEN {} ELSE v6
      /\ \/ v4' = [v4 EXCEPT !.turn = 2] /\ UNCHANGED v5
         \/ \E root \in {"inflight", "evidence", "none"} : PollFound(root) /\ Progress!Resolved(root)
  BY LookFinds
<1>2. v6' \subseteq v6
  BY <1>1
<1>3. v4 \in Goals
  BY <1>1, PollKnows
<1>4. PICK n \in 1 .. Attempts : Knows(v4, n)
  BY <1>1, PollKnows
<1>5. v4.file[2] = n /\ v4.mark \in Nat
  BY <1>3, <1>4 DEF Knows, Goals
<1>6. v4.for = "validator" => Progress!StartFits(n, v4.mark)
  BY <1>1, <1>5 DEF Progress!Clocked, Progress!StartsFit
<1>7. CASE v4' = [v4 EXCEPT !.turn = 2] /\ UNCHANGED v5
  <2>1. v4'.for = v4.for /\ v4'.file = v4.file /\ v4'.mark = v4.mark
    BY <1>3, <1>7 DEF Goals
  <2> QED BY <1>1, <1>2, <1>5, <1>6, <1>7, <2>1, ClockStays
<1>8. ASSUME NEW root \in {"inflight", "evidence", "none"}, PollFound(root), Progress!Resolved(root)
      PROVE  Progress!Clocked'
  <2>1. ASSUME NEW kind \in Progress!Kinds, root # "none", v4.file = <<kind, n>>,
               kind \in {"engineer", "validator"}
        PROVE  /\ v1[root][v4.file] \in Nat /\ Progress!StartFits(n, v1[root][v4.file])
    <3>1. Progress!Out(kind, n) /\ v1[root][v4.file] \in Nat
      BY <1>1, <1>8, <2>1, FoundIsOut
    <3>2. v1[root][<<kind, n>>] # 0 /\ root \in Progress!Roots
      BY <1>8, <2>1 DEF PollFound, Progress!Roots
    <3>3. Progress!OutputAt(n) # 0 /\ Progress!OutputAt(n) <= v1[root][<<kind, n>>]
      BY <2>1, <3>2 DEF Progress!Clocked, Progress!CopiesFit
    <3>4. v1[root][<<kind, n>>] # Progress!OutputAt(n) => Progress!Out("report", n)
      <4>1. CASE kind = "validator"
        BY <3>1, <4>1 DEF Progress!Inv, Progress!FilesFit
      <4>2. CASE kind = "engineer" /\ root = "inflight"
        BY <4>2 DEF Progress!OutputAt
      <4>3. CASE kind = "engineer" /\ root = "evidence"
        BY <3>1, <3>2, <4>3 DEF Progress!Clocked, Progress!CopiesFit
      <4> QED BY <2>1, <3>2, <4>1, <4>2, <4>3 DEF Progress!Roots
    <3>5. Progress!Out("engineer", n)
      BY <3>3 DEF Progress!OutputAt, Progress!Out
    <3> QED BY <2>1, <3>1, <3>3, <3>4, <3>5 DEF Progress!StartFits
  <2>2. ASSUME NEW kind, NEW m, NEW then, NEW mark, v4' = Progress!Goal(kind, m, then, mark),
               UNCHANGED v5, then = "validator" => m = n /\ Progress!StartFits(n, mark)
        PROVE  Progress!Clocked'
    <3>1. v4'.for = then /\ v4'.file[2] = m /\ v4'.mark = mark
      BY <2>2 DEF Progress!Goal
    <3> QED BY <1>1, <1>2, <2>2, <3>1, ClockStays
  <2>3. ASSUME NEW m \in 0 .. Attempts, NEW phase \in DOMAIN Progress!Rank, NEW start \in Nat,
               Progress!Answer(m, phase, start),
               phase = "validator" => /\ m = n /\ Progress!StartFits(n, start)
                                      /\ Progress!Phase(n, "validator") \in v6
        PROVE  Progress!Clocked'
    <3>1. v6' = {}
      BY <1>1, <2>3 DEF Progress!Answer
    <3> QED BY <1>1, <2>3, <3>1, ClockAnswers
  <2>4. CASE v4.for = "attempt"
    <3>1. \/ v4' = Progress!Goal("report", n, "report", 0) /\ UNCHANGED v5
          \/ v4' = Progress!Goal("lease", n - 1, "attempt", 0) /\ UNCHANGED v5
          \/ Progress!Answer(0, "pending", 0)
      BY <1>5, <1>8, <2>4 DEF Progress!Resolved
    <3>2. "pending" \in DOMAIN Progress!Rank /\ 0 \in 0 .. Attempts
      BY Ranks DEF Progress!LiveProgressAssumption
    <3> QED BY <2>2, <2>3, <3>1, <3>2
  <2>5. CASE v4.for = "report"
    <3>1. \E mark \in {0, 1} : v4' = Progress!Goal("engineer", n, "engineer", mark) /\ UNCHANGED v5
      BY <1>5, <1>8, <2>5 DEF Progress!Resolved
    <3> QED BY <2>2, <3>1
  <2>6. CASE v4.for = "engineer"
    <3>1. v4.file = <<"engineer", n>>
      BY <1>4, <2>6 DEF Knows
    <3>2. \/ Progress!Answer(n, "complete", 0)
          \/ /\ root # "none" /\ UNCHANGED v5
             /\ v4' = Progress!Goal("validator", n, "validator", v1[root][v4.file])
          \/ v4' = Progress!Goal("lease", n, "clock", 0) /\ UNCHANGED v5
      BY <1>5, <1>8, <2>6 DEF Progress!Resolved
    <3>3. root # "none" => Progress!StartFits(n, v1[root][v4.file])
      BY <2>1, <3>1 DEF Progress!Kinds
    <3>4. "complete" \in DOMAIN Progress!Rank /\ n \in 0 .. Attempts
      BY Ranks DEF Progress!LiveProgressAssumption
    <3> QED BY <2>2, <2>3, <3>2, <3>3, <3>4
  <2>7. CASE v4.for = "validator"
    <3>1. v4.file = <<"validator", n>> /\ Progress!Phase(n, "validator") \in v6
      BY <1>4, <2>7 DEF Knows
    <3>2. PICK start : start = IF root # "none" THEN v1[root][v4.file] ELSE v4.mark
      OBVIOUS
    <3>3. start \in Nat /\ Progress!StartFits(n, start)
      BY <1>5, <1>6, <2>1, <2>7, <3>1, <3>2 DEF Progress!Kinds
    <3>4. Progress!Answer(n, "validator", start)
      BY <1>5, <1>8, <2>7, <3>2 DEF Progress!Resolved
    <3>5. "validator" \in DOMAIN Progress!Rank /\ n \in 0 .. Attempts
      BY Ranks DEF Progress!LiveProgressAssumption
    <3> QED BY <2>3, <3>1, <3>3, <3>4, <3>5
  <2>8. CASE v4.for = "clock"
    <3>1. v4.file = <<"lease", n>> /\ "lease" \in Progress!Kinds
      BY <1>4, <2>8 DEF Knows, Progress!Kinds
    <3>2. PICK start : start = IF root # "none" THEN v1[root][v4.file] ELSE 0
      OBVIOUS
    <3>3. start \in Nat
      BY <1>1, <1>8, <3>1, <3>2, FoundIsOut
    <3>4. Progress!Answer(n, "engineer", start)
      BY <1>5, <1>8, <2>8, <3>2 DEF Progress!Resolved
    <3>5. "engineer" \in DOMAIN Progress!Rank /\ n \in 0 .. Attempts
      BY Ranks DEF Progress!LiveProgressAssumption
    <3> QED BY <2>3, <3>3, <3>4, <3>5
  <2> QED BY <1>3, <2>4, <2>5, <2>6, <2>7, <2>8 DEF Goals
<1> QED BY <1>1, <1>7, <1>8

(* Every action leaves the clocks. *)
LEMMA ClockStep ==
  ASSUME Progress!LiveProgressAssumption, Progress!Inv, Progress!Inv', Progress!Clocked,
         Progress!Next
  PROVE  Progress!Clocked'
<1>1. CASE Progress!Poll
  <2>1. /\ v6' = {Progress!PhaseNow} /\ UNCHANGED <<v1, v3, v5>>
        /\ v4' = Progress!Goal("lease", Attempts, "attempt", 0)
    BY <1>1 DEF Progress!Poll
  <2>2. v4'.for # "validator"
    BY <2>1 DEF Progress!Goal
  <2>3. \A n \in 1 .. Attempts : Progress!Out("report", n) =>
            \A s \in v6' : Progress!Before(Progress!Phase(n, "complete"), s)
    BY <2>1, ReportedIsPast DEF Progress!Inv
  <2> QED BY <2>1, <2>2, <2>3, ClockStays
<1>2. CASE Progress!Unreadable
  <2>1. v6' = {} /\ v4' = Progress!NoPoll /\ UNCHANGED <<v1, v3, v5>>
    BY <1>2 DEF Progress!Unreadable
  <2> QED BY <2>1, ClockStays
<1> QED BY <1>1, <1>2, ClockPublishes, ClockPromotes, ClockEnds, ClockLooks DEF Progress!Next

(* The Engineer's clock is the publication of its lease, the validator's that *)
(* of the Engineer's output, but for the last.                                *)
LEMMA ProgressHolds ==
  ASSUME Progress!LiveProgressAssumption, Progress!Inv, Progress!Clocked
  PROVE  Progress!TypeOK /\ Progress!NeverBack /\ Progress!ClockIsSteady
<1>1. \A j \in 1 .. Len(v5) : v5[j].phase = "engineer" =>
          v5[j].start = v1["inflight"][<<"lease", v5[j].attempt>>]
  BY DEF Progress!Inv, Progress!AnswersFit
<1>2. ASSUME NEW i \in Progress!Validating, NEW j \in Progress!Validating,
             i < j, v5[i].attempt = v5[j].attempt
      PROVE  /\ v5[i].start = v1["inflight"][<<"engineer", v5[i].attempt>>]
             /\ v5[i].start <= v5[j].start
  <2>1. PICK n : n = v5[i].attempt /\ n = v5[j].attempt
    BY <1>2
  <2>2. v5[i].start = Progress!OutputAt(n) /\ Progress!StartFits(n, v5[j].start)
    BY <1>2, <2>1 DEF Progress!Clocked, Progress!StartsFit
  <2> QED BY <2>1, <2>2 DEF Progress!StartFits, Progress!OutputAt
<1>3. Progress!ClockIsSteady
  BY <1>1, <1>2 DEF Progress!ClockIsSteady, Progress!Validating
<1> QED BY <1>3 DEF Progress!Inv, Progress!AnswersFit

-----------------------------------------------------------------------------
(* The parts together.                                                      *)

(* The state of a start satisfies its invariant. *)
StartInv == part = "start" => Start!Inv

(* What is started is what the sealed evidence says: for any number of     *)
(* processes that start and recover one run, whenever they die, the graph  *)
(* starts from files of one caller that all agree, once unless two         *)
(* processes overlapped, and a start that died cleanly can be continued.   *)
(* (start_agent_run, recover_incomplete_agent_run_start)                   *)
THEOREM StartGrounded == Spec => []StartedFromTheEvidence
<1> USE KnowledgeAssumption
<1>1. Init => StartInv
  BY StartStart DEF Init, StartInv
<1>2. StartInv /\ [Next]_all => StartInv'
  <2> SUFFICES ASSUME StartInv, [Next]_all, part' = "start" PROVE Start!Inv'
    BY DEF StartInv
  <2>1. CASE StartActs
    BY <2>1, StartStep DEF StartActs, StartInv
  <2>2. CASE UNCHANGED all
    <3>1. Start!Inv
      BY <2>2 DEF all, StartInv
    <3>2. v4' \in BOOLEAN
      BY <2>2, <3>1 DEF all, Start!Inv, Start!TypeOK
    <3> QED BY <2>2, <3>1, <3>2, StartKept DEF all
  <2> QED BY <2>1, <2>2 DEF Next, SessionActs, ScopeActs, ProgressActs
<1>3. StartInv => StartedFromTheEvidence
  BY StartHolds DEF StartInv, StartedFromTheEvidence
<1> QED BY <1>1, <1>2, <1>3, PTL DEF Spec

(* The states of a session and of a scope satisfy theirs. *)
KnowledgeInv ==
    /\ part = "session" => Session!Inv
    /\ part = "scope" => Scope!Inv

(* What the roles are told of the source: for any number of calls that     *)
(* interleave and die, and any edits, it is sealed and the same in every   *)
(* context, and a chain that was left open is never trusted; for any       *)
(* finite source, the graph is closed, its builder and its assurance agree *)
(* on it, and it does not depend on the order it was found in.             *)
(* (RevisionBoundArchitectContextFactory, build_graph_assurance_report)    *)
THEOREM KnowledgeAssured == Spec => []KnowledgeIsAssured
<1> USE KnowledgeAssumption
<1>1. Init => KnowledgeInv
  BY SessionStart, ScopeStart DEF Init, KnowledgeInv
<1>2. KnowledgeInv /\ [Next]_all => KnowledgeInv'
  <2>1. ASSUME KnowledgeInv, [Next]_all, part' = "session" PROVE Session!Inv'
    <3>1. CASE SessionActs
      BY <2>1, <3>1, SessionStep DEF SessionActs, KnowledgeInv
    <3>2. CASE UNCHANGED all
      BY <2>1, <3>2, SessionKept DEF all, KnowledgeInv
    <3> QED BY <2>1, <3>1, <3>2 DEF Next, StartActs, ScopeActs, ProgressActs
  <2>2. ASSUME KnowledgeInv, [Next]_all, part' = "scope" PROVE Scope!Inv'
    <3>1. CASE ScopeActs
      BY <2>2, <3>1, ScopeStep DEF ScopeActs, KnowledgeInv
    <3>2. CASE UNCHANGED all
      BY <2>2, <3>2, ScopeKept DEF all, KnowledgeInv, Scope!vars, Scope!input
    <3> QED BY <2>2, <3>1, <3>2 DEF Next, StartActs, SessionActs, ProgressActs
  <2> QED BY <2>1, <2>2 DEF KnowledgeInv
<1>3. KnowledgeInv => KnowledgeIsAssured
  BY SessionHolds, ScopeHolds DEF KnowledgeInv, KnowledgeIsAssured
<1> QED BY <1>1, <1>2, <1>3, PTL DEF Spec

(* The live phases satisfy their invariant, and answer what was seen. *)
ProgressInv == part = "progress" => Progress!Inv /\ Progress!Clocked
ProgressHeld == part = "progress" => Progress!TypeOK /\ Progress!NeverBack /\ Progress!ClockIsSteady
ProgressAnswers == part = "progress" => Progress!AnswerWasTrue

(* A poll takes no lock and looks at one file after the other while the     *)
(* operation publishes and promotes them: for any number of attempts and    *)
(* polls, every phase it answers is one the run was in while it looked, the *)
(* phases never go back, the Engineer's clock never moves, and the          *)
(* validator's at most once, forward, in the last answer of its phase.      *)
(* (_project_live_progress)                                                 *)
THEOREM ProgressTrue == Spec => ProgressWasTrue
<1> USE KnowledgeAssumption
<1>1. Init => ProgressInv
  BY ProgressStart, ClockStart DEF Init, ProgressInv
<1>2. ProgressInv /\ [Next]_all => ProgressInv'
  <2> SUFFICES ASSUME ProgressInv, [Next]_all, part' = "progress" PROVE Progress!Inv' /\ Progress!Clocked'
    BY DEF ProgressInv
  <2>1. CASE ProgressActs
    <3>1. Progress!Inv /\ Progress!Clocked /\ Progress!Next
      BY <2>1 DEF ProgressActs, ProgressInv
    <3> QED BY <3>1, ProgressStep, ClockStep
  <2>2. CASE UNCHANGED all
    <3>1. Progress!Inv /\ Progress!Clocked /\ UNCHANGED <<v1, v2, v3, v4, v5, v6>>
      BY <2>2 DEF all, ProgressInv
    <3>2. v3' \in BOOLEAN
      BY <3>1 DEF Progress!Inv, Progress!TypeOK
    <3>3. v4' # Progress!NoPoll /\ v4'.for = "validator" =>
              Progress!StartFits(v4'.file[2], v4'.mark)
      BY <3>1 DEF Progress!Clocked, Progress!StartsFit
    <3>4. Progress!Clocked'
      BY <3>1, <3>3, ClockStays
    <3> QED BY <3>1, <3>2, <3>4, ProgressFilesStay
  <2> QED BY <2>1, <2>2 DEF Next, StartActs, SessionActs, ScopeActs
<1>3. ProgressInv => ProgressHeld
  BY ProgressHolds DEF ProgressInv, ProgressHeld
<1>4. ProgressInv /\ [Next]_all => [ProgressAnswers]_all
  <2>1. CASE ProgressActs
    BY <2>1, ProgressStep DEF ProgressActs, ProgressInv, ProgressAnswers
  <2> QED BY <2>1 DEF Next, StartActs, SessionActs, ScopeActs, ProgressAnswers
<1> QED BY <1>1, <1>2, <1>3, <1>4, PTL
        DEF Spec, ProgressWasTrue, ProgressHeld, ProgressAnswers
=============================================================================
