---------------------- MODULE ConversationLaunch_proofs ----------------------
(***************************************************************************)
(* TLAPS proofs about ConversationLaunch, for any conversations, handles,  *)
(* scenarios, callers and limits.  The properties speak of intents,        *)
(* receipts and runs; what keeps them true is what a request may rely on   *)
(* at each of its steps, given the locks it holds, and IInv says that.     *)
(***************************************************************************)
EXTENDS ConversationLaunch, FiniteSetTheorems, TLAPS

(* A launch works for one conversation, and once it has reserved, on the   *)
(* handle of that conversation's intent.                                   *)
RequestsFit ==
  \A p \in Callers :
    /\ At(p, "asking") => /\ call[p].conv \in Conversations
                          /\ call[p].arg \in Scenarios \cup {None}
    /\ at[p] \in LaunchSteps =>
         call[p].conv \in Conversations /\ call[p].handle \in Handles
    /\ At(p, "reserve") => call[p].arg \in Token /\ intent[call[p].conv] = None
    /\ at[p] \in LaunchSteps \ {"reserve"} =>
         /\ intent[call[p].conv] # None
         /\ intent[call[p].conv].handle = call[p].handle
    /\ At(p, "operating") => call[p].handle \in Handles \ broken

(* The locks: a conversation, the registry and a handle have one holder.   *)
LocksHold ==
  \A p, q \in Callers :
    \/ p = q
    \/ /\ call[p].conv # None => call[q].conv # call[p].conv
       /\ InRegistry(p) => ~InRegistry(q)
       /\ At(p, "operating") /\ At(q, "operating") => call[q].handle # call[p].handle

(* No two reservations share a handle, made or about to be made.           *)
HandlesReserved ==
  /\ \A c, d \in Conversations :
       intent[c] # None /\ intent[d] # None /\ intent[c].handle = intent[d].handle => c = d
  /\ \A p \in Callers : At(p, "reserve") =>
       /\ \A d \in Conversations : intent[d] # None => intent[d].handle # call[p].handle
       /\ \A q \in Callers : q # p => call[q].handle # call[p].handle

(* Where a run is when a request works on it, and what that means for the  *)
(* number of its planning calls.                                           *)
StepFits(p) ==
  LET reached == stage[call[p].handle] IN
  /\ at[p] \in {"start", "open"} => reached = "none"
  /\ Starting(p) => reached \in {"opened"} \cup Bootstrap
  /\ at[p] \in {"planning", "replanning"} => reached = "advanced"
  /\ At(p, "record") => reached \in TerminalStages \cup OperatedStages
  /\ At(p, "operating") => reached \in {"deciding", "retrying"}
StagesFit ==
  /\ \A h \in Handles :
       plans[h] = IF stage[h] \in {"none", "opened"} \cup Bootstrap THEN 0 ELSE 1
  /\ \A p \in Callers : StepFits(p)

(* The runs that count, and the room a start was promised.                 *)
Counted == {h \in ActiveRuns : stage[h] # "retrying"}
RoomLeft ==
  /\ IsFiniteSet(ActiveRuns)
  /\ Cardinality(Counted) <= MaxRuns
  /\ \A p \in Callers : At(p, "open") => Cardinality(Counted) < MaxRuns

LInv ==
  /\ TypeOK
  /\ RequestsFit
  /\ LocksHold
  /\ HandlesReserved
  /\ StagesFit
  /\ OneRunPerConversation
  /\ LaunchIsTheReviewedExchange
  /\ ReceiptHasItsRun
IInv == LInv /\ RoomLeft
-----------------------------------------------------------------------------
USE NoneAssumption, LimitsAssumption

(* LInv holds before the first request. *)
LEMMA InitInvariant == Init => LInv
  BY DEF Init, LInv, TypeOK, RequestsFit, LocksHold, HandlesReserved, StagesFit, StepFits,
         OneRunPerConversation, LaunchIsTheReviewedExchange, ReceiptHasItsRun, At, NoCall,
         Exists, Calls, Steps, Intent, Exchange, Starting, InRegistry, LaunchSteps, Stages

-----------------------------------------------------------------------------
(* A step that leaves the conversations alone keeps what was reviewed. *)
LEMMA TalkFrame ==
  ASSUME LaunchIsTheReviewedExchange, UNCHANGED talk
  PROVE  LaunchIsTheReviewedExchange'
  BY DEF LaunchIsTheReviewedExchange, LaunchToken, Ready, Latest, talk

(* One that leaves the runs alone, too, keeps what binds the two. *)
LEMMA RunsFrame ==
  ASSUME OneRunPerConversation, ReceiptHasItsRun, UNCHANGED <<talk, runs>>
  PROVE  OneRunPerConversation' /\ ReceiptHasItsRun'
  BY DEF OneRunPerConversation, ReceiptHasItsRun, Exists, talk, runs

(* Two launches never work on one run. *)
LEMMA LaunchesApart ==
  ASSUME RequestsFit, LocksHold, HandlesReserved,
         NEW p \in Callers, NEW q \in Callers,
         at[p] \in LaunchSteps, at[q] \in LaunchSteps, call[p].handle = call[q].handle
  PROVE  p = q
  BY DEF RequestsFit, LocksHold, HandlesReserved, At, LaunchSteps

(* A launch that has reserved goes on, taking the registry or holding it.  *)
LEMMA AdvanceKeeps ==
  ASSUME LInv, NEW p \in Callers, NEW where \in LaunchSteps \ {"reserve"},
         at[p] \in LaunchSteps \ {"reserve"}, Goto(p, where), UNCHANGED <<talk, broken>>,
         where \in {"open", "bootstrap", "planning", "resume", "replanning"} =>
           InRegistry(p) \/ RegistryFree(p)
  PROVE  /\ at' \in [Callers -> Steps] /\ call' \in [Callers -> Calls]
         /\ RequestsFit' /\ LocksHold' /\ HandlesReserved'
  <1> USE DEF LInv, Goto, talk
  <1>1. /\ at' \in [Callers -> Steps] /\ call' \in [Callers -> Calls]
        /\ at'[p] = where /\ \A q \in Callers : q # p => at'[q] = at[q]
    BY DEF TypeOK, Steps
  <1>2. where \in LaunchSteps /\ where \notin {"reserve", "asking", "operating"}
    BY DEF LaunchSteps
  <1>3. RequestsFit' BY <1>1, <1>2 DEF RequestsFit, At
  <1>4. LocksHold' BY <1>1, <1>2 DEF LocksHold, InRegistry, RegistryFree, At
  <1>5. HandlesReserved' BY <1>1, <1>2 DEF HandlesReserved, At
  <1> QED BY <1>1, <1>3, <1>4, <1>5

(* A request that ends releases what it held. *)
LEMMA ReturnKeeps ==
  ASSUME LInv, NEW p \in Callers, Return(p), UNCHANGED intent,
         \A q \in Callers : q # p /\ At(q, "operating") => call[q].handle \notin broken' \ broken
  PROVE  /\ at' \in [Callers -> Steps] /\ call' \in [Callers -> Calls]
         /\ RequestsFit' /\ LocksHold' /\ HandlesReserved'
  <1> USE DEF LInv, Return, Take
  <1>1. /\ at' \in [Callers -> Steps] /\ call' \in [Callers -> Calls]
        /\ at'[p] = "idle" /\ call'[p].conv = None /\ call'[p].handle = None
        /\ \A q \in Callers : q # p => at'[q] = at[q] /\ call'[q] = call[q]
    BY DEF TypeOK, Steps, Calls, NoCall
  <1>2. "idle" \notin LaunchSteps BY DEF LaunchSteps
  <1>3. RequestsFit' BY <1>1, <1>2 DEF RequestsFit, At
  <1>4. LocksHold' BY <1>1 DEF LocksHold, InRegistry, At
  <1>5. HandlesReserved'
    BY <1>1 DEF HandlesReserved, At, RequestsFit, LaunchSteps
  <1> QED BY <1>1, <1>3, <1>4, <1>5

(* The stages fit if they are left alone and fit the request that moves.   *)
LEMMA StagesFrame ==
  ASSUME LInv, NEW p \in Callers, UNCHANGED runs, StepFits(p)',
         Return(p) \/ (\E where \in Steps : Goto(p, where))
  PROVE  StagesFit'
  <1>1. \A q \in Callers : q # p => at'[q] = at[q] /\ call'[q] = call[q]
    BY DEF LInv, TypeOK, Return, Take, Goto
  <1>2. ASSUME NEW q \in Callers, q # p PROVE StepFits(q)'
    BY <1>1, <1>2 DEF LInv, StagesFit, StepFits, Starting, At, runs
  <1> QED BY <1>2 DEF LInv, StagesFit, runs

(* A launch moves its own run on; no other request and no receipt is about *)
(* that run yet.                                                           *)
LEMMA StageMoves ==
  ASSUME LInv, NEW p \in Callers, NEW s \in Stages, at[p] \in LaunchSteps \ {"reserve"},
         \A q \in Callers : q # p => at'[q] = at[q],
         UNCHANGED <<call, talk>>,
         stage[call[p].handle] \notin TerminalStages \cup OperatedStages,
         stage' = [stage EXCEPT ![call[p].handle] = s],
         \A h \in Handles : h # call[p].handle => plans'[h] = plans[h]
  PROVE  /\ stage' \in [Handles -> Stages] /\ stage'[call[p].handle] = s
         /\ \A q \in Callers : q # p => StepFits(q)'
         /\ \A h \in Handles : h # call[p].handle =>
              plans'[h] = IF stage'[h] \in {"none", "opened"} \cup Bootstrap THEN 0 ELSE 1
         /\ ReceiptHasItsRun'
  <1> DEFINE hp == call[p].handle
  <1> USE DEF LInv, talk
  <1>1. hp \in Handles BY DEF RequestsFit
  <1>2. /\ stage' \in [Handles -> Stages] /\ stage'[hp] = s
        /\ \A h \in Handles : h # hp => stage'[h] = stage[h]
    BY <1>1 DEF TypeOK
  <1>3. ASSUME NEW q \in Callers, q # p PROVE StepFits(q)'
    <2>1. CASE at[q] \in LaunchSteps
      <3>1. call[q].handle # hp /\ call[q].handle \in Handles
        BY <1>3, <2>1, LaunchesApart DEF RequestsFit
      <3> QED BY <1>2, <1>3, <3>1 DEF StagesFit, StepFits, Starting, At
    <2>2. CASE At(q, "operating")
      <3>1. call[q].handle # hp /\ call[q].handle \in Handles
        BY <1>3, <2>2 DEF StagesFit, StepFits, OperatedStages, RequestsFit
      <3> QED BY <1>2, <1>3, <3>1 DEF StagesFit, StepFits, Starting, At
    <2>3. CASE at[q] \notin LaunchSteps /\ ~At(q, "operating")
      BY <1>3, <2>3 DEF StepFits, LaunchSteps, Starting, At
    <2> QED BY <2>1, <2>2, <2>3
  <1>4. ReceiptHasItsRun'
    <2> SUFFICES ASSUME NEW c \in Conversations, receipt[c] # None
                 PROVE  /\ receipt[c] = intent[c]
                        /\ stage'[receipt[c].handle] \in TerminalStages \cup OperatedStages
                        /\ plans'[receipt[c].handle] = 1
      BY DEF ReceiptHasItsRun
    <2>1. receipt[c].handle # hp BY DEF ReceiptHasItsRun
    <2>2. receipt[c].handle \in Handles BY DEF TypeOK, Intent
    <2> QED BY <1>2, <2>1, <2>2 DEF ReceiptHasItsRun
  <1> QED BY <1>1, <1>2, <1>3, <1>4 DEF StagesFit

-----------------------------------------------------------------------------
(* LInv survives every step of every request and every crash. *)
LEMMA StepInvariant == ASSUME LInv, [Next]_vars PROVE LInv'
  <1> USE DEF LInv, At, talk, runs, requests
  <1>1. ASSUME NEW p \in Callers, NEW c \in Conversations, CreateConversation(p, c)
        PROVE  LInv'
    <2>1. UNCHANGED <<exchanges, intent, receipt, reviewed, runs, broken, requests>>
      BY <1>1 DEF CreateConversation
    <2>2. TypeOK' BY <1>1 DEF CreateConversation, TypeOK
    <2>3. RequestsFit' /\ LocksHold' /\ HandlesReserved' /\ StagesFit'
      BY <2>1 DEF RequestsFit, LocksHold, HandlesReserved, StagesFit, StepFits, Starting,
                  InRegistry
    <2>4. OneRunPerConversation' /\ LaunchIsTheReviewedExchange' /\ ReceiptHasItsRun'
      BY <2>1 DEF OneRunPerConversation, LaunchIsTheReviewedExchange, LaunchToken, Ready,
                  Latest, ReceiptHasItsRun, Exists
    <2> QED BY <2>2, <2>3, <2>4
  <1>2. ASSUME NEW p \in Callers, NEW c \in Conversations, NEW s \in Scenarios \cup {None},
               SendMessage(p, c, s)
        PROVE  LInv'
    <2>1. /\ UNCHANGED <<talk, runs, broken>> /\ ConversationFree(c)
          /\ at' = [at EXCEPT ![p] = "asking"]
          /\ call' = [call EXCEPT ![p] = [conv |-> c, handle |-> None, arg |-> s]]
      BY <1>2 DEF SendMessage, Take
    <2>2. TypeOK' BY <2>1 DEF TypeOK, Steps, Calls
    <2>3. RequestsFit' BY <2>1 DEF TypeOK, RequestsFit, LaunchSteps
    <2>4. LocksHold' BY <2>1 DEF TypeOK, LocksHold, ConversationFree, InRegistry
    <2>5. HandlesReserved'
      BY <2>1 DEF TypeOK, HandlesReserved, RequestsFit, LaunchSteps
    <2>6. StagesFit' BY <2>1 DEF TypeOK, StagesFit, StepFits, Starting
    <2> QED BY <2>1, <2>2, <2>3, <2>4, <2>5, <2>6, TalkFrame, RunsFrame
  <1>3. ASSUME NEW p \in Callers, Answer(p) PROVE LInv'
    <2>1. /\ UNCHANGED <<created, intent, receipt, reviewed, runs, broken>> /\ Return(p)
          /\ call[p].conv \in Conversations /\ call[p].arg \in Scenarios \cup {None}
      BY <1>3 DEF Answer, RequestsFit
    <2>2. RequestsFit' /\ LocksHold' /\ HandlesReserved'
          /\ at' \in [Callers -> Steps] /\ call' \in [Callers -> Calls]
      BY <2>1, ReturnKeeps
    <2>3. StagesFit'
      BY <2>1 DEF TypeOK, StagesFit, StepFits, Starting, Return, Take
    <2>4. OneRunPerConversation' /\ ReceiptHasItsRun'
      BY <2>1 DEF OneRunPerConversation, ReceiptHasItsRun, Exists
    <2>5. CASE UNCHANGED exchanges
      BY <2>1, <2>2, <2>3, <2>4, <2>5, TalkFrame DEF TypeOK
    <2>6. CASE ~UNCHANGED exchanges
      <3>1. PICK r \in BOOLEAN :
              exchanges' = [exchanges EXCEPT ![call[p].conv] =
                              Append(@, [scenario |-> call[p].arg, ready |-> r])]
        BY <1>3, <2>6 DEF Answer
      <3>2. intent[call[p].conv] = None /\ Len(exchanges[call[p].conv]) < MaxExchanges
        BY <1>3, <2>6 DEF Answer, MayExchange
      <3>3. [scenario |-> call[p].arg, ready |-> r] \in Exchange BY <2>1 DEF Exchange
      <3>4. exchanges[call[p].conv] \in Seq(Exchange) BY <2>1 DEF TypeOK
      <3>5. /\ exchanges' \in [Conversations -> Seq(Exchange)]
            /\ \A c \in Conversations : Len(exchanges'[c]) <= MaxExchanges
        BY <2>1, <3>1, <3>2, <3>3, <3>4 DEF TypeOK
      <3>6. TypeOK' BY <2>1, <2>2, <3>5 DEF TypeOK
      <3>7. \A c \in Conversations : intent[c] # None => exchanges'[c] = exchanges[c]
        BY <3>1, <3>2 DEF TypeOK
      <3>8. LaunchIsTheReviewedExchange'
        BY <2>1, <3>7 DEF LaunchIsTheReviewedExchange, LaunchToken, Ready, Latest
      <3> QED BY <2>2, <2>3, <2>4, <3>6, <3>8
    <2> QED BY <2>5, <2>6
  <1>4. ASSUME NEW p \in Callers, NEW c \in Conversations, NEW t \in Token,
               LaunchConversation(p, c, t)
        PROVE  LInv'
    <2>1. PICK h \in Handles :
            /\ LaunchHandle(c, h)
            /\ at' = [at EXCEPT ![p] = IF intent[c] = None THEN "reserve" ELSE "reconcile"]
            /\ call' = [call EXCEPT ![p] = [conv |-> c, handle |-> h, arg |-> t]]
      BY <1>4 DEF LaunchConversation, Take
    <2>2. UNCHANGED <<talk, runs, broken>> /\ ConversationFree(c)
      BY <1>4 DEF LaunchConversation
    <2>3. TypeOK' BY <2>1, <2>2 DEF TypeOK, Steps, Calls, LaunchSteps
    <2>4. RequestsFit' BY <2>1, <2>2 DEF TypeOK, RequestsFit, LaunchHandle, LaunchSteps
    <2>5. LocksHold' BY <2>1, <2>2 DEF TypeOK, LocksHold, ConversationFree, InRegistry
    <2>6. HandlesReserved'
      BY <2>1, <2>2 DEF TypeOK, HandlesReserved, LaunchHandle, NewHandle
    <2>7. StagesFit' BY <2>1, <2>2 DEF TypeOK, StagesFit, StepFits, Starting
    <2> QED BY <2>2, <2>3, <2>4, <2>5, <2>6, <2>7, TalkFrame, RunsFrame
  <1>5. ASSUME NEW p \in Callers, Reserve(p) PROVE LInv'
    <2> DEFINE c == call[p].conv
               i == [handle |-> call[p].handle, token |-> LaunchToken(c),
                     scenario |-> Latest(c).scenario]
    <2>1. /\ c \in Conversations /\ call[p].handle \in Handles /\ call[p].arg \in Token
          /\ intent[c] = None /\ call[p].arg = LaunchToken(c)
      BY <1>5 DEF Reserve, RequestsFit, LaunchSteps
    <2>2. /\ UNCHANGED <<created, exchanges, receipt, runs, broken, call>>
          /\ intent' = [intent EXCEPT ![c] = i]
          /\ reviewed' = [reviewed EXCEPT ![c] = call[p].arg]
          /\ at' = [at EXCEPT ![p] = "reconcile"]
      BY <1>5 DEF Reserve, Goto
    <2>3. Ready(c) /\ LaunchToken(c) = Len(exchanges[c])
      BY <2>1 DEF LaunchToken, Token
    <2>4. Latest(c).scenario \in Scenarios
      <3>1. Latest(c) \in Exchange BY <2>1, <2>3 DEF TypeOK, Latest, Token
      <3> QED BY <2>3, <3>1 DEF Ready, Exchange
    <2>5. i \in Intent /\ i # None BY <2>1, <2>4 DEF Intent
    <2> HIDE DEF i
    <2>6. /\ intent'[c] = i /\ reviewed'[c] = call[p].arg
          /\ \A d \in Conversations :
               d # c => intent'[d] = intent[d] /\ reviewed'[d] = reviewed[d]
          /\ at'[p] = "reconcile" /\ \A q \in Callers : q # p => at'[q] = at[q]
      BY <2>1, <2>2 DEF TypeOK
    <2>7. i.handle = call[p].handle /\ i.token = LaunchToken(c)
          /\ i.scenario = Latest(c).scenario
      BY DEF i
    <2>8. TypeOK' BY <2>1, <2>2, <2>5 DEF TypeOK, Steps, LaunchSteps
    <2>9. RequestsFit'
      BY <1>5, <2>1, <2>2, <2>5, <2>6, <2>7 DEF RequestsFit, LocksHold, LaunchSteps, Reserve
    <2>10. LocksHold' BY <2>2, <2>6 DEF LocksHold, InRegistry
    <2>11. HandlesReserved'
      BY <1>5, <2>1, <2>2, <2>5, <2>6, <2>7 DEF HandlesReserved, Reserve
    <2>12. StagesFit' BY <2>2, <2>6 DEF StagesFit, StepFits, Starting
    <2>13. OneRunPerConversation'
      <3>1. \A d \in Conversations : intent[d] # None => intent'[d] = intent[d]
        BY <2>1, <2>6
      <3> QED BY <2>2, <2>11, <3>1 DEF OneRunPerConversation, HandlesReserved, Exists
    <2>14. LaunchIsTheReviewedExchange'
      <3>1. \A d : LaunchToken(d)' = LaunchToken(d) /\ Latest(d)' = Latest(d)
        BY <2>2 DEF LaunchToken, Ready, Latest
      <3> SUFFICES ASSUME NEW d \in Conversations, intent'[d] # None
                   PROVE  /\ reviewed'[d] = intent'[d].token
                          /\ LaunchToken(d) = intent'[d].token
                          /\ Latest(d).scenario = intent'[d].scenario
        BY <3>1 DEF LaunchIsTheReviewedExchange
      <3>2. CASE d = c
        BY <2>1, <2>6, <2>7, <3>2
      <3>3. CASE d # c
        BY <2>6, <3>3 DEF LaunchIsTheReviewedExchange
      <3> QED BY <3>2, <3>3
    <2>15. ReceiptHasItsRun' BY <2>1, <2>2, <2>6 DEF ReceiptHasItsRun
    <2> QED BY <2>8, <2>9, <2>10, <2>11, <2>12, <2>13, <2>14, <2>15
  <1>6. ASSUME NEW p \in Callers, Reconcile(p) PROVE LInv'
    <2>1. PICK where \in {"start", "record", "recover"} :
            /\ Goto(p, where)
            /\ where = "start" => stage[call[p].handle] = "none"
            /\ where = "record" =>
                 stage[call[p].handle] \in TerminalStages \cup OperatedStages
      BY <1>6 DEF Reconcile, Readable, Exists
    <2>2. UNCHANGED <<talk, runs, broken>> /\ at[p] \in LaunchSteps \ {"reserve"}
      BY <1>6 DEF Reconcile, LaunchSteps
    <2>3. RequestsFit' /\ LocksHold' /\ HandlesReserved'
          /\ at' \in [Callers -> Steps] /\ call' \in [Callers -> Calls]
      BY <2>1, <2>2, AdvanceKeeps DEF LaunchSteps
    <2>4. TypeOK' BY <2>2, <2>3 DEF TypeOK
    <2>5. StagesFit' BY <2>1, <2>2 DEF TypeOK, StagesFit, StepFits, Starting, Goto
    <2> QED BY <2>2, <2>3, <2>4, <2>5, TalkFrame, RunsFrame
  <1>7. ASSUME NEW p \in Callers, CountRuns(p) PROVE LInv'
    <2>1. /\ UNCHANGED <<talk, runs, broken>> /\ at[p] = "start" /\ RegistryFree(p)
          /\ Goto(p, "open") \/ Return(p)
      BY <1>7 DEF CountRuns
    <2>2. RequestsFit' /\ LocksHold' /\ HandlesReserved'
          /\ at' \in [Callers -> Steps] /\ call' \in [Callers -> Calls]
      BY <2>1, AdvanceKeeps, ReturnKeeps DEF LaunchSteps
    <2>3. TypeOK' BY <2>1, <2>2 DEF TypeOK
    <2>4. StepFits(p)'
      <3>1. CASE Return(p) BY <2>1, <3>1 DEF TypeOK, StepFits, Starting, Return, Take
      <3>2. CASE Goto(p, "open")
        BY <2>1, <3>2 DEF TypeOK, StagesFit, StepFits, Starting, Goto
      <3> QED BY <2>1, <3>1, <3>2
    <2>5. StagesFit' BY <2>1, <2>4, StagesFrame DEF Steps, LaunchSteps
    <2> QED BY <2>1, <2>2, <2>3, <2>5, TalkFrame, RunsFrame
  <1>8. ASSUME NEW p \in Callers, OpenRun(p) PROVE LInv'
    <2> DEFINE h == call[p].handle
    <2>1. /\ at[p] = "open" /\ stage[h] = "none" /\ Goto(p, "bootstrap")
          /\ stage' = [stage EXCEPT ![h] = "opened"] /\ UNCHANGED <<talk, plans, broken>>
          /\ contract' = [contract EXCEPT ![h] = intent[call[p].conv].scenario]
      BY <1>8 DEF OpenRun, Exists
    <2>2. /\ h \in Handles /\ call[p].conv \in Conversations
          /\ intent[call[p].conv] # None /\ intent[call[p].conv].handle = h
      BY <2>1 DEF RequestsFit, LaunchSteps
    <2>3. RequestsFit' /\ LocksHold' /\ HandlesReserved'
          /\ at' \in [Callers -> Steps] /\ call' \in [Callers -> Calls]
      BY <2>1, AdvanceKeeps DEF LaunchSteps, InRegistry
    <2>4. /\ at'[p] = "bootstrap" /\ UNCHANGED call
          /\ \A q \in Callers : q # p => at'[q] = at[q]
      BY <2>1 DEF Goto, TypeOK
    <2>5. /\ stage' \in [Handles -> Stages] /\ stage'[h] = "opened" /\ ReceiptHasItsRun'
          /\ \A q \in Callers : q # p => StepFits(q)'
          /\ \A g \in Handles : g # h =>
               plans'[g] = IF stage'[g] \in {"none", "opened"} \cup Bootstrap THEN 0 ELSE 1
      BY <2>1, <2>4, StageMoves DEF LaunchSteps, TerminalStages, OperatedStages, Stages
    <2>6. TypeOK' BY <2>1, <2>2, <2>3, <2>5 DEF TypeOK, Intent
    <2>7. StagesFit'
      <3>1. plans[h] = 0 BY <2>1, <2>2 DEF StagesFit
      <3>2. StepFits(p)' BY <2>4, <2>5 DEF StepFits, Starting
      <3> QED BY <2>1, <2>5, <3>1, <3>2 DEF StagesFit
    <2>8. OneRunPerConversation'
      <3>1. /\ contract'[h] = intent[call[p].conv].scenario /\ UNCHANGED intent
            /\ \A g \in Handles : g # h => stage'[g] = stage[g] /\ contract'[g] = contract[g]
        BY <2>1, <2>2 DEF TypeOK
      <3>2. ASSUME NEW g \in Handles, Exists(g)'
            PROVE  \E c \in Conversations :
                     /\ intent[c] # None
                     /\ intent[c].handle = g /\ contract'[g] = intent[c].scenario
        BY <2>2, <3>1, <3>2 DEF OneRunPerConversation, Exists
      <3> QED BY <3>1, <3>2 DEF OneRunPerConversation, HandlesReserved
    <2> QED BY <2>1, <2>3, <2>5, <2>6, <2>7, <2>8, TalkFrame
  <1>9. ASSUME NEW p \in Callers, TakeRecovery(p) PROVE LInv'
    <2>1. /\ UNCHANGED <<talk, runs, broken>> /\ at[p] = "recover" /\ RegistryFree(p)
          /\ \/ Return(p)
             \/ Goto(p, "resume") /\ stage[call[p].handle] \in Bootstrap
      BY <1>9 DEF TakeRecovery, Recoverable
    <2>2. RequestsFit' /\ LocksHold' /\ HandlesReserved'
          /\ at' \in [Callers -> Steps] /\ call' \in [Callers -> Calls]
      BY <2>1, AdvanceKeeps, ReturnKeeps DEF LaunchSteps
    <2>3. TypeOK' BY <2>1, <2>2 DEF TypeOK
    <2>4. StepFits(p)'
      <3>1. CASE Return(p) BY <2>1, <3>1 DEF TypeOK, StepFits, Starting, Return, Take
      <3>2. CASE ~Return(p) BY <2>1, <3>2 DEF TypeOK, StepFits, Starting, Goto
      <3> QED BY <3>1, <3>2
    <2>5. StagesFit' BY <2>1, <2>4, StagesFrame DEF Steps, LaunchSteps
    <2> QED BY <2>1, <2>2, <2>3, <2>5, TalkFrame, RunsFrame
  <1>10. ASSUME NEW p \in Callers, WriteBootstrap(p) PROVE LInv'
    <2> DEFINE h == call[p].handle
    <2>1. PICK s \in Bootstrap : stage' = [stage EXCEPT ![h] = s]
      BY <1>10 DEF WriteBootstrap, Bootstrap
    <2>2. /\ Starting(p) /\ stage[h] \in {"opened", "initialized"}
          /\ UNCHANGED <<talk, contract, plans, broken, requests>>
      BY <1>10 DEF WriteBootstrap
    <2>3. at[p] \in LaunchSteps \ {"reserve"} /\ h \in Handles
      BY <2>2 DEF RequestsFit, LaunchSteps, Starting
    <2>4. RequestsFit' /\ LocksHold' /\ HandlesReserved'
      BY <2>2 DEF RequestsFit, LocksHold, HandlesReserved, InRegistry
    <2>5. /\ stage' \in [Handles -> Stages] /\ stage'[h] = s /\ ReceiptHasItsRun'
          /\ \A q \in Callers : q # p => StepFits(q)'
          /\ \A g \in Handles : g # h =>
               plans'[g] = IF stage'[g] \in {"none", "opened"} \cup Bootstrap THEN 0 ELSE 1
      BY <2>1, <2>2, <2>3, StageMoves DEF TerminalStages, OperatedStages, Stages
    <2>6. TypeOK' BY <2>2, <2>5 DEF TypeOK
    <2>7. StagesFit'
      <3>1. plans[h] = 0 BY <2>2, <2>3 DEF StagesFit, Bootstrap
      <3>2. StepFits(p)' BY <2>2, <2>5 DEF StepFits, Starting
      <3> QED BY <2>2, <2>5, <3>1, <3>2 DEF StagesFit
    <2>8. OneRunPerConversation'
      BY <2>1, <2>2, <2>3 DEF TypeOK, OneRunPerConversation, Exists
    <2> QED BY <2>2, <2>4, <2>5, <2>6, <2>7, <2>8, TalkFrame
  <1>11. ASSUME NEW p \in Callers, CallArchitect(p) PROVE LInv'
    <2> DEFINE h == call[p].handle
    <2>1. PICK where \in {"planning", "replanning"} : Goto(p, where)
      BY <1>11 DEF CallArchitect
    <2>2. /\ Starting(p) /\ stage[h] \notin {"opened", "initialized"}
          /\ stage' = [stage EXCEPT ![h] = "advanced"]
          /\ plans' = [plans EXCEPT ![h] = @ + 1] /\ UNCHANGED <<talk, contract, broken>>
      BY <1>11 DEF CallArchitect
    <2>3. at[p] \in LaunchSteps \ {"reserve"} /\ InRegistry(p) /\ h \in Handles
      BY <2>2 DEF RequestsFit, LaunchSteps, Starting, InRegistry
    <2>4. RequestsFit' /\ LocksHold' /\ HandlesReserved'
          /\ at' \in [Callers -> Steps] /\ call' \in [Callers -> Calls]
      BY <2>1, <2>2, <2>3, AdvanceKeeps DEF LaunchSteps
    <2>5. /\ at'[p] = where /\ UNCHANGED call
          /\ \A q \in Callers : q # p => at'[q] = at[q]
      BY <2>1 DEF Goto, TypeOK
    <2>6. stage[h] = "evidenced" BY <2>2 DEF StagesFit, StepFits, Bootstrap
    <2>7. plans[h] = 0 /\ plans'[h] = 1 /\ plans' \in [Handles -> Nat]
          /\ \A g \in Handles : g # h => plans'[g] = plans[g]
      BY <2>2, <2>3, <2>6 DEF StagesFit, Bootstrap, TypeOK
    <2>8. /\ stage' \in [Handles -> Stages] /\ stage'[h] = "advanced" /\ ReceiptHasItsRun'
          /\ \A q \in Callers : q # p => StepFits(q)'
          /\ \A g \in Handles : g # h =>
               plans'[g] = IF stage'[g] \in {"none", "opened"} \cup Bootstrap THEN 0 ELSE 1
      BY <2>2, <2>3, <2>5, <2>6, <2>7, StageMoves DEF TerminalStages, OperatedStages, Stages
    <2>9. TypeOK' BY <2>2, <2>4, <2>7, <2>8 DEF TypeOK
    <2>10. StagesFit'
      <3>1. StepFits(p)' BY <2>5, <2>8 DEF StepFits, Starting
      <3> QED BY <2>7, <2>8, <3>1 DEF StagesFit, Bootstrap
    <2>11. OneRunPerConversation'
      BY <2>2, <2>3, <2>6 DEF TypeOK, OneRunPerConversation, Exists
    <2> QED BY <2>2, <2>4, <2>8, <2>9, <2>10, <2>11, TalkFrame
  <1>12. ASSUME NEW p \in Callers, Plan(p) PROVE LInv'
    <2> DEFINE h == call[p].handle
    <2>1. PICK s \in {"planned", "closed", "failed"} : stage' = [stage EXCEPT ![h] = s]
      BY <1>12 DEF Plan
    <2>2. /\ at[p] \in {"planning", "replanning"} /\ Goto(p, "record")
          /\ UNCHANGED <<talk, contract, plans, broken>>
      BY <1>12 DEF Plan
    <2>3. at[p] \in LaunchSteps \ {"reserve"} /\ h \in Handles
      BY <2>2 DEF RequestsFit, LaunchSteps
    <2>4. RequestsFit' /\ LocksHold' /\ HandlesReserved'
          /\ at' \in [Callers -> Steps] /\ call' \in [Callers -> Calls]
      BY <2>2, <2>3, AdvanceKeeps DEF LaunchSteps
    <2>5. /\ at'[p] = "record" /\ UNCHANGED call
          /\ \A q \in Callers : q # p => at'[q] = at[q]
      BY <2>2 DEF Goto, TypeOK
    <2>6. stage[h] = "advanced" /\ plans[h] = 1
      BY <2>2, <2>3 DEF StagesFit, StepFits, Bootstrap
    <2>7. /\ stage' \in [Handles -> Stages] /\ stage'[h] = s /\ ReceiptHasItsRun'
          /\ \A q \in Callers : q # p => StepFits(q)'
          /\ \A g \in Handles : g # h =>
               plans'[g] = IF stage'[g] \in {"none", "opened"} \cup Bootstrap THEN 0 ELSE 1
      BY <2>1, <2>2, <2>3, <2>5, <2>6, StageMoves DEF TerminalStages, OperatedStages, Stages
    <2>8. TypeOK' BY <2>2, <2>4, <2>7 DEF TypeOK
    <2>9. StagesFit'
      <3>1. StepFits(p)'
        BY <2>5, <2>7 DEF StepFits, Starting, TerminalStages, OperatedStages
      <3> QED BY <2>2, <2>6, <2>7, <3>1 DEF StagesFit, Bootstrap
    <2>10. OneRunPerConversation'
      BY <2>1, <2>2, <2>3, <2>6 DEF TypeOK, OneRunPerConversation, Exists
    <2> QED BY <2>2, <2>4, <2>7, <2>8, <2>9, <2>10, TalkFrame
  <1>13. ASSUME NEW p \in Callers, RecordLaunch(p) PROVE LInv'
    <2> DEFINE c == call[p].conv
    <2>1. /\ at[p] = "record" /\ call[p].handle = intent[c].handle
          /\ receipt' = [receipt EXCEPT ![c] = intent[c]] /\ Return(p)
          /\ UNCHANGED <<created, exchanges, intent, reviewed, runs, broken>>
      BY <1>13 DEF RecordLaunch
    <2>2. c \in Conversations /\ intent[c] # None /\ call[p].handle \in Handles
      BY <2>1 DEF RequestsFit, LaunchSteps
    <2>3. RequestsFit' /\ LocksHold' /\ HandlesReserved'
          /\ at' \in [Callers -> Steps] /\ call' \in [Callers -> Calls]
      BY <2>1, ReturnKeeps
    <2>4. TypeOK' BY <2>1, <2>2, <2>3 DEF TypeOK
    <2>5. StagesFit'
      BY <2>1 DEF TypeOK, StagesFit, StepFits, Starting, Return, Take
    <2>6. OneRunPerConversation' /\ LaunchIsTheReviewedExchange'
      BY <2>1 DEF OneRunPerConversation, LaunchIsTheReviewedExchange, LaunchToken, Ready,
                  Latest, Exists
    <2>7. stage[call[p].handle] \in TerminalStages \cup OperatedStages
          /\ plans[call[p].handle] = 1
      BY <2>1, <2>2 DEF StagesFit, StepFits, TerminalStages, OperatedStages, Bootstrap
    <2>8. ReceiptHasItsRun'
      BY <2>1, <2>2, <2>7 DEF TypeOK, ReceiptHasItsRun
    <2> QED BY <2>3, <2>4, <2>5, <2>6, <2>8
  <1>14. ASSUME NEW p \in Callers, NEW h \in Handles, Decide(p, h) \/ Retry(p, h)
         PROVE  LInv'
    <2>1. PICK to \in {"deciding", "retrying"} : stage' = [stage EXCEPT ![h] = to]
      BY <1>14 DEF Decide, Retry, Operate
    <2>2. /\ HandleFree(h) /\ h \notin broken
          /\ stage[h] \in TerminalStages \cup OperatedStages
          /\ at' = [at EXCEPT ![p] = "operating"]
          /\ call' = [call EXCEPT ![p] = [conv |-> None, handle |-> h, arg |-> None]]
          /\ UNCHANGED <<talk, contract, plans, broken>>
      BY <1>14 DEF Decide, Retry, Operate, Readable, Take
    <2>3. /\ stage'[h] = to /\ \A g \in Handles : g # h => stage'[g] = stage[g]
          /\ at'[p] = "operating" /\ call'[p].handle = h /\ call'[p].conv = None
          /\ \A q \in Callers : q # p => at'[q] = at[q] /\ call'[q] = call[q]
      BY <2>1, <2>2 DEF TypeOK
    <2>4. TypeOK'
      BY <2>1, <2>2 DEF TypeOK, Steps, Calls, Stages, OperatedStages
    <2>5. RequestsFit' BY <2>2, <2>3 DEF RequestsFit, LaunchSteps
    <2>6. LocksHold' BY <2>2, <2>3 DEF LocksHold, HandleFree, InRegistry
    <2>7. plans[h] = 1 /\ Exists(h)
      BY <2>2 DEF StagesFit, Exists, TerminalStages, OperatedStages, Bootstrap
    <2>8. HandlesReserved'
      BY <2>2, <2>3, <2>7 DEF HandlesReserved, OneRunPerConversation
    <2>9. StagesFit'
      <3>1. \A q \in Callers : StepFits(q)'
        <4> SUFFICES ASSUME NEW q \in Callers, q # p PROVE StepFits(q)'
          BY <2>3 DEF StepFits, Starting
        <4>1. CASE call[q].handle # h
          <5>1. CASE call[q].handle \in Handles
            BY <2>3, <4>1, <5>1 DEF StagesFit, StepFits, Starting
          <5>2. CASE call[q].handle \notin Handles
            BY <2>3, <5>2 DEF StepFits, Starting, RequestsFit, LaunchSteps
          <5> QED BY <5>1, <5>2
        <4>2. CASE call[q].handle = h
          BY <2>2, <2>3, <4>2
             DEF StagesFit, StepFits, Starting, HandleFree, Bootstrap, TerminalStages,
                 OperatedStages
        <4> QED BY <4>1, <4>2
      <3> QED BY <2>2, <2>3, <2>7, <3>1 DEF StagesFit, Bootstrap
    <2>10. OneRunPerConversation'
      BY <2>2, <2>3, <2>7 DEF OneRunPerConversation, Exists
    <2>11. ReceiptHasItsRun'
      <3> SUFFICES ASSUME NEW c \in Conversations, receipt[c] # None
                   PROVE  stage'[receipt[c].handle] \in TerminalStages \cup OperatedStages
        BY <2>2 DEF ReceiptHasItsRun
      <3>1. receipt[c].handle \in Handles BY DEF TypeOK, Intent
      <3> QED BY <2>3, <3>1 DEF ReceiptHasItsRun, OperatedStages
    <2> QED BY <2>2, <2>4, <2>5, <2>6, <2>8, <2>9, <2>10, <2>11, TalkFrame
  <1>15. ASSUME NEW p \in Callers, FinishOperation(p) PROVE LInv'
    <2> DEFINE h == call[p].handle
    <2>1. PICK s \in TerminalStages : stage' = [stage EXCEPT ![h] = s]
      BY <1>15 DEF FinishOperation, TerminalStages
    <2>2. at[p] = "operating" /\ Return(p) /\ UNCHANGED <<talk, contract, plans, broken>>
      BY <1>15 DEF FinishOperation
    <2>3. h \in Handles /\ stage[h] \in {"deciding", "retrying"} /\ plans[h] = 1
      BY <2>2 DEF RequestsFit, StagesFit, StepFits, Bootstrap
    <2>4. RequestsFit' /\ LocksHold' /\ HandlesReserved'
          /\ at' \in [Callers -> Steps] /\ call' \in [Callers -> Calls]
      BY <2>2, ReturnKeeps
    <2>5. /\ stage'[h] = s /\ \A g \in Handles : g # h => stage'[g] = stage[g]
          /\ at'[p] = "idle" /\ stage' \in [Handles -> Stages]
          /\ \A q \in Callers : q # p => at'[q] = at[q] /\ call'[q] = call[q]
      BY <2>1, <2>2, <2>3 DEF TypeOK, Return, Take, Stages
    <2>6. TypeOK' BY <2>2, <2>4, <2>5 DEF TypeOK
    <2>7. StagesFit'
      <3>1. \A q \in Callers : StepFits(q)'
        <4> SUFFICES ASSUME NEW q \in Callers, q # p PROVE StepFits(q)'
          BY <2>5 DEF StepFits, Starting
        <4>1. CASE call[q].handle # h
          <5>1. CASE call[q].handle \in Handles
            BY <2>5, <4>1, <5>1 DEF StagesFit, StepFits, Starting
          <5>2. CASE call[q].handle \notin Handles
            BY <2>5, <5>2 DEF StepFits, Starting, RequestsFit, LaunchSteps
          <5> QED BY <5>1, <5>2
        <4>2. CASE call[q].handle = h
          BY <2>2, <2>3, <2>5, <4>2
             DEF StagesFit, StepFits, Starting, LocksHold, Bootstrap
        <4> QED BY <4>1, <4>2
      <3> QED BY <2>2, <2>3, <2>5, <3>1 DEF StagesFit, Bootstrap, TerminalStages
    <2>8. OneRunPerConversation'
      BY <2>2, <2>3, <2>5 DEF OneRunPerConversation, Exists
    <2>9. ReceiptHasItsRun'
      <3> SUFFICES ASSUME NEW c \in Conversations, receipt[c] # None
                   PROVE  stage'[receipt[c].handle] \in TerminalStages \cup OperatedStages
        BY <2>2 DEF ReceiptHasItsRun
      <3>1. receipt[c].handle \in Handles BY DEF TypeOK, Intent
      <3> QED BY <2>5, <3>1 DEF ReceiptHasItsRun
    <2> QED BY <2>2, <2>4, <2>6, <2>7, <2>8, <2>9, TalkFrame
  <1>16. ASSUME NEW p \in Callers, Raise(p) PROVE LInv'
    <2>1. /\ Return(p) /\ UNCHANGED <<talk, runs>>
          /\ \/ UNCHANGED broken
             \/ At(p, "operating") /\ broken' = broken \cup {call[p].handle}
      BY <1>16 DEF Raise
    <2>2. RequestsFit' /\ LocksHold' /\ HandlesReserved'
          /\ at' \in [Callers -> Steps] /\ call' \in [Callers -> Calls]
      <3>1. \A q \in Callers :
              q # p /\ At(q, "operating") => call[q].handle \notin broken' \ broken
        BY <2>1 DEF LocksHold
      <3> QED BY <2>1, <3>1, ReturnKeeps
    <2>3. TypeOK'
      <3>1. broken' \subseteq broken \cup {call[p].handle}
            /\ (At(p, "operating") \/ broken' = broken)
        BY <2>1
      <3>2. At(p, "operating") => call[p].handle \in Handles
        BY DEF RequestsFit
      <3>3. broken' \subseteq Conversations \cup Handles
        BY <3>1, <3>2 DEF TypeOK
      <3> QED BY <2>1, <2>2, <3>3 DEF TypeOK
    <2>4. StagesFit'
      BY <2>1 DEF TypeOK, StagesFit, StepFits, Starting, Return, Take
    <2> QED BY <2>1, <2>2, <2>3, <2>4, TalkFrame, RunsFrame
  <1>17. ASSUME Crash PROVE LInv'
    <2>1. /\ UNCHANGED <<talk, runs>>
          /\ at' = [p \in Callers |-> "idle"] /\ call' = [p \in Callers |-> NoCall]
      BY <1>17 DEF Crash
    <2>2. /\ at' \in [Callers -> Steps] /\ call' \in [Callers -> Calls]
          /\ \A p \in Callers : at'[p] = "idle" /\ call'[p].conv = None
      BY <2>1 DEF Steps, Calls, NoCall
    <2>3. broken' \subseteq Conversations \cup Handles
      <3>1. \A p \in Callers : CutOff(p) \subseteq Conversations \cup Handles
        BY DEF CutOff, RequestsFit, InRegistry, LaunchSteps
      <3>2. PICK cut \in SUBSET UNION {CutOff(p) : p \in Callers} :
              broken' = broken \cup cut
        BY <1>17 DEF Crash
      <3> QED BY <3>1, <3>2 DEF TypeOK
    <2>4. TypeOK' BY <2>1, <2>2, <2>3 DEF TypeOK
    <2>5. RequestsFit' /\ LocksHold' /\ HandlesReserved' /\ StagesFit'
      BY <2>1, <2>2 DEF RequestsFit, LocksHold, HandlesReserved, StagesFit, StepFits, Starting,
                        InRegistry, LaunchSteps
    <2> QED BY <2>1, <2>4, <2>5, TalkFrame, RunsFrame
  <1>18. ASSUME UNCHANGED vars PROVE LInv'
    BY <1>18, TalkFrame, RunsFrame
       DEF vars, TypeOK, RequestsFit, LocksHold, HandlesReserved, StagesFit, StepFits,
           Starting, InRegistry
  <1> QED
    BY <1>1, <1>2, <1>3, <1>4, <1>5, <1>6, <1>7, <1>8, <1>9, <1>10, <1>11, <1>12, <1>13,
       <1>14, <1>15, <1>16, <1>17, <1>18
       DEF Next, Request, Proceed

-----------------------------------------------------------------------------
(* The capacity: no run is active at first. *)
LEMMA InitRoom == Init => RoomLeft
  <1> SUFFICES ASSUME Init PROVE RoomLeft OBVIOUS
  <1>1. ActiveRuns = {} /\ Counted = {}
    BY DEF Init, ActiveRuns, Counted, Exists
  <1> QED BY <1>1, FS_EmptySet, LimitsAssumption DEF RoomLeft, Init, At

(* A step that makes no run count and promises no room keeps the room. *)
LEMMA RoomKept ==
  ASSUME RoomLeft, IsFiniteSet(ActiveRuns'), Counted' \subseteq Counted,
         \A p \in Callers : At(p, "open")' => At(p, "open")
  PROVE  RoomLeft'
  <1>1. IsFiniteSet(Counted) /\ Cardinality(Counted) \in Nat
    BY FS_Subset, FS_CardinalityType DEF RoomLeft, Counted
  <1>2. Cardinality(Counted') \in Nat /\ Cardinality(Counted') <= Cardinality(Counted)
    BY <1>1, FS_Subset, FS_CardinalityType
  <1> QED BY <1>1, <1>2, LimitsAssumption DEF RoomLeft

(* So does one that leaves alone which runs are active and retrying. *)
LEMMA RoomFrame ==
  ASSUME RoomLeft, UNCHANGED <<ActiveRuns, Counted>>,
         \A p \in Callers : At(p, "open")' => At(p, "open")
  PROVE  RoomLeft'
  BY RoomKept DEF RoomLeft

(* Opening a run uses up the room that was left, for the one start that    *)
(* holds the registry.                                                     *)
LEMMA OpenRoom == ASSUME LInv, RoomLeft, NEW p \in Callers, OpenRun(p) PROVE RoomLeft'
  <1> DEFINE h == call[p].handle
  <1>1. /\ At(p, "open") /\ Goto(p, "bootstrap") /\ stage[h] = "none" /\ h \in Handles
        /\ stage' = [stage EXCEPT ![h] = "opened"] /\ UNCHANGED broken
    BY DEF OpenRun, Exists, At, LInv, RequestsFit, LaunchSteps
  <1>2. ActiveRuns' = ActiveRuns \cup {h} /\ Counted' = Counted \cup {h}
    BY <1>1 DEF LInv, TypeOK, ActiveRuns, Counted, Exists, Terminal, TerminalStages
  <1>3. IsFiniteSet(ActiveRuns') BY <1>2, FS_AddElement DEF RoomLeft
  <1>4. IsFiniteSet(Counted) /\ Cardinality(Counted) \in Nat
    BY FS_Subset, FS_CardinalityType DEF RoomLeft, Counted
  <1>5. Cardinality(Counted') <= Cardinality(Counted) + 1
    <2>1. Cardinality(Counted \cup {h}) =
            IF h \in Counted THEN Cardinality(Counted) ELSE Cardinality(Counted) + 1
      BY <1>4, FS_AddElement
    <2> QED BY <1>2, <1>4, <2>1
  <1>6. Cardinality(Counted') \in Nat
    BY <1>2, <1>4, FS_AddElement, FS_CardinalityType
  <1>7. \A q \in Callers : ~At(q, "open")'
    BY <1>1 DEF LInv, TypeOK, LocksHold, InRegistry, At, Goto
  <1> QED BY <1>1, <1>3, <1>4, <1>5, <1>6, <1>7, LimitsAssumption DEF RoomLeft

(* Files that stop loading, or a stage that moves between two that count   *)
(* alike, change nothing.                                                  *)
LEMMA CountsAlike ==
  ASSUME NEW h \in Handles, LInv,
         \A g \in Handles : g # h => stage'[g] = stage[g] /\ (g \in broken' <=> g \in broken),
         Exists(h) /\ ~Terminal(h), Exists(h)' /\ ~Terminal(h)',
         stage[h] = "retrying" <=> stage'[h] = "retrying"
  PROVE  UNCHANGED <<ActiveRuns, Counted>>
  <1>1. UNCHANGED ActiveRuns BY DEF ActiveRuns, Exists, Terminal
  <1> QED BY <1>1 DEF Counted, ActiveRuns

(* RoomLeft survives every step: only opening a run makes one count. *)
LEMMA StepRoom == ASSUME LInv, RoomLeft, [Next]_vars PROVE RoomLeft'
  <1> USE DEF talk, runs, requests
  <1>1. ASSUME UNCHANGED <<stage, broken>>,
               \A p \in Callers : At(p, "open")' => At(p, "open")
        PROVE  RoomLeft'
    <2>1. UNCHANGED <<ActiveRuns, Counted>>
      BY <1>1 DEF ActiveRuns, Counted, Exists, Terminal
    <2> QED BY <1>1, <2>1, RoomFrame
  <1>2. ASSUME NEW p \in Callers, NEW c \in Conversations, CreateConversation(p, c)
        PROVE  RoomLeft'
    BY <1>1, <1>2 DEF CreateConversation, At
  <1>3. ASSUME NEW p \in Callers, NEW c \in Conversations, NEW s \in Scenarios \cup {None},
               SendMessage(p, c, s)
        PROVE  RoomLeft'
    BY <1>1, <1>3 DEF SendMessage, Take, At, LInv, TypeOK
  <1>4. ASSUME NEW p \in Callers, Answer(p) PROVE RoomLeft'
    BY <1>1, <1>4 DEF Answer, Return, Take, At, LInv, TypeOK
  <1>5. ASSUME NEW p \in Callers, NEW c \in Conversations, NEW t \in Token,
               LaunchConversation(p, c, t)
        PROVE  RoomLeft'
    BY <1>1, <1>5 DEF LaunchConversation, Take, At, LInv, TypeOK
  <1>6. ASSUME NEW p \in Callers, Reserve(p) PROVE RoomLeft'
    BY <1>1, <1>6 DEF Reserve, Goto, At, LInv, TypeOK
  <1>7. ASSUME NEW p \in Callers, Reconcile(p) PROVE RoomLeft'
    BY <1>1, <1>7 DEF Reconcile, Goto, At, LInv, TypeOK
  <1>8. ASSUME NEW p \in Callers, CountRuns(p) PROVE RoomLeft'
    <2>1. UNCHANGED <<stage, broken>> BY <1>8 DEF CountRuns
    <2>2. CASE Return(p)
      BY <1>1, <2>1, <2>2 DEF Return, Take, At, LInv, TypeOK
    <2>3. CASE Cardinality(ActiveRuns) < MaxRuns
      <3>1. Cardinality(Counted) <= Cardinality(ActiveRuns)
        BY FS_Subset DEF RoomLeft, Counted
      <3>2. Cardinality(Counted) \in Nat /\ Cardinality(ActiveRuns) \in Nat
        BY FS_Subset, FS_CardinalityType DEF RoomLeft, Counted
      <3>3. Cardinality(Counted) < MaxRuns BY <2>3, <3>1, <3>2, LimitsAssumption
      <3>4. UNCHANGED <<ActiveRuns, Counted>>
        BY <2>1 DEF ActiveRuns, Counted, Exists, Terminal
      <3> QED BY <3>3, <3>4 DEF RoomLeft
    <2> QED BY <1>8, <2>2, <2>3 DEF CountRuns
  <1>9. ASSUME NEW p \in Callers, OpenRun(p) PROVE RoomLeft'
    BY <1>9, OpenRoom
  <1>10. ASSUME NEW p \in Callers, TakeRecovery(p) PROVE RoomLeft'
    BY <1>1, <1>10 DEF TakeRecovery, Goto, Return, Take, At, LInv, TypeOK
  <1>11. ASSUME NEW p \in Callers, WriteBootstrap(p) PROVE RoomLeft'
    <2> DEFINE h == call[p].handle
    <2>1. /\ h \in Handles /\ UNCHANGED <<broken, requests>>
          /\ stage[h] \in {"opened", "initialized"}
          /\ \E s \in {"initialized", "evidenced"} : stage' = [stage EXCEPT ![h] = s]
      BY <1>11 DEF WriteBootstrap, LInv, RequestsFit, Starting, At, LaunchSteps
    <2>2. UNCHANGED <<ActiveRuns, Counted>>
      BY <2>1, CountsAlike DEF LInv, TypeOK, Exists, Terminal, TerminalStages
    <2> QED BY <2>1, <2>2, RoomFrame DEF At
  <1>12. ASSUME NEW p \in Callers, CallArchitect(p) PROVE RoomLeft'
    <2> DEFINE h == call[p].handle
    <2>1. /\ h \in Handles /\ UNCHANGED broken /\ stage[h] \in {"opened"} \cup Bootstrap
          /\ stage' = [stage EXCEPT ![h] = "advanced"]
      BY <1>12 DEF CallArchitect, LInv, RequestsFit, StagesFit, StepFits, Starting, At,
                   LaunchSteps
    <2>2. UNCHANGED <<ActiveRuns, Counted>>
      BY <2>1, CountsAlike DEF LInv, TypeOK, Exists, Terminal, TerminalStages, Bootstrap
    <2>3. \A q \in Callers : At(q, "open")' => At(q, "open")
      BY <1>12 DEF CallArchitect, Goto, At, LInv, TypeOK
    <2> QED BY <2>2, <2>3, RoomFrame
  <1>13. ASSUME NEW p \in Callers, Plan(p) PROVE RoomLeft'
    <2> DEFINE h == call[p].handle
    <2>1. /\ h \in Handles /\ UNCHANGED broken /\ stage[h] = "advanced"
          /\ \E s \in {"planned", "closed", "failed"} : stage' = [stage EXCEPT ![h] = s]
      BY <1>13 DEF Plan, LInv, RequestsFit, StagesFit, StepFits, At, LaunchSteps
    <2>2. ActiveRuns' \subseteq ActiveRuns
      BY <2>1 DEF LInv, TypeOK, ActiveRuns, Exists, Terminal, TerminalStages
    <2>3. Counted' \subseteq Counted
      BY <2>1, <2>2 DEF LInv, TypeOK, Counted
    <2>4. \A q \in Callers : At(q, "open")' => At(q, "open")
      BY <1>13 DEF Plan, Goto, At, LInv, TypeOK
    <2> QED BY <2>2, <2>3, <2>4, RoomKept, FS_Subset DEF RoomLeft
  <1>14. ASSUME NEW p \in Callers, RecordLaunch(p) PROVE RoomLeft'
    BY <1>1, <1>14 DEF RecordLaunch, Return, Take, At, LInv, TypeOK
  <1>15. ASSUME NEW p \in Callers, NEW h \in Handles, Decide(p, h) PROVE RoomLeft'
    <2>1. /\ UNCHANGED broken /\ stage[h] \in {"planned", "deciding"}
          /\ stage' = [stage EXCEPT ![h] = "deciding"]
      BY <1>15 DEF Decide, Operate
    <2>2. UNCHANGED <<ActiveRuns, Counted>>
      BY <2>1, CountsAlike DEF LInv, TypeOK, Exists, Terminal, TerminalStages
    <2>3. \A q \in Callers : At(q, "open")' => At(q, "open")
      BY <1>15 DEF Decide, Operate, Take, At, LInv, TypeOK
    <2> QED BY <2>2, <2>3, RoomFrame
  <1>16. ASSUME NEW p \in Callers, NEW h \in Handles, Retry(p, h) PROVE RoomLeft'
    <2>1. /\ UNCHANGED broken /\ stage[h] \in {"correctable", "retrying"}
          /\ stage' = [stage EXCEPT ![h] = "retrying"]
      BY <1>16 DEF Retry, Operate
    <2>2. ActiveRuns' \subseteq ActiveRuns \cup {h}
      BY <2>1 DEF LInv, TypeOK, ActiveRuns, Exists, Terminal
    <2>3. Counted' \subseteq Counted
      BY <2>1 DEF LInv, TypeOK, Counted, ActiveRuns, Exists, Terminal
    <2>4. IsFiniteSet(ActiveRuns')
      <3>1. IsFiniteSet(ActiveRuns \cup {h}) BY FS_AddElement DEF RoomLeft
      <3> QED BY <2>2, <3>1, FS_Subset
    <2>5. \A q \in Callers : At(q, "open")' => At(q, "open")
      BY <1>16 DEF Retry, Operate, Take, At, LInv, TypeOK
    <2> QED BY <2>3, <2>4, <2>5, RoomKept
  <1>17. ASSUME NEW p \in Callers, FinishOperation(p) PROVE RoomLeft'
    <2> DEFINE h == call[p].handle
    <2>1. /\ h \in Handles \ broken /\ UNCHANGED broken
          /\ \E s \in TerminalStages : stage' = [stage EXCEPT ![h] = s]
      BY <1>17 DEF FinishOperation, LInv, RequestsFit, At, TerminalStages
    <2>2. ActiveRuns' \subseteq ActiveRuns
      BY <2>1 DEF LInv, TypeOK, ActiveRuns, Exists, Terminal
    <2>3. h \notin ActiveRuns'
      BY <2>1 DEF LInv, TypeOK, ActiveRuns, Terminal
    <2>4. Counted' \subseteq Counted
      BY <2>1, <2>2, <2>3 DEF LInv, TypeOK, Counted
    <2>5. \A q \in Callers : At(q, "open")' => At(q, "open")
      BY <1>17 DEF FinishOperation, Return, Take, At, LInv, TypeOK
    <2> QED BY <2>2, <2>4, <2>5, RoomKept, FS_Subset DEF RoomLeft
  <1>18. ASSUME NEW p \in Callers, Raise(p) PROVE RoomLeft'
    <2> DEFINE h == call[p].handle
    <2>1. \A q \in Callers : At(q, "open")' => At(q, "open")
      BY <1>18 DEF Raise, Return, Take, At, LInv, TypeOK
    <2>2. CASE UNCHANGED broken BY <1>1, <1>18, <2>1, <2>2 DEF Raise
    <2>3. CASE At(p, "operating") /\ broken' = broken \cup {h}
      <3>1. h \in Handles /\ stage[h] \in {"deciding", "retrying"} /\ UNCHANGED stage
        BY <1>18, <2>3 DEF Raise, LInv, RequestsFit, StagesFit, StepFits
      <3>2. UNCHANGED <<ActiveRuns, Counted>>
        BY <2>3, <3>1, CountsAlike DEF Exists, Terminal, TerminalStages
      <3> QED BY <2>1, <3>2, RoomFrame
    <2> QED BY <1>18, <2>2, <2>3 DEF Raise
  <1>19. ASSUME Crash PROVE RoomLeft'
    <2>1. UNCHANGED stage /\ \A q \in Callers : ~At(q, "open")'
      BY <1>19 DEF Crash, At
    <2>2. \A p \in Callers : \A h \in CutOff(p) \cap Handles : Exists(h) /\ ~Terminal(h)
      <3> SUFFICES ASSUME NEW p \in Callers, NEW h \in CutOff(p) \cap Handles
                   PROVE  Exists(h) /\ ~Terminal(h)
        OBVIOUS
      <3>1. ~ (at[p] \in {"asking", "reserve", "record"})
        <4> SUFFICES ASSUME at[p] \in {"asking", "reserve", "record"} PROVE FALSE
          OBVIOUS
        <4>1. CutOff(p) = {call[p].conv} BY DEF CutOff, InRegistry, At
        <4>2. call[p].conv \in Conversations BY DEF LInv, RequestsFit, At, LaunchSteps
        <4> QED BY <4>1, <4>2, RootsAssumption
      <3>2. (InRegistry(p) \/ At(p, "operating")) /\ h = call[p].handle /\ Exists(h)
        BY <3>1 DEF CutOff
      <3>3. stage[h] \in {"none", "opened", "advanced", "deciding", "retrying"} \cup Bootstrap
        BY <3>2 DEF InRegistry, LInv, StagesFit, StepFits, Starting, At
      <3> QED BY <3>2, <3>3 DEF Terminal, TerminalStages, Bootstrap
    <2>3. \A h \in Handles : h \in broken' => h \in broken \/ (Exists(h) /\ ~Terminal(h))
      BY <1>19, <2>2 DEF Crash
    <2>4. broken \subseteq broken' BY <1>19 DEF Crash
    <2>5. ActiveRuns' = ActiveRuns
      BY <2>1, <2>3, <2>4 DEF ActiveRuns, Exists, Terminal
    <2>6. Counted' = Counted BY <2>1, <2>5 DEF Counted
    <2> QED BY <2>1, <2>5, <2>6, RoomFrame
  <1>20. ASSUME UNCHANGED vars PROVE RoomLeft'
    BY <1>1, <1>20 DEF vars, At
  <1> QED
    BY <1>2, <1>3, <1>4, <1>5, <1>6, <1>7, <1>8, <1>9, <1>10, <1>11, <1>12, <1>13,
       <1>14, <1>15, <1>16, <1>17, <1>18, <1>19, <1>20
       DEF Next, Request, Proceed

-----------------------------------------------------------------------------
(* Every reachable state satisfies IInv. *)
THEOREM Invariant == Spec => []IInv
  <1>1. Init => IInv BY InitInvariant, InitRoom DEF IInv
  <1>2. IInv /\ [Next]_vars => IInv' BY StepInvariant, StepRoom DEF IInv
  <1> QED BY <1>1, <1>2, PTL DEF Spec

(* Every variable keeps its type. *)
THEOREM TypeCorrect == Spec => []TypeOK
  <1>1. IInv => TypeOK BY DEF IInv, LInv
  <1> QED BY <1>1, Invariant, PTL

(* However often and from however many requests a conversation is launched, *)
(* one run comes of it. (begin_launch, _launch_new_run)                    *)
THEOREM OneRun == Spec => []OneRunPerConversation
  <1>1. IInv => OneRunPerConversation BY DEF IInv, LInv
  <1> QED BY <1>1, Invariant, PTL

(* The Architect plans a run at most once, although no lease protects the  *)
(* call. (recover_agent_run_start)                                         *)
THEOREM PlannedOnce == Spec => []ArchitectPlansOnce
  <1>1. IInv => ArchitectPlansOnce
    BY DEF IInv, LInv, StagesFit, ArchitectPlansOnce
  <1> QED BY <1>1, Invariant, PTL

(* A launch binds the exchange its request reviewed, which stays the last. *)
(* (begin_launch, append_exchange)                                         *)
THEOREM ReviewedLaunch == Spec => []LaunchIsTheReviewedExchange
  <1>1. IInv => LaunchIsTheReviewedExchange BY DEF IInv, LInv
  <1> QED BY <1>1, Invariant, PTL

(* A recorded launch has a run that is past its planning. (record_launch)  *)
THEOREM RecordedRun == Spec => []ReceiptHasItsRun
  <1>1. IInv => ReceiptHasItsRun BY DEF IInv, LInv
  <1> QED BY <1>1, Invariant, PTL

(* Starts never make more runs active than the service admits, for any     *)
(* number of request threads. (_start_agent_run under the registry lock)   *)
THEOREM Capacity == Spec => []CapacityRespected
  <1>1. IInv => CapacityRespected
    BY DEF IInv, RoomLeft, Counted, CapacityRespected
  <1> QED BY <1>1, Invariant, PTL
=============================================================================
