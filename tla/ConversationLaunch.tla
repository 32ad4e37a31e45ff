-------------------------- MODULE ConversationLaunch --------------------------
(***************************************************************************)
(* From an intake conversation to one running migration (ui/service.py,    *)
(* application/architect_conversation.py, the start of agent_run.py).  A   *)
(* launch spans two stores: it reserves a handle in the conversation,      *)
(* creates and plans the run of that handle, then records the receipt.  A  *)
(* crash may fall between any two writes, and the same launch is submitted *)
(* again, by the same browser tab or another one.                          *)
(*                                                                         *)
(* The requests are threads of one server process.  They share its locks:  *)
(* one per conversation, the registry, and one per run handle, taken in    *)
(* that order.  Which locks a request holds follows from where it is.      *)
(***************************************************************************)
EXTENDS Integers, Sequences, FiniteSets

CONSTANTS
  Conversations, Handles, Scenarios,
  Callers,             \* request threads
  MaxExchanges,        \* MAX_CONVERSATION_EXCHANGES
  MaxConversations,    \* MAX_CONVERSATIONS, of which the unlaunched count
  MaxRuns,             \* max_runs of the service
  None

ASSUME LimitsAssumption ==
  MaxExchanges \in Nat /\ MaxConversations \in Nat /\ MaxRuns \in Nat

(* Conversations and runs are directories of two different roots. *)
ASSUME RootsAssumption == Conversations \cap Handles = {}

VARIABLES
  created,     \* conversations with a header
  exchanges,   \* the exchanges of each conversation
  intent,      \* launch-intent.json of each conversation
  receipt,     \* launch.json of each conversation
  stage,       \* how far the run of each handle got
  contract,    \* the scenario each run was started with
  broken,      \* conversations and runs whose files no longer load
  at,          \* where each request is
  call,        \* what it works on
  reviewed,    \* history: the token the reserving request presented
  plans        \* history: Architect planning calls of each run

talk == <<created, exchanges, intent, receipt, reviewed>>
runs == <<stage, contract, plans>>
requests == <<at, call>>
vars == <<talk, runs, broken, requests>>

Exchange == [scenario : Scenarios \cup {None}, ready : BOOLEAN]
Token == 1 .. MaxExchanges
Intent == [handle : Handles, token : Token, scenario : Scenarios]

ASSUME NoneAssumption ==
  None \notin Conversations \cup Handles \cup Scenarios \cup Nat \cup Intent

(* opened: the directory exists but is not a session yet; initialized and  *)
(* evidenced: prefixes of the bootstrap; advanced: the checkpoint has left *)
(* its empty state and the Architect is called; then the outcome of        *)
(* planning and of the two operations.                                     *)
Bootstrap == {"initialized", "evidenced"}
TerminalStages == {"failed", "closed", "correctable"}
OperatedStages == {"planned", "deciding", "retrying"}
Stages == {"none", "opened", "advanced"}
            \cup Bootstrap \cup TerminalStages \cup OperatedStages

LaunchSteps == {"reserve", "reconcile", "start", "open", "bootstrap",
                "recover", "resume", "planning", "replanning", "record"}
Steps == {"idle", "asking", "operating"} \cup LaunchSteps
Calls == [conv : Conversations \cup {None},
          handle : Handles \cup {None},
          arg : Token \cup Scenarios \cup {None}]
NoCall == [conv |-> None, handle |-> None, arg |-> None]

Init ==
  /\ created = {} /\ broken = {}
  /\ exchanges = [c \in Conversations |-> <<>>]
  /\ intent = [c \in Conversations |-> None]
  /\ receipt = [c \in Conversations |-> None]
  /\ reviewed = [c \in Conversations |-> None]
  /\ stage = [h \in Handles |-> "none"]
  /\ contract = [h \in Handles |-> None]
  /\ plans = [h \in Handles |-> 0]
  /\ at = [p \in Callers |-> "idle"]
  /\ call = [p \in Callers |-> NoCall]

-----------------------------------------------------------------------------
(* Locks and what is read under them. *)

ConversationFree(c) == \A q \in Callers : call[q].conv # c

InRegistry(q) ==
  at[q] \in {"open", "bootstrap", "planning", "resume", "replanning"}
(* Mutant: starts are not serialized. *)
NoRegistry(p) == p \in Callers

RegistryFree(p) == \A q \in Callers \ {p} : ~InRegistry(q)

HandleFree(h) ==
  \A q \in Callers : call[q].handle = h => at[q] \notin {"operating", "resume", "replanning"}

At(p, where) == at[p] = where
Goto(p, where) == at' = [at EXCEPT ![p] = where] /\ UNCHANGED call
Take(p, where, what) ==
  /\ at' = [at EXCEPT ![p] = where]
  /\ call' = [call EXCEPT ![p] = what]
Return(p) == Take(p, "idle", NoCall)

Latest(c) == exchanges[c][Len(exchanges[c])]

(* The launch token binds the latest exchange, if it is ready.  Exchange   *)
(* files are never replaced, so the number stands for the content.         *)
Ready(c) == exchanges[c] # <<>> /\ Latest(c).ready /\ Latest(c).scenario # None
LaunchToken(c) == IF Ready(c) THEN Len(exchanges[c]) ELSE None

(* A conversation with a file it does not know is not loaded. *)
Loadable(c) == c \in created /\ c \notin broken

(* Mutant: only the receipt closes a conversation. *)
OpenUntilReceipt(c) == receipt[c] = None /\ Len(exchanges[c]) < MaxExchanges

MayExchange(c) == intent[c] = None /\ Len(exchanges[c]) < MaxExchanges

Exists(h) == stage[h] # "none"

(* Everything not verified to be over counts, corrupt entries included. *)
Terminal(h) == stage[h] \in TerminalStages /\ h \notin broken
ActiveRuns == {h \in Handles : Exists(h) /\ ~Terminal(h)}

(* Mutant: whatever exists is taken for a run. *)
ReadableIfExists(h) == Exists(h)

Readable(h) == stage[h] \in TerminalStages \cup OperatedStages /\ h \notin broken

(* Mutant: a run that already called the Architect is started again. *)
RecoverableEvenAdvanced(h) ==
  stage[h] \in Bootstrap \cup {"advanced"} /\ h \notin broken

(* Mutant: only a bootstrap with all its evidence is finished. *)
RecoverableEvidenced(h) == stage[h] = "evidenced" /\ h \notin broken

Recoverable(h) == stage[h] \in Bootstrap /\ h \notin broken

-----------------------------------------------------------------------------
(* Conversations. *)

Unlaunched == {c \in created : receipt[c] = None \/ c \in broken}

CreateConversation(p, c) ==
  /\ At(p, "idle") /\ c \notin created
  /\ RegistryFree(p)
  /\ Cardinality(Unlaunched) < MaxConversations
  /\ created' = created \cup {c}
  /\ UNCHANGED <<exchanges, intent, receipt, reviewed, runs, broken, requests>>

SendMessage(p, c, s) ==
  /\ At(p, "idle") /\ ConversationFree(c)
  /\ Loadable(c) /\ MayExchange(c)
  /\ Take(p, "asking", [conv |-> c, handle |-> None, arg |-> s])
  /\ UNCHANGED <<talk, runs, broken>>

(* The Architect answers, or the call fails and nothing is kept. *)
Answer(p) ==
  LET c == call[p].conv IN
  /\ At(p, "asking")
  /\ \/ /\ MayExchange(c)
        /\ \E r \in BOOLEAN :
             exchanges' = [exchanges EXCEPT ![c] =
                             Append(@, [scenario |-> call[p].arg, ready |-> r])]
     \/ UNCHANGED exchanges
  /\ Return(p)
  /\ UNCHANGED <<created, intent, receipt, reviewed, runs, broken>>

-----------------------------------------------------------------------------
(* Launch.  A token that is not the current one is stale.  A launch that   *)
(* is already recorded only reads the run again, which is no step here.    *)

NewHandle(h) ==
  /\ ~Exists(h)
  /\ \A d \in Conversations : intent[d] # None => intent[d].handle # h
  /\ \A q \in Callers : call[q].handle # h

(* Mutant: every submission of a launch proposes a handle of its own. *)
AlwaysNewHandle(c, h) == c \in Conversations /\ NewHandle(h)

(* A launch submitted again follows the handle it reserved. *)
LaunchHandle(c, h) ==
  IF intent[c] = None THEN NewHandle(h) ELSE h = intent[c].handle

LaunchConversation(p, c, t) ==
  /\ At(p, "idle") /\ ConversationFree(c)
  /\ Loadable(c) /\ receipt[c] = None
  /\ t = LaunchToken(c)
  /\ \E h \in Handles :
       /\ LaunchHandle(c, h)
       /\ Take(p, IF intent[c] = None THEN "reserve" ELSE "reconcile",
               [conv |-> c, handle |-> h, arg |-> t])
  /\ UNCHANGED <<talk, runs, broken>>

(* begin_launch binds the handle to the latest exchange, once. *)
Reserve(p) ==
  LET c == call[p].conv IN
  /\ At(p, "reserve")
  /\ call[p].arg = LaunchToken(c)
  /\ intent' = [intent EXCEPT ![c] = [handle |-> call[p].handle,
                                     token |-> LaunchToken(c),
                                     scenario |-> Latest(c).scenario]]
  /\ reviewed' = [reviewed EXCEPT ![c] = call[p].arg]
  /\ Goto(p, "reconcile")
  /\ UNCHANGED <<created, exchanges, receipt, runs, broken>>

(* A run of the reserved handle is taken as it is, if it can be read. *)
Reconcile(p) ==
  LET h == call[p].handle IN
  /\ At(p, "reconcile")
  /\ \/ ~Exists(h) /\ Goto(p, "start")
     \/ Exists(h) /\ HandleFree(h) /\ Readable(h) /\ Goto(p, "record")
     \/ Exists(h) /\ HandleFree(h) /\ ~Readable(h) /\ Goto(p, "recover")
  /\ UNCHANGED <<talk, runs, broken>>

(* The active runs are counted and the run is created under one lock. *)
CountRuns(p) ==
  /\ At(p, "start") /\ RegistryFree(p)
  /\ \/ Cardinality(ActiveRuns) < MaxRuns /\ Goto(p, "open")
     \/ Cardinality(ActiveRuns) >= MaxRuns /\ Return(p)
  /\ UNCHANGED <<talk, runs, broken>>

OpenRun(p) ==
  LET h == call[p].handle IN
  /\ At(p, "open") /\ ~Exists(h)
  /\ stage' = [stage EXCEPT ![h] = "opened"]
  /\ contract' = [contract EXCEPT ![h] = intent[call[p].conv].scenario]
  /\ Goto(p, "bootstrap")
  /\ UNCHANGED <<talk, plans, broken>>

(* The registry is taken before the handle; no holder of a handle waits    *)
(* for the registry, so both are taken here at once.                       *)
TakeRecovery(p) ==
  LET h == call[p].handle IN
  /\ At(p, "recover") /\ RegistryFree(p) /\ HandleFree(h)
  /\ \/ Recoverable(h) /\ Goto(p, "resume")
     \/ ~Recoverable(h) /\ Return(p)
  /\ UNCHANGED <<talk, runs, broken>>

-----------------------------------------------------------------------------
(* The start itself, fresh or recovered: writes already made are repeated  *)
(* with the same content, that is, skipped.                                *)

Starting(p) == At(p, "bootstrap") \/ At(p, "resume")

WriteBootstrap(p) ==
  LET h == call[p].handle IN
  /\ Starting(p)
  /\ \/ stage[h] = "opened" /\ stage' = [stage EXCEPT ![h] = "initialized"]
     \/ stage[h] = "initialized" /\ stage' = [stage EXCEPT ![h] = "evidenced"]
  /\ UNCHANGED <<talk, contract, plans, broken, requests>>

(* The workflow leaves the empty checkpoint and calls the Architect, for   *)
(* which no lease is kept.                                                 *)
CallArchitect(p) ==
  LET h == call[p].handle IN
  /\ Starting(p) /\ stage[h] \notin {"opened", "initialized"}
  /\ stage' = [stage EXCEPT ![h] = "advanced"]
  /\ plans' = [plans EXCEPT ![h] = @ + 1]
  /\ Goto(p, IF At(p, "resume") THEN "replanning" ELSE "planning")
  /\ UNCHANGED <<talk, contract, broken>>

(* A manifest awaits its decision, the Architect asked a question, or its  *)
(* call failed and the failure was recorded.                               *)
Plan(p) ==
  LET h == call[p].handle IN
  /\ At(p, "planning") \/ At(p, "replanning")
  /\ \E outcome \in {"planned", "closed", "failed"} :
       stage' = [stage EXCEPT ![h] = outcome]
  /\ Goto(p, "record")
  /\ UNCHANGED <<talk, contract, plans, broken>>

(* The run must carry what was launched before the receipt is written. *)
RecordLaunch(p) ==
  LET c == call[p].conv IN
  /\ At(p, "record")
  /\ contract[call[p].handle] = intent[c].scenario
  /\ call[p].handle = intent[c].handle
  /\ receipt' = [receipt EXCEPT ![c] = intent[c]]
  /\ Return(p)
  /\ UNCHANGED <<created, exchanges, intent, reviewed, runs, broken>>

-----------------------------------------------------------------------------
(* Operations on a run, reached by its handle, of which RunLifecycle has   *)
(* the detail.  They take the lock of the handle and no other, and do not  *)
(* look at the number of active runs.                                      *)

Operate(p, h, from, to) ==
  /\ At(p, "idle") /\ HandleFree(h)
  /\ Readable(h) /\ stage[h] \in from
  /\ stage' = [stage EXCEPT ![h] = to]
  /\ Take(p, "operating", [conv |-> None, handle |-> h, arg |-> None])
  /\ UNCHANGED <<talk, contract, plans, broken>>

Decide(p, h) == Operate(p, h, {"planned", "deciding"}, "deciding")
Retry(p, h) == Operate(p, h, {"correctable", "retrying"}, "retrying")

(* Attempt one may end in a recoverable failure; attempt two ends the run. *)
FinishOperation(p) ==
  LET h == call[p].handle IN
  /\ At(p, "operating")
  /\ \E outcome \in IF stage[h] = "deciding"
                     THEN TerminalStages ELSE {"failed", "closed"} :
       stage' = [stage EXCEPT ![h] = outcome]
  /\ Return(p)
  /\ UNCHANGED <<talk, contract, plans, broken>>

-----------------------------------------------------------------------------
(* A request raises between two writes; an operation may thereby leave one *)
(* of the gaps of RunLifecycle.                                            *)
Raise(p) ==
  /\ at[p] \notin {"idle", "asking"}
  /\ \/ UNCHANGED broken
     \/ At(p, "operating") /\ broken' = broken \cup {call[p].handle}
  /\ Return(p)
  /\ UNCHANGED <<talk, runs>>

(* The process dies.  A write that was cut off leaves its temporary file   *)
(* in the conversation or in the run.                                      *)
CutOff(p) ==
  CASE at[p] \in {"asking", "reserve", "record"} -> {call[p].conv}
    [] InRegistry(p) \/ At(p, "operating")
         -> {h \in {call[p].handle} : Exists(h)}
    [] OTHER -> {}

Crash ==
  /\ \E p \in Callers : ~At(p, "idle")
  /\ \E cut \in SUBSET UNION {CutOff(p) : p \in Callers} : broken' = broken \cup cut
  /\ at' = [p \in Callers |-> "idle"]
  /\ call' = [p \in Callers |-> NoCall]
  /\ UNCHANGED <<talk, runs>>

-----------------------------------------------------------------------------
Proceed(p) ==
  \/ Answer(p)
  \/ Reserve(p) \/ Reconcile(p) \/ CountRuns(p) \/ OpenRun(p) \/ TakeRecovery(p)
  \/ WriteBootstrap(p) \/ CallArchitect(p) \/ Plan(p) \/ RecordLaunch(p)
  \/ FinishOperation(p)

Request(p) ==
  \/ \E c \in Conversations :
       \/ CreateConversation(p, c)
       \/ \E s \in Scenarios \cup {None} : SendMessage(p, c, s)
       \/ \E t \in Token : LaunchConversation(p, c, t)
  \/ \E h \in Handles : Decide(p, h) \/ Retry(p, h)

Next == (\E p \in Callers : Request(p) \/ Proceed(p) \/ Raise(p)) \/ Crash

Spec == Init /\ [][Next]_vars

(* The server works on the requests it took; a launch that is pending is   *)
(* submitted again and gets its turn at the conversation's lock.           *)
Resubmit(c) ==
  /\ intent[c] # None
  /\ \E p \in Callers, t \in Token : LaunchConversation(p, c, t)

(* A request that ends without having changed anything looks like one that *)
(* was cut off; it is not one.                                             *)
Fault ==
  /\ Crash \/ \E p \in Callers : Raise(p)
  /\ \A p \in Callers : ~Proceed(p)

LiveSpec ==
  /\ Spec
  /\ \A p \in Callers : WF_vars(Proceed(p))
  /\ \A c \in Conversations : SF_vars(Resubmit(c))
  /\ <>[][~Fault]_vars

-----------------------------------------------------------------------------
TypeOK ==
  /\ created \subseteq Conversations
  /\ exchanges \in [Conversations -> Seq(Exchange)]
  /\ \A c \in Conversations : Len(exchanges[c]) <= MaxExchanges
  /\ intent \in [Conversations -> Intent \cup {None}]
  /\ receipt \in [Conversations -> Intent \cup {None}]
  /\ reviewed \in [Conversations -> Token \cup {None}]
  /\ stage \in [Handles -> Stages]
  /\ contract \in [Handles -> Scenarios \cup {None}]
  /\ plans \in [Handles -> Nat]
  /\ broken \subseteq Conversations \cup Handles
  /\ at \in [Callers -> Steps]
  /\ call \in [Callers -> Calls]

(* However often, from however many tabs and across however many crashes a *)
(* conversation is launched, one run comes of it: every run directory      *)
(* belongs to exactly one reservation and carries its scenario.            *)
OneRunPerConversation ==
  \A h \in Handles : Exists(h) =>
    /\ \E c \in Conversations :
         /\ intent[c] # None
         /\ intent[c].handle = h /\ contract[h] = intent[c].scenario
    /\ \A c, d \in Conversations :
         intent[c] # None /\ intent[d] # None
           /\ intent[c].handle = h /\ intent[d].handle = h => c = d

(* The Architect's planning call keeps no lease, so a second one is        *)
(* prevented only by refusing every start whose checkpoint is not empty.   *)
ArchitectPlansOnce == \A h \in Handles : plans[h] <= 1

(* What is launched is what the launching request had reviewed, and stays  *)
(* the last word of the conversation: no exchange follows a reservation.   *)
LaunchIsTheReviewedExchange ==
  \A c \in Conversations : intent[c] # None =>
    /\ reviewed[c] = intent[c].token
    /\ LaunchToken(c) = intent[c].token
    /\ Latest(c).scenario = intent[c].scenario

(* A receipt promises a run past its planning; it is never recorded for a  *)
(* directory that merely exists, whichever crash the launch went through.  *)
ReceiptHasItsRun ==
  \A c \in Conversations : receipt[c] # None =>
    /\ receipt[c] = intent[c]
    /\ stage[receipt[c].handle] \in TerminalStages \cup OperatedStages
    /\ plans[receipt[c].handle] = 1

(* The runs that a start made active never exceed the limit, whatever      *)
(* becomes unreadable.  A retry makes a run active again without asking,   *)
(* so runs in attempt two are counted on top.                              *)
CapacityRespected ==
  Cardinality({h \in ActiveRuns : stage[h] # "retrying"}) <= MaxRuns

(* A run whose files no longer load, or a start cut off before or after    *)
(* the part recovery accepts.                                              *)
Stranded(c) ==
  LET h == intent[c].handle IN
  \/ c \in broken \/ h \in broken
  \/ /\ stage[h] \in {"opened", "advanced"}
     /\ \A p \in Callers : call[p].handle # h

(* Once a launch has created its run, the receipt follows, unless the      *)
(* start was cut off where recovery refuses it; the capacity of the        *)
(* service plays no part any more.                                         *)
CreatedRunIsRecorded ==
  \A c \in Conversations :
    (intent[c] # None /\ Exists(intent[c].handle))
      ~> (receipt[c] # None \/ (intent[c] # None /\ Stranded(c)))

=============================================================================
