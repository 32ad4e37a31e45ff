---------------------------- MODULE BoundedProcess ----------------------------
(***************************************************************************)
(* A subprocess with bounded output and a deadline: the three runners      *)
(* _run_bounded_process of execution.py ("core"), _run_bounded_command of  *)
(* claude_cli_model.py ("claude") and the container runner of              *)
(* mulesoft_runtime.py ("container").                                      *)
(*                                                                         *)
(* The process leads a process group of its own and may start others in    *)
(* it, which inherit its pipes.  The runner reads both pipes until each    *)
(* has reached its end, the deadline has passed, or too much was written,  *)
(* and kills the group by a signal.  Processes that leave the group are    *)
(* not modelled.                                                           *)
(***************************************************************************)
EXTENDS Integers, FiniteSets

CONSTANTS
  Runners,     \* which of "core", "claude" and "container"
  Leader,      \* the started process
  Children,    \* processes it may start, directly or not
  Streams,     \* stdout and stderr
  Limit,       \* what is kept of a stream
  Volume       \* bound: what the group writes to a stream

ProcessAssumption ==
  /\ Runners \subseteq {"core", "claude", "container"}
  /\ Leader \notin Children
  /\ Limit \in Nat \ {0} /\ Volume \in Nat

Group == {Leader} \cup Children
Ended == {"returned", "raised"}

VARIABLES
  runner,
  state,       \* of each process
  holds,       \* the streams it has open
  reaped,      \* the leader's exit status has been collected
  sent,        \* written to each stream so far
  unread,      \* of that, still in the pipe
  kept,        \* of that, retained by the runner
  watched,     \* streams registered with the selector
  overdue,     \* the deadline has passed
  cut,         \* why the loop was left: "no", "timed_out" or "exceeded"
  pc

vars == <<runner, state, holds, reaped, sent, unread, kept, watched, overdue, cut, pc>>
pipes == <<sent, unread>>
processes == <<state, holds>>

Init ==
  /\ runner \in Runners
  /\ state = [p \in Group |-> IF p = Leader THEN "alive" ELSE "unborn"]
  /\ holds = [p \in Group |-> IF p = Leader THEN Streams ELSE {}]
  /\ reaped = FALSE
  /\ sent = [s \in Streams |-> 0]
  /\ unread = [s \in Streams |-> 0]
  /\ kept = [s \in Streams |-> 0]
  /\ watched = Streams
  /\ overdue = FALSE /\ cut = "no"
  /\ pc = "loop"

Alive == {p \in Group : state[p] = "alive"}
AtEnd(s) == unread[s] = 0 /\ \A p \in Alive : s \notin holds[p]

-----------------------------------------------------------------------------
(* The processes of the group, and time.                                   *)

Spawn(c) ==
  /\ state[c] = "unborn"
  /\ \E p \in Alive, inherited \in SUBSET Streams :
       /\ inherited \subseteq holds[p]
       /\ holds' = [holds EXCEPT ![c] = inherited]
  /\ state' = [state EXCEPT ![c] = "alive"]
  /\ UNCHANGED <<runner, reaped, pipes, kept, watched, overdue, cut, pc>>

Write(p, s) ==
  /\ p \in Alive /\ s \in holds[p] /\ sent[s] < Volume /\ pc \notin Ended
  /\ sent' = [sent EXCEPT ![s] = @ + 1]
  /\ unread' = [unread EXCEPT ![s] = @ + 1]
  /\ UNCHANGED <<runner, processes, reaped, kept, watched, overdue, cut, pc>>

CloseStream(p, s) ==
  /\ p \in Alive /\ s \in holds[p]
  /\ holds' = [holds EXCEPT ![p] = @ \ {s}]
  /\ UNCHANGED <<runner, state, reaped, pipes, kept, watched, overdue, cut, pc>>

Exit(p) ==
  /\ p \in Alive
  /\ state' = [state EXCEPT ![p] = "exited"]
  /\ holds' = [holds EXCEPT ![p] = {}]
  /\ UNCHANGED <<runner, reaped, pipes, kept, watched, overdue, cut, pc>>

Deadline ==
  /\ ~overdue
  /\ overdue' = TRUE
  /\ UNCHANGED <<runner, processes, reaped, pipes, kept, watched, cut, pc>>

Outside ==
  \/ \E c \in Children : Spawn(c)
  \/ \E p \in Group : Exit(p) \/ \E s \in Streams : Write(p, s) \/ CloseStream(p, s)

-----------------------------------------------------------------------------
(* _kill_process_group.  That of execution.py asks for the leader's status *)
(* first and returns when there is one.                                    *)

KillGroup ==
  /\ state' = [p \in Group |-> IF p \in Alive THEN "killed" ELSE state[p]]
  /\ holds' = [p \in Group |-> {}]

Kill ==
  CASE runner = "core" ->
         IF Leader \in Alive THEN KillGroup /\ UNCHANGED reaped
                             ELSE reaped' = TRUE /\ UNCHANGED processes
    [] runner = "claude" -> KillGroup /\ reaped' = TRUE
    [] OTHER -> KillGroup /\ UNCHANGED reaped

-----------------------------------------------------------------------------
(* The loop over the selector.                                             *)

(* Mutant: an empty pipe is taken for its end. *)
EmptyIsEnd(s) ==
  /\ pc = "loop" /\ s \in watched /\ unread[s] = 0
  /\ watched' = watched \ {s}
  /\ UNCHANGED <<runner, processes, reaped, pipes, kept, overdue, cut, pc>>

ReadEnd(s) ==
  /\ pc = "loop" /\ s \in watched /\ AtEnd(s)
  /\ watched' = watched \ {s}
  /\ UNCHANGED <<runner, processes, reaped, pipes, kept, overdue, cut, pc>>

(* The container's runner counts what was written and drops a chunk that   *)
(* passes the limit; the others keep what fits.                            *)
Retained(s) ==
  IF runner = "container" /\ kept[s] + unread[s] > Limit THEN kept[s]
  ELSE IF kept[s] + unread[s] > Limit THEN Limit ELSE kept[s] + unread[s]

ReadChunk(s) ==
  /\ pc = "loop" /\ s \in watched /\ unread[s] > 0
  /\ kept' = [kept EXCEPT ![s] = Retained(s)]
  /\ unread' = [unread EXCEPT ![s] = 0]
  /\ IF kept[s] + unread[s] > Limit
     THEN cut' = "exceeded" /\ Kill /\ pc' = "wait"
     ELSE UNCHANGED <<cut, processes, reaped, pc>>
  /\ UNCHANGED <<runner, sent, watched, overdue>>

TimeOut ==
  /\ pc = "loop" /\ watched # {} /\ overdue
  /\ cut' = "timed_out" /\ Kill
  /\ pc' = IF runner = "claude" THEN "raised" ELSE "wait"
  /\ UNCHANGED <<runner, pipes, kept, watched, overdue>>

LoopEnds ==
  /\ pc = "loop" /\ watched = {}
  /\ pc' = "wait"
  /\ UNCHANGED <<runner, processes, reaped, pipes, kept, watched, overdue, cut>>

-----------------------------------------------------------------------------
(* process.wait: the status is there, or the leader still runs after five  *)
(* seconds. The claude runner waits for nothing: it kills what it finds.   *)

Reap ==
  /\ pc = "wait" /\ Leader \notin Alive
  /\ reaped' = TRUE /\ pc' = "returned"
  /\ UNCHANGED <<runner, processes, pipes, kept, watched, overdue, cut>>

WaitExpires ==
  /\ pc = "wait" /\ Leader \in Alive
  /\ CASE runner = "core" -> KillGroup /\ reaped' = TRUE /\ pc' = "raised"
       [] runner = "claude" -> KillGroup /\ reaped' = TRUE /\ pc' = "returned"
       [] OTHER -> pc' = "raised" /\ UNCHANGED <<processes, reaped>>
  /\ UNCHANGED <<runner, pipes, kept, watched, overdue, cut>>

Run ==
  \/ \E s \in Streams : ReadEnd(s) \/ ReadChunk(s)
  \/ TimeOut \/ LoopEnds \/ Reap \/ WaitExpires

Finished == pc \in Ended /\ UNCHANGED vars

Next == Outside \/ Deadline \/ Run \/ Finished
Spec == Init /\ [][Next]_vars

-----------------------------------------------------------------------------
(* Properties *)

TypeOK ==
  /\ runner \in Runners
  /\ state \in [Group -> {"unborn", "alive", "exited", "killed"}]
  /\ holds \in [Group -> SUBSET Streams]
  /\ reaped \in BOOLEAN /\ overdue \in BOOLEAN
  /\ sent \in [Streams -> 0..Volume] /\ unread \in [Streams -> 0..Volume]
  /\ kept \in [Streams -> 0..Limit]
  /\ watched \subseteq Streams
  /\ cut \in {"no", "timed_out", "exceeded"}
  /\ pc \in {"loop", "wait"} \cup Ended

(* A run that is returned as complete kept every byte that any process of  *)
(* the group wrote, and nobody is left that could write more: a runner     *)
(* that stops at the leader's exit, or at an empty pipe, loses the tail of *)
(* a result. (_run_bounded_process, _run_bounded_command)                  *)
CompleteOutput ==
  pc = "returned" /\ cut = "no" =>
    \A s \in Streams : kept[s] = sent[s] /\ \A p \in Alive : s \notin holds[p]

(* A run that was cut off leaves nothing of its group alive, unless it is  *)
(* one of execution.py whose leader had exited by itself.                  *)
(* (_kill_process_group)                                                   *)
CutOffEndsTheGroup ==
  cut # "no" => Alive = {} \/ (runner = "core" /\ state[Leader] = "exited")

(* No run returns while its leader is alive; one that raises leaves it     *)
(* alive only in the container runner, whose leader closed both pipes and  *)
(* went on for five seconds: its caller must remove the container.         *)
(* (_run_bounded_process, _BoundedSubprocessContainerRunner.run)           *)
LeaderIsGone ==
  pc \in Ended => Leader \notin Alive \/ (runner = "container" /\ pc = "raised" /\ cut = "no")

-----------------------------------------------------------------------------
(* Why they hold: an inductive invariant, in parts *)

(* Until a run is cut off every byte written is kept or still in its pipe, *)
(* and a stream that is no longer watched is at its end for good.          *)
NothingIsLost ==
  /\ \A s \in Streams : unread[s] <= sent[s] /\ (s \notin watched => AtEnd(s))
  /\ cut = "no" => \A s \in Streams : kept[s] + unread[s] = sent[s]

(* The loop is left at the end of both streams or by a cut, and nobody     *)
(* but the runner kills the leader.                                        *)
LeftOnce ==
  /\ pc = "loop" => cut = "no" /\ state[Leader] \in {"alive", "exited"}
  /\ pc # "loop" /\ cut = "no" => watched = {}

Inv == TypeOK /\ NothingIsLost /\ LeftOnce /\ CutOffEndsTheGroup /\ LeaderIsGone

-----------------------------------------------------------------------------
(* Liveness: the runner's thread is scheduled and time passes. Nothing is  *)
(* assumed of the processes, which may hold a pipe and sleep for ever.     *)

Fairness == WF_vars(Run) /\ WF_vars(Deadline)
FairSpec == Spec /\ Fairness

(* Where every run arrives. (_run_bounded_process, _run_bounded_command)   *)
RunEnds == pc \in Ended
==============================================================================
