----------------------------- MODULE CliProcess -----------------------------
(***************************************************************************)
(* _run_bounded_command (agent_runtime/claude_cli_model.py): one thread    *)
(* feeds the prompt to the command through a pipe and reads its two output *)
(* streams through two more, never blocking on one of them, until all are  *)
(* closed, a stream passes its limit, or the deadline passes.  Then what   *)
(* still runs of the command is killed and reaped.                         *)
(***************************************************************************)
EXTENDS Naturals

CONSTANTS InputSize,  \* units of prompt
          PipeSize,   \* bound: units a pipe holds
          Limit,      \* units of a stream that are kept
          MaxWrites,  \* bound: units the command writes to a stream
          Deadline,   \* whether the deadline can pass
          Dutiful     \* whether the command reads its whole prompt and writes
                      \* MaxWrites units to each stream, one after the other
                      \* in an order of its own, before it ends

VARIABLES phase,    \* of the loop: "loop", then how the call ended
          feeding,  \* the command's input is registered with the selector
          fed,      \* input_offset
          reading,  \* the streams registered
          kept,     \* bytearrays stdout and stderr
          exceeded,
          kid,      \* the command: what it did, its open streams, its exit code
          code      \* the return code reported

vars == <<phase, feeding, fed, reading, kept, exceeded, kid, code>>

Streams == {"stdout", "stderr"}
Jobs == {"input"} \cup Streams
Orders == {o \in [1 .. 3 -> Jobs] : \A i, j \in 1 .. 3 : o[i] = o[j] => i = j}
Running == "running"
Killed == "killed"

TypeOK ==
    /\ phase \in {"loop", "returned", "timeout"}
    /\ feeding \in BOOLEAN
    /\ fed \in 0 .. InputSize
    /\ reading \subseteq Streams
    /\ kept \in [Streams -> 0 .. Limit]
    /\ exceeded \subseteq Streams
    /\ kid \in [read : 0 .. InputSize, wrote : [Streams -> 0 .. MaxWrites],
                taken : [Streams -> 0 .. MaxWrites], open : SUBSET Streams,
                order : Orders, exit : {Running, Killed, "zero", "nonzero"}]
    /\ code \in {Running, Killed, "zero", "nonzero"}

Init ==
    /\ phase = "loop"
    /\ feeding = TRUE
    /\ fed = 0
    /\ reading = Streams
    /\ kept = [s \in Streams |-> 0]
    /\ exceeded = {}
    /\ \E o \in Orders :
          kid = [read |-> 0, wrote |-> [s \in Streams |-> 0], taken |-> [s \in Streams |-> 0],
                 open |-> Streams, order |-> o, exit |-> Running]
    /\ code = Running

Alive == kid.exit = Running
InPipe(s) == kid.wrote[s] - kid.taken[s]

\* _kill_process_group: SIGKILL to the group, and the process is reaped.
Kill(k) == IF k.exit = Running THEN [k EXCEPT !.exit = Killed, !.open = {}] ELSE k

-----------------------------------------------------------------------------
(* The command *)

Done(j) == IF j = "input" THEN kid.read = InputSize ELSE kid.wrote[j] = MaxWrites

\* A dutiful command that has begun a job is held up by it.
Its(j) == Dutiful => \A i \in 1 .. 3 : kid.order[i] = j => \A h \in 1 .. i - 1 : Done(kid.order[h])

KidReads ==
    /\ Alive
    /\ Its("input")
    /\ kid.read < fed
    /\ kid' = [kid EXCEPT !.read = @ + 1]
    /\ UNCHANGED <<phase, feeding, fed, reading, kept, exceeded, code>>

KidWrites(s) ==
    /\ Alive
    /\ Its(s)
    /\ s \in kid.open
    /\ kid.wrote[s] < MaxWrites
    /\ InPipe(s) < PipeSize
    /\ kid' = [kid EXCEPT !.wrote[s] = @ + 1]
    /\ UNCHANGED <<phase, feeding, fed, reading, kept, exceeded, code>>

\* It closes a stream of its own accord and goes on.
KidCloses(s) ==
    /\ Alive
    /\ s \in kid.open
    /\ ~Dutiful
    /\ kid' = [kid EXCEPT !.open = @ \ {s}]
    /\ UNCHANGED <<phase, feeding, fed, reading, kept, exceeded, code>>

KidExits ==
    /\ Alive
    /\ Dutiful => \A j \in Jobs : Done(j)
    /\ \E c \in {"zero", "nonzero"} : kid' = [kid EXCEPT !.exit = c, !.open = {}]
    /\ UNCHANGED <<phase, feeding, fed, reading, kept, exceeded, code>>

-----------------------------------------------------------------------------
(* The loop over the selector's events *)

Looping == phase = "loop" /\ (feeding \/ reading # {})

\* Mutant: the whole prompt is written before anything is read.
FeedBlocking ==
    /\ Looping
    /\ feeding
    /\ reading' = IF fed < InputSize THEN {} ELSE Streams
    /\ \/ /\ fed < InputSize
          /\ fed - kid.read < PipeSize
          /\ fed' = fed + 1
          /\ UNCHANGED feeding
       \/ /\ fed = InputSize
          /\ feeding' = FALSE
          /\ UNCHANGED fed
    /\ UNCHANGED <<phase, kept, exceeded, kid, code>>

\* The input pipe takes what fits; all of it was taken, or the command is gone
\* (BrokenPipeError), and the input is closed.
Feed ==
    /\ Looping
    /\ feeding
    /\ \/ /\ fed < InputSize
          /\ Alive
          /\ fed - kid.read < PipeSize
          /\ fed' = fed + 1
          /\ UNCHANGED feeding
       \/ /\ fed = InputSize \/ ~Alive
          /\ feeding' = FALSE
          /\ UNCHANGED fed
    /\ UNCHANGED <<phase, reading, kept, exceeded, kid, code>>

\* A read returns some of what is in the pipe.  What passes the limit is
\* dropped, the command is killed, and the stream is closed.
ReadChunk(s) ==
    /\ Looping
    /\ s \in reading
    /\ \E n \in 1 .. InPipe(s) :
          /\ IF kept[s] + n > Limit
             THEN /\ kept' = [kept EXCEPT ![s] = Limit]
                  /\ exceeded' = exceeded \cup {s}
                  /\ reading' = reading \ {s}
                  /\ kid' = Kill([kid EXCEPT !.taken[s] = @ + n])
             ELSE /\ kept' = [kept EXCEPT ![s] = @ + n]
                  /\ kid' = [kid EXCEPT !.taken[s] = @ + n]
                  /\ UNCHANGED <<exceeded, reading>>
    /\ UNCHANGED <<phase, feeding, fed, code>>

ReadEnd(s) ==
    /\ Looping
    /\ s \in reading
    /\ InPipe(s) = 0
    /\ s \notin kid.open
    /\ reading' = reading \ {s}
    /\ UNCHANGED <<phase, feeding, fed, kept, exceeded, kid, code>>

\* Nothing is left to wait for, or a stream passed its limit: the rest is
\* closed, what still runs is killed, and its return code is reported.
Finished == ~feeding /\ reading = {}

Return ==
    /\ phase = "loop"
    /\ Finished \/ exceeded # {}
    /\ phase' = "returned"
    /\ kid' = Kill(kid)
    /\ code' = Kill(kid).exit
    /\ feeding' = FALSE
    /\ reading' = {}
    /\ UNCHANGED <<fed, kept, exceeded>>

\* TimeoutExpired, or any other exception of the loop.
TimeOut ==
    /\ Deadline
    /\ Looping
    /\ phase' = "timeout"
    /\ kid' = Kill(kid)
    /\ feeding' = FALSE
    /\ reading' = {}
    /\ UNCHANGED <<fed, kept, exceeded, code>>

Kid == KidReads \/ KidExits \/ \E s \in Streams : KidWrites(s) \/ KidCloses(s)
Loop == Feed \/ Return \/ \E s \in Streams : ReadChunk(s) \/ ReadEnd(s)
Next == Kid \/ Loop \/ TimeOut

Spec == Init /\ [][Next]_vars

\* The operating system runs the command, and the selector reports every
\* descriptor that is ready.
FairSpec == Spec /\ WF_vars(Kid) /\ WF_vars(Loop)

-----------------------------------------------------------------------------
(* Properties *)

\* An answer that counts as given (return code zero, no limit passed) is the
\* whole of what the command wrote: nothing is lost that was still in a pipe
\* when the command ended.
AnswerIsWhole ==
    phase = "returned" /\ code = "zero" /\ exceeded = {} => \A s \in Streams : kept[s] = kid.wrote[s]

\* A return code of the command's own is of a command that ended by itself,
\* and none runs on after the call, whichever way the call ended.
NothingRunsOn == phase # "loop" => ~Alive

\* The deadline is not needed to get out of a deadlock: a command that writes
\* before it reads, or interleaves the two, fills no pipe that the thread
\* waits on, and the call ends with the command.  (The state that is reached.)
EndsWithoutDeadline == phase = "returned"

-----------------------------------------------------------------------------
(* Why they hold: an inductive invariant, in parts *)

\* What was taken from a stream was written, and is kept up to the limit; a
\* stream that is no longer read is empty, and nobody can write to it.
NothingIsLost ==
    /\ phase # "loop" => reading = {}
    /\ \A s \in Streams :
          /\ kid.taken[s] <= kid.wrote[s]
          /\ s \notin exceeded => kept[s] = kid.taken[s]
          /\ phase # "timeout" /\ exceeded = {} /\ s \notin reading =>
                InPipe(s) = 0 /\ s \notin kid.open

Inv == TypeOK /\ NothingIsLost /\ NothingRunsOn
=============================================================================
