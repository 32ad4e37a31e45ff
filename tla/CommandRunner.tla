---------------------------- MODULE CommandRunner ----------------------------
(***************************************************************************)
(* SafeCommandRunner (execution.py, policies.py): threads share one runner *)
(* to execute predeclared commands.  An approval's nonce is consumed, under*)
(* a lock, before the process is spawned; when the process has ended, the  *)
(* artifact its command declares is opened, hashed in pieces and compared  *)
(* with what it was.  Processes of the command that outlive it, and other  *)
(* commands with the same artifact, may write meanwhile, in place or by a  *)
(* rename.  Modification times come from a clock that ticks coarsely.      *)
(* The bounded process itself is BoundedProcess; output, redaction and     *)
(* working directories are left out.                                       *)
(***************************************************************************)
EXTENDS Naturals, Sequences, FiniteSets

CONSTANTS
    Threads,
    Nonces,        \* of the approvals at hand
    Attempts,      \* attempt numbers callers give
    MaxAttempts,   \* RetryBudget.maximum_attempts
    MaxWrites,     \* bound: the writes
    MaxClock,      \* bound: the ticks of the file system's clock
    NoFile

FileStates == [inode : Nat, mtime : Nat, parts : [1 .. 2 -> Nat]]

CommandRunnerAssumption ==
    /\ Attempts \subseteq Nat /\ MaxAttempts \in Nat \ {0}
    /\ MaxWrites \in Nat \ {0} /\ MaxClock \in Nat
    /\ "none" \notin Nonces /\ NoFile \notin FileStates

VARIABLES
    call,       \* what each thread is doing
    consumed,   \* nonces consumed
    file,       \* the declared artifact's path: a file, a link, or nothing
    old,        \* files that were replaced, still open somewhere
    writers,    \* processes of commands that may still write
    writes,     \* history: the writes so far
    clock,
    spawned,    \* history: per nonce, the processes it authorized
    hidden,     \* history: files written twice within one tick
    receipts    \* history: for each receipt, what was hashed, of which file, and what
                \* the path had when all was read

vars == <<call, consumed, file, old, writers, writes, clock, spawned, hidden, receipts>>
disk == <<file, old, writes, hidden>>

Idle == [pc |-> "idle"]
Doing(t) == call[t].pc
Become(t, state) == call' = [call EXCEPT ![t] = state]
Link == [inode |-> 0, mtime |-> 0, parts |-> <<0, 0>>]

\* A file's two pieces, each the number of the write it is from.
File(n) == [inode |-> n, mtime |-> clock, parts |-> <<n, n>>]

Hashed(t) == [inode |-> call[t].inode, got |-> call[t].got, now |-> call[t].now]

\* The file a descriptor is open on.
Opened(t) == CHOOSE f \in old \cup {file} : f # NoFile /\ f.inode = call[t].inode

Init ==
    /\ call = [t \in Threads |-> Idle]
    /\ consumed = {}
    /\ file \in {NoFile, Link, [inode |-> 1, mtime |-> 0, parts |-> <<1, 1>>]}
    /\ old = {}
    /\ writers = {}
    /\ writes = 1
    /\ clock = 0
    /\ spawned = [n \in Nonces |-> 0]
    /\ hidden = {}
    /\ receipts = {}

\* As many attempts must be complete as leave one.
WithinBudget(attempt) == attempt >= 1 /\ attempt - 1 < MaxAttempts

\* An approval may have a nonce; a command may need none.
Approvals == Nonces \cup {"plain", "none"}
Authorized(command, approval) == command = "gated" => approval # "none"

\* The command, its arguments, directory and environment are the registered
\* ones, and the approval matches the call exactly.
Call(t) ==
    /\ Doing(t) = "idle"
    /\ \E attempt \in Attempts, command \in {"gated", "free"}, approval \in Approvals :
          /\ WithinBudget(attempt) /\ Authorized(command, approval)
          /\ LET uses == command = "gated" /\ approval \in Nonces
             IN Become(t, [pc |-> IF uses THEN "consume" ELSE "spawn", attempt |-> attempt,
                           nonce |-> IF uses THEN approval ELSE "none"])
    /\ UNCHANGED <<consumed, writers, clock, spawned, receipts, disk>>

\* The look and the entry are one step, under the lock.
Consume(t) ==
    /\ Doing(t) = "consume"
    /\ IF call[t].nonce \in consumed THEN Become(t, Idle) /\ UNCHANGED consumed
       ELSE /\ consumed' = consumed \cup {call[t].nonce}
            /\ Become(t, [call[t] EXCEPT !.pc = "spawn"])
    /\ UNCHANGED <<writers, clock, spawned, receipts, disk>>

Spawn(t) ==
    /\ Doing(t) = "spawn"
    /\ writers' = writers \cup {t}
    /\ spawned' = [n \in Nonces |-> spawned[n] + IF n = call[t].nonce THEN 1 ELSE 0]
    /\ Become(t, [call[t] EXCEPT !.pc = "run"])
    /\ UNCHANGED <<consumed, clock, receipts, disk>>

\* The command ends, is timed out, or wrote too much; some process of it may
\* outlive it.
Terminate(t) ==
    /\ Doing(t) = "run"
    /\ Become(t, [pc |-> "look"])
    /\ \E outlived \in BOOLEAN : writers' = IF outlived THEN writers ELSE writers \ {t}
    /\ UNCHANGED <<consumed, clock, spawned, receipts, disk>>

Tick ==
    /\ clock < MaxClock
    /\ clock' = clock + 1
    /\ UNCHANGED <<call, consumed, writers, spawned, receipts, disk>>

\* One piece is written in place.
WritePiece ==
    /\ writers # {} /\ writes < MaxWrites
    /\ file \notin {NoFile, Link}
    /\ writes' = writes + 1
    /\ \E i \in 1 .. 2 :
          file' = [file EXCEPT !.parts[i] = writes + 1, !.mtime = clock]
    /\ hidden' = IF file.mtime = clock THEN hidden \cup {file.inode} ELSE hidden
    /\ UNCHANGED <<call, consumed, old, writers, clock, spawned, receipts>>

\* The path gets another file, a link, or none.
Replace ==
    /\ writers # {} /\ writes < MaxWrites
    /\ writes' = writes + 1
    /\ file' \in {File(writes + 1), Link, NoFile}
    /\ old' = IF file = NoFile THEN old ELSE old \cup {file}
    /\ UNCHANGED <<call, consumed, writers, clock, spawned, hidden, receipts>>

\* Nothing there, or a link: the call fails, without a receipt.
Look(t) ==
    /\ Doing(t) = "look"
    /\ Become(t, IF file \in {NoFile, Link} THEN Idle ELSE [pc |-> "open"])
    /\ UNCHANGED <<consumed, writers, clock, spawned, receipts, disk>>

\* A link is not followed; what is opened may be another file than was seen.
Open(t) ==
    /\ Doing(t) = "open"
    /\ Become(t, IF file \in {NoFile, Link} THEN Idle
                 ELSE [pc |-> "read", inode |-> file.inode, mtime |-> file.mtime, got |-> <<>>,
                       now |-> file])
    /\ UNCHANGED <<consumed, writers, clock, spawned, receipts, disk>>

Read(t) ==
    /\ Doing(t) = "read"
    /\ LET n == Len(call[t].got) + 1
       IN Become(t, [call[t] EXCEPT !.got = Append(@, Opened(t).parts[n]),
                                    !.pc = IF n = 2 THEN "compare" ELSE "read",
                                    !.now = file])
    /\ UNCHANGED <<consumed, writers, clock, spawned, receipts, disk>>

\* The open file was not written while it was read, as far as its time tells.
Compare(t) ==
    /\ Doing(t) = "compare"
    /\ Become(t, IF Opened(t).mtime = call[t].mtime THEN [call[t] EXCEPT !.pc = "place"] ELSE Idle)
    /\ UNCHANGED <<consumed, writers, clock, spawned, receipts, disk>>

\* And it is the file that is at the path now.
Place(t) ==
    /\ Doing(t) = "place"
    /\ Become(t, Idle)
    /\ receipts' = IF file # NoFile /\ file.inode = call[t].inode
                   THEN receipts \cup {Hashed(t)}
                   ELSE receipts
    /\ UNCHANGED <<consumed, writers, clock, spawned, disk>>

Next ==
    \/ \E t \in Threads :
        \/ Call(t) \/ Consume(t) \/ Spawn(t) \/ Terminate(t) \/ Look(t) \/ Open(t)
        \/ Read(t) \/ Compare(t) \/ Place(t)
    \/ Tick \/ WritePiece \/ Replace

Spec == Init /\ [][Next]_vars

-----------------------------------------------------------------------------
(* Every variable keeps to its range; no call is past its budget. *)
TypeOK ==
    /\ consumed \subseteq Nonces
    /\ writers \subseteq Threads
    /\ writes <= MaxWrites /\ clock <= MaxClock
    /\ spawned \in [Nonces -> Nat]
    /\ \A t \in Threads :
           /\ Doing(t) \in {"idle", "consume", "spawn", "run", "look", "open", "read", "compare",
                            "place"}
           /\ Doing(t) \in {"consume", "spawn"} => call[t].attempt \in 1 .. MaxAttempts

\* An approval with a nonce authorizes one process of the runner, however many
\* threads hold it.
OneProcessPerNonce == \A n \in Nonces : spawned[n] <= 1

\* A receipt's digest is of what the declared path had when all of it was read:
\* not of a mixture of two writes, nor of a file replaced meanwhile.  Two writes
\* within one tick of the clock cannot be told apart.
DigestIsOfThePath ==
    \A r \in receipts : r.inode \in hidden \/ (r.now # NoFile /\ r.got = r.now.parts)

-----------------------------------------------------------------------------
(* Why they hold: an inductive invariant, in parts *)

\* A nonce is consumed before its process, by one thread.
NoncesFit ==
    /\ call = [t \in Threads |-> call[t]]
    /\ \A n \in Nonces : spawned[n] \in 0 .. 1 /\ (spawned[n] = 1 => n \in consumed)
    /\ \A t \in Threads : Doing(t) = "consume" => call[t].nonce \in Nonces
    /\ \A t \in Threads : Doing(t) = "spawn" /\ call[t].nonce \in Nonces =>
           /\ call[t].nonce \in consumed /\ spawned[call[t].nonce] = 0
           /\ \A u \in Threads \ {t} : Doing(u) = "spawn" => call[u].nonce # call[t].nonce

\* An inode is one file, and a file that was replaced does not come back.
OnDisk == (old \cup {file}) \ {NoFile}
FilesFit ==
    /\ writes \in 1 .. MaxWrites /\ clock \in 0 .. MaxClock
    /\ OnDisk \subseteq FileStates /\ NoFile \notin old
    /\ \A f \in OnDisk :
           f.inode <= writes /\ f.mtime <= clock /\ (f.inode = 0 => f = Link)
    /\ \A f, g \in OnDisk : f.inode = g.inode => f = g
    /\ file \in old => file = Link

\* What was read is what the open file has, unless it was written since: then its
\* time is another one, or the write is hidden.
Matches(read, f) == \A i \in 1 .. Len(read.got) : read.got[i] = f.parts[i]
WasThere(read) == read.now # NoFile /\ read.now.inode = read.inode
ReadFits(read) ==
    /\ read \in [pc : {"read", "compare", "place"}, inode : 1 .. writes, mtime : Nat,
                 got : Seq(Nat), now : FileStates \cup {NoFile}]
    /\ Len(read.got) \in IF read.pc = "read" THEN 0 .. 1 ELSE {2}
    /\ \E f \in OnDisk : f.inode = read.inode
    /\ file # NoFile /\ file.inode = read.inode => WasThere(read)
    /\ read.inode \in hidden
       \/ /\ read.pc # "place" =>
               \A f \in OnDisk : f.inode = read.inode =>
                   /\ read.mtime <= f.mtime
                   /\ f.mtime = read.mtime =>
                        IF read.pc = "read" THEN Matches(read, f)
                        ELSE WasThere(read) => Matches(read, read.now)
          /\ read.pc = "place" /\ WasThere(read) => Matches(read, read.now)
ReadsFit ==
    \A t \in Threads : Doing(t) \in {"read", "compare", "place"} => ReadFits(call[t])

Inv == TypeOK /\ NoncesFit /\ FilesFit /\ ReadsFit /\ DigestIsOfThePath
=============================================================================
