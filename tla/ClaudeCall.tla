------------------------------ MODULE ClaudeCall ------------------------------
(***************************************************************************)
(* One run's model calls through the Claude CLI client                     *)
(* (agent_runtime/claude_cli_model.py).  What answers a prompt is not      *)
(* under the program's control: the installed command, its credential      *)
(* settings and the account it is logged in to may change at any moment.   *)
(* The client freezes the command and the settings when it is made, proves *)
(* a runtime identity before each prompt (a preflight that sends no        *)
(* source), looks at the command and the settings again just before it     *)
(* sends the prompt, and writes the identity into the record of the call.  *)
(* A restarted process makes a new client and binds it to the identity in  *)
(* the run's first record.                                                 *)
(***************************************************************************)
EXTENDS Naturals, Sequences

CONSTANTS Approved,    \* the provider the operator approved
          Foreign,     \* another provider the command may be logged in to
          Refused,     \* what the operator's files are when they fail a check
          None,
          MaxCalls,    \* bound: the calls of parse
          MaxDrifts,   \* bound: the changes outside the program
          MaxRestarts  \* bound: the processes started again

VARIABLES world,    \* command, settings and login as they are now
          client,   \* what the client object holds
          step,     \* where the running call is
          probe,    \* the version the preflight's first probe returned
          calls,    \* the calls started
          records,  \* the records of the run, in the order they were written
          served,   \* history: what each prompt sent was answered by
          drifts,
          restarts

vars == <<world, client, step, probe, calls, records, served, drifts, restarts>>

Revisions == {1, 2}
World == [cli : Revisions \cup {Refused}, settings : Revisions \cup {Refused},
          login : {Approved, Foreign}]

\* _resolve_claude_executable: a regular file below a recognised root, owned
\* by the operator or root, no part of its path writable by others.
Trusted(w) == w.cli # Refused

\* _resolve_claude_auth_settings: a credential helper, a gateway and a CA
\* bundle that are validated one by one and digested together.
Usable(w) == w.settings # Refused

\* Every field the digest is computed from: the frozen command and settings,
\* and the version and provider that the two probes returned.
Identity == [cli : Revisions, settings : Revisions, version : Revisions \cup {Refused},
             provider : {Approved}]

\* ClaudeCliStructuredModelClient(...): the command and the settings are
\* resolved once, when the client is made.
Unmade == [cli |-> Refused, settings |-> Refused, identity |-> None, usage |-> None]
NewClient(w) ==
    IF ~(Trusted(w) /\ Usable(w)) THEN Unmade
    ELSE [cli |-> w.cli, settings |-> w.settings, identity |-> None, usage |-> None]

TypeOK ==
    /\ world \in World
    /\ client \in [cli : Revisions \cup {Refused}, settings : Revisions \cup {Refused},
                   identity : Identity \cup {None}, usage : 0 .. MaxCalls \cup {None}]
    /\ step \in {"idle", "verified", "probed", "proved", "ready", "sent", "answered"}
    /\ probe \in Revisions \cup {Refused, None}
    /\ calls \in 0 .. MaxCalls
    /\ \A i \in DOMAIN records :
          records[i] \in [call : 1 .. MaxCalls, identity : Identity,
                          usage : 1 .. MaxCalls \cup {None}]
    /\ \A i \in DOMAIN served : served[i] \in [world : World, identity : Identity, drifts : 0 .. MaxDrifts]
    /\ drifts \in 0 .. MaxDrifts
    /\ restarts \in 0 .. MaxRestarts

Init ==
    /\ world = [cli |-> 1, settings |-> 1, login |-> Approved]
    /\ client = NewClient(world)
    /\ step = "idle"
    /\ probe = None
    /\ calls = 0
    /\ records = <<>>
    /\ served = <<>>
    /\ drifts = 0
    /\ restarts = 0

-----------------------------------------------------------------------------
(* Outside the program: an update, an edit of the settings, another login. *)

Drift ==
    /\ drifts < MaxDrifts
    /\ world' \in World \ {world}
    /\ drifts' = drifts + 1
    /\ UNCHANGED <<client, step, probe, calls, records, served, restarts>>

-----------------------------------------------------------------------------
(* parse.  Any check that fails raises, and the call is over.              *)

SameCommand == world.cli = client.cli
SameSettings == Usable(world) /\ world.settings = client.settings
Unchanged == SameCommand /\ SameSettings

Raise ==
    /\ step' = "idle"
    /\ UNCHANGED <<client, probe, calls, records, served>>

\* _resolve_model_revision begins: the command and the settings are those
\* that were frozen.  A client of a continued run gets here first through
\* bind_runtime_identity, whose preflight is the same.
Verify ==
    /\ step = "idle"
    /\ client # Unmade
    /\ calls < MaxCalls
    /\ calls' = calls + 1
    /\ step' = IF Unchanged THEN "verified" ELSE "idle"
    /\ UNCHANGED <<world, client, probe, records, served, drifts, restarts>>

\* The first probe asks the command for its version.
ProbeVersion ==
    /\ step = "verified"
    /\ step' = "probed"
    /\ probe' = world.cli
    /\ UNCHANGED <<world, client, calls, records, served, drifts, restarts>>

\* A probe fails, times out or prints too much.
ProbeFails ==
    /\ step \in {"verified", "probed"}
    /\ Raise
    /\ UNCHANGED <<world, drifts, restarts>>

Observed == [cli |-> client.cli, settings |-> client.settings,
             version |-> probe, provider |-> world.login]

\* The identity a run already has a record of, which a new client is bound to.
Recorded == IF records = <<>> THEN None ELSE records[1].identity

\* Mutant: a new client of a continued run is not bound to the run's record.
FrozenOnly == client.identity

Expected == IF client.identity # None THEN client.identity ELSE Recorded

\* The second probe asks who is logged in; then resolve_runtime_identity and
\* bind_runtime_identity compare the identity with the one they expect.
Prove ==
    /\ step = "probed"
    /\ IF world.login = Approved /\ Expected \in {None, Observed}
       THEN /\ step' = "proved"
            /\ client' = [client EXCEPT !.identity = Observed]
            /\ UNCHANGED <<probe, calls, records, served>>
       ELSE Raise
    /\ UNCHANGED <<world, drifts, restarts>>

\* _invoke looks at the command and the settings once more.
Recheck ==
    /\ step = "proved"
    /\ IF Unchanged
       THEN step' = "ready" /\ UNCHANGED <<client, probe, calls, records, served>>
       ELSE Raise
    /\ UNCHANGED <<world, drifts, restarts>>

\* The prompt is sent: whatever is installed and logged in now answers it.
Send ==
    /\ step = "ready"
    /\ step' = "sent"
    /\ served' = Append(served, [world |-> world, identity |-> client.identity, drifts |-> drifts])
    /\ UNCHANGED <<world, client, probe, calls, records, drifts, restarts>>

\* The command timed out, printed too much, failed, or gave no structured output.
NoAnswer ==
    /\ step = "sent"
    /\ Raise
    /\ UNCHANGED <<world, drifts, restarts>>

\* There is structured output: its usage is kept before the output is checked
\* against the schema, so a rejected answer leaves its usage behind.
Answer ==
    /\ step = "sent"
    /\ client' = [client EXCEPT !.usage = calls]
    /\ step' \in {"answered", "idle"}
    /\ UNCHANGED <<world, probe, calls, records, served, drifts, restarts>>

\* model_call_record: the agent writes the call down with what the client holds.
Record ==
    /\ step = "answered"
    /\ step' = "idle"
    /\ records' = Append(records, [call |-> calls, identity |-> client.identity,
                                   usage |-> client.usage])
    /\ UNCHANGED <<world, client, probe, calls, served, drifts, restarts>>

\* The process ends at any point and a new one goes on with the run.
Restart ==
    /\ restarts < MaxRestarts
    /\ restarts' = restarts + 1
    /\ client' = NewClient(world)
    /\ step' = "idle"
    /\ probe' = None
    /\ UNCHANGED <<world, calls, records, served, drifts>>

Next == \/ Drift \/ Verify \/ ProbeVersion \/ ProbeFails \/ Prove \/ Recheck
        \/ Send \/ NoAnswer \/ Answer \/ Record \/ Restart

Spec == Init /\ [][Next]_vars

-----------------------------------------------------------------------------
(* Properties *)

\* The records of a run name one identity, across every change outside and
\* every restart (bind_recorded_runtime_identity): evidence of one run is
\* never of two runtimes.
OneIdentity == \A i, j \in DOMAIN records : records[i].identity = records[j].identity

\* Once something was recorded, no prompt is sent by a client that proved
\* another identity, not even one whose call then fails without a record.
SentUnderTheRecord ==
    step' = "sent" /\ step # "sent" /\ records # <<>> => client.identity = Recorded

\* The usage in a record is that of the recorded call.  last_usage is not
\* cleared when a call starts, so a call that fails leaves an earlier call's
\* usage on the client; no record may pick it up.
UsageOfItsCall == \A i \in DOMAIN records : records[i].usage = records[i].call

\* What was frozen is what answers, except in the window between the last
\* look and the send: a change that stays is met by at most one prompt, and
\* the next call finds it and refuses.
Stray(s) ==
    \/ s.world.cli # s.identity.version
    \/ s.world.settings # s.identity.settings
    \/ s.world.login # s.identity.provider

OneStrayPerDrift ==
    \A i, j \in DOMAIN served :
        Stray(served[i]) /\ Stray(served[j]) /\ served[i].drifts = served[j].drifts => i = j

-----------------------------------------------------------------------------
(* Why they hold: an inductive invariant, in parts *)

\* A call runs on a client that was made, which proved an identity before it
\* sends; the version probed is kept between the two probes.
CallIsOfTheClient ==
    /\ client = Unmade \/ {client.cli, client.settings} \subseteq Revisions
    /\ step # "idle" => client # Unmade /\ calls > 0
    /\ step = "probed" => probe \in Revisions \cup {Refused}
    /\ step \in {"proved", "ready", "sent", "answered"} => client.identity # None
    /\ step = "answered" => client.usage = calls

\* The client and all records name the identity of the first record.
OneRuntime ==
    /\ records # <<>> => client.identity \in {None, Recorded}
    /\ \A i \in DOMAIN records : records[i].identity = Recorded

\* Once a prompt was sent since the last change outside, whatever the running
\* call looked at was looked at since, and is as it is now.
Current == [cli |-> world.cli, settings |-> world.settings, version |-> world.cli,
            provider |-> world.login]

SeenSince ==
    /\ \A i \in DOMAIN served : served[i].drifts <= drifts
    /\ (\E i \in DOMAIN served : served[i].drifts = drifts) =>
          /\ step \in {"verified", "probed"} => Unchanged
          /\ step = "probed" => probe = world.cli
          /\ step \in {"proved", "ready"} => client.identity = Current

Written ==
    /\ records \in Seq([call : 1 .. MaxCalls, identity : Identity,
                        usage : 1 .. MaxCalls \cup {None}])
    /\ served \in Seq([world : World, identity : Identity, drifts : 0 .. MaxDrifts])

Inv ==
    /\ TypeOK /\ Written
    /\ CallIsOfTheClient /\ OneRuntime /\ UsageOfItsCall /\ SeenSince /\ OneStrayPerDrift
=============================================================================
