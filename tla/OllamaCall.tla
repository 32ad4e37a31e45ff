----------------------------- MODULE OllamaCall -----------------------------
(***************************************************************************)
(* One run's model calls through the local model server                    *)
(* (agent_runtime/ollama_model.py).  The run names a model by an alias     *)
(* that the server may point elsewhere at any moment.  A call asks the     *)
(* server's inventory what the alias stands for, has the text generated,   *)
(* and asks again; the revision it keeps is the one both answers name.     *)
(***************************************************************************)
EXTENDS Naturals, Sequences

CONSTANTS Revisions,   \* what the alias may stand for
          None,
          MaxCalls,    \* bound: the calls of parse
          MaxPulls,    \* bound: the times the alias is pointed elsewhere
          MaxRestarts  \* bound: the processes started again

VARIABLES alias,    \* the server: the revision it generates with now
          observed, \* the revision the client object holds
          step,     \* where the running call is
          before,   \* the first inventory's answer
          calls,
          records,  \* the records of the run, in the order they were written
          served,   \* history: what generated the running call's answer, and
                    \* the times the alias moved since its first inventory
          pulls,
          restarts

vars == <<alias, observed, step, before, calls, records, served, pulls, restarts>>

\* The alias may be missing, or two entries may differ: no revision resolves.
Aliases == Revisions \cup {None}

TypeOK ==
    /\ alias \in Aliases
    /\ observed \in Aliases
    /\ step \in {"unbound", "idle", "listed", "generated", "relisted", "answered"}
    /\ before \in Aliases
    /\ calls \in 0 .. MaxCalls
    /\ \A i \in DOMAIN records :
          records[i] \in [call : 1 .. MaxCalls, revision : Revisions,
                          by : Revisions, moves : 0 .. MaxPulls]
    /\ served \in [by : Aliases, moves : 0 .. MaxPulls]
    /\ pulls \in 0 .. MaxPulls
    /\ restarts \in 0 .. MaxRestarts

Init ==
    /\ alias \in Revisions
    /\ observed = None
    /\ step = "idle"
    /\ before = None
    /\ calls = 0
    /\ records = <<>>
    /\ served = [by |-> None, moves |-> 0]
    /\ pulls = 0
    /\ restarts = 0

-----------------------------------------------------------------------------
(* The server's alias is pointed elsewhere, removed, or put back. *)

Pull ==
    /\ pulls < MaxPulls
    /\ pulls' = pulls + 1
    /\ alias' \in Aliases \ {alias}
    /\ served' = [served EXCEPT !.moves = @ + 1]
    /\ UNCHANGED <<observed, step, before, calls, records, restarts>>

-----------------------------------------------------------------------------
(* The client.  Whatever fails, the deadline that all three requests of a   *)
(* call share included, raises and ends the call.                           *)

Raise == step' = "idle"

\* bind_model_revision: a continued run's client takes the recorded revision,
\* if that is still what the alias stands for.  Otherwise the operation is
\* refused, and the process can only try again.
Bind ==
    /\ step = "unbound"
    /\ alias # None /\ alias = records[1].revision
    /\ observed' = alias
    /\ step' = "idle"
    /\ UNCHANGED <<alias, before, calls, records, served, pulls, restarts>>

\* The inventory is read: the alias stands for one revision, the one held if any.
ListBefore ==
    /\ step = "idle"
    /\ calls < MaxCalls
    /\ calls' = calls + 1
    /\ served' = [by |-> None, moves |-> 0]
    /\ \/ /\ alias # None
          /\ observed \in {None, alias}
          /\ step' = "listed"
          /\ before' = alias
       \/ Raise /\ UNCHANGED before
    /\ UNCHANGED <<alias, observed, records, pulls, restarts>>

\* Whatever the alias stands for now generates the text.
Generate ==
    /\ step = "listed"
    /\ \/ /\ alias # None
          /\ step' = "generated"
          /\ served' = [served EXCEPT !.by = alias]
       \/ Raise /\ UNCHANGED served
    /\ UNCHANGED <<alias, observed, before, calls, records, pulls, restarts>>

\* Mutant: the second answer is kept, and not compared with the first.
ListAfterOnly ==
    /\ step = "generated"
    /\ \/ /\ alias # None
          /\ step' = "relisted"
          /\ observed' = alias
       \/ Raise /\ UNCHANGED observed
    /\ UNCHANGED <<alias, before, calls, records, served, pulls, restarts>>

\* The inventory again: its answer must be the first one's.
ListAfter ==
    /\ step = "generated"
    /\ \/ /\ alias = before
          /\ step' = "relisted"
          /\ observed' = before
       \/ Raise /\ UNCHANGED observed
    /\ UNCHANGED <<alias, before, calls, records, served, pulls, restarts>>

\* The response is looked at: it is the answer, or it is incomplete, of
\* another model, or not what the schema asks for.
Examine ==
    /\ step = "relisted"
    /\ step' \in {"answered", "idle"}
    /\ UNCHANGED <<alias, observed, before, calls, records, served, pulls, restarts>>

\* model_call_record: a local call is written down with its revision.
Record ==
    /\ step = "answered"
    /\ step' = "idle"
    /\ records' = Append(records, [call |-> calls, revision |-> observed,
                                   by |-> served.by, moves |-> served.moves])
    /\ UNCHANGED <<alias, observed, before, calls, served, pulls, restarts>>

\* The process ends at any point, and a new one goes on with the run.
Restart ==
    /\ restarts < MaxRestarts
    /\ restarts' = restarts + 1
    /\ observed' = None
    /\ step' = IF records = <<>> THEN "idle" ELSE "unbound"
    /\ before' = None
    /\ UNCHANGED <<alias, calls, records, served, pulls>>

Next == \/ Pull \/ Bind \/ ListBefore \/ Generate \/ ListAfter \/ Examine
        \/ Record \/ Restart

Spec == Init /\ [][Next]_vars

-----------------------------------------------------------------------------
(* Properties *)

\* The records of a run name one revision, however often the alias moved.
OneRevision == \A i, j \in DOMAIN records : records[i].revision = records[j].revision

\* "ordinary alias drift" is detected: an answer is recorded under a revision
\* that did not generate it only if the alias moved at least twice between the
\* two inventories, away and back.
OneMoveIsSeen ==
    \A i \in DOMAIN records : records[i].by # records[i].revision => records[i].moves >= 2

\* Once something was recorded, nothing is generated while the alias stood for
\* another revision when the call began.
GeneratedUnderTheRecord ==
    step' = "generated" /\ step # "generated" /\ records # <<>> => before = records[1].revision

-----------------------------------------------------------------------------
(* Why they hold: an inductive invariant, in parts *)

\* A call asks for what the first inventory named, which is the revision held.
CallIsOfTheRevision ==
    /\ step \in {"listed", "generated"} => before # None /\ observed \in {None, before}
    /\ step \in {"generated", "relisted", "answered"} => served.by # None
    /\ step \in {"relisted", "answered"} => observed # None
    /\ step # "idle" /\ step # "unbound" => calls > 0

\* The client, once bound, and all records name the revision of the first.
OneAlias ==
    /\ step = "unbound" => records # <<>>
    /\ records # <<>> /\ step # "unbound" => observed = records[1].revision
    /\ \A i \in DOMAIN records : records[i].revision = records[1].revision

\* The alias stands for something else only if it moved, and it takes a second
\* move to hide that another revision generated the text.
MovesAreCounted ==
    /\ served.moves <= pulls
    /\ step \in {"listed", "generated"} /\ alias # before => served.moves > 0
    /\ step = "generated" /\ served.by # before =>
          served.moves > 1 \/ (served.moves = 1 /\ alias = served.by)
    /\ step \in {"relisted", "answered"} /\ served.by # observed => served.moves > 1

Written ==
    records \in Seq([call : 1 .. MaxCalls, revision : Revisions,
                     by : Revisions, moves : 0 .. MaxPulls])

Inv ==
    /\ TypeOK /\ Written
    /\ CallIsOfTheRevision /\ OneAlias /\ MovesAreCounted /\ OneMoveIsSeen
=============================================================================
