-------------------------- MODULE SalesforceValidation --------------------------
(***************************************************************************)
(* One attempt of a run validated by SalesforceLocalValidator, again and   *)
(* again if the process dies (platforms/salesforce_runtime.py). The seven  *)
(* commands use an interpreter, a Node runtime, a sandbox backend, an      *)
(* installed toolchain and a candidate that somebody else may change at    *)
(* any moment; the validator binds their identities and verifies them      *)
(* before and after each command.                                          *)
(*                                                                         *)
(* An identity is a version that only grows: what was changed and changed  *)
(* back is not modelled. A verification that fails raises, as anything     *)
(* else may do at any time (Raise).                                        *)
(***************************************************************************)
EXTENDS SalesforceResults, FiniteSets, Sequences

CONSTANTS
  None,
  MaxEpochs,          \* _MAX_SANDBOX_EPOCHS_PER_ATTEMPT
  MaxChanges,         \* bound: changes of the environment
  MaxValidations      \* bound: validations of the attempt

EpochsAssumption ==
  /\ MaxEpochs \in Nat \ {0} /\ MaxChanges \in Nat /\ MaxValidations \in Nat
  /\ None \notin Nat \cup CommandIds

VARIABLES
  host,         \* "plain", "backend" (a sandbox) or "node" (and a supported Node)
  env,          \* the version of everything a command uses
  changes,
  runtime,      \* runtime anchors: the interpreter and Node of the run
  policy,       \* salesforce-jest-sandbox-policy-<attempt>
  epochs,       \* salesforce-jest-sandbox-epoch-<attempt>-*
  records,      \* salesforce-sandbox-probe-<attempt>-*.json
  session,      \* what the validator captured when it was built
  phase,
  epoch,        \* the validation, and the epoch it would use
  initial,      \* the fingerprints at its beginning
  probe,        \* _SandboxProbeBinding
  boundary,     \* the package boundary beside the candidate
  running, next, passed,
  seen,         \* history: what each command saw when it started and ended
  reports       \* history: the policies of the reports that were ready

vars == <<host, env, changes, runtime, policy, epochs, records, session, phase, epoch,
          initial, probe, boundary, running, next, passed, seen, reports>>

Hosts == {"plain", "backend", "node"}
Things == {"python", "node", "backend", "toolchain", "candidate", "source", "evidence"}
Bound == {"python", "node", "backend", "toolchain", "candidate"}
Jest == {"jest", "controller"}

(* What the verdict of a command rests on. *)
Uses(c) ==
  CASE c = "toolchain" -> {"python", "toolchain"}
    [] c = "probe" -> {"python", "backend", "candidate", "toolchain"}
    [] c \in Jest -> {"node", "backend", "candidate", "toolchain"}
    [] OTHER -> {"python", "candidate"}

Init ==
  /\ host \in Hosts
  /\ env = [t \in Things |-> 0] /\ changes = 0
  /\ runtime = [python |-> None, node |-> None] /\ policy = None
  /\ epochs = {} /\ records = {}
  /\ session = None /\ phase = "idle" /\ epoch = 0
  /\ initial = None /\ probe = None /\ boundary = "none"
  /\ running = None /\ next = 1 /\ passed = {} /\ seen = {} /\ reports = {}

-----------------------------------------------------------------------------
(* The environment                                                         *)

Change(t) ==
  /\ changes < MaxChanges /\ (t = "candidate" => phase # "idle")
  /\ env' = [env EXCEPT ![t] = @ + 1] /\ changes' = changes + 1
  /\ UNCHANGED <<host, runtime, policy, epochs, records, session, phase, epoch,
                 initial, probe, boundary, running, next, passed, seen, reports>>

Substitute ==
  /\ changes < MaxChanges /\ boundary = "ours"
  /\ boundary' \in {"none", "other"} /\ changes' = changes + 1
  /\ UNCHANGED <<host, env, runtime, policy, epochs, records, session, phase, epoch,
                 initial, probe, running, next, passed, seen, reports>>

-----------------------------------------------------------------------------
(* The validator                                                           *)

(* bind_runtime_anchor: written once, and the same ever after. *)
Binds(anchor, value) == anchor \in {None, value}

(* _verify_session_integrity: the source is the one of the run. *)
SessionVerified == env["source"] = 0

(* __init__ *)
Build ==
  /\ session = None /\ SessionVerified
  /\ Binds(runtime.python, env["python"])
  /\ host = "node" => Binds(runtime.node, env["node"])
  /\ session' = [python |-> env["python"], node |-> IF host = "node" THEN env["node"] ELSE None]
  /\ runtime' = session'
  /\ UNCHANGED <<host, env, changes, policy, epochs, records, phase, epoch, initial,
                 probe, boundary, running, next, passed, seen, reports>>

PythonVerified == env["python"] = session.python
NodeVerified == session.node # None => env["node"] = session.node

(* _sandbox_epoch_id: no two workspaces, nor two boundaries, share it. *)
NewEpoch == epoch' = epoch + 1

(* _create_package_boundary, beside the candidate and not in it. *)
CreateBoundary == boundary' = "ours"
BoundaryVerified == boundary = "ours"

Preflight == SessionVerified /\ PythonVerified

(* __call__, up to the fingerprints: a new workspace, and in it the        *)
(* approved candidate.                                                     *)
Prepare ==
  /\ session # None /\ phase = "idle" /\ epoch < MaxValidations
  /\ Preflight
  /\ NewEpoch /\ CreateBoundary
  /\ env' = [env EXCEPT !["candidate"] = 0]
  /\ initial' = [candidate |-> 0, evidence |-> env["evidence"]]
  /\ probe' = None /\ next' = 1 /\ passed' = {} /\ seen' = {}
  /\ phase' = "prepared"
  /\ UNCHANGED <<host, changes, runtime, policy, epochs, records, session, running, reports>>

(* _require_sandbox_epoch_capacity *)
Capacity == Cardinality((epochs \cup records) \ {epoch}) < MaxEpochs

(* _build_probe_binding: the candidate is the one of the beginning. *)
Binding ==
  [t \in Bound |-> CASE t = "candidate" -> initial.candidate
                     [] t = "node" -> session.node
                     [] OTHER -> env[t]]

(* _command_specs: without the backend, or an epoch, Jest is unavailable.  *)
Specify ==
  /\ phase = "prepared"
  /\ probe' = IF /\ host # "plain" /\ PythonVerified /\ NodeVerified
                 /\ BoundaryVerified /\ Capacity
              THEN Binding ELSE None
  /\ phase' = "commands"
  /\ UNCHANGED <<host, env, changes, runtime, policy, epochs, records, session, epoch,
                 initial, boundary, running, next, passed, seen, reports>>

-----------------------------------------------------------------------------
(* The commands                                                            *)

(* _verify_probe_binding *)
ProbeVerified ==
  /\ BoundaryVerified /\ PythonVerified /\ NodeVerified
  /\ \A t \in Bound \ {"node"} : env[t] = probe[t]

(* Mutant: the binding is verified before the probe only. *)
VerifiedAtTheProbe(c) ==
  IF c = "probe" THEN ProbeVerified
  ELSE IF c \in Jest THEN NodeVerified ELSE PythonVerified

Verified(c) ==
  IF c \in Jest \cup {"probe"} THEN ProbeVerified /\ (c \in Jest => epoch \in epochs)
  ELSE PythonVerified

(* The command that follows, and whether it is run. *)
Following(c) ==
  phase = "commands" /\ running = None /\ next \in DOMAIN Commands /\ Commands[next] = c
BlockedBefore(c) ==
  \/ c \in Jest \cup {"probe"} /\ probe = None
  \/ c \in Jest /\ session.node = None
  \/ ~(Prerequisites(c) \subseteq passed)

Look(c) ==
  {<<c, t, env[t]>> : t \in Uses(c)} \cup
  (IF c \in Jest THEN {<<c, "boundary", boundary>>} ELSE {})

Block(c) ==
  /\ Following(c) /\ BlockedBefore(c)
  /\ next' = next + 1
  /\ UNCHANGED <<host, env, changes, runtime, policy, epochs, records, session, phase,
                 epoch, initial, probe, boundary, running, passed, seen, reports>>

Launch(c) ==
  /\ Following(c) /\ ~BlockedBefore(c) /\ Verified(c)
  /\ running' = c /\ seen' = seen \cup Look(c)
  /\ UNCHANGED <<host, env, changes, runtime, policy, epochs, records, session, phase,
                 epoch, initial, probe, boundary, next, passed, reports>>

(* The probe's process publishes its record. *)
ProbeWrites ==
  /\ running = "probe" /\ epoch \notin records
  /\ records' = records \cup {epoch}
  /\ UNCHANGED <<host, env, changes, runtime, policy, epochs, session, phase, epoch,
                 initial, probe, boundary, running, next, passed, seen, reports>>

(* _result_from_execution; the probe that passed is anchored               *)
(* (_bind_verified_sandbox), the fingerprint passes on the candidate of    *)
(* the beginning only.                                                     *)
Anchor(c) ==
  IF c = "probe"
  THEN /\ epoch \in records /\ Binds(policy, probe)
       /\ policy' = probe /\ epochs' = epochs \cup {epoch}
  ELSE UNCHANGED <<policy, epochs>>

Finish(c) ==
  /\ running = c /\ Verified(c)
  /\ running' = None /\ next' = next + 1 /\ seen' = seen \cup Look(c)
  /\ \/ /\ c = "fingerprint" => env["candidate"] = initial.candidate
        /\ passed' = passed \cup {c} /\ Anchor(c)
     \/ UNCHANGED <<passed, policy, epochs>>
  /\ UNCHANGED <<host, env, changes, runtime, records, session, phase, epoch, initial,
                 probe, boundary, reports>>

-----------------------------------------------------------------------------
(* The end                                                                 *)

Unchanged ==
  /\ SessionVerified /\ PythonVerified
  /\ env["evidence"] = initial.evidence /\ env["candidate"] = initial.candidate

Close ==
  /\ phase = "commands" /\ running = None /\ next > Len(Commands)
  /\ Unchanged
  /\ phase' = "report"
  /\ UNCHANGED <<host, env, changes, runtime, policy, epochs, records, session, epoch,
                 initial, probe, boundary, running, next, passed, seen, reports>>

Raise ==
  /\ phase \in {"prepared", "commands"}
  /\ phase' = "raised" /\ running' = None
  /\ UNCHANGED <<host, env, changes, runtime, policy, epochs, records, session, epoch,
                 initial, probe, boundary, next, passed, seen, reports>>

(* _remove_package_boundary: exactly the bound leaf is removed, and a      *)
(* boundary that drifted takes the report with it.                         *)
Remove ==
  /\ phase \in {"report", "raised"}
  /\ boundary' = IF BoundaryVerified THEN "none" ELSE boundary
  /\ reports' = IF phase = "report" /\ BoundaryVerified /\ passed = CommandIds
                THEN reports \cup {probe} ELSE reports
  /\ phase' = "idle" /\ passed' = {} /\ seen' = {}
  /\ UNCHANGED <<host, env, changes, runtime, policy, epochs, records, session, epoch,
                 initial, probe, running, next>>

(* The process dies; what it left beside the candidate is never used.      *)
Crash ==
  /\ session # None
  /\ session' = None /\ phase' = "idle" /\ running' = None
  /\ passed' = {} /\ seen' = {}
  /\ UNCHANGED <<host, env, changes, runtime, policy, epochs, records, epoch, initial,
                 probe, boundary, next, reports>>

Next ==
  \/ \E t \in Things : Change(t)
  \/ Substitute \/ Build \/ Prepare \/ Specify \/ ProbeWrites
  \/ \E c \in CommandIds : Block(c) \/ Launch(c) \/ Finish(c)
  \/ Close \/ Raise \/ Remove \/ Crash

Spec == Init /\ [][Next]_vars

-----------------------------------------------------------------------------
(* Properties *)

TypeOK ==
  /\ host \in Hosts /\ env \in [Things -> 0..MaxChanges] /\ changes \in 0..MaxChanges
  /\ {policy, probe} \subseteq [Bound -> Nat \cup {None}] \cup {None}
  /\ epochs \subseteq records /\ records \subseteq 1..epoch
  /\ phase \in {"idle", "prepared", "commands", "report", "raised"}
  /\ boundary \in {"ours", "other", "none"}
  /\ running \in CommandIds \cup {None} /\ passed \subseteq CommandIds
  /\ phase # "idle" => session # None

(* All the verdicts of a report that is ready were reached in one          *)
(* environment: no two commands, nor the start and the end of one, saw a   *)
(* different interpreter, Node, backend, toolchain or candidate.           *)
(* (_validate_with_package_boundary, _verify_probe_binding)                *)
OneEnvironment ==
  phase = "report" /\ passed = CommandIds =>
    \A x, y \in seen : x[2] = y[2] => x[3] = y[3]

(* Whatever the commands found, no report is made about a candidate that   *)
(* is not the approved one any more. (the final audit)                     *)
CandidateHeldStill ==
  phase = "report" => \A x \in seen : x[2] = "candidate" => x[3] = initial.candidate

(* Reports that are ready agree on everything Jest ran with, also when a   *)
(* crash or a change lies between the validations.                         *)
(* (bind_runtime_anchor of the policy)                                     *)
ReadyReportsAgree == Cardinality(reports) <= 1

(* However often validations die, an attempt starts a bounded number of    *)
(* probes that leave a trace. (_require_sandbox_epoch_capacity)            *)
EpochsBounded == Cardinality(epochs \cup records) <= MaxEpochs

-----------------------------------------------------------------------------
(* Why they hold: an inductive invariant, in parts *)

(* Versions only grow, one change at a time.                               *)
ChangesAreCounted == \A t \in Things : env[t] <= changes

(* What is running is the next command, and may run; outside a validation  *)
(* nothing is known.                                                       *)
InOrder ==
  /\ next \in 1..8 /\ epoch \in Nat
  /\ phase \in {"idle", "prepared"} => passed = {} /\ seen = {}
  /\ running # None =>
       /\ phase = "commands" /\ next \in DOMAIN Commands /\ Commands[next] = running
       /\ running \in Jest \cup {"probe"} => probe # None
       /\ running \in Jest => session.node # None
  /\ "probe" \in passed => next > 4
  /\ phase # "idle" => initial.candidate = 0 /\ epoch > 0

(* The bindings are of versions that were there, and there was room.       *)
BindingFits ==
  /\ session # None => session.node \in Nat \cup {None}
  /\ probe # None => probe["toolchain"] \in 0..env["toolchain"]
  /\ phase = "prepared" => probe = None
  /\ phase = "commands" /\ probe # None => Capacity
  /\ "probe" \in passed => probe # None /\ policy = probe

(* What a command looked at is what the session, the probe or the          *)
(* beginning of the validation bound; the toolchain was looked at before   *)
(* the probe verified it, between its binding and now.                     *)
SeenFits ==
  \A x \in seen :
    /\ x[2] \in Bound \cup {"boundary"}
    /\ x[2] = "python" => x[3] = session.python
    /\ x[2] = "node" => x[3] = session.node
    /\ x[2] = "boundary" => x[3] = "ours"
    /\ x[2] = "backend" => probe # None /\ x[3] = probe["backend"]
    /\ x[2] = "candidate" => x[3] \in 0..env["candidate"]
    /\ x[2] = "toolchain" =>
         /\ x[3] \in 0..env["toolchain"]
         /\ probe # None => probe["toolchain"] <= x[3]
         /\ "probe" \in passed => x[3] = probe["toolchain"]

(* Every report has the policy, which is anchored once.                    *)
ReportsFit == reports \subseteq {policy} \ {None}

Inv ==
  /\ TypeOK /\ ChangesAreCounted /\ InOrder /\ BindingFits /\ SeenFits /\ ReportsFit
  /\ CandidateHeldStill /\ EpochsBounded
==============================================================================
