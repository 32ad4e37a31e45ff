----------------------------- MODULE MuleValidation -----------------------------
(***************************************************************************)
(* Both attempts of a run validated by MuleSoftLocalValidator              *)
(* (platforms/mulesoft_runtime.py): static checks, then MUnit in two       *)
(* containers, a probe and the validation itself, each created, inspected, *)
(* started, waited for and removed by commands to a daemon that may fail,  *)
(* or time out with their effect or without it. The process may die        *)
(* anywhere, and the next one builds another validator.                    *)
(*                                                                         *)
(* An identity is a version that only grows. What a check reads, and the   *)
(* fixed policy of a container (network, mounts, limits), are left out: an *)
(* inspection accepts or refuses.                                          *)
(***************************************************************************)
EXTENDS Naturals, FiniteSets

CONSTANTS
  None,
  MaxChanges,         \* bound: changes of the environment
  MaxValidators       \* bound: validators built for the run

Steps == {"create", "inspect", "start", "wait", "kill", "remove", "conclude"}

NoneAssumption ==
  /\ MaxChanges \in Nat /\ MaxValidators \in Nat
  /\ None \notin Nat \cup Steps \cup {"passed"}

VARIABLES
  env,          \* versions: the container authority, the controller's
                \* contract files, the candidate and the evidence
  changes,
  anchor,       \* runtime anchor: the authority the run is bound to
  attempts,     \* runtime anchors: the validator each attempt was given to
  containers,   \* the daemon's
  validators,   \* how many were built
  session,      \* what the one of this process captured
  attempt, phase, command,
  initial,      \* the fingerprints at the beginning of the attempt
  results,
  created, timedOut, exitCode,   \* the lifecycle of the container
  failing,      \* an exception on its way through the finally clauses
  copy,         \* the copy of the candidate that the container mounts
  seen,         \* history: the candidates the checks looked at
  reports       \* history

daemon == <<env, changes, containers>>
run == <<anchor, attempts, validators, session, reports>>
lifecycle == <<created, timedOut, exitCode, failing>>
vars == <<daemon, run, attempt, phase, command, initial, results, lifecycle, copy, seen>>

Attempts == 1..2
Modes == {"probe", "validate"}
Things == {"authority", "contract", "candidate", "evidence"}
CommandIds == {"candidate", "closure", "toolchain", "munit"}
NoContainer == [status |-> "none", authority |-> None, candidate |-> None,
                starts |-> 0, code |-> 0, suite |-> "none"]

Init ==
  /\ env = [t \in Things |-> 0] /\ changes = 0
  /\ anchor = None /\ attempts = [a \in Attempts |-> None]
  /\ containers = [a \in Attempts |-> [m \in Modes |-> NoContainer]]
  /\ validators = 0 /\ session = None
  /\ attempt = 1 /\ phase = "idle" /\ command = None /\ initial = None
  /\ results = [c \in CommandIds |-> None]
  /\ created = FALSE /\ timedOut = FALSE /\ exitCode = 0 /\ failing = "no"
  /\ copy = None /\ seen = {} /\ reports = {}

-----------------------------------------------------------------------------
(* The host                                                                *)

Change(t) ==
  /\ changes < MaxChanges /\ (t = "candidate" => phase # "idle")
  /\ env' = [env EXCEPT ![t] = @ + 1] /\ changes' = changes + 1
  /\ UNCHANGED <<containers, run, attempt, phase, command, initial, results, lifecycle, copy, seen>>

(* The container ends by itself. MUnit's reports may be missing, partial,  *)
(* or disagree with the exit code.                                         *)
Suites == {"none", "incomplete", "passed", "failed"}
Exits(a, m) ==
  /\ containers[a][m].status = "running"
  /\ \E code \in 0..1, suite \in IF m = "probe" THEN {"none"} ELSE Suites :
       containers' = [containers EXCEPT ![a][m].status = "exited", ![a][m].code = code,
                                        ![a][m].suite = suite]
  /\ UNCHANGED <<env, changes, run, attempt, phase, command, initial, results, lifecycle, copy, seen>>

-----------------------------------------------------------------------------
(* The validator, and its attempt                                          *)

Binds(bound, value) == bound \in {None, value}

ContractVerified == env["contract"] = session.contract
AuthorityVerified == env["authority"] = session.authority

(* __init__: discovery finds the authority, or does not (a daemon that is  *)
(* slow once is not there), and the run is bound to that.                  *)
Build ==
  /\ session = None /\ validators < MaxValidators
  /\ \E found, suite \in BOOLEAN :
       LET bound == [authority |-> IF found THEN env["authority"] ELSE None,
                     contract |-> env["contract"], suite |-> suite] IN
       /\ Binds(anchor, bound)
       /\ anchor' = bound /\ session' = bound
  /\ validators' = validators + 1
  /\ UNCHANGED <<daemon, attempts, reports, attempt, phase, command, initial, results,
                 lifecycle, copy, seen>>

(* _consume_attempt: the anchor names the validator that wrote it, and     *)
(* this one validates an attempt once.                                     *)
Consumable(a) == attempts[a] = None

(* __call__, up to the fingerprints; the workspace holds the approved      *)
(* candidate (_preflight).                                                 *)
Call(a) ==
  /\ session # None /\ phase = "idle"
  /\ ContractVerified
  /\ Consumable(a) /\ attempts' = [attempts EXCEPT ![a] = validators]
  /\ attempt' = a /\ phase' = "candidate"
  /\ env' = [env EXCEPT !["candidate"] = 0]
  /\ initial' = [candidate |-> 0, evidence |-> env["evidence"]]
  /\ results' = [c \in CommandIds |-> None] /\ seen' = {}
  /\ UNCHANGED <<changes, containers, anchor, validators, session, reports, command, lifecycle, copy>>

StaticCheck(c, following) ==
  /\ phase = c /\ failing = "no"
  /\ \E r \in {"passed", "failed"} : results' = [results EXCEPT ![c] = r]
  /\ seen' = seen \cup {env["candidate"]}
  /\ phase' = following
  /\ UNCHANGED <<daemon, run, attempt, command, initial, lifecycle, copy>>

CandidateContractCheck == StaticCheck("candidate", "closure")
DependencyClosureCheck == StaticCheck("closure", "toolchain")

(* The anchor is verified; an authority that is not the bound one raises.  *)
ToolchainCheck ==
  /\ phase = "toolchain" /\ ContractVerified
  /\ \/ /\ session.authority = None
        /\ results' = [results EXCEPT !["toolchain"] = "unavailable"]
     \/ /\ session.authority # None /\ AuthorityVerified
        /\ results' = [results EXCEPT !["toolchain"] = "passed"]
  /\ phase' = "munit"
  /\ UNCHANGED <<daemon, run, attempt, command, initial, lifecycle, copy, seen>>

(* _munit_check *)
Unprepared ==
  \/ ~session.suite \/ session.authority = None
  \/ \E c \in CommandIds \ {"munit"} : results[c] # "passed"

SkipMUnit ==
  /\ phase = "munit" /\ ContractVerified /\ Unprepared
  /\ results' = [results EXCEPT !["munit"] = "unavailable"]
  /\ phase' = "post"
  /\ UNCHANGED <<daemon, run, attempt, command, initial, lifecycle, copy, seen>>

(* The candidate is copied, with the controller's suite, for the container.*)
PrepareMUnit ==
  /\ phase = "munit" /\ ContractVerified /\ ~Unprepared
  /\ seen' = seen \cup {env["candidate"]}
  /\ phase' = "probe" /\ command' = "create"
  /\ copy' = env["candidate"]
  /\ created' = FALSE /\ timedOut' = FALSE /\ exitCode' = 0
  /\ UNCHANGED <<daemon, run, attempt, initial, results, failing>>

-----------------------------------------------------------------------------
(* _run_container_lifecycle                                                *)

Running == phase \in Modes
Here == containers[attempt][phase]
Becomes(status) == containers' = [containers EXCEPT ![attempt][phase].status = status]
Untouched == UNCHANGED containers

(* A command that succeeded had its effect, one that failed had none, one  *)
(* that timed out may have had it (_BoundedSubprocessContainerRunner).     *)
Commands == {"succeeded", "failed", "timed_out"}
WithEffect(r) ==
  CASE r = "succeeded" -> {TRUE} [] r = "failed" -> {FALSE} [] OTHER -> BOOLEAN

NewContainer ==
  [Here EXCEPT !.status = "created", !.authority = env["authority"], !.candidate = copy]

(* No second container has the name. A container that this process does    *)
(* not know it created is not inspected, started or removed.               *)
Create ==
  /\ Running /\ command = "create"
  /\ \E r \in Commands : \E effect \in WithEffect(r) :
       /\ effect => Here.status = "none"
       /\ containers' = IF effect THEN [containers EXCEPT ![attempt][phase] = NewContainer]
                        ELSE containers
       /\ created' = (r = "succeeded") /\ timedOut' = (r = "timed_out")
       /\ exitCode' = IF r = "succeeded" THEN 0 ELSE 1
       /\ command' = IF r = "succeeded" THEN "inspect" ELSE "conclude"
  /\ UNCHANGED <<env, changes, run, attempt, phase, initial, results, failing, copy, seen>>

Proceed(following) == command' = following /\ UNCHANGED failing
Break(how) == command' = "remove" /\ failing' = how

(* An answer that is not JSON makes the evidence unavailable.              *)
Inspect ==
  /\ Running /\ command = "inspect"
  /\ Proceed("start") \/ \E how \in {"raise", "unavailable"} : Break(how)
  /\ UNCHANGED <<daemon, run, attempt, phase, initial, results, created, timedOut,
                 exitCode, copy, seen>>

Start ==
  /\ Running /\ command = "start"
  /\ \E r \in Commands : \E effect \in WithEffect(r) :
       /\ IF effect
          THEN containers' = [containers EXCEPT ![attempt][phase] =
                                 [Here EXCEPT !.status = "running", !.starts = @ + 1]]
          ELSE Untouched
       /\ IF r = "succeeded" THEN Proceed("wait") ELSE Break("raise")
  /\ UNCHANGED <<env, changes, run, attempt, phase, initial, results, created, timedOut,
                 exitCode, copy, seen>>

Wait ==
  /\ Running /\ command = "wait"
  /\ \/ /\ Here.status = "exited"
        /\ exitCode' = Here.code /\ UNCHANGED timedOut /\ Proceed("remove")
     \/ /\ timedOut' = TRUE /\ exitCode' = 1 /\ Proceed("kill")
     \/ UNCHANGED <<exitCode, timedOut>> /\ Break("raise")
  /\ UNCHANGED <<daemon, run, attempt, phase, initial, results, created, copy, seen>>

(* A container that ended meanwhile cannot be killed, and that raises.     *)
Kill ==
  /\ Running /\ command = "kill"
  /\ \E r \in Commands : \E effect \in WithEffect(r) :
       /\ effect => Here.status = "running"
       /\ IF effect THEN Becomes("exited") ELSE Untouched
       /\ IF r = "succeeded" THEN Proceed("remove") ELSE Break("raise")
  /\ UNCHANGED <<env, changes, run, attempt, phase, initial, results, created, timedOut,
                 exitCode, copy, seen>>

(* rm --force, whatever happened. The reports stay in the mounted output.  *)
Remove ==
  /\ Running /\ command = "remove"
  /\ \E r \in Commands : \E effect \in WithEffect(r) :
       /\ IF effect THEN Becomes("none") ELSE Untouched
       /\ failing' = IF r = "succeeded" THEN failing ELSE "raise"
  /\ command' = "conclude"
  /\ UNCHANGED <<env, changes, run, attempt, phase, initial, results, created, timedOut,
                 exitCode, copy, seen>>

-----------------------------------------------------------------------------
(* What MUnit showed                                                       *)

Ends(result) ==
  /\ results' = [results EXCEPT !["munit"] = result]
  /\ phase' = "post" /\ command' = None

(* An exception leaves _munit_check, or is an unavailable result there.    *)
Fail ==
  /\ Running /\ command = "conclude" /\ failing # "no"
  /\ IF failing = "unavailable" THEN failing' = "no" /\ Ends("unavailable")
     ELSE phase' = "post" /\ command' = None /\ UNCHANGED <<failing, results>>
  /\ UNCHANGED <<daemon, run, attempt, initial, created, timedOut, exitCode, copy, seen>>

(* The probe must have succeeded; its output and the canary may still      *)
(* refuse the isolation (Raise).                                           *)
ConcludeProbe ==
  /\ phase = "probe" /\ command = "conclude" /\ failing = "no"
  /\ IF timedOut \/ exitCode # 0
     THEN Ends("unavailable") /\ UNCHANGED <<created, timedOut, exitCode>>
     ELSE /\ phase' = "validate" /\ command' = "create"
          /\ created' = FALSE /\ timedOut' = FALSE /\ exitCode' = 0
          /\ UNCHANGED results
  /\ UNCHANGED <<daemon, run, attempt, initial, failing, copy, seen>>

(* Reports that are missing, unreadable or incomplete prove nothing, nor   *)
(* do failures that the exit code does not confirm.                        *)
MUnitResult(suite) ==
  IF timedOut \/ suite \in {"none", "incomplete"} THEN "unavailable"
  ELSE IF exitCode # 0 THEN "failed"
  ELSE IF suite = "passed" THEN "passed" ELSE "unavailable"

ConcludeValidation ==
  /\ phase = "validate" /\ command = "conclude" /\ failing = "no"
  /\ timedOut \/ env["candidate"] = copy
  /\ Ends(MUnitResult(IF created THEN Here.suite ELSE "none"))
  /\ UNCHANGED <<daemon, run, attempt, initial, lifecycle, copy, seen>>

(* Any check may raise; _verify_postconditions runs all the same.          *)
Raise ==
  /\ \/ phase \in CommandIds
     \/ Running /\ command = "conclude" /\ failing = "no"
  /\ phase' = "post" /\ failing' = "raise" /\ command' = None
  /\ UNCHANGED <<daemon, run, attempt, initial, results, created, timedOut, exitCode,
                 copy, seen>>

-----------------------------------------------------------------------------
(* The end of the attempt                                                  *)

Postconditions ==
  /\ ContractVerified
  /\ env["candidate"] = initial.candidate /\ env["evidence"] = initial.evidence
  /\ session.authority # None => AuthorityVerified

Report ==
  /\ phase = "post" /\ failing = "no" /\ Postconditions
  /\ phase' = "report"
  /\ reports' = reports \cup {[attempt |-> attempt, results |-> results, bound |-> session]}
  /\ UNCHANGED <<daemon, anchor, attempts, validators, session, attempt, command,
                 initial, results, lifecycle, copy, seen>>

Return ==
  /\ \/ phase = "report"
     \/ phase = "post" /\ (failing = "raise" \/ ~Postconditions)
  /\ phase' = "idle" /\ failing' = "no"
  /\ UNCHANGED <<daemon, run, attempt, command, initial, results, created, timedOut,
                 exitCode, copy, seen>>

(* The process dies; its containers do not.                                *)
Crash ==
  /\ session # None
  /\ session' = None /\ phase' = "idle" /\ command' = None /\ failing' = "no"
  /\ UNCHANGED <<daemon, anchor, attempts, validators, reports, attempt, initial, results,
                 created, timedOut, exitCode, copy, seen>>

Next ==
  \/ \E t \in Things : Change(t)
  \/ \E a \in Attempts, m \in Modes : Exits(a, m)
  \/ Build \/ \E a \in Attempts : Call(a)
  \/ CandidateContractCheck \/ DependencyClosureCheck \/ ToolchainCheck
  \/ SkipMUnit \/ PrepareMUnit
  \/ Create \/ Inspect \/ Start \/ Wait \/ Kill \/ Remove
  \/ Fail \/ ConcludeProbe \/ ConcludeValidation \/ Raise \/ Report \/ Return \/ Crash

Spec == Init /\ [][Next]_vars

-----------------------------------------------------------------------------
(* Properties *)

TypeOK ==
  /\ env \in [Things -> 0..MaxChanges] /\ changes \in 0..MaxChanges
  /\ attempts \in [Attempts -> 1..MaxValidators \cup {None}]
  /\ \A a \in Attempts, m \in Modes :
       containers[a][m].status \in {"none", "created", "running", "exited"}
  /\ phase \in {"idle", "post", "report"} \cup CommandIds \cup Modes
  /\ command # None <=> Running
  /\ results \in [CommandIds -> {"passed", "failed", "unavailable", None}]
  /\ failing \in {"no", "raise", "unavailable"}
  /\ phase # "idle" => session # None /\ attempts[attempt] = validators

(* Candidate code runs once: over all the processes that work on a run, a  *)
(* container of an attempt is started at most once, whatever timed out,    *)
(* failed or died before. (_consume_attempt, _container_name)              *)
StartedOnce == \A a \in Attempts, m \in Modes : containers[a][m].starts <= 1

(* A report that says MUnit passed rests on a container that ran to its    *)
(* own end with exit code 0 and complete reports, after a probe that       *)
(* did, in the authority the run is bound to and on the candidate that the *)
(* other checks saw. (_munit_check, _run_container_lifecycle)              *)
PassedRanInContainers ==
  phase = "report" /\ results["munit"] = "passed" =>
    /\ \A m \in Modes :
         LET c == containers[attempt][m] IN
         c.starts = 1 /\ c.code = 0 /\ c.authority = session.authority
    /\ containers[attempt]["validate"].suite = "passed"
    /\ seen = {containers[attempt]["validate"].candidate}

(* When a report exists, no container of its attempt runs or has stopped   *)
(* without being removed; one may be left that was never started.          *)
(* (the finally of _run_container_lifecycle)                               *)
ReportLeavesNothingRunning ==
  \A r \in reports, m \in Modes : containers[r.attempt][m].status \in {"none", "created"}

(* The reports of a run were made under one authority and one contract, or *)
(* all without; a restart never changes which. (bind_runtime_anchor)       *)
ReportsAgree == \A r, s \in reports : r.bound = s.bound

(* Whatever was found, a report is about the candidate of its beginning.   *)
(* (_verify_postconditions)                                                *)
OneCandidate == phase = "report" => seen \subseteq {initial.candidate}

-----------------------------------------------------------------------------
(* Why they hold: an inductive invariant, in parts *)

Containers == [status : {"none", "created", "running", "exited"},
               authority : Nat \cup {None}, candidate : Nat \cup {None},
               starts : 0..1, code : 0..1, suite : Suites]

(* Versions only grow, and what was bound or looked at is no newer.        *)
VersionsFit ==
  /\ containers \in [Attempts -> [Modes -> Containers]]
  /\ \A t \in Things : env[t] <= changes
  /\ seen \subseteq 0..env["candidate"]
  /\ session # None =>
       /\ session = anchor /\ validators \in 1..MaxValidators
       /\ session.authority # None => session.authority \in 0..env["authority"]
  /\ validators \in 0..MaxValidators /\ attempt \in Attempts
  /\ phase # "idle" => initial.candidate = 0

(* An attempt is consumed before it has a container.                       *)
Fresh(a) == \A m \in Modes : containers[a][m] = NoContainer
ConsumedFirst ==
  /\ \A a \in Attempts : attempts[a] = None => Fresh(a)
  /\ phase \in CommandIds => Fresh(attempt)
  /\ phase \in {"idle"} \cup CommandIds => failing = "no"
  /\ phase \in CommandIds \cup Modes => results["munit"] # "passed"

(* A container that was created for this process, and one that ran.        *)
Ours(c) ==
  /\ session.authority \in Nat /\ c.authority \in session.authority..env["authority"]
  /\ c.candidate = copy
Ran(c) == Ours(c) /\ c.status = "none" /\ c.starts = 1

(* Where the lifecycle is, its container was brought.                      *)
LifecycleFits ==
  Running =>
    /\ session.authority \in 0..env["authority"] /\ copy \in seen
    /\ phase = "probe" => containers[attempt]["validate"] = NoContainer
    /\ phase = "validate" =>
         LET c == containers[attempt]["probe"] IN Ran(c) /\ c.code = 0
    /\ command = "create" =>
         Here = NoContainer /\ ~created /\ ~timedOut /\ exitCode = 0 /\ failing = "no"
    /\ command \in {"inspect", "start"} =>
         /\ created /\ failing = "no"
         /\ Ours(Here) /\ Here.status = "created" /\ Here.starts = 0
    /\ command \in {"wait", "kill"} =>
         /\ created /\ failing = "no" /\ (command = "kill" => timedOut)
         /\ Ours(Here) /\ Here.starts = 1
    /\ command = "remove" /\ failing = "no" =>
         /\ created /\ Ours(Here) /\ Here.starts = 1
         /\ timedOut \/ (Here.status = "exited" /\ exitCode = Here.code)
    /\ command = "conclude" /\ failing = "no" =>
         IF created THEN Ran(Here) /\ (timedOut \/ exitCode = Here.code)
         ELSE Here.status \in {"none", "created"} /\ (timedOut \/ exitCode # 0)
    /\ command = "conclude" /\ failing = "unavailable" => Here.status = "none"

(* What an attempt leaves that raised nothing.                             *)
Quiet(a) == \A m \in Modes : containers[a][m].status \in {"none", "created"}
PassedFits ==
  results["munit"] = "passed" =>
    /\ copy \in seen
    /\ \A m \in Modes :
         LET c == containers[attempt][m] IN Ran(c) /\ c.code = 0
    /\ containers[attempt]["validate"].suite = "passed"
OutcomeFits ==
  /\ phase = "post" /\ failing = "no" => Quiet(attempt) /\ PassedFits
  /\ phase = "report" => Quiet(attempt) /\ failing = "no"

(* Reports are of attempts that are over, under the one anchor.            *)
ReportsFit ==
  \A r \in reports :
    /\ anchor # None /\ r.bound = anchor
    /\ r.attempt \in Attempts /\ attempts[r.attempt] # None /\ Quiet(r.attempt)
    /\ phase \notin {"idle", "report"} => r.attempt # attempt

Inv ==
  /\ TypeOK /\ VersionsFit /\ ConsumedFirst /\ LifecycleFits /\ OutcomeFits /\ ReportsFit
  /\ PassedRanInContainers /\ OneCandidate
==============================================================================
