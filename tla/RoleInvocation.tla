---------------------------- MODULE RoleInvocation ----------------------------
(***************************************************************************)
(* Competing callers of one role for one attempt (model_workflow.py,       *)
(* integrity.py).  The operator's lock is local to a process, so two       *)
(* processes, or one before and one after a restart, may run the same      *)
(* Engineer or Validator node over the same artifact store.  What stands   *)
(* between them and a second paid provider call is the invocation lease: a *)
(* file published once, under a fresh invocation id, before the call.      *)
(*                                                                         *)
(* write_json looks for the destination, writes a private temporary file   *)
(* and links it into place; the link is the only atomic step.              *)
(***************************************************************************)
EXTENDS Integers

CONSTANTS
  Callers,     \* processes entering the role
  Bindings,    \* exact provider inputs a caller may have prepared
  Ids,         \* invocation ids; a caller never draws one drawn before
  Absent       \* no file, or nothing held

Roles == {"engineer", "validator"}
Leases == [id : Ids, binding : Bindings]

(* A role artifact is a provider's answer, which names the call that gave  *)
(* it, or the Validator's receipt for unavailable advice and its reason.   *)
Reasons == {"invocation_incomplete", "model_call_failed", "model_output_invalid"}
Artifacts == [from : Ids \cup Reasons, binding : Bindings]

ASSUME AbsentAssumption ==
  Absent \notin Leases \cup Artifacts /\ Ids \cap Reasons = {}

VARIABLES
  role,        \* the role being invoked
  lease,       \* the lease file
  artifact,    \* the role artifact file
  issued,      \* ids drawn so far
  calls,       \* history: the provider calls made, by caller and id
  pc,          \* where each caller is
  input,       \* the binding each caller prepared
  mine,        \* the lease each caller issued
  result       \* the artifact each caller is about to store, or returned

vars == <<role, lease, artifact, issued, calls, pc, input, mine, result>>

Pcs == {"idle", "look", "lease", "claim", "publish", "verify", "dispatch",
        "receive", "store", "replay", "done", "refused"}

Init ==
  /\ role \in Roles
  /\ lease = Absent /\ artifact = Absent
  /\ issued = {} /\ calls = {}
  /\ pc = [c \in Callers |-> "idle"]
  /\ input \in [Callers -> Bindings]
  /\ mine = [c \in Callers |-> Absent]
  /\ result = [c \in Callers |-> Absent]

Goto(c, where) == pc' = [pc EXCEPT ![c] = where]
Files == <<lease, artifact>>
Held == <<input, mine, result>>

-----------------------------------------------------------------------------
(* Enter the role: look for its artifact, then for its lease. *)

Enter(c) ==
  /\ pc[c] = "idle"
  /\ \E b \in Bindings : input' = [input EXCEPT ![c] = b]
  /\ Goto(c, CASE artifact # Absent -> "replay"
               [] artifact = Absent /\ role = "validator" -> "look"
               [] artifact = Absent /\ role = "engineer" -> "lease")
  /\ UNCHANGED <<role, Files, issued, calls, mine, result>>

(* Mutant: a lease is taken at face value, whatever input it binds. *)
AnyLeaseFits(c) == c \in Callers

LeaseFits(c) == lease.binding = input[c]

(* A stored artifact is replayed only for the input its lease was issued   *)
(* for, and only if that input leads to it.                                *)
Replay(c) ==
  /\ pc[c] = "replay"
  /\ IF (lease # Absent => LeaseFits(c)) /\ artifact.binding = input[c]
     THEN Goto(c, "done") /\ result' = [result EXCEPT ![c] = artifact]
     ELSE Goto(c, "refused") /\ UNCHANGED result
  /\ UNCHANGED <<role, Files, issued, calls, input, mine>>

(* The Validator never waits for a lease somebody else holds: it records   *)
(* that its advice is unavailable.                                         *)
Look(c) ==
  /\ pc[c] = "look"
  /\ \/ /\ lease = Absent
        /\ Goto(c, "lease") /\ UNCHANGED result
     \/ /\ lease # Absent /\ LeaseFits(c)
        /\ result' = [result EXCEPT ![c] = [from |-> "invocation_incomplete",
                                            binding |-> input[c]]]
        /\ Goto(c, "store")
     \/ /\ lease # Absent /\ ~LeaseFits(c)
        /\ Goto(c, "refused") /\ UNCHANGED result
  /\ UNCHANGED <<role, Files, issued, calls, input, mine>>

(* A lease without an artifact forbids another call. *)
RefuseClaimed(c) ==
  /\ pc[c] = "lease" /\ lease # Absent
  /\ Goto(c, "refused")
  /\ UNCHANGED <<role, Files, issued, calls, Held>>

IssueLease(c) ==
  /\ pc[c] = "lease" /\ lease = Absent
  /\ \E i \in Ids \ issued :
       /\ issued' = issued \cup {i}
       /\ mine' = [mine EXCEPT ![c] = [id |-> i, binding |-> input[c]]]
  /\ Goto(c, "claim")
  /\ UNCHANGED <<role, Files, calls, input, result>>

-----------------------------------------------------------------------------
(* write_json of the lease, then the read-back before dispatch. *)

CheckDestination(c) ==
  /\ pc[c] = "claim"
  /\ Goto(c, CASE lease = Absent -> "publish"
               [] lease = mine[c] -> "verify"
               [] lease # Absent /\ lease # mine[c] -> "refused")
  /\ UNCHANGED <<role, Files, issued, calls, Held>>

(* Mutant: the file is moved into place, over whatever is there by now. *)
PublishByRename(c) ==
  /\ pc[c] = "publish"
  /\ lease' = mine[c]
  /\ Goto(c, "verify")
  /\ UNCHANGED <<role, artifact, issued, calls, Held>>

(* os.link: creates the file, or fails because it exists by now. *)
Publish(c) ==
  /\ pc[c] = "publish"
  /\ lease' = IF lease = Absent THEN mine[c] ELSE lease
  /\ Goto(c, IF lease \in {Absent, mine[c]} THEN "verify" ELSE "refused")
  /\ UNCHANGED <<role, artifact, issued, calls, Held>>

Verify(c) ==
  /\ pc[c] = "verify"
  /\ Goto(c, IF lease = mine[c] THEN "dispatch" ELSE "refused")
  /\ UNCHANGED <<role, Files, issued, calls, Held>>

-----------------------------------------------------------------------------
(* The provider call (external), and storing what it answered.             *)

Dispatch(c) ==
  /\ pc[c] = "dispatch"
  /\ calls' = calls \cup {[caller |-> c, id |-> mine[c].id]}
  /\ Goto(c, "receive")
  /\ UNCHANGED <<role, Files, issued, Held>>

(* A failed call leaves the Engineer without an artifact; the Validator's  *)
(* failure becomes its receipt.                                            *)
Receive(c) ==
  /\ pc[c] = "receive"
  /\ \/ /\ result' = [result EXCEPT ![c] = [from |-> mine[c].id, binding |-> input[c]]]
        /\ Goto(c, "store")
     \/ /\ role = "validator"
        /\ \E r \in Reasons \ {"invocation_incomplete"} :
             result' = [result EXCEPT ![c] = [from |-> r, binding |-> input[c]]]
        /\ Goto(c, "store")
     \/ /\ role = "engineer"
        /\ Goto(c, "refused")
        /\ UNCHANGED result
  /\ UNCHANGED <<role, Files, issued, calls, input, mine>>

(* Mutant: a writer that lost does not compare the bytes. *)
StoreUncompared(c) ==
  /\ pc[c] = "store"
  /\ artifact' = IF artifact = Absent THEN result[c] ELSE artifact
  /\ Goto(c, "done")
  /\ UNCHANGED <<role, lease, issued, calls, Held>>

(* Mutant: the artifact is overwritten. *)
StoreReplacing(c) ==
  /\ pc[c] = "store"
  /\ artifact' = result[c]
  /\ Goto(c, "done")
  /\ UNCHANGED <<role, lease, issued, calls, Held>>

(* write_json of the artifact: the look for the destination and the link   *)
(* compare with the same immutable bytes, so they are one step here.       *)
Store(c) ==
  /\ pc[c] = "store"
  /\ artifact' = IF artifact = Absent THEN result[c] ELSE artifact
  /\ Goto(c, IF artifact \in {Absent, result[c]} THEN "done" ELSE "refused")
  /\ UNCHANGED <<role, lease, issued, calls, Held>>

-----------------------------------------------------------------------------
(* A caller dies anywhere, or ends; its next entry is a new caller.  Only  *)
(* the files survive.                                                      *)
Leave(c) ==
  /\ pc[c] # "idle"
  /\ Goto(c, "idle")
  /\ mine' = [mine EXCEPT ![c] = Absent]
  /\ result' = [result EXCEPT ![c] = Absent]
  /\ UNCHANGED <<role, Files, issued, calls, input>>

Step(c) ==
  \/ Enter(c) \/ Replay(c) \/ Look(c) \/ RefuseClaimed(c) \/ IssueLease(c)
  \/ CheckDestination(c) \/ Publish(c) \/ Verify(c)
  \/ Dispatch(c) \/ Receive(c) \/ Store(c)
  \/ Leave(c)

Next == \E c \in Callers : Step(c)
Spec == Init /\ [][Next]_vars

-----------------------------------------------------------------------------
(* Properties *)

TypeOK ==
  /\ role \in Roles
  /\ lease \in Leases \cup {Absent}
  /\ artifact \in Artifacts \cup {Absent}
  /\ issued \subseteq Ids
  /\ calls \subseteq [caller : Callers, id : Ids]
  /\ pc \in [Callers -> Pcs]
  /\ input \in [Callers -> Bindings]
  /\ mine \in [Callers -> Leases \cup {Absent}]
  /\ result \in [Callers -> Artifacts \cup {Absent}]

(* However many processes and restarts reach the node of one attempt, its  *)
(* provider is called at most once, and under the lease that is on file.   *)
(* (_claim_role_invocation)                                                *)
AtMostOneCall ==
  /\ \A x, y \in calls : x = y
  /\ \A x \in calls : lease # Absent /\ x.id = lease.id

(* What is stored as the role's answer is the answer of the one call made, *)
(* to the input the lease binds; the Engineer stores nothing else.         *)
(* (engineer, validator)                                                   *)
StoredAnswerIsTheCalls ==
  artifact # Absent =>
    /\ lease # Absent /\ artifact.binding = lease.binding
    /\ artifact.from \in Ids => artifact.from = lease.id /\ calls # {}
    /\ role = "engineer" => artifact.from \in Ids

(* All callers that return successfully, whether they called the provider, *)
(* lost a race or replayed, agree on the one stored artifact, and it was   *)
(* made for the input each of them prepared. (write_json, replay)          *)
ReturnsAgree ==
  \A c \in Callers : pc[c] = "done" =>
    artifact # Absent /\ result[c] = artifact /\ artifact.binding = input[c]

(* Neither file is ever replaced or removed, however late a writer that    *)
(* found its destination free comes to publish. (write_json)               *)
FilesAreFinal ==
  [][/\ lease # Absent => lease' = lease
     /\ artifact # Absent => artifact' = artifact]_vars
==============================================================================
