------------------------ MODULE RoleInvocation_proofs ------------------------
(***************************************************************************)
(* TLAPS proofs about RoleInvocation, for any callers, inputs and ids.     *)
(* AtMostOneCall is not inductive: that a caller which verified its lease  *)
(* has not called before depends on whose ids are on file, and that ids    *)
(* are never drawn twice.  IInv adds what each pc guarantees.              *)
(***************************************************************************)
EXTENDS RoleInvocation, TLAPS

(* Ids drawn are remembered, and no two callers hold the same one.         *)
IdsAreFresh ==
  /\ lease # Absent => lease.id \in issued
  /\ \A c \in Callers : mine[c] # Absent => mine[c].id \in issued
  /\ \A c, d \in Callers :
       mine[c] # Absent /\ mine[d] # Absent /\ mine[c].id = mine[d].id => c = d

(* From issuing to the provider's answer a caller holds a lease for its    *)
(* own input, and once verified it is the one on file.                     *)
ClaimsHold ==
  \A c \in Callers :
    /\ pc[c] \in {"claim", "publish", "verify", "dispatch", "receive"} =>
         mine[c] # Absent /\ mine[c].binding = input[c]
    /\ pc[c] \in {"dispatch", "receive"} => lease = mine[c]

(* A call was made under the lease on file, by a caller that is past its   *)
(* dispatch or gone.                                                       *)
CallsAreClaimed ==
  /\ AtMostOneCall
  /\ \A x \in calls : \A c \in Callers :
       mine[c] # Absent /\ mine[c].id = x.id =>
         pc[c] \notin {"claim", "publish", "verify", "dispatch"}
  /\ \A c \in Callers : pc[c] = "receive" => calls # {}

(* What a caller is about to store answers the leased input.               *)
ResultsFit ==
  \A c \in Callers :
    /\ pc[c] = "store" =>
         /\ result[c] # Absent /\ lease # Absent
         /\ result[c].binding = input[c] /\ input[c] = lease.binding
         /\ result[c].from \in Ids => result[c].from = lease.id /\ calls # {}
         /\ role = "engineer" => result[c].from \in Ids
    /\ pc[c] = "replay" => artifact # Absent
    /\ pc[c] = "look" => role = "validator"

IInv ==
  /\ TypeOK
  /\ IdsAreFresh
  /\ ClaimsHold
  /\ CallsAreClaimed
  /\ ResultsFit
  /\ StoredAnswerIsTheCalls
  /\ ReturnsAgree
-----------------------------------------------------------------------------
USE AbsentAssumption

(* IInv holds before any caller enters. *)
LEMMA InitInvariant == Init => IInv
  BY DEF Init, IInv, TypeOK, IdsAreFresh, ClaimsHold, CallsAreClaimed, AtMostOneCall,
         ResultsFit, StoredAnswerIsTheCalls, ReturnsAgree, Roles, Pcs, Leases, Artifacts

(* IInv survives every step of every caller, its death included. *)
LEMMA StepInvariant == ASSUME IInv, [Next]_vars PROVE IInv'
  <1> USE DEF IInv, Goto, Files, Held, Leases, Artifacts, Reasons, Roles, AtMostOneCall,
             LeaseFits
  <1>1. ASSUME NEW c \in Callers, Enter(c) PROVE IInv'
    <2>1. TypeOK' BY <1>1 DEF Enter, TypeOK, Pcs
    <2>2. IdsAreFresh' BY <1>1 DEF Enter, IdsAreFresh, TypeOK
    <2>3. ClaimsHold' BY <1>1 DEF Enter, ClaimsHold, TypeOK
    <2>4. CallsAreClaimed' BY <1>1 DEF Enter, CallsAreClaimed, TypeOK
    <2>5. ResultsFit' BY <1>1 DEF Enter, ResultsFit, TypeOK
    <2>6. StoredAnswerIsTheCalls'
      BY <1>1 DEF Enter, StoredAnswerIsTheCalls, TypeOK
    <2>7. ReturnsAgree' BY <1>1 DEF Enter, ReturnsAgree, TypeOK
    <2> QED BY <2>1, <2>2, <2>3, <2>4, <2>5, <2>6, <2>7
  <1>2. ASSUME NEW c \in Callers, Replay(c) PROVE IInv'
    <2>1. TypeOK' BY <1>2 DEF Replay, TypeOK, Pcs
    <2>2. IdsAreFresh' BY <1>2 DEF Replay, IdsAreFresh, TypeOK
    <2>3. ClaimsHold' BY <1>2 DEF Replay, ClaimsHold, TypeOK
    <2>4. CallsAreClaimed' BY <1>2 DEF Replay, CallsAreClaimed, TypeOK
    <2>5. ResultsFit' BY <1>2 DEF Replay, ResultsFit, TypeOK
    <2>6. StoredAnswerIsTheCalls'
      BY <1>2 DEF Replay, StoredAnswerIsTheCalls, TypeOK
    <2>7. ReturnsAgree' BY <1>2 DEF Replay, ReturnsAgree, TypeOK, ResultsFit
    <2> QED BY <2>1, <2>2, <2>3, <2>4, <2>5, <2>6, <2>7
  <1>3. ASSUME NEW c \in Callers, Look(c) PROVE IInv'
    <2>1. TypeOK' BY <1>3 DEF Look, TypeOK, Pcs
    <2>2. IdsAreFresh' BY <1>3 DEF Look, IdsAreFresh, TypeOK
    <2>3. ClaimsHold' BY <1>3 DEF Look, ClaimsHold, TypeOK
    <2>4. CallsAreClaimed' BY <1>3 DEF Look, CallsAreClaimed, TypeOK
    <2>5. ResultsFit' BY <1>3 DEF Look, ResultsFit, TypeOK
    <2>6. StoredAnswerIsTheCalls'
      BY <1>3 DEF Look, StoredAnswerIsTheCalls, TypeOK
    <2>7. ReturnsAgree' BY <1>3 DEF Look, ReturnsAgree, TypeOK
    <2> QED BY <2>1, <2>2, <2>3, <2>4, <2>5, <2>6, <2>7
  <1>4. ASSUME NEW c \in Callers, RefuseClaimed(c) PROVE IInv'
    <2>1. TypeOK' BY <1>4 DEF RefuseClaimed, TypeOK, Pcs
    <2>2. IdsAreFresh' BY <1>4 DEF RefuseClaimed, IdsAreFresh, TypeOK
    <2>3. ClaimsHold' BY <1>4 DEF RefuseClaimed, ClaimsHold, TypeOK
    <2>4. CallsAreClaimed' BY <1>4 DEF RefuseClaimed, CallsAreClaimed, TypeOK
    <2>5. ResultsFit' BY <1>4 DEF RefuseClaimed, ResultsFit, TypeOK
    <2>6. StoredAnswerIsTheCalls'
      BY <1>4 DEF RefuseClaimed, StoredAnswerIsTheCalls, TypeOK
    <2>7. ReturnsAgree' BY <1>4 DEF RefuseClaimed, ReturnsAgree, TypeOK
    <2> QED BY <2>1, <2>2, <2>3, <2>4, <2>5, <2>6, <2>7
  <1>5. ASSUME NEW c \in Callers, IssueLease(c) PROVE IInv'
    <2>1. TypeOK' BY <1>5 DEF IssueLease, TypeOK, Pcs
    <2>2. IdsAreFresh' BY <1>5 DEF IssueLease, IdsAreFresh, TypeOK
    <2>3. ClaimsHold' BY <1>5 DEF IssueLease, ClaimsHold, TypeOK
    <2>4. CallsAreClaimed' BY <1>5 DEF IssueLease, CallsAreClaimed, TypeOK
    <2>5. ResultsFit' BY <1>5 DEF IssueLease, ResultsFit, TypeOK
    <2>6. StoredAnswerIsTheCalls'
      BY <1>5 DEF IssueLease, StoredAnswerIsTheCalls, TypeOK
    <2>7. ReturnsAgree' BY <1>5 DEF IssueLease, ReturnsAgree, TypeOK
    <2> QED BY <2>1, <2>2, <2>3, <2>4, <2>5, <2>6, <2>7
  <1>6. ASSUME NEW c \in Callers, CheckDestination(c) PROVE IInv'
    <2>1. TypeOK' BY <1>6 DEF CheckDestination, TypeOK, Pcs
    <2>2. IdsAreFresh' BY <1>6 DEF CheckDestination, IdsAreFresh, TypeOK
    <2>3. ClaimsHold' BY <1>6 DEF CheckDestination, ClaimsHold, TypeOK
    <2>4. CallsAreClaimed'
      BY <1>6 DEF CheckDestination, CallsAreClaimed, TypeOK
    <2>5. ResultsFit' BY <1>6 DEF CheckDestination, ResultsFit, TypeOK
    <2>6. StoredAnswerIsTheCalls'
      BY <1>6 DEF CheckDestination, StoredAnswerIsTheCalls, TypeOK
    <2>7. ReturnsAgree' BY <1>6 DEF CheckDestination, ReturnsAgree, TypeOK
    <2> QED BY <2>1, <2>2, <2>3, <2>4, <2>5, <2>6, <2>7
  <1>7. ASSUME NEW c \in Callers, Publish(c) PROVE IInv'
    <2>1. TypeOK' BY <1>7 DEF Publish, TypeOK, Pcs
    <2>2. IdsAreFresh' BY <1>7 DEF Publish, IdsAreFresh, TypeOK
    <2>3. ClaimsHold' BY <1>7 DEF Publish, ClaimsHold, TypeOK
    <2>4. CallsAreClaimed' BY <1>7 DEF Publish, CallsAreClaimed, TypeOK
    <2>5. ResultsFit' BY <1>7 DEF Publish, ResultsFit, TypeOK
    <2>6. StoredAnswerIsTheCalls'
      BY <1>7 DEF Publish, StoredAnswerIsTheCalls, TypeOK
    <2>7. ReturnsAgree' BY <1>7 DEF Publish, ReturnsAgree, TypeOK
    <2> QED BY <2>1, <2>2, <2>3, <2>4, <2>5, <2>6, <2>7
  <1>8. ASSUME NEW c \in Callers, Verify(c) PROVE IInv'
    <2>1. TypeOK' BY <1>8 DEF Verify, TypeOK, Pcs
    <2>2. IdsAreFresh' BY <1>8 DEF Verify, IdsAreFresh, TypeOK
    <2>3. ClaimsHold' BY <1>8 DEF Verify, ClaimsHold, TypeOK
    <2>4. CallsAreClaimed' BY <1>8 DEF Verify, CallsAreClaimed, TypeOK
    <2>5. ResultsFit' BY <1>8 DEF Verify, ResultsFit, TypeOK
    <2>6. StoredAnswerIsTheCalls'
      BY <1>8 DEF Verify, StoredAnswerIsTheCalls, TypeOK
    <2>7. ReturnsAgree' BY <1>8 DEF Verify, ReturnsAgree, TypeOK
    <2> QED BY <2>1, <2>2, <2>3, <2>4, <2>5, <2>6, <2>7
  <1>9. ASSUME NEW c \in Callers, Dispatch(c) PROVE IInv'
    <2>1. TypeOK' BY <1>9 DEF Dispatch, TypeOK, Pcs, ClaimsHold
    <2>2. IdsAreFresh' BY <1>9 DEF Dispatch, IdsAreFresh, TypeOK
    <2>3. ClaimsHold' BY <1>9 DEF Dispatch, ClaimsHold, TypeOK
    <2>4. CallsAreClaimed'
      <3>1. pc[c] = "dispatch" /\ mine[c] # Absent /\ lease = mine[c]
        BY <1>9 DEF Dispatch, ClaimsHold
      <3>2. calls = {}
        <4> SUFFICES ASSUME NEW x \in calls PROVE FALSE
          OBVIOUS
        <4> QED BY <3>1 DEF CallsAreClaimed
      <3>3. calls' = {[caller |-> c, id |-> mine[c].id]}
        BY <1>9, <3>2 DEF Dispatch
      <3>4. UNCHANGED <<lease, mine>> /\ pc'[c] = "receive"
        BY <1>9 DEF Dispatch, TypeOK
      <3>5. AtMostOneCall'
        BY <3>1, <3>3, <3>4
      <3>6. \A d \in Callers : mine[d] # Absent /\ mine[d].id = mine[c].id => d = c
        BY <3>1 DEF IdsAreFresh
      <3> QED BY <3>1, <3>3, <3>4, <3>5, <3>6 DEF CallsAreClaimed
    <2>5. ResultsFit' BY <1>9 DEF Dispatch, ResultsFit, TypeOK
    <2>6. StoredAnswerIsTheCalls'
      BY <1>9 DEF Dispatch, StoredAnswerIsTheCalls, TypeOK
    <2>7. ReturnsAgree' BY <1>9 DEF Dispatch, ReturnsAgree, TypeOK
    <2> QED BY <2>1, <2>2, <2>3, <2>4, <2>5, <2>6, <2>7
  <1>10. ASSUME NEW c \in Callers, Receive(c) PROVE IInv'
    <2>1. TypeOK' BY <1>10 DEF Receive, TypeOK, Pcs, ClaimsHold
    <2>2. IdsAreFresh' BY <1>10 DEF Receive, IdsAreFresh, TypeOK
    <2>3. ClaimsHold' BY <1>10 DEF Receive, ClaimsHold, TypeOK
    <2>4. CallsAreClaimed' BY <1>10 DEF Receive, CallsAreClaimed, TypeOK
    <2>5. ResultsFit'
      BY <1>10 DEF Receive, ResultsFit, TypeOK, ClaimsHold, CallsAreClaimed
    <2>6. StoredAnswerIsTheCalls'
      BY <1>10 DEF Receive, StoredAnswerIsTheCalls, TypeOK
    <2>7. ReturnsAgree' BY <1>10 DEF Receive, ReturnsAgree, TypeOK
    <2> QED BY <2>1, <2>2, <2>3, <2>4, <2>5, <2>6, <2>7
  <1>11. ASSUME NEW c \in Callers, Store(c) PROVE IInv'
    <2>1. TypeOK' BY <1>11 DEF Store, TypeOK, Pcs
    <2>2. IdsAreFresh' BY <1>11 DEF Store, IdsAreFresh, TypeOK
    <2>3. ClaimsHold' BY <1>11 DEF Store, ClaimsHold, TypeOK
    <2>4. CallsAreClaimed' BY <1>11 DEF Store, CallsAreClaimed, TypeOK
    <2>5. ResultsFit' BY <1>11 DEF Store, ResultsFit, TypeOK
    <2>6. StoredAnswerIsTheCalls'
      BY <1>11 DEF Store, StoredAnswerIsTheCalls, TypeOK, ResultsFit
    <2>7. ReturnsAgree' BY <1>11 DEF Store, ReturnsAgree, TypeOK, ResultsFit
    <2> QED BY <2>1, <2>2, <2>3, <2>4, <2>5, <2>6, <2>7
  <1>12. ASSUME NEW c \in Callers, Leave(c) PROVE IInv'
    <2>1. TypeOK' BY <1>12 DEF Leave, TypeOK, Pcs
    <2>2. IdsAreFresh' BY <1>12 DEF Leave, IdsAreFresh, TypeOK
    <2>3. ClaimsHold' BY <1>12 DEF Leave, ClaimsHold, TypeOK
    <2>4. CallsAreClaimed' BY <1>12 DEF Leave, CallsAreClaimed, TypeOK
    <2>5. ResultsFit' BY <1>12 DEF Leave, ResultsFit, TypeOK
    <2>6. StoredAnswerIsTheCalls'
      BY <1>12 DEF Leave, StoredAnswerIsTheCalls, TypeOK
    <2>7. ReturnsAgree' BY <1>12 DEF Leave, ReturnsAgree, TypeOK
    <2> QED BY <2>1, <2>2, <2>3, <2>4, <2>5, <2>6, <2>7
  <1>13. CASE UNCHANGED vars
    BY <1>13 DEF vars, TypeOK, IdsAreFresh, ClaimsHold, CallsAreClaimed, ResultsFit,
                 StoredAnswerIsTheCalls, ReturnsAgree
  <1> QED
    BY <1>1, <1>2, <1>3, <1>4, <1>5, <1>6, <1>7, <1>8, <1>9, <1>10, <1>11, <1>12, <1>13
    DEF Next, Step

(* The strengthened invariant holds in every reachable state. *)
THEOREM Invariance == Spec => []IInv
  <1>1. Init => IInv
    BY InitInvariant
  <1>2. IInv /\ [Next]_vars => IInv'
    BY StepInvariant
  <1> QED BY <1>1, <1>2, PTL DEF Spec

-----------------------------------------------------------------------------
(* Every variable keeps its type, for any number of callers and ids. *)
THEOREM TypeCorrect == Spec => []TypeOK
  <1>1. IInv => TypeOK
    BY DEF IInv
  <1> QED BY <1>1, Invariance, PTL

(* Any number of processes and restarts make at most one provider call,    *)
(* under the lease on file. (_claim_role_invocation)                       *)
THEOREM OneCall == Spec => []AtMostOneCall
  <1>1. IInv => AtMostOneCall
    BY DEF IInv, CallsAreClaimed
  <1> QED BY <1>1, Invariance, PTL

(* The stored answer is that of the one call, to the leased input.         *)
THEOREM AnswerOfTheCall == Spec => []StoredAnswerIsTheCalls
  <1>1. IInv => StoredAnswerIsTheCalls
    BY DEF IInv
  <1> QED BY <1>1, Invariance, PTL

(* All callers that return agree on one artifact, made for their input.    *)
THEOREM Agreement == Spec => []ReturnsAgree
  <1>1. IInv => ReturnsAgree
    BY DEF IInv
  <1> QED BY <1>1, Invariance, PTL

(* Lease and artifact are never replaced or removed. (write_json)          *)
THEOREM WriteOnce == Spec => FilesAreFinal
  <1>1. [Next]_vars =>
          [/\ lease # Absent => lease' = lease
           /\ artifact # Absent => artifact' = artifact]_vars
    <2> SUFFICES ASSUME [Next]_vars, ~ UNCHANGED vars
                 PROVE  /\ lease # Absent => lease' = lease
                        /\ artifact # Absent => artifact' = artifact
      OBVIOUS
    <2>1. PICK c \in Callers : Step(c)
      BY DEF Next
    <2>2. CASE Publish(c)
      BY <2>2 DEF Publish
    <2>3. CASE Store(c)
      BY <2>3 DEF Store
    <2>4. CASE ~Publish(c) /\ ~Store(c)
      BY <2>1, <2>4 DEF Step, Enter, Replay, Look, RefuseClaimed, IssueLease,
                        CheckDestination, Verify, Dispatch, Receive, Leave, Files
    <2> QED BY <2>2, <2>3, <2>4
  <1> QED BY <1>1, PTL DEF Spec, FilesAreFinal
==============================================================================
