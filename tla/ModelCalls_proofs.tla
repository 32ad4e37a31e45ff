--------------------------- MODULE ModelCalls_proofs ---------------------------
(***************************************************************************)
(* TLAPS proofs about the parts of MCModelCalls that carry a model call:   *)
(* the two clients, the loop that feeds a command and reads it, and the    *)
(* runner of a process group, for any number of calls, changes outside,    *)
(* restarts, processes and bytes.  Each part's module states an inductive  *)
(* invariant Inv; for each there is a lemma that it holds at the start,    *)
(* one that stuttering keeps it, and one that every action does.  The last *)
(* section puts them together.                                             *)
(*                                                                         *)
(* The variables are those of the run: of the Claude client, v1 is the     *)
(* world, v2 the client, v3 the step, v4 the probe, v5 calls, v6 records,  *)
(* v7 served, v8 drifts; the others are substituted as in MCModelCalls.    *)
(***************************************************************************)
EXTENDS MCModelCalls, Sequences, TLAPS

(* What Append adds to a sequence, and what it leaves alone. *)
LEMMA Appended ==
  ASSUME NEW S, NEW s \in Seq(S), NEW e \in S
  PROVE  /\ Append(s, e) \in Seq(S) /\ DOMAIN s = 1 .. Len(s) /\ Len(s) \in Nat
         /\ DOMAIN Append(s, e) = 1 .. Len(s) + 1 /\ Append(s, e)[Len(s) + 1] = e
         /\ \A i \in 1 .. Len(s) : Append(s, e)[i] = s[i] /\ s[i] \in S
  OBVIOUS

-----------------------------------------------------------------------------
(* The Claude client.                                                       *)

USE BoundsAssumption DEF Claude!Inv

(* It holds at the start. *)
LEMMA ClaudeStart == Claude!Init => Claude!Inv
  BY DEF Claude!Init, Claude!NewClient, Claude!Trusted, Claude!Usable, Claude!TypeOK,
         Claude!Written, Claude!World, Claude!Revisions, Claude!Unmade,
         Claude!CallIsOfTheClient, Claude!OneRuntime, Claude!UsageOfItsCall,
         Claude!SeenSince, Claude!OneStrayPerDrift

(* A step that changes nothing of it keeps it. *)
LEMMA ClaudeKept == ASSUME Claude!Inv, UNCHANGED Claude!vars PROVE Claude!Inv'
  BY DEF Claude!vars, Claude!TypeOK, Claude!Written, Claude!CallIsOfTheClient,
         Claude!OneRuntime, Claude!Recorded, Claude!UsageOfItsCall, Claude!SeenSince,
         Claude!OneStrayPerDrift, Claude!Unchanged, Claude!SameCommand,
         Claude!SameSettings, Claude!Usable, Claude!Current

(* Prove compares what it observed with the record; Send is the only step   *)
(* that could add a stray prompt, and SeenSince says when it cannot.        *)
LEMMA ClaudeStep == ASSUME Claude!Inv, Claude!Next PROVE Claude!Inv'
<1>1. CASE Claude!Drift
  <2> USE <1>1 DEF Claude!Drift
  <2>1. Claude!TypeOK' /\ Claude!Written'
    BY DEF Claude!TypeOK, Claude!Written, Claude!World, Claude!Identity,
       Claude!Revisions, Claude!CallIsOfTheClient, Claude!Unmade
  <2>2. Claude!CallIsOfTheClient'
    BY DEF Claude!TypeOK, Claude!Written, Claude!World, Claude!Identity,
       Claude!Revisions, Claude!CallIsOfTheClient, Claude!Unmade
  <2>3. Claude!OneRuntime' /\ Claude!UsageOfItsCall'
    BY DEF Claude!OneRuntime, Claude!Recorded, Claude!UsageOfItsCall
  <2>4. Claude!SeenSince' /\ Claude!OneStrayPerDrift'
    BY DEF Claude!SeenSince, Claude!OneStrayPerDrift, Claude!Unchanged,
       Claude!SameCommand, Claude!SameSettings, Claude!Usable, Claude!Current,
       Claude!TypeOK, Claude!Written
  <2> QED BY <2>1, <2>2, <2>3, <2>4
<1>2. CASE Claude!Verify
  <2> USE <1>2 DEF Claude!Verify, Claude!Unchanged, Claude!SameCommand,
     Claude!SameSettings
  <2>1. Claude!TypeOK' /\ Claude!Written'
    BY DEF Claude!TypeOK, Claude!Written, Claude!World, Claude!Identity,
       Claude!Revisions, Claude!CallIsOfTheClient, Claude!Unmade
  <2>2. Claude!CallIsOfTheClient'
    BY DEF Claude!TypeOK, Claude!Written, Claude!World, Claude!Identity,
       Claude!Revisions, Claude!CallIsOfTheClient, Claude!Unmade
  <2>3. Claude!OneRuntime' /\ Claude!UsageOfItsCall'
    BY DEF Claude!OneRuntime, Claude!Recorded, Claude!UsageOfItsCall
  <2>4. Claude!SeenSince' /\ Claude!OneStrayPerDrift'
    BY DEF Claude!SeenSince, Claude!OneStrayPerDrift, Claude!Unchanged,
       Claude!SameCommand, Claude!SameSettings, Claude!Usable, Claude!Current,
       Claude!TypeOK, Claude!Written
  <2> QED BY <2>1, <2>2, <2>3, <2>4
<1>3. CASE Claude!ProbeVersion
  <2> USE <1>3 DEF Claude!ProbeVersion
  <2>1. Claude!TypeOK' /\ Claude!Written'
    BY DEF Claude!TypeOK, Claude!Written, Claude!World, Claude!Identity,
       Claude!Revisions, Claude!CallIsOfTheClient, Claude!Unmade
  <2>2. Claude!CallIsOfTheClient'
    BY DEF Claude!TypeOK, Claude!Written, Claude!World, Claude!Identity,
       Claude!Revisions, Claude!CallIsOfTheClient, Claude!Unmade
  <2>3. Claude!OneRuntime' /\ Claude!UsageOfItsCall'
    BY DEF Claude!OneRuntime, Claude!Recorded, Claude!UsageOfItsCall
  <2>4. Claude!SeenSince' /\ Claude!OneStrayPerDrift'
    BY DEF Claude!SeenSince, Claude!OneStrayPerDrift, Claude!Unchanged,
       Claude!SameCommand, Claude!SameSettings, Claude!Usable, Claude!Current,
       Claude!TypeOK, Claude!Written
  <2> QED BY <2>1, <2>2, <2>3, <2>4
<1>4. CASE Claude!ProbeFails
  <2> USE <1>4 DEF Claude!ProbeFails, Claude!Raise
  <2>1. Claude!TypeOK' /\ Claude!Written'
    BY DEF Claude!TypeOK, Claude!Written, Claude!World, Claude!Identity,
       Claude!Revisions, Claude!CallIsOfTheClient, Claude!Unmade
  <2>2. Claude!CallIsOfTheClient'
    BY DEF Claude!TypeOK, Claude!Written, Claude!World, Claude!Identity,
       Claude!Revisions, Claude!CallIsOfTheClient, Claude!Unmade
  <2>3. Claude!OneRuntime' /\ Claude!UsageOfItsCall'
    BY DEF Claude!OneRuntime, Claude!Recorded, Claude!UsageOfItsCall
  <2>4. Claude!SeenSince' /\ Claude!OneStrayPerDrift'
    BY DEF Claude!SeenSince, Claude!OneStrayPerDrift, Claude!Unchanged,
       Claude!SameCommand, Claude!SameSettings, Claude!Usable, Claude!Current,
       Claude!TypeOK, Claude!Written
  <2> QED BY <2>1, <2>2, <2>3, <2>4
<1>5. CASE Claude!Prove
  <2> USE <1>5 DEF Claude!Prove, Claude!Raise
  <2>1. CASE UNCHANGED <<v2, v4, v5, v6, v7>> /\ v3' = "idle"
    <3>1. Claude!TypeOK' /\ Claude!Written' /\ Claude!CallIsOfTheClient'
      BY <2>1 DEF Claude!TypeOK, Claude!Written, Claude!World, Claude!Identity,
         Claude!Revisions, Claude!CallIsOfTheClient, Claude!Unmade
    <3>2. Claude!OneRuntime' /\ Claude!UsageOfItsCall'
      BY <2>1 DEF Claude!OneRuntime, Claude!Recorded, Claude!UsageOfItsCall
    <3>3. Claude!SeenSince' /\ Claude!OneStrayPerDrift'
      BY <2>1 DEF Claude!SeenSince, Claude!OneStrayPerDrift, Claude!Unchanged,
         Claude!SameCommand, Claude!SameSettings, Claude!Usable, Claude!Current
    <3> QED BY <3>1, <3>2, <3>3
  <2>2. CASE /\ v1.login = Approved /\ Claude!Expected \in {None, Claude!Observed}
             /\ v3' = "proved" /\ v2' = [v2 EXCEPT !.identity = Claude!Observed]
             /\ UNCHANGED <<v4, v5, v6, v7>>
    <3>1. Claude!Observed \in Claude!Identity /\ Claude!Observed # None
      BY <2>2 DEF Claude!Observed, Claude!TypeOK, Claude!Written, Claude!World,
         Claude!Identity, Claude!Revisions, Claude!CallIsOfTheClient, Claude!Unmade
    <3>2. /\ v2'.identity = Claude!Observed /\ v2'.cli = v2.cli /\ v2'.settings = v2.settings
          /\ v2'.usage = v2.usage /\ v2' # Claude!Unmade
      BY <2>2, <3>1 DEF Claude!TypeOK, Claude!Unmade
    <3>3. Claude!TypeOK' /\ Claude!Written'
      BY <2>2, <3>1, <3>2 DEF Claude!TypeOK, Claude!Written
    <3>4. Claude!CallIsOfTheClient'
      BY <2>2, <3>1, <3>2 DEF Claude!CallIsOfTheClient, Claude!Unmade
    <3>5. Claude!OneRuntime' /\ Claude!UsageOfItsCall'
      <4>1. v6 # << >> => Claude!Observed = Claude!Recorded
        BY <2>2, <3>1 DEF Claude!Expected, Claude!OneRuntime, Claude!Recorded,
           Claude!TypeOK,
                          Claude!Written
      <4> QED BY <2>2, <3>2, <4>1 DEF Claude!OneRuntime, Claude!Recorded,
         Claude!UsageOfItsCall
    <3>6. Claude!SeenSince' /\ Claude!OneStrayPerDrift'
      BY <2>2, <3>2 DEF Claude!SeenSince, Claude!OneStrayPerDrift, Claude!Unchanged,
         Claude!SameCommand, Claude!SameSettings, Claude!Usable, Claude!Current,
         Claude!Observed
    <3> QED BY <3>3, <3>4, <3>5, <3>6
  <2> QED BY <2>1, <2>2
<1>6. CASE Claude!Recheck
  <2> USE <1>6 DEF Claude!Recheck, Claude!Raise
  <2>1. Claude!TypeOK' /\ Claude!Written'
    BY DEF Claude!TypeOK, Claude!Written, Claude!World, Claude!Identity,
       Claude!Revisions, Claude!CallIsOfTheClient, Claude!Unmade
  <2>2. Claude!CallIsOfTheClient'
    BY DEF Claude!TypeOK, Claude!Written, Claude!World, Claude!Identity,
       Claude!Revisions, Claude!CallIsOfTheClient, Claude!Unmade
  <2>3. Claude!OneRuntime' /\ Claude!UsageOfItsCall'
    BY DEF Claude!OneRuntime, Claude!Recorded, Claude!UsageOfItsCall
  <2>4. Claude!SeenSince' /\ Claude!OneStrayPerDrift'
    BY DEF Claude!SeenSince, Claude!OneStrayPerDrift, Claude!Unchanged,
       Claude!SameCommand, Claude!SameSettings, Claude!Usable, Claude!Current,
       Claude!TypeOK, Claude!Written
  <2> QED BY <2>1, <2>2, <2>3, <2>4
<1>7. CASE Claude!Send
  <2> DEFINE sent == [world |-> v1, identity |-> v2.identity, drifts |-> v8]
             S == [world : Claude!World, identity : Claude!Identity, drifts : 0 .. MaxDrifts]
  <2>1. /\ v3 = "ready" /\ v3' = "sent" /\ v7' = Append(v7, sent)
        /\ UNCHANGED <<v1, v2, v4, v5, v6, v8, v9>>
    BY <1>7 DEF Claude!Send
  <2>2. sent \in S /\ v7 \in Seq(S)
    BY <2>1 DEF Claude!TypeOK, Claude!Written, Claude!World, Claude!Identity,
       Claude!Revisions, Claude!CallIsOfTheClient, Claude!Unmade
  <2>3. /\ v7' \in Seq(S) /\ DOMAIN v7 = 1 .. Len(v7) /\ Len(v7) \in Nat
        /\ DOMAIN v7' = 1 .. Len(v7) + 1 /\ v7'[Len(v7) + 1] = sent
        /\ \A i \in 1 .. Len(v7) : v7'[i] = v7[i] /\ v7[i] \in S
    <3> HIDE DEF sent, S
    <3> QED BY <2>1, <2>2, Appended
  <2>4. Claude!TypeOK' /\ Claude!Written' /\ Claude!CallIsOfTheClient'
    BY <2>1, <2>3 DEF Claude!TypeOK, Claude!Written, Claude!CallIsOfTheClient
  <2>5. Claude!OneRuntime' /\ Claude!UsageOfItsCall' /\ Claude!SeenSince'
    BY <2>1, <2>3 DEF Claude!OneRuntime, Claude!Recorded, Claude!UsageOfItsCall,
       Claude!SeenSince, Claude!TypeOK
  <2>6. ASSUME NEW i \in 1 .. Len(v7), v7[i].drifts = v8  PROVE ~Claude!Stray(sent)
    <3>1. v2.identity = Claude!Current
      BY <2>1, <2>3, <2>6 DEF Claude!SeenSince
    <3> QED BY <3>1 DEF Claude!Stray, Claude!Current
  <2>7. ASSUME NEW i \in DOMAIN v7', NEW j \in DOMAIN v7', v7'[i].drifts = v7'[j].drifts,
               Claude!Stray(v7'[i]), Claude!Stray(v7'[j])
        PROVE  i = j
    <3>1. CASE i \in 1 .. Len(v7) /\ j \in 1 .. Len(v7)
      BY <3>1, <2>3, <2>7 DEF Claude!OneStrayPerDrift
    <3>2. CASE i \in 1 .. Len(v7) /\ j = Len(v7) + 1
      BY <3>2, <2>3, <2>6, <2>7
    <3>3. CASE j \in 1 .. Len(v7) /\ i = Len(v7) + 1
      BY <3>3, <2>3, <2>6, <2>7
    <3> QED BY <3>1, <3>2, <3>3, <2>3, <2>7
  <2>8. Claude!OneStrayPerDrift'
    BY <2>7 DEF Claude!OneStrayPerDrift, Claude!Stray
  <2> QED BY <2>4, <2>5, <2>8
<1>8. CASE Claude!NoAnswer
  <2> USE <1>8 DEF Claude!NoAnswer, Claude!Raise
  <2>1. Claude!TypeOK' /\ Claude!Written'
    BY DEF Claude!TypeOK, Claude!Written, Claude!World, Claude!Identity,
       Claude!Revisions, Claude!CallIsOfTheClient, Claude!Unmade
  <2>2. Claude!CallIsOfTheClient'
    BY DEF Claude!TypeOK, Claude!Written, Claude!World, Claude!Identity,
       Claude!Revisions, Claude!CallIsOfTheClient, Claude!Unmade
  <2>3. Claude!OneRuntime' /\ Claude!UsageOfItsCall'
    BY DEF Claude!OneRuntime, Claude!Recorded, Claude!UsageOfItsCall
  <2>4. Claude!SeenSince' /\ Claude!OneStrayPerDrift'
    BY DEF Claude!SeenSince, Claude!OneStrayPerDrift, Claude!Unchanged,
       Claude!SameCommand, Claude!SameSettings, Claude!Usable, Claude!Current,
       Claude!TypeOK, Claude!Written
  <2> QED BY <2>1, <2>2, <2>3, <2>4
<1>9. CASE Claude!Answer
  <2> USE <1>9 DEF Claude!Answer
  <2>1. Claude!TypeOK' /\ Claude!Written'
    BY DEF Claude!TypeOK, Claude!Written, Claude!World, Claude!Identity,
       Claude!Revisions, Claude!CallIsOfTheClient, Claude!Unmade
  <2>2. Claude!CallIsOfTheClient'
    BY DEF Claude!TypeOK, Claude!Written, Claude!World, Claude!Identity,
       Claude!Revisions, Claude!CallIsOfTheClient, Claude!Unmade
  <2>3. Claude!OneRuntime' /\ Claude!UsageOfItsCall'
    BY DEF Claude!OneRuntime, Claude!Recorded, Claude!UsageOfItsCall
  <2>4. Claude!SeenSince' /\ Claude!OneStrayPerDrift'
    BY DEF Claude!SeenSince, Claude!OneStrayPerDrift, Claude!Unchanged,
       Claude!SameCommand, Claude!SameSettings, Claude!Usable, Claude!Current,
       Claude!TypeOK, Claude!Written
  <2> QED BY <2>1, <2>2, <2>3, <2>4
<1>10. CASE Claude!Record
  <2> DEFINE record == [call |-> v5, identity |-> v2.identity, usage |-> v2.usage]
             S == [call : 1 .. MaxCalls, identity : Claude!Identity, usage : 1 .. MaxCalls \cup {None}]
  <2>1. /\ v3 = "answered" /\ v3' = "idle" /\ v6' = Append(v6, record)
        /\ UNCHANGED <<v1, v2, v4, v5, v7, v8, v9>>
    BY <1>10 DEF Claude!Record
  <2>2. record \in S /\ v6 \in Seq(S)
    BY <2>1 DEF Claude!TypeOK, Claude!Written, Claude!CallIsOfTheClient
  <2>3. /\ v6' \in Seq(S) /\ DOMAIN v6 = 1 .. Len(v6) /\ Len(v6) \in Nat
        /\ DOMAIN v6' = 1 .. Len(v6) + 1 /\ v6'[Len(v6) + 1] = record
        /\ \A i \in 1 .. Len(v6) : v6'[i] = v6[i] /\ v6[i] \in S
    <3> HIDE DEF record, S
    <3> QED BY <2>1, <2>2, Appended
  <2>4. Claude!TypeOK' /\ Claude!Written' /\ Claude!CallIsOfTheClient'
    BY <2>1, <2>3 DEF Claude!TypeOK, Claude!Written, Claude!CallIsOfTheClient
  <2>5. v6 # << >> => Len(v6) > 0 /\ v2.identity = v6[1].identity /\ v6'[1] = v6[1]
    BY <2>1, <2>3 DEF Claude!OneRuntime, Claude!Recorded, Claude!CallIsOfTheClient
  <2>6. v6' # << >> /\ \A i \in DOMAIN v6' : v6'[i].identity = v2.identity
    <3>1. ASSUME NEW i \in 1 .. Len(v6)  PROVE v6'[i].identity = v2.identity
      <4>1. v6 # << >> /\ i \in DOMAIN v6
        BY <2>3
      <4>2. v6[i].identity = v6[1].identity
        BY <4>1 DEF Claude!OneRuntime, Claude!Recorded
      <4> QED BY <2>3, <2>5, <4>1, <4>2
    <3>2. v6'[Len(v6) + 1].identity = v2.identity
      BY <2>3
    <3> QED BY <2>3, <3>1, <3>2
  <2>7. Claude!OneRuntime'
    BY <2>1, <2>3, <2>6 DEF Claude!OneRuntime, Claude!Recorded
  <2>8. Claude!UsageOfItsCall' /\ Claude!SeenSince' /\ Claude!OneStrayPerDrift'
    BY <2>1, <2>3 DEF Claude!UsageOfItsCall, Claude!SeenSince, Claude!OneStrayPerDrift,
       Claude!Unchanged, Claude!SameCommand, Claude!SameSettings, Claude!Usable,
       Claude!Current, Claude!CallIsOfTheClient
  <2> QED BY <2>4, <2>7, <2>8
<1>11. CASE Claude!Restart
  <2> USE <1>11 DEF Claude!Restart, Claude!NewClient, Claude!Trusted, Claude!Usable
  <2>1. Claude!TypeOK' /\ Claude!Written'
    BY DEF Claude!TypeOK, Claude!Written, Claude!World, Claude!Identity,
       Claude!Revisions, Claude!CallIsOfTheClient, Claude!Unmade
  <2>2. Claude!CallIsOfTheClient'
    <3>1. /\ v1.cli \in Claude!Revisions \cup {Refused}
          /\ v1.settings \in Claude!Revisions \cup {Refused} /\ v3' = "idle"
      BY DEF Claude!TypeOK, Claude!World
    <3>2. v2' = Claude!Unmade \/ {v2'.cli, v2'.settings} \subseteq Claude!Revisions
      BY <3>1
    <3> QED BY <3>1, <3>2 DEF Claude!CallIsOfTheClient
  <2>3. Claude!OneRuntime' /\ Claude!UsageOfItsCall'
    <3>1. v2'.identity = None /\ v6' = v6
      BY DEF Claude!Unmade
    <3> QED BY <3>1 DEF Claude!OneRuntime, Claude!Recorded, Claude!UsageOfItsCall
  <2>4. Claude!SeenSince' /\ Claude!OneStrayPerDrift'
    BY DEF Claude!SeenSince, Claude!OneStrayPerDrift, Claude!Unchanged,
       Claude!SameCommand, Claude!SameSettings, Claude!Usable, Claude!Current,
       Claude!TypeOK, Claude!Written
  <2> QED BY <2>1, <2>2, <2>3, <2>4
<1> QED BY <1>1, <1>2, <1>3, <1>4, <1>5, <1>6, <1>7, <1>8, <1>9, <1>10, <1>11 DEF
   Claude!Next

-----------------------------------------------------------------------------

(* The Ollama client.                                                       *)

USE DEF Ollama!Inv

(* It holds at the start. *)
LEMMA OllamaStart == Ollama!Init => Ollama!Inv
  BY DEF Ollama!Init, Ollama!TypeOK, Ollama!Written, Ollama!Aliases,
     Ollama!CallIsOfTheRevision, Ollama!OneAlias, Ollama!OneMoveIsSeen,
     Ollama!MovesAreCounted

(* A step that changes nothing of it keeps it. *)
LEMMA OllamaKept == ASSUME Ollama!Inv, UNCHANGED Ollama!vars PROVE Ollama!Inv'
  BY DEF Ollama!vars, Ollama!TypeOK, Ollama!Written, Ollama!Aliases,
     Ollama!CallIsOfTheRevision, Ollama!OneAlias, Ollama!OneMoveIsSeen,
     Ollama!MovesAreCounted

(* ListAfter takes a revision only if both inventories name it; Record      *)
(* writes down the one that is held.                                        *)
LEMMA OllamaStep == ASSUME Ollama!Inv, Ollama!Next PROVE Ollama!Inv'
<1>1. CASE Ollama!Pull
  <2>1. /\ v8 < MaxPulls /\ v8' = v8 + 1 /\ v1' \in Ollama!Aliases /\ v1' # v1
        /\ UNCHANGED <<v2, v3, v4, v5, v6, v9>>
    BY <1>1 DEF Ollama!Pull
  <2>2. /\ v7.moves \in 0 .. MaxPulls /\ v7.by \in Ollama!Aliases /\ v8 \in 0 .. MaxPulls
        /\ v7.moves <= v8
    BY DEF Ollama!TypeOK, Ollama!MovesAreCounted
  <2>3. v7' = [by |-> v7.by, moves |-> v7.moves + 1]
    BY <1>1 DEF Ollama!Pull, Ollama!TypeOK
  <2>4. Ollama!TypeOK' /\ Ollama!Written'
    BY <2>1, <2>2, <2>3 DEF Ollama!TypeOK, Ollama!Written
  <2>5. Ollama!CallIsOfTheRevision' /\ Ollama!OneAlias' /\ Ollama!OneMoveIsSeen'
    BY <2>1, <2>3 DEF Ollama!CallIsOfTheRevision, Ollama!OneAlias, Ollama!OneMoveIsSeen
  <2>6. Ollama!MovesAreCounted'
    BY <2>1, <2>2, <2>3 DEF Ollama!MovesAreCounted
  <2> QED BY <2>4, <2>5, <2>6
<1>2. CASE Ollama!Bind
  <2> USE <1>2 DEF Ollama!Bind
  <2>1. Ollama!TypeOK' /\ Ollama!Written'
    BY DEF Ollama!TypeOK, Ollama!Written, Ollama!Aliases, Ollama!CallIsOfTheRevision,
       Ollama!MovesAreCounted
  <2>2. Ollama!CallIsOfTheRevision'
    BY DEF Ollama!TypeOK, Ollama!Written, Ollama!Aliases, Ollama!CallIsOfTheRevision
  <2>3. Ollama!OneAlias' /\ Ollama!OneMoveIsSeen'
    BY DEF Ollama!OneAlias, Ollama!OneMoveIsSeen, Ollama!CallIsOfTheRevision,
       Ollama!TypeOK, Ollama!Written
  <2>4. Ollama!MovesAreCounted'
    BY DEF Ollama!MovesAreCounted, Ollama!CallIsOfTheRevision, Ollama!TypeOK,
       Ollama!Written, Ollama!Aliases
  <2> QED BY <2>1, <2>2, <2>3, <2>4
<1>3. CASE Ollama!ListBefore
  <2>1. /\ v3 = "idle" /\ v5 < MaxCalls /\ v5' = v5 + 1 /\ v7' = [by |-> None, moves |-> 0]
        /\ UNCHANGED <<v1, v2, v6, v8, v9>>
    BY <1>3 DEF Ollama!ListBefore
  <2>2. \/ v1 # None /\ v2 \in {None, v1} /\ v3' = "listed" /\ v4' = v1
        \/ v3' = "idle" /\ v4' = v4
    BY <1>3 DEF Ollama!ListBefore, Ollama!Raise
  <2>3. Ollama!TypeOK' /\ Ollama!Written'
    BY <2>1, <2>2 DEF Ollama!TypeOK, Ollama!Written, Ollama!Aliases
  <2>4. Ollama!CallIsOfTheRevision' /\ Ollama!OneAlias' /\ Ollama!OneMoveIsSeen'
    BY <2>1, <2>2 DEF Ollama!CallIsOfTheRevision, Ollama!OneAlias,
       Ollama!OneMoveIsSeen, Ollama!TypeOK
  <2>5. Ollama!MovesAreCounted'
    BY <2>1, <2>2 DEF Ollama!MovesAreCounted, Ollama!TypeOK
  <2> QED BY <2>3, <2>4, <2>5
<1>4. CASE Ollama!Generate
  <2>1. /\ v3 = "listed" /\ UNCHANGED <<v1, v2, v4, v5, v6, v8, v9>>
        /\ v7.moves \in 0 .. MaxPulls /\ v7.moves <= v8 /\ v8 \in 0 .. MaxPulls
    BY <1>4 DEF Ollama!Generate, Ollama!MovesAreCounted, Ollama!TypeOK
  <2>2. \/ v1 # None /\ v3' = "generated" /\ v7' = [by |-> v1, moves |-> v7.moves]
        \/ v3' = "idle" /\ v7' = v7
    BY <1>4 DEF Ollama!Generate, Ollama!Raise, Ollama!TypeOK
  <2>3. Ollama!TypeOK' /\ Ollama!Written'
    BY <2>1, <2>2 DEF Ollama!TypeOK, Ollama!Written
  <2>4. Ollama!CallIsOfTheRevision' /\ Ollama!OneAlias' /\ Ollama!OneMoveIsSeen'
    BY <2>1, <2>2 DEF Ollama!CallIsOfTheRevision, Ollama!OneAlias, Ollama!OneMoveIsSeen
  <2>5. Ollama!MovesAreCounted'
    BY <2>1, <2>2 DEF Ollama!MovesAreCounted
  <2> QED BY <2>3, <2>4, <2>5
<1>5. CASE Ollama!ListAfter
  <2>1. /\ v3 = "generated" /\ UNCHANGED <<v1, v4, v5, v6, v7, v8, v9>>
        /\ v7.moves \in 0 .. MaxPulls
    BY <1>5 DEF Ollama!ListAfter, Ollama!TypeOK
  <2>2. \/ v1 = v4 /\ v3' = "relisted" /\ v2' = v4
        \/ v3' = "idle" /\ v2' = v2
    BY <1>5 DEF Ollama!ListAfter, Ollama!Raise
  <2>3. Ollama!TypeOK' /\ Ollama!Written'
    BY <2>1, <2>2 DEF Ollama!TypeOK, Ollama!Written
  <2>4. v6 # << >> => v6[1].revision # None
    BY DEF Ollama!Written, Ollama!TypeOK
  <2>5. Ollama!CallIsOfTheRevision' /\ Ollama!OneAlias' /\ Ollama!OneMoveIsSeen'
    BY <2>1, <2>2, <2>4 DEF Ollama!CallIsOfTheRevision, Ollama!OneAlias,
       Ollama!OneMoveIsSeen
  <2>6. Ollama!MovesAreCounted'
    BY <2>1, <2>2 DEF Ollama!MovesAreCounted
  <2> QED BY <2>3, <2>5, <2>6
<1>6. CASE Ollama!Examine
  <2> USE <1>6 DEF Ollama!Examine
  <2>1. Ollama!TypeOK' /\ Ollama!Written'
    BY DEF Ollama!TypeOK, Ollama!Written, Ollama!Aliases, Ollama!CallIsOfTheRevision,
       Ollama!MovesAreCounted
  <2>2. Ollama!CallIsOfTheRevision'
    BY DEF Ollama!TypeOK, Ollama!Written, Ollama!Aliases, Ollama!CallIsOfTheRevision
  <2>3. Ollama!OneAlias' /\ Ollama!OneMoveIsSeen'
    BY DEF Ollama!OneAlias, Ollama!OneMoveIsSeen, Ollama!CallIsOfTheRevision,
       Ollama!TypeOK, Ollama!Written
  <2>4. Ollama!MovesAreCounted'
    BY DEF Ollama!MovesAreCounted, Ollama!CallIsOfTheRevision, Ollama!TypeOK,
       Ollama!Written, Ollama!Aliases
  <2> QED BY <2>1, <2>2, <2>3, <2>4
<1>7. CASE Ollama!Record
  <2> DEFINE record == [call |-> v5, revision |-> v2, by |-> v7.by, moves |-> v7.moves]
             S == [call : 1 .. MaxCalls, revision : LocalModels,
                   by : LocalModels, moves : 0 .. MaxPulls]
  <2>1. /\ v3 = "answered" /\ v3' = "idle" /\ v6' = Append(v6, record)
        /\ UNCHANGED <<v1, v2, v4, v5, v7, v8, v9>>
    BY <1>7 DEF Ollama!Record
  <2>2. record \in S /\ v6 \in Seq(S)
    BY <2>1 DEF Ollama!TypeOK, Ollama!Written, Ollama!Aliases,
       Ollama!CallIsOfTheRevision
  <2>3. /\ v6' \in Seq(S) /\ DOMAIN v6 = 1 .. Len(v6) /\ Len(v6) \in Nat
        /\ DOMAIN v6' = 1 .. Len(v6) + 1 /\ v6'[Len(v6) + 1] = record
        /\ \A i \in 1 .. Len(v6) : v6'[i] = v6[i] /\ v6[i] \in S
    <3> HIDE DEF record, S
    <3> QED BY <2>1, <2>2, Appended
  <2>4. Ollama!TypeOK' /\ Ollama!Written' /\ Ollama!CallIsOfTheRevision'
    BY <2>1, <2>3 DEF Ollama!TypeOK, Ollama!Written, Ollama!Aliases,
       Ollama!CallIsOfTheRevision
  <2>5. v6 # << >> => Len(v6) > 0 /\ v2 = v6[1].revision /\ v6'[1] = v6[1]
    BY <2>1, <2>3 DEF Ollama!OneAlias
  <2>6. v6' # << >> /\ \A i \in DOMAIN v6' : v6'[i].revision = v2
    <3>1. ASSUME NEW i \in 1 .. Len(v6)  PROVE v6'[i].revision = v2
      <4>1. v6 # << >> /\ i \in DOMAIN v6
        BY <2>3
      <4>2. v6[i].revision = v6[1].revision
        BY <4>1 DEF Ollama!OneAlias
      <4> QED BY <2>3, <2>5, <4>1, <4>2
    <3>2. v6'[Len(v6) + 1].revision = v2
      BY <2>3
    <3>3. v6' # << >>
      BY <2>3
    <3> HIDE DEF record
    <3> QED BY <2>3, <3>1, <3>2, <3>3
  <2>7. Ollama!OneAlias' /\ Ollama!MovesAreCounted'
    BY <2>1, <2>3, <2>6 DEF Ollama!OneAlias, Ollama!MovesAreCounted
  <2>8. Ollama!OneMoveIsSeen'
    BY <2>1, <2>3 DEF Ollama!OneMoveIsSeen, Ollama!MovesAreCounted
  <2> QED BY <2>4, <2>7, <2>8
<1>8. CASE Ollama!Restart
  <2> USE <1>8 DEF Ollama!Restart
  <2>1. Ollama!TypeOK' /\ Ollama!Written'
    BY DEF Ollama!TypeOK, Ollama!Written, Ollama!Aliases, Ollama!CallIsOfTheRevision,
       Ollama!MovesAreCounted
  <2>2. Ollama!CallIsOfTheRevision'
    BY DEF Ollama!TypeOK, Ollama!Written, Ollama!Aliases, Ollama!CallIsOfTheRevision
  <2>3. Ollama!OneAlias' /\ Ollama!OneMoveIsSeen'
    BY DEF Ollama!OneAlias, Ollama!OneMoveIsSeen, Ollama!CallIsOfTheRevision,
       Ollama!TypeOK, Ollama!Written
  <2>4. Ollama!MovesAreCounted'
    BY DEF Ollama!MovesAreCounted, Ollama!CallIsOfTheRevision, Ollama!TypeOK,
       Ollama!Written, Ollama!Aliases
  <2> QED BY <2>1, <2>2, <2>3, <2>4
<1> QED BY <1>1, <1>2, <1>3, <1>4, <1>5, <1>6, <1>7, <1>8 DEF Ollama!Next

-----------------------------------------------------------------------------

(* The command that is fed and read by one thread, dutiful or not.          *)

USE DEF Command!Inv, Command!Streams, Command!Running, Command!Killed

(* It holds at the start. *)
LEMMA CommandStart == ASSUME NEW d \in BOOLEAN, Command(d)!Init PROVE Command(d)!Inv
<1>1. PICK o \in Command(d)!Orders :
        v7 = [read |-> 0, wrote |-> [s \in Command(d)!Streams |-> 0],
              taken |-> [s \in Command(d)!Streams |-> 0],
              open |-> Command(d)!Streams, order |-> o, exit |-> Command(d)!Running]
  BY DEF Command!Init
<1>2. Command(d)!TypeOK
  BY <1>1 DEF Command!Init, Command!TypeOK
<1> QED BY <1>1, <1>2 DEF Command!Init, Command!NothingIsLost, Command!InPipe,
   Command!NothingRunsOn, Command!Alive

(* A step that changes nothing of it keeps it. *)
LEMMA CommandKept ==
  ASSUME NEW d \in BOOLEAN, Command(d)!Inv, UNCHANGED Command(d)!vars  PROVE Command(d)!Inv'
  BY DEF Command!vars, Command!TypeOK, Command!NothingIsLost, Command!InPipe,
     Command!NothingRunsOn, Command!Alive

(* ReadChunk keeps what it takes or passes the limit and kills; a stream    *)
(* that is no longer read cannot be written to.                             *)
LEMMA CommandStep ==
  ASSUME NEW d \in BOOLEAN, Command(d)!Inv, Command(d)!Next  PROVE Command(d)!Inv'
<1> USE DEF Command!TypeOK, Command!NothingIsLost, Command!InPipe,
   Command!NothingRunsOn, Command!Alive
<1>1. CASE Command(d)!KidReads
  BY <1>1 DEF Command!KidReads
<1>2. ASSUME NEW s \in Command(d)!Streams, Command(d)!KidWrites(s)  PROVE Command(d)!Inv'
  BY <1>2 DEF Command!KidWrites
<1>3. ASSUME NEW s \in Command(d)!Streams, Command(d)!KidCloses(s)  PROVE Command(d)!Inv'
  BY <1>3 DEF Command!KidCloses
<1>4. CASE Command(d)!KidExits
  <2>1. PICK c \in {"zero", "nonzero"} : v7' = [v7 EXCEPT !.exit = c, !.open = {}]
    BY <1>4 DEF Command!KidExits
  <2>2. UNCHANGED <<v1, v2, v3, v4, v5, v6, v8>>
    BY <1>4 DEF Command!KidExits
  <2>3. /\ v7'.wrote = v7.wrote /\ v7'.taken = v7.taken
        /\ v7'.open = {} /\ v7'.exit = c
    BY <2>1
  <2>4. Command(d)!TypeOK'
    BY <2>1, <2>2
  <2> QED BY <2>2, <2>3, <2>4
<1>5. CASE Command(d)!Feed
  <2>1. /\ v3' = v3 \/ (v3' = v3 + 1 /\ v3 < Work)
        /\ v2' \in BOOLEAN
        /\ UNCHANGED <<v1, v4, v5, v6, v7, v8>>
    BY <1>5 DEF Command!Feed
  <2> QED BY <2>1
<1>6. CASE Command(d)!Return
  BY <1>6 DEF Command!Return, Command!Kill, Command!Finished
<1>7. ASSUME NEW s \in Command(d)!Streams, Command(d)!ReadChunk(s)  PROVE Command(d)!Inv'
  <2> DEFINE limit == IF d THEN Work ELSE Work - 1
  <2>1. PICK n \in 1 .. v7.wrote[s] - v7.taken[s] :
          \/ /\ ~(v5[s] + n > limit) /\ v5' = [v5 EXCEPT ![s] = @ + n]
             /\ v7' = [v7 EXCEPT !.taken[s] = @ + n] /\ UNCHANGED <<v4, v6>>
          \/ /\ v5[s] + n > limit /\ v5' = [v5 EXCEPT ![s] = limit]
             /\ v6' = v6 \cup {s} /\ v4' = v4 \ {s}
             /\ v7' = Command(d)!Kill([v7 EXCEPT !.taken[s] = @ + n])
    <3> HIDE DEF Command!Inv, Command!TypeOK, Command!NothingIsLost,
       Command!NothingRunsOn
    <3> QED BY <1>7 DEF Command!ReadChunk
  <2>2. /\ v1 = "loop" /\ s \in v4 /\ UNCHANGED <<v1, v2, v3, v8>>
        /\ limit \in Nat /\ v5[s] \in 0 .. limit
        /\ v7.wrote[s] \in 0 .. Work /\ v7.taken[s] \in 0 .. Work /\ n \in Nat \ {0}
    BY <1>7, <2>1 DEF Command!ReadChunk, Command!Looping
  <2>3. CASE ~(v5[s] + n > limit)
    <3>1. Command(d)!TypeOK'
      BY <2>1, <2>2, <2>3
    <3>2. Command(d)!NothingIsLost' /\ Command(d)!NothingRunsOn'
      BY <2>1, <2>2, <2>3
    <3> QED BY <3>1, <3>2
  <2>4. CASE v5[s] + n > limit
    <3>1. /\ v7'.taken = [v7.taken EXCEPT ![s] = @ + n] /\ v7'.wrote = v7.wrote
          /\ v7' \in [read : 0 .. Work, wrote : [Command(d)!Streams -> 0 .. Work],
                     taken : [Command(d)!Streams -> 0 .. Work],
                     open : SUBSET Command(d)!Streams, order : Command(d)!Orders,
                     exit : {"running", "killed", "zero", "nonzero"}]
      <4> DEFINE taking == [v7 EXCEPT !.taken[s] = @ + n]
      <4>1. /\ taking.taken = [v7.taken EXCEPT ![s] = @ + n] /\ taking.wrote = v7.wrote
            /\ taking \in [read : 0 .. Work, wrote : [Command(d)!Streams -> 0 .. Work],
                          taken : [Command(d)!Streams -> 0 .. Work],
                          open : SUBSET Command(d)!Streams, order : Command(d)!Orders,
                          exit : {"running", "killed", "zero", "nonzero"}]
        BY <2>1, <2>2
      <4>2. v7' = Command(d)!Kill(taking)
        BY <2>1, <2>2, <2>4
      <4> HIDE DEF taking
      <4> QED BY <4>1, <4>2 DEF Command!Kill
    <3>2. Command(d)!TypeOK'
      BY <2>1, <2>2, <2>4, <3>1
    <3>3. Command(d)!NothingIsLost' /\ Command(d)!NothingRunsOn'
      BY <2>1, <2>2, <2>4, <3>1
    <3> QED BY <3>2, <3>3
  <2> QED BY <2>2, <2>3, <2>4
<1>8. ASSUME NEW s \in Command(d)!Streams, Command(d)!ReadEnd(s)  PROVE Command(d)!Inv'
  BY <1>8 DEF Command!ReadEnd, Command!Looping
<1>9. CASE Command(d)!TimeOut
  BY <1>9 DEF Command!TimeOut, Command!Looping, Command!Kill
<1> HIDE DEF Command!Inv
<1> QED BY <1>1, <1>2, <1>3, <1>4, <1>5, <1>6, <1>7, <1>8, <1>9
        DEF Command!Next, Command!Kid, Command!Loop

(* No stream is read any more, so each is empty and all of it was kept.     *)
LEMMA CommandAnswer ==
  ASSUME NEW d \in BOOLEAN, Command(d)!Inv  PROVE Command(d)!AnswerIsWhole
  BY DEF Command!AnswerIsWhole, Command!TypeOK, Command!NothingIsLost, Command!InPipe

-----------------------------------------------------------------------------

(* The process group.                                                       *)

USE GroupAssumption DEF Group!ProcessAssumption, Group!Inv

(* It holds at the start. *)
LEMMA GroupStart == Group!Init => Group!Inv
<1> SUFFICES ASSUME Group!Init PROVE Group!Inv
  OBVIOUS
<1>1. /\ v2 \in [Group!Group -> {"unborn", "alive", "exited", "killed"}]
      /\ v3 \in [Group!Group -> SUBSET Channels]
  BY DEF Group!Init, Group!Group
<1>2. /\ v5 \in [Channels -> 0 .. Volume] /\ v6 \in [Channels -> 0 .. Volume]
      /\ v7 \in [Channels -> 0 .. Limit]
  BY DEF Group!Init
<1>3. v1 \in {"core", "claude", "container"} /\ v8 \subseteq Channels
  BY DEF Group!Init
<1>4. v4 \in BOOLEAN /\ v9 \in BOOLEAN /\ v10 = "no" /\ v11 = "loop"
  BY DEF Group!Init
<1>5. Group!TypeOK
  BY <1>1, <1>2, <1>3, <1>4 DEF Group!TypeOK, Group!Ended
<1> QED BY <1>5 DEF Group!Init, Group!TypeOK, Group!Group, Group!Ended,
   Group!NothingIsLost, Group!AtEnd, Group!Alive, Group!LeftOnce,
   Group!CutOffEndsTheGroup, Group!LeaderIsGone

(* A step that changes nothing of it keeps it. *)
LEMMA GroupKept == ASSUME Group!Inv, UNCHANGED Group!vars  PROVE Group!Inv'
  BY DEF Group!vars, Group!TypeOK, Group!Group, Group!Ended, Group!NothingIsLost,
     Group!AtEnd, Group!Alive, Group!LeftOnce, Group!CutOffEndsTheGroup,
     Group!LeaderIsGone

(* Only a living process that holds a stream can write to it or hand it on, *)
(* so an unwatched stream stays at its end.                                 *)
LEMMA GroupStep == ASSUME Group!Inv, Group!Next  PROVE Group!Inv'
<1>1. ASSUME NEW c \in Children, Group!Spawn(c)  PROVE Group!Inv'
  <2> USE <1>1 DEF Group!Spawn, Group!processes, Group!pipes
  <2>1. Group!TypeOK'
    BY DEF Group!TypeOK, Group!Group, Group!Ended, Group!Alive
  <2>2. Group!NothingIsLost'
    BY DEF Group!TypeOK, Group!Group, Group!Ended, Group!NothingIsLost, Group!AtEnd,
       Group!Alive
  <2>3. Group!LeftOnce' /\ Group!CutOffEndsTheGroup' /\ Group!LeaderIsGone'
    BY DEF Group!TypeOK, Group!Group, Group!Ended, Group!LeftOnce,
       Group!CutOffEndsTheGroup, Group!LeaderIsGone, Group!Alive
  <2> QED BY <2>1, <2>2, <2>3
<1>2. ASSUME NEW p \in Group!Group, Group!Exit(p)  PROVE Group!Inv'
  <2> USE <1>2 DEF Group!Exit, Group!processes, Group!pipes
  <2>1. Group!TypeOK'
    BY DEF Group!TypeOK, Group!Group, Group!Ended, Group!Alive
  <2>2. Group!NothingIsLost'
    BY DEF Group!TypeOK, Group!Group, Group!Ended, Group!NothingIsLost, Group!AtEnd,
       Group!Alive
  <2>3. Group!LeftOnce' /\ Group!CutOffEndsTheGroup' /\ Group!LeaderIsGone'
    BY DEF Group!TypeOK, Group!Group, Group!Ended, Group!LeftOnce,
       Group!CutOffEndsTheGroup, Group!LeaderIsGone, Group!Alive
  <2> QED BY <2>1, <2>2, <2>3
<1>3. ASSUME NEW p \in Group!Group, NEW s \in Channels, Group!Write(p, s)  PROVE Group!Inv'
  <2>1. /\ p \in Group!Alive /\ s \in v3[p] /\ v5[s] < Volume
        /\ v5' = [v5 EXCEPT ![s] = @ + 1] /\ v6' = [v6 EXCEPT ![s] = @ + 1]
        /\ UNCHANGED <<v1, v2, v3, v4, v7, v8, v9, v10, v11>>
    BY <1>3 DEF Group!Write, Group!processes
  <2>2. /\ v5[s] \in Nat /\ v6[s] \in Nat /\ v6[s] <= v5[s]
        /\ v5 \in [Channels -> 0 .. Volume] /\ v6 \in [Channels -> 0 .. Volume]
        /\ v7 \in [Channels -> 0 .. Limit]
    BY DEF Group!TypeOK, Group!NothingIsLost
  <2>3. Group!TypeOK'
    BY <2>1, <2>2 DEF Group!TypeOK
  <2>4. Group!NothingIsLost'
    <3>1. s \in v8
      BY <2>1 DEF Group!NothingIsLost, Group!AtEnd, Group!Alive, Group!Group
    <3>2. \A r \in Channels : v6'[r] <= v5'[r] /\ (r \notin v8' => Group!AtEnd(r)')
      BY <2>1, <2>2, <3>1 DEF Group!NothingIsLost, Group!AtEnd, Group!Alive
    <3>3. v10 = "no" => \A r \in Channels : v7'[r] + v6'[r] = v5'[r]
      BY <2>1, <2>2 DEF Group!NothingIsLost
    <3> QED BY <2>1, <3>2, <3>3 DEF Group!NothingIsLost, Group!AtEnd, Group!Alive
  <2>5. Group!LeftOnce' /\ Group!CutOffEndsTheGroup' /\ Group!LeaderIsGone'
    BY <2>1 DEF Group!LeftOnce, Group!CutOffEndsTheGroup, Group!LeaderIsGone,
       Group!Ended, Group!Alive
  <2> QED BY <2>3, <2>4, <2>5
<1>4. ASSUME NEW p \in Group!Group, NEW s \in Channels, Group!CloseStream(p, s)  PROVE Group!Inv'
  <2> USE <1>4 DEF Group!CloseStream, Group!processes, Group!pipes
  <2>1. Group!TypeOK'
    BY DEF Group!TypeOK, Group!Group, Group!Ended, Group!Alive
  <2>2. Group!NothingIsLost'
    BY DEF Group!TypeOK, Group!Group, Group!Ended, Group!NothingIsLost, Group!AtEnd,
       Group!Alive
  <2>3. Group!LeftOnce' /\ Group!CutOffEndsTheGroup' /\ Group!LeaderIsGone'
    BY DEF Group!TypeOK, Group!Group, Group!Ended, Group!LeftOnce,
       Group!CutOffEndsTheGroup, Group!LeaderIsGone, Group!Alive
  <2> QED BY <2>1, <2>2, <2>3
<1>5. CASE Group!Deadline
  <2> USE <1>5 DEF Group!Deadline, Group!processes, Group!pipes
  <2>1. Group!TypeOK'
    BY DEF Group!TypeOK, Group!Group, Group!Ended, Group!Alive
  <2>2. Group!NothingIsLost'
    BY DEF Group!TypeOK, Group!Group, Group!Ended, Group!NothingIsLost, Group!AtEnd,
       Group!Alive
  <2>3. Group!LeftOnce' /\ Group!CutOffEndsTheGroup' /\ Group!LeaderIsGone'
    BY DEF Group!TypeOK, Group!Group, Group!Ended, Group!LeftOnce,
       Group!CutOffEndsTheGroup, Group!LeaderIsGone, Group!Alive
  <2> QED BY <2>1, <2>2, <2>3
<1>6. ASSUME NEW s \in Channels, Group!ReadEnd(s)  PROVE Group!Inv'
  <2> USE <1>6 DEF Group!ReadEnd, Group!processes, Group!pipes
  <2>1. Group!TypeOK'
    BY DEF Group!TypeOK, Group!Group, Group!Ended, Group!Alive
  <2>2. Group!NothingIsLost'
    BY DEF Group!TypeOK, Group!Group, Group!Ended, Group!NothingIsLost, Group!AtEnd,
       Group!Alive
  <2>3. Group!LeftOnce' /\ Group!CutOffEndsTheGroup' /\ Group!LeaderIsGone'
    BY DEF Group!TypeOK, Group!Group, Group!Ended, Group!LeftOnce,
       Group!CutOffEndsTheGroup, Group!LeaderIsGone, Group!Alive
  <2> QED BY <2>1, <2>2, <2>3
<1>7. ASSUME NEW s \in Channels, Group!ReadChunk(s)  PROVE Group!Inv'
  <2> USE <1>7 DEF Group!ReadChunk, Group!Retained, Group!Kill, Group!KillGroup,
     Group!processes, Group!pipes
  <2>0. /\ v7[s] \in 0 .. Limit /\ v6[s] \in Nat /\ Group!Retained(s) \in 0 .. Limit
        /\ v7' = [v7 EXCEPT ![s] = Group!Retained(s)] /\ v6' = [v6 EXCEPT ![s] = 0]
    BY DEF Group!TypeOK
  <2>1. Group!TypeOK'
    <3> HIDE DEF Group!Retained
    <3>1. /\ v2' \in [Group!Group -> {"unborn", "alive", "exited", "killed"}]
          /\ v3' \in [Group!Group -> SUBSET Channels] /\ v4' \in BOOLEAN
      BY DEF Group!TypeOK, Group!Group
    <3>2. /\ v10' \in {"no", "timed_out", "exceeded"} /\ v11' \in {"loop", "wait"}
          /\ UNCHANGED <<v1, v5, v8, v9>>
      BY DEF Group!TypeOK
    <3> QED BY <2>0, <3>1, <3>2 DEF Group!TypeOK, Group!Group, Group!Ended, Group!Alive
  <2>2. Group!NothingIsLost'
    BY DEF Group!TypeOK, Group!Group, Group!Ended, Group!NothingIsLost, Group!AtEnd,
       Group!Alive
  <2>3. Group!LeftOnce' /\ Group!CutOffEndsTheGroup' /\ Group!LeaderIsGone'
    BY DEF Group!TypeOK, Group!Group, Group!Ended, Group!LeftOnce,
       Group!CutOffEndsTheGroup, Group!LeaderIsGone, Group!Alive
  <2> QED BY <2>1, <2>2, <2>3
<1>8. CASE Group!TimeOut
  <2> USE <1>8 DEF Group!TimeOut, Group!Kill, Group!KillGroup, Group!processes,
     Group!pipes
  <2>1. Group!TypeOK'
    BY DEF Group!TypeOK, Group!Group, Group!Ended, Group!Alive
  <2>2. Group!NothingIsLost'
    BY DEF Group!TypeOK, Group!Group, Group!Ended, Group!NothingIsLost, Group!AtEnd,
       Group!Alive
  <2>3. Group!LeftOnce' /\ Group!CutOffEndsTheGroup' /\ Group!LeaderIsGone'
    BY DEF Group!TypeOK, Group!Group, Group!Ended, Group!LeftOnce,
       Group!CutOffEndsTheGroup, Group!LeaderIsGone, Group!Alive
  <2> QED BY <2>1, <2>2, <2>3
<1>9. CASE Group!LoopEnds
  <2> USE <1>9 DEF Group!LoopEnds, Group!processes, Group!pipes
  <2>1. Group!TypeOK'
    BY DEF Group!TypeOK, Group!Group, Group!Ended, Group!Alive
  <2>2. Group!NothingIsLost'
    BY DEF Group!TypeOK, Group!Group, Group!Ended, Group!NothingIsLost, Group!AtEnd,
       Group!Alive
  <2>3. Group!LeftOnce' /\ Group!CutOffEndsTheGroup' /\ Group!LeaderIsGone'
    BY DEF Group!TypeOK, Group!Group, Group!Ended, Group!LeftOnce,
       Group!CutOffEndsTheGroup, Group!LeaderIsGone, Group!Alive
  <2> QED BY <2>1, <2>2, <2>3
<1>10. CASE Group!Reap
  <2> USE <1>10 DEF Group!Reap, Group!processes, Group!pipes
  <2>1. Group!TypeOK'
    BY DEF Group!TypeOK, Group!Group, Group!Ended, Group!Alive
  <2>2. Group!NothingIsLost'
    BY DEF Group!TypeOK, Group!Group, Group!Ended, Group!NothingIsLost, Group!AtEnd,
       Group!Alive
  <2>3. Group!LeftOnce' /\ Group!CutOffEndsTheGroup' /\ Group!LeaderIsGone'
    BY DEF Group!TypeOK, Group!Group, Group!Ended, Group!LeftOnce,
       Group!CutOffEndsTheGroup, Group!LeaderIsGone, Group!Alive
  <2> QED BY <2>1, <2>2, <2>3
<1>11. CASE Group!WaitExpires
  <2> USE <1>11 DEF Group!WaitExpires, Group!KillGroup, Group!processes, Group!pipes
  <2>1. Group!TypeOK'
    BY DEF Group!TypeOK, Group!Group, Group!Ended, Group!Alive
  <2>2. Group!NothingIsLost'
    BY DEF Group!TypeOK, Group!Group, Group!Ended, Group!NothingIsLost, Group!AtEnd,
       Group!Alive
  <2>3. Group!LeftOnce' /\ Group!CutOffEndsTheGroup' /\ Group!LeaderIsGone'
    BY DEF Group!TypeOK, Group!Group, Group!Ended, Group!LeftOnce,
       Group!CutOffEndsTheGroup, Group!LeaderIsGone, Group!Alive
  <2> QED BY <2>1, <2>2, <2>3
<1>12. CASE Group!Finished
  BY <1>12, GroupKept DEF Group!Finished
<1> HIDE DEF Group!Inv
<1> QED BY <1>1, <1>2, <1>3, <1>4, <1>5, <1>6, <1>7, <1>8, <1>9, <1>10, <1>11, <1>12
        DEF Group!Next, Group!Outside, Group!Run

(* The loop ended with no stream watched: every byte sent was kept.         *)
LEMMA GroupAnswer == Group!Inv => Group!CompleteOutput
  BY DEF Group!CompleteOutput, Group!TypeOK, Group!NothingIsLost, Group!AtEnd,
     Group!LeftOnce, Group!Ended

-----------------------------------------------------------------------------
(* The run of MCModelCalls: whichever part acts keeps its own invariant.    *)

HIDE DEF Claude!Inv, Ollama!Inv, Command!Inv, Command!Streams, Command!Running,
         Command!Killed, Group!ProcessAssumption, Group!Inv

(* The part that acts is in a state of its own invariant. *)
PartsInv ==
  /\ part = "claude" => Claude!Inv
  /\ part = "ollama" => Ollama!Inv
  /\ part = "cli" => Command(FALSE)!Inv
  /\ part = "duty" => Command(TRUE)!Inv
  /\ part = "group" => Group!Inv

(* Whichever part is chosen starts in its invariant. *)
LEMMA PartsStart == Init => PartsInv
  BY ClaudeStart, OllamaStart, CommandStart, GroupStart DEF Init, PartsInv

(* A part's action keeps its invariant and leaves the others' out of play.  *)
LEMMA PartsStep == ASSUME PartsInv, [Next]_all  PROVE PartsInv'
<1>1. CASE ClaudeActs
  BY <1>1, ClaudeStep DEF ClaudeActs, PartsInv
<1>2. CASE OllamaActs
  BY <1>2, OllamaStep DEF OllamaActs, PartsInv
<1>3. CASE CliActs
  BY <1>3, CommandStep DEF CliActs, PartsInv, Rest9
<1>4. CASE DutyKid \/ DutyLoop
  BY <1>4, CommandStep DEF DutyKid, DutyLoop, PartsInv, Rest9, Command!Next
<1>5. CASE GroupActs \/ GroupDeadline \/ GroupRun
  BY <1>5, GroupStep DEF GroupActs, GroupDeadline, GroupRun, PartsInv, Group!Next
<1>6. CASE WireActs \/ ReviewActs \/ ReviewRuns \/ ReviewFails
  BY <1>6 DEF WireActs, ReviewActs, ReviewRuns, ReviewFails, PartsInv, Rest7, Rest9
<1>7. CASE UNCHANGED all
  <2>1. UNCHANGED Claude!vars /\ UNCHANGED Ollama!vars /\ UNCHANGED Group!vars
    BY <1>7 DEF all, Claude!vars, Ollama!vars, Group!vars
  <2>2. UNCHANGED Command(FALSE)!vars /\ UNCHANGED Command(TRUE)!vars /\ UNCHANGED part
    BY <1>7 DEF all, Command!vars
  <2> QED BY <2>1, <2>2, ClaudeKept, OllamaKept, CommandKept, GroupKept DEF PartsInv
<1> QED BY <1>1, <1>2, <1>3, <1>4, <1>5, <1>6, <1>7 DEF Next

(* The invariants of the two clients, the command loop and the process      *)
(* group hold throughout the run of MCModelCalls.                           *)
THEOREM PartsInvariance == Spec => []PartsInv
  BY PartsStart, PartsStep, PTL DEF Spec

(* Output returned as complete is all that was written, by whichever process *)
(* of the group, and a call that ends leaves nothing running but what        *)
(* BoundedProcess names. (_run_bounded_command, _run_bounded_process)        *)
THEOREM CompleteAnswers == Spec => []AnswersAreWhole
<1>1. PartsInv => AnswersAreWhole
  BY CommandAnswer, GroupAnswer DEF PartsInv, AnswersAreWhole, Command!Inv, Group!Inv
<1> QED BY <1>1, PartsInvariance, PTL

(* All records of a run name one runtime, with their own calls' usage, and a *)
(* change outside is met by at most one prompt or shows between the two      *)
(* inventories. (bind_recorded_runtime_identity; parse, of both clients)     *)
THEOREM RunHasOneModel == Spec => []OneModelPerRun
<1>1. ASSUME Claude!Inv PROVE Claude!OneIdentity
  BY <1>1 DEF Claude!Inv, Claude!OneRuntime, Claude!OneIdentity
<1>2. ASSUME Ollama!Inv PROVE Ollama!OneRevision
  BY <1>2 DEF Ollama!Inv, Ollama!OneAlias, Ollama!OneRevision
<1>3. PartsInv => OneModelPerRun
  BY <1>1, <1>2 DEF PartsInv, OneModelPerRun, Claude!Inv, Ollama!Inv
<1> QED BY <1>3, PartsInvariance, PTL

(* Once a call was recorded, no prompt goes out under another runtime than   *)
(* the recorded one. (bind_runtime_identity, bind_model_revision, parse)     *)
THEOREM PromptsFollowTheRecord == Spec => SentUnderTheRecord
<1>1. ASSUME Claude!Inv, Claude!Next PROVE Claude!SentUnderTheRecord
  BY <1>1 DEF Claude!Inv, Claude!Next, Claude!SentUnderTheRecord, Claude!OneRuntime,
     Claude!CallIsOfTheClient, Claude!Drift, Claude!Verify, Claude!ProbeVersion,
     Claude!ProbeFails, Claude!Raise, Claude!Prove, Claude!Recheck, Claude!Send,
     Claude!NoAnswer, Claude!Answer, Claude!Record, Claude!Restart
<1>2. ASSUME Ollama!Inv, Ollama!Next PROVE Ollama!GeneratedUnderTheRecord
  <2>1. v3' = "generated" /\ v3 # "generated" => v3 = "listed"
    BY <1>2 DEF Ollama!Next, Ollama!Pull, Ollama!Bind, Ollama!ListBefore,
       Ollama!Generate,
       Ollama!Raise, Ollama!ListAfter, Ollama!Examine, Ollama!Record, Ollama!Restart
  <2>2. v6 # << >> => v6[1].revision # None
    BY <1>2 DEF Ollama!Inv, Ollama!Written, Ollama!TypeOK
  <2>3. v3 = "listed" /\ v6 # << >> => v4 = v6[1].revision
    BY <1>2, <2>2 DEF Ollama!Inv, Ollama!OneAlias, Ollama!CallIsOfTheRevision
  <2> QED BY <2>1, <2>3 DEF Ollama!GeneratedUnderTheRecord
<1>3. PartsInv /\ [Next]_all =>
        [/\ part = "claude" => Claude!SentUnderTheRecord
         /\ part = "ollama" => Ollama!GeneratedUnderTheRecord]_all
  <2> SUFFICES ASSUME PartsInv, Next
               PROVE  /\ part = "claude" => Claude!SentUnderTheRecord
                      /\ part = "ollama" => Ollama!GeneratedUnderTheRecord
    OBVIOUS
  <2>1. CASE part = "claude"
    BY <2>1, <1>1 DEF PartsInv, Next, ClaudeActs, OllamaActs, CliActs, DutyKid,
       DutyLoop,
       GroupActs, GroupDeadline, GroupRun, WireActs, ReviewActs, ReviewRuns, ReviewFails
  <2>2. CASE part = "ollama"
    BY <2>2, <1>2 DEF PartsInv, Next, ClaudeActs, OllamaActs, CliActs, DutyKid,
       DutyLoop,
       GroupActs, GroupDeadline, GroupRun, WireActs, ReviewActs, ReviewRuns, ReviewFails
  <2> QED BY <2>1, <2>2
<1> QED BY <1>3, PartsInvariance, PTL DEF Spec, SentUnderTheRecord
================================================================================
