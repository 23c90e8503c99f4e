--------------------------- MODULE InferenceProofs ---------------------------
(***************************************************************************)
(* The Engine's client and the Inference service, for any callers, any     *)
(* configurations, thresholds and any number of reloads and crashes.       *)
(***************************************************************************)
EXTENDS InferenceSystem, FiniteSetTheorems, TLAPS

\* From which load the fields are while Reload holds the lock, and that they are
\* from one load when it does not; a process that is down serves nobody.
ReloadOK ==
    /\ reload.at \in {"idle", "config", "triton", "inputIDs", "textEmbeds"}
    /\ reload.at = "idle" => reload = Idle
    /\ reload.at = "triton" => server["config"] = reload.to
    /\ reload.at = "inputIDs" => \A f \in {"config", "triton"} : server[f] = reload.to
    /\ reload.at = "textEmbeds" => \A f \in Field \ {"textEmbeds"} : server[f] = reload.to
    /\ up /\ ~Locked /\ ~stale => \A f \in Field : server[f] = server["textEmbeds"]
    /\ ~up => /\ ~Locked
              /\ \A c \in Caller : stage[c] \notin {"snapshot", "image", "score", "respond"}

\* What a calm classification has read is what the server still has, or would
\* give it next: nothing was replaced since it began.
Calm(c) ==
    c \in calm =>
       /\ up /\ ~Locked
       /\ stage[c] = "snapshot" => snap[c]["inputIDs"] = server["inputIDs"]
       /\ stage[c] \in {"image", "score", "respond"} /\ c \notin doubtful =>
             \A f \in {"triton", "config"} : server[f] = snap[c]["textEmbeds"]
CalmOK == \A c \in Caller : Calm(c)

\* What OneConfig says of one classification.
Whole(c) ==
    c \notin doubtful =>
       \A f \in Read(c) :
          f \in {"config", "categories"} \/ c \in calm => snap[c][f] = snap[c]["textEmbeds"]

ServerInv == ServerTypeOK /\ ReloadOK /\ CalmOK /\ OneConfig

\* A state of the breaker, counters and the calls they count that go together.
BreakerOK(s, n, calls) ==
    /\ s \in {"closed", "open", "half-open"}
    /\ n \in [requests : 0 .. MaxRequests, failures : Nat, inARow : Nat, successes : Nat]
    /\ calls \subseteq Caller /\ IsFiniteSet(calls)
    /\ n.failures + Cardinality(calls) <= n.requests
    /\ s = "closed" => n.inARow < FailureThreshold
    /\ s = "half-open" => /\ n.requests <= HalfOpenMaxCalls
                          /\ n.requests = n.successes + Cardinality(calls)
    /\ s = "open" => n = NoCounts /\ calls = {}

ClientInv ==
    /\ BreakerOK(state, counts, counted) /\ expired \in BOOLEAN
    /\ call \in [Caller -> {"idle", "ready", "waiting"}]
    /\ attempt \in [Caller -> 1 .. Attempts]
    /\ \A c \in counted : call[c] # "idle"

\* The service works for a caller as long as the caller waits.
Paired == \A c \in Caller : stage[c] # "idle" <=> call[c] = "waiting"

Inv == ServerInv /\ ClientInv /\ Paired
-----------------------------------------------------------------------------
(* The service.                                                            *)

LEMMA LoadTypes ==
    ASSUME NEW g \in Config
    PROVE  /\ Parsed(g) \in Load /\ Complete(g) \in Load /\ Idle.to \in Load
           /\ NoSnap \in [Reading -> Load]
<1>1. \A h \in Config : Parsed(h) \in Load /\ Complete(h) \in Load
  BY InferenceAssumption DEF InferenceAssumption, Parsed, Complete, Load
<1>2. (CHOOSE h \in Config : TRUE) \in Config
  OBVIOUS
<1>3. QED
  BY <1>1, <1>2 DEF Idle, NoSnap

LEMMA IdleType == ServerTypeOK => Idle \in [at : Field \cup {"idle"}, to : Load]
BY LoadTypes DEF ServerTypeOK, Idle

LEMMA InitServer == ServerInit => ServerInv
<1> SUFFICES ASSUME ServerInit
             PROVE  ServerInv
    OBVIOUS
<1>1. PICK g \in Config : server = [f \in Field |-> Complete(g)]
  BY DEF ServerInit
<1>2. ServerTypeOK
  <2>1. Complete(g) \in Load /\ Idle.to \in Load /\ NoSnap \in [Reading -> Load]
    BY LoadTypes
  <2>2. reload \in [at : Field \cup {"idle"}, to : Load]
    BY <2>1 DEF ServerInit, Idle
  <2>3. 0 \in 0 .. MaxReloads
    BY InferenceAssumption DEF InferenceAssumption
  <2>4. QED
    BY <1>1, <2>1, <2>2, <2>3 DEF ServerInit, ServerTypeOK, Stage
<1>3. ReloadOK
  BY <1>1 DEF ServerInit, ReloadOK, Idle, Locked, Field
<1>4. CalmOK /\ OneConfig
  BY DEF ServerInit, CalmOK, Calm, OneConfig, Read
<1>5. QED
  BY <1>2, <1>3, <1>4 DEF ServerInv

\* A step of one classification leaves the server and the others alone.
OwnStep(c) ==
    /\ UNCHANGED <<file, up, server, reload, stale, reloads>>
    /\ \A d \in Caller \ {c} :
          /\ stage'[d] = stage[d] /\ snap'[d] = snap[d]
          /\ d \in calm' <=> d \in calm
          /\ d \in doubtful' <=> d \in doubtful
    /\ up \/ stage'[c] \notin {"snapshot", "image", "score", "respond"}

LEMMA OwnCall ==
    ASSUME ServerInv, NEW c \in Caller, OwnStep(c), ServerTypeOK',
           Calm(c)', Whole(c)'
    PROVE  ServerInv'
<1>1. ReloadOK'
  BY DEF ServerInv, ReloadOK, Locked, OwnStep
<1>2. \A d \in Caller \ {c} : Calm(d)'
  BY DEF ServerInv, CalmOK, Calm, Locked, OwnStep
<1>3. \A d \in Caller \ {c} : Whole(d)'
  BY DEF ServerInv, OneConfig, Whole, Read, OwnStep
<1>4. CalmOK'
  BY <1>2 DEF CalmOK
<1>5. OneConfig'
  BY <1>3 DEF OneConfig, Whole
<1>6. QED
  BY <1>1, <1>4, <1>5 DEF ServerInv

\* A classification ends, or its caller stops waiting.
LEMMA FinishInv ==
    ASSUME ServerInv, NEW c \in Caller, NEW outcome \in {"invalid", "unavailable", "idle"},
           Finish(c, outcome)
    PROVE  ServerInv'
<1>1. stage'[c] = outcome /\ c \notin calm'
  BY DEF ServerInv, ServerTypeOK, Finish, At
<1>2. ServerTypeOK'
  BY LoadTypes DEF ServerInv, ServerTypeOK, Stage, Answered, Finish, At
<1>3. Read(c)' = {}
  BY <1>1 DEF Read
<1>4. Calm(c)' /\ Whole(c)'
  BY <1>1, <1>3 DEF Calm, Whole
<1>5. OwnStep(c)
  BY <1>1 DEF OwnStep, ServerInv, ServerTypeOK, Finish, At
<1>6. QED
  BY <1>2, <1>4, <1>5, OwnCall

LEMMA AcceptInv ==
    ASSUME ServerInv, NEW c \in Caller, Accept(c)
    PROVE  ServerInv'
<1>1. CASE \E outcome \in {"invalid", "unavailable"} : Finish(c, outcome)
  BY <1>1, FinishInv
<1>2. CASE /\ up /\ At(c, "snapshot")
           /\ snap' = [snap EXCEPT ![c].inputIDs = server.inputIDs]
           /\ calm' = IF Locked THEN calm \ {c} ELSE calm \cup {c}
           /\ UNCHANGED <<file, up, server, reload, stale, reloads, doubtful>>
  <2>1. /\ stage'[c] = "snapshot" /\ snap'[c]["inputIDs"] = server["inputIDs"]
        /\ c \in calm' => ~Locked
    BY <1>2 DEF ServerInv, ServerTypeOK, At, Reading, Field
  <2>2. ServerTypeOK'
    <3>1. snap' \in [Caller -> [Reading -> Load]]
      BY <1>2 DEF ServerInv, ServerTypeOK, Field, Reading
    <3>2. QED
      BY <1>2, <3>1 DEF ServerInv, ServerTypeOK, At, Stage
  <2>3. Read(c)' = {}
    BY <2>1 DEF Read
  <2>4. Calm(c)' /\ Whole(c)'
    BY <1>2, <2>1, <2>3 DEF Calm, Whole, Locked
  <2>5. OwnStep(c)
    BY <1>2 DEF OwnStep, ServerInv, ServerTypeOK, At
  <2>6. QED
    BY <2>2, <2>4, <2>5, OwnCall
<1>3. QED
  BY <1>1, <1>2 DEF Accept

LEMMA SnapshotInv ==
    ASSUME ServerInv, NEW c \in Caller, Snapshot(c)
    PROVE  ServerInv'
<1>1. up /\ ~Locked /\ stage[c] = "snapshot"
  BY DEF Snapshot, ServerInv, ReloadOK
<1>2. /\ stage'[c] = "image"
      /\ \A f \in {"textEmbeds", "categories", "config"} : snap'[c][f] = server[f]
      /\ snap'[c]["inputIDs"] = snap[c]["inputIDs"]
      /\ c \in doubtful' <=> stale
      /\ UNCHANGED <<file, up, server, reload, stale, reloads, calm>>
  BY DEF Snapshot, At, ServerInv, ServerTypeOK, Field, Reading
<1>3. ServerTypeOK'
  <2>1. snap' \in [Caller -> [Reading -> Load]]
    BY DEF Snapshot, ServerInv, ServerTypeOK, Field, Reading
  <2>2. QED
    BY <2>1 DEF Snapshot, At, ServerInv, ServerTypeOK, Stage
<1>4. ~stale => \A f \in Field : server[f] = server["textEmbeds"]
  BY <1>1 DEF ServerInv, ReloadOK
<1>5. c \in calm => snap[c]["inputIDs"] = server["inputIDs"]
  BY <1>1 DEF ServerInv, CalmOK, Calm
<1>6. Read(c)' = Field \ {"triton"}
  BY <1>2 DEF Read
<1>7. Calm(c)'
  BY <1>1, <1>2, <1>4 DEF Calm, Locked, Field
<1>8. Whole(c)'
  BY <1>2, <1>4, <1>5, <1>6 DEF Whole, Field
<1>9. OwnStep(c)
  BY <1>1 DEF OwnStep, Snapshot, At, ServerInv, ServerTypeOK
<1>10. QED
  BY <1>3, <1>7, <1>8, <1>9, OwnCall

\* A field is read without the lock: while nothing is replaced, it is as the
\* snapshot was.
LEMMA ReadOneInv ==
    ASSUME ServerInv, NEW c \in Caller,
           NEW f \in Field, NEW g \in Reading \ {"config", "categories", "textEmbeds", "inputIDs"},
           NEW from \in {"image", "respond"}, stage[c] = from,
           f = IF from = "image" THEN "triton" ELSE "config",
           g = IF from = "image" THEN "triton" ELSE "version",
           snap' = [snap EXCEPT ![c][g] = server[f]],
           At(c, IF from = "image" THEN "score" ELSE "ok"),
           UNCHANGED <<file, up, server, reload, stale, reloads, historyVars>>
    PROVE  ServerInv'
<1>1. /\ stage'[c] = IF from = "image" THEN "score" ELSE "ok"
      /\ snap'[c][g] = server[f]
      /\ \A h \in Reading \ {g} : snap'[c][h] = snap[c][h]
      /\ UNCHANGED <<file, up, server, reload, stale, reloads, calm, doubtful>>
  BY DEF At, ServerInv, ServerTypeOK, historyVars
<1>2. ServerTypeOK'
  <2>1. snap' \in [Caller -> [Reading -> Load]]
    BY DEF ServerInv, ServerTypeOK
  <2>2. QED
    BY <1>1, <2>1 DEF At, ServerInv, ServerTypeOK, Stage, Answered
<1>3. up
  BY DEF ServerInv, ReloadOK
<1>4. Read(c) = (IF from = "image" THEN Field \ {"triton"} ELSE Field)
      /\ Read(c)' = Read(c) \cup {g}
  BY <1>1 DEF Read, Field, Reading
<1>5. c \in calm \ doubtful => server[f] = snap[c]["textEmbeds"]
  BY DEF ServerInv, CalmOK, Calm
<1>6. Calm(c) /\ Whole(c) /\ "textEmbeds" \in Reading /\ Read(c) \subseteq Reading
  BY <1>4 DEF ServerInv, CalmOK, OneConfig, Whole, Reading, Field
<1>7. Calm(c)'
  BY <1>1, <1>6 DEF Calm, Locked
<1>8. Whole(c)'
  <2>1. ASSUME c \notin doubtful', NEW h \in Read(c)',
               h \in {"config", "categories"} \/ c \in calm'
        PROVE  snap'[c][h] = snap'[c]["textEmbeds"]
    <3>1. snap'[c]["textEmbeds"] = snap[c]["textEmbeds"]
      BY <1>1, <1>6
    <3>2. CASE h = g
      BY <1>1, <1>5, <2>1, <3>1, <3>2
    <3>3. CASE h # g
      <4>1. h \in Read(c) /\ h \in Reading
        BY <1>4, <1>6, <2>1, <3>3
      <4>2. snap'[c][h] = snap[c][h]
        BY <1>1, <3>3, <4>1
      <4>3. QED
        BY <1>1, <1>6, <2>1, <3>1, <4>1, <4>2 DEF Whole
    <3>4. QED
      BY <3>2, <3>3
  <2>2. QED
    BY <2>1 DEF Whole
<1>9. OwnStep(c)
  BY <1>1, <1>3 DEF OwnStep, At, ServerInv, ServerTypeOK
<1>10. QED
  BY <1>2, <1>7, <1>8, <1>9, OwnCall

LEMMA ClassifyInv ==
    ASSUME ServerInv, NEW c \in Caller, ClassifyStep(c)
    PROVE  ServerInv'
<1>1. CASE Snapshot(c)
  BY <1>1, SnapshotInv
<1>2. CASE ImageEmbeds(c)
  <2>1. CASE Finish(c, "unavailable")
    BY <2>1, FinishInv
  <2>2. CASE /\ stage[c] = "image" /\ snap' = [snap EXCEPT ![c].triton = server.triton]
             /\ At(c, "score")
             /\ UNCHANGED <<file, up, server, reload, stale, reloads, historyVars>>
    <3>1. "triton" \in Field /\ "triton" \in Reading
      BY DEF Field, Reading
    <3>2. QED
      BY <2>2, <3>1, ReadOneInv
  <2>3. QED
    BY <1>2, <2>1, <2>2 DEF ImageEmbeds
<1>3. CASE Score(c)
  <2>1. CASE Finish(c, "unavailable")
    BY <2>1, FinishInv
  <2>2. CASE /\ stage[c] = "score" /\ At(c, "respond")
             /\ UNCHANGED <<file, up, server, reload, stale, reloads, snap, historyVars>>
    <3>1. /\ stage'[c] = "respond"
          /\ UNCHANGED <<file, up, server, reload, stale, reloads, snap, calm, doubtful>>
      BY <2>2 DEF At, ServerInv, ServerTypeOK, historyVars
    <3>2. ServerTypeOK'
      BY <2>2, <3>1 DEF At, ServerInv, ServerTypeOK, Stage
    <3>3. up /\ Calm(c) /\ Whole(c)
      BY <2>2 DEF ServerInv, ReloadOK, CalmOK, OneConfig, Whole
    <3>4. Read(c)' = Read(c)
      BY <2>2, <3>1 DEF Read
    <3>5. Calm(c)' /\ Whole(c)'
      BY <2>2, <3>1, <3>3, <3>4 DEF Calm, Whole, Locked
    <3>6. OwnStep(c)
      BY <2>2, <3>1, <3>3 DEF OwnStep, At, ServerInv, ServerTypeOK
    <3>7. QED
      BY <3>2, <3>5, <3>6, OwnCall
  <2>3. QED
    BY <1>3, <2>1, <2>2 DEF Score
<1>4. CASE Respond(c)
  <2>1. "config" \in Field /\ "version" \in Reading /\ "respond" # "image"
    BY DEF Field, Reading
  <2>2. QED
    BY <1>4, <2>1, ReadOneInv DEF Respond
<1>5. QED
  BY <1>1, <1>2, <1>3, <1>4 DEF ClassifyStep

\* What a reload replaces no classification has read yet, or only in part.
LEMMA ReloadInv ==
    ASSUME ServerInv, ReloadStep
    PROVE  ServerInv'
<1>1. CASE Sighup
  <2>1. ServerTypeOK'
    <3>1. reload' \in [at : Field \cup {"idle"}, to : Load]
      BY <1>1, LoadTypes DEF Sighup, ServerInv, ServerTypeOK, Field
    <3>2. reloads' \in 0 .. MaxReloads
      BY <1>1, InferenceAssumption DEF Sighup, ServerInv, ServerTypeOK, InferenceAssumption
    <3>3. QED
      BY <1>1, <3>1, <3>2 DEF Sighup, ServerInv, ServerTypeOK
  <2>2. reload'.at = "config" /\ up' = up /\ up
    BY <1>1 DEF Sighup
  <2>3. reload' # Idle
    BY <2>2 DEF Idle
  <2>4. ReloadOK'
    BY <1>1, <2>2, <2>3 DEF Sighup, ReloadOK, Locked
  <2>5. CalmOK' /\ OneConfig'
    BY <1>1 DEF Sighup, ServerInv, CalmOK, Calm, OneConfig, Read
  <2>6. QED
    BY <2>1, <2>4, <2>5 DEF ServerInv
<1>2. CASE Replace
  <2>1. /\ reload.at \in {"config", "triton", "inputIDs"} /\ Locked /\ up
        /\ \A c \in Caller : c \notin calm
    BY <1>2 DEF Replace, NextField, Locked, Idle, ServerInv, ReloadOK, CalmOK, Calm
  <2>2. /\ reload'.at = NextField[reload.at] /\ reload'.to = reload.to
        /\ reload.at = "config" => reload'.at = "triton"
        /\ reload.at = "triton" => reload'.at = "inputIDs"
        /\ reload.at = "inputIDs" => reload'.at = "textEmbeds"
    BY <1>2, <2>1 DEF Replace, NextField, ServerInv, ServerTypeOK
  <2>3. \A f \in Field : server'[f] = IF f \in Assigned(reload.at) THEN reload.to
                                      ELSE server[f]
    BY <1>2 DEF Replace
  <2>4. ServerTypeOK'
    <3>1. reload' \in [at : Field \cup {"idle"}, to : Load]
      BY <1>2, <2>1, <2>2 DEF Replace, ServerInv, ServerTypeOK, Field
    <3>2. reload.to \in Load
      BY DEF ServerInv, ServerTypeOK
    <3>3. server' \in [Field -> Load]
      BY <1>2, <3>2 DEF Replace, ServerInv, ServerTypeOK
    <3>4. QED
      BY <1>2, <3>1, <3>3 DEF Replace, ServerInv, ServerTypeOK, historyVars
  <2>5. reload' # Idle /\ reload'.at # "idle"
    BY <2>1, <2>2 DEF Idle
  <2>6. ReloadOK'
    <3>1. CASE reload.at = "config"
      BY <1>2, <2>1, <2>2, <2>3, <2>5, <3>1
         DEF Replace, ReloadOK, Locked, Assigned, Field
    <3>2. CASE reload.at = "triton"
      BY <1>2, <2>1, <2>2, <2>3, <2>5, <3>2
         DEF Replace, ServerInv, ReloadOK, Locked, Assigned, Field
    <3>3. CASE reload.at = "inputIDs"
      BY <1>2, <2>1, <2>2, <2>3, <2>5, <3>3
         DEF Replace, ServerInv, ReloadOK, Locked, Assigned, Field
    <3>4. QED
      BY <2>1, <3>1, <3>2, <3>3
  <2>7. CalmOK' /\ OneConfig'
    BY <1>2, <2>1 DEF Replace, ServerInv, CalmOK, Calm, OneConfig, Read, historyVars
  <2>8. QED
    BY <2>4, <2>6, <2>7 DEF ServerInv
<1>3. CASE Embed
  <2>1. /\ reload.at = "textEmbeds" /\ Locked /\ up
        /\ \A c \in Caller : c \notin calm
        /\ \A f \in Field \ {"textEmbeds"} : server[f] = reload.to
    BY <1>3 DEF Embed, Locked, Idle, ServerInv, ReloadOK, CalmOK, Calm
  <2>2. reload' = Idle /\ UNCHANGED <<file, up, reloads, stage, snap, calm, doubtful>>
    BY <1>3 DEF Embed, historyVars
  <2>3. \/ stale' = TRUE /\ UNCHANGED server
        \/ /\ stale' = FALSE /\ server'["textEmbeds"] = reload.to
           /\ server' \in [Field -> Load]
           /\ \A f \in Field \ {"textEmbeds"} : server'[f] = server[f]
    BY <1>3 DEF Embed, ServerInv, ServerTypeOK, Field
  <2>4. ServerTypeOK'
    BY <2>2, <2>3, IdleType DEF ServerInv, ServerTypeOK
  <2>5. Idle.at = "idle"
    BY DEF Idle
  <2>6. ReloadOK'
    BY <2>1, <2>2, <2>3, <2>5 DEF ReloadOK, Locked
  <2>7. CalmOK' /\ OneConfig'
    BY <2>1, <2>2 DEF ServerInv, CalmOK, Calm, OneConfig, Read
  <2>8. QED
    BY <2>4, <2>6, <2>7 DEF ServerInv
<1>4. CASE EmbedPanics
  <2>1. \A c \in Caller : stage'[c] \in {"idle", "unavailable"}
    BY <1>4 DEF EmbedPanics
  <2>2. ServerTypeOK'
    BY <1>4, LoadTypes, IdleType DEF EmbedPanics, ServerInv, ServerTypeOK, Stage, Answered
  <2>3. Idle.at = "idle"
    BY DEF Idle
  <2>4. ReloadOK'
    BY <1>4, <2>1, <2>3 DEF EmbedPanics, ReloadOK, Locked
  <2>5. CalmOK' /\ OneConfig'
    BY <1>4, <2>1 DEF EmbedPanics, CalmOK, Calm, OneConfig, Read
  <2>6. QED
    BY <2>2, <2>4, <2>5 DEF ServerInv
<1>5. CASE Start
  <2>1. Complete(file) \in Load
    BY LoadTypes DEF ServerInv, ServerTypeOK
  <2>2. ServerTypeOK'
    BY <1>5, <2>1 DEF Start, ServerInv, ServerTypeOK
  <2>3. reload = Idle /\ Idle.at = "idle"
    BY <1>5 DEF Start, ServerInv, ReloadOK, Locked, Idle
  <2>4. ReloadOK'
    BY <1>5, <2>3 DEF Start, ReloadOK, Locked, Field
  <2>5. CalmOK' /\ OneConfig'
    BY <1>5 DEF Start, ServerInv, CalmOK, Calm, OneConfig, Read
  <2>6. QED
    BY <2>2, <2>4, <2>5 DEF ServerInv
<1>6. QED
  BY <1>1, <1>2, <1>3, <1>4, <1>5 DEF ReloadStep

LEMMA ServerRests ==
    ASSUME ServerInv, UNCHANGED serverVars
    PROVE  ServerInv'
BY DEF ServerInv, ServerTypeOK, ReloadOK, CalmOK, Calm, OneConfig, Read, Locked, serverVars,
       historyVars
-----------------------------------------------------------------------------
(* The client.                                                             *)

\* A new generation may be of any state.
LEMMA FreshBreaker ==
    ASSUME NEW s \in {"closed", "open", "half-open"}
    PROVE  BreakerOK(s, NoCounts, {})
<1>1. IsFiniteSet({}) /\ Cardinality({}) = 0
  BY FS_EmptySet
<1>2. NoCounts \in [requests : 0 .. MaxRequests, failures : Nat, inARow : Nat, successes : Nat]
  BY InferenceClientAssumption DEF NoCounts, InferenceClientAssumption
<1>3. FailureThreshold \in Nat \ {0} /\ HalfOpenMaxCalls \in Nat \ {0}
  BY InferenceClientAssumption DEF InferenceClientAssumption
<1>4. QED
  BY <1>1, <1>2, <1>3 DEF BreakerOK, NoCounts

\* Looking at an expired generation ends it.
LEMMA PresentBreaker ==
    ASSUME BreakerOK(state, counts, counted), expired \in BOOLEAN
    PROVE  BreakerOK(Present.state, Counts, Counted)
<1>1. CASE expired
  <2>1. Present.state \in {"closed", "half-open"}
    BY <1>1 DEF Present, BreakerOK
  <2>2. Counts = NoCounts /\ Counted = {}
    BY <1>1 DEF Counts, Counted, Present
  <2>3. QED
    BY <2>1, <2>2, FreshBreaker
<1>2. CASE ~expired
  BY <1>2 DEF Present, Counts, Counted
<1>3. QED
  BY <1>1, <1>2

\* A call is let through.
LEMMA AdmitBreaker ==
    ASSUME NEW s \in {"closed", "half-open"}, NEW n, NEW calls, BreakerOK(s, n, calls),
           NEW c \in Caller \ calls, n.requests < MaxRequests,
           s = "half-open" => n.requests < HalfOpenMaxCalls
    PROVE  BreakerOK(s, [n EXCEPT !.requests = @ + 1], calls \cup {c})
<1> DEFINE more == [n EXCEPT !.requests = @ + 1]
<1>1. /\ IsFiniteSet(calls \cup {c}) /\ Cardinality(calls) \in Nat
      /\ Cardinality(calls \cup {c}) = Cardinality(calls) + 1
  BY FS_AddElement, FS_CardinalityType DEF BreakerOK
<1>2. /\ more.requests = n.requests + 1 /\ more.failures = n.failures
      /\ more.inARow = n.inARow /\ more.successes = n.successes
      /\ more \in [requests : 0 .. MaxRequests, failures : Nat, inARow : Nat,
                   successes : Nat]
  BY InferenceClientAssumption DEF BreakerOK, InferenceClientAssumption
<1>3. HalfOpenMaxCalls \in Nat /\ n.requests \in Nat /\ n.failures \in Nat
  BY InferenceClientAssumption DEF BreakerOK, InferenceClientAssumption
<1> HIDE DEF more
<1>4. QED
  BY <1>1, <1>2, <1>3 DEF BreakerOK

\* A counted call succeeds or fails without ending the generation.
LEMMA OutcomeBreaker ==
    ASSUME BreakerOK(state, counts, counted), NEW c \in counted, NEW n,
           n \in [requests : 0 .. MaxRequests, failures : Nat, inARow : Nat, successes : Nat],
           n.requests = counts.requests,
           n.failures \in {counts.failures, counts.failures + 1},
           state # "open",
           state = "closed" => n.inARow < FailureThreshold,
           state = "half-open" => n.successes = counts.successes + 1
    PROVE  BreakerOK(state, n, counted \ {c})
<1>1. /\ IsFiniteSet(counted \ {c}) /\ Cardinality(counted) \in Nat
      /\ Cardinality(counted \ {c}) = Cardinality(counted) - 1
  BY FS_RemoveElement, FS_CardinalityType DEF BreakerOK
<1>2. counts.requests \in Nat /\ counts.failures \in Nat /\ counts.successes \in Nat
  BY DEF BreakerOK
<1>3. QED
  BY <1>1, <1>2 DEF BreakerOK

\* A call counted or not comes to its end.
LEMMA AfterRequestBreaker ==
    ASSUME BreakerOK(state, counts, counted), expired \in BOOLEAN, NEW c \in Caller,
           NEW success \in BOOLEAN, AfterRequest(c, success)
    PROVE  /\ BreakerOK(state', counts', counted') /\ expired' \in BOOLEAN
           /\ counted' \subseteq counted \ {c}
<1>1. CASE Late(c)
  <2>1. counted' \subseteq counted \ {c}
    BY <1>1 DEF Late, Counted
  <2>2. expired' \in BOOLEAN
    BY <1>1 DEF Late
  <2>3. QED
    BY <1>1, <2>1, <2>2, PresentBreaker DEF Late
<1>2. ASSUME NEW s \in {"closed", "open"}, Generation(s)
      PROVE  /\ BreakerOK(state', counts', counted') /\ expired' \in BOOLEAN
             /\ counted' \subseteq counted \ {c}
  BY <1>2, FreshBreaker DEF Generation
<1>3. CASE Succeeded(c) \/ Failed(c)
  <2>1. c \in counted /\ state # "open" /\ FailureThreshold \in Nat \ {0}
    BY <1>3, InferenceClientAssumption
       DEF Succeeded, Failed, Counted, BreakerOK, InferenceClientAssumption
  <2> DEFINE Counters == [requests : 0 .. MaxRequests, failures : Nat, inARow : Nat,
                          successes : Nat]
  <2>0. counts \in Counters
    BY DEF BreakerOK
  <2>2. ASSUME NEW n,
               n = [counts EXCEPT !.inARow = 0, !.successes =
                                     IF state = "half-open" THEN @ + 1 ELSE 0]
        PROVE  BreakerOK(state, n, counted \ {c})
    <3>1. CASE state = "half-open"
      <4>1. n = [counts EXCEPT !.inARow = 0, !.successes = @ + 1]
        BY <2>2, <3>1
      <4>2. n \in Counters
        <5>1. n = [requests |-> counts.requests, failures |-> counts.failures,
                   inARow |-> 0, successes |-> counts.successes + 1]
          BY <2>0, <4>1
        <5>2. QED
          BY <2>0, <5>1
      <4>3. n.requests = counts.requests /\ n.failures = counts.failures
        BY <2>0, <4>1
      <4>4. n.successes = counts.successes + 1
        BY <2>0, <4>1
      <4>5. QED
        BY <2>1, <3>1, <4>2, <4>3, <4>4, OutcomeBreaker
    <3>2. CASE state # "half-open"
      <4>1. n = [counts EXCEPT !.inARow = 0, !.successes = 0]
        BY <2>2, <3>2
      <4>2. n \in Counters
        BY <2>0, <4>1
      <4>3. /\ n.requests = counts.requests /\ n.failures = counts.failures
            /\ n.inARow = 0
        BY <2>0, <4>1
      <4>4. QED
        BY <2>1, <3>2, <4>2, <4>3, OutcomeBreaker
    <3>3. QED
      BY <3>1, <3>2
  <2>3. ASSUME NEW n, n = [counts EXCEPT !.failures = @ + 1, !.inARow = @ + 1],
               ~(state = "half-open" \/ ReadyToTrip(n))
        PROVE  BreakerOK(state, n, counted \ {c})
    <3>1. /\ n.requests = counts.requests /\ n.failures = counts.failures + 1
          /\ n.inARow \in Nat /\ n \in Counters
      <4>1. n.requests = counts.requests
        BY <2>0, <2>3
      <4>2. n.failures = counts.failures + 1
        BY <2>0, <2>3
      <4>3. n \in Counters
        <5>1. n = [requests |-> counts.requests, failures |-> counts.failures + 1,
                   inARow |-> counts.inARow + 1, successes |-> counts.successes]
          BY <2>0, <2>3
        <5>2. QED
          BY <2>0, <5>1
      <4>4. QED
        BY <4>1, <4>2, <4>3
    <3>2. n.inARow < FailureThreshold
      BY <2>1, <2>3, <3>1 DEF ReadyToTrip
    <3>3. QED
      BY <2>1, <2>3, <3>1, <3>2, OutcomeBreaker
  <2>4. CASE Succeeded(c)
    BY <1>2, <2>2, <2>4 DEF Succeeded
  <2>5. CASE Failed(c)
    BY <1>2, <2>3, <2>5 DEF Failed
  <2>6. QED
    BY <1>3, <2>4, <2>5
<1>4. QED
  BY <1>1, <1>3 DEF AfterRequest

LEMMA LeaveInv ==
    ASSUME ClientInv, NEW c \in Caller, NEW success \in BOOLEAN, Leave(c, success)
    PROVE  ClientInv' /\ call' = [call EXCEPT ![c] = "idle"]
<1>1. /\ BreakerOK(state', counts', counted') /\ expired' \in BOOLEAN
      /\ counted' \subseteq counted \ {c}
  BY AfterRequestBreaker DEF Leave, ClientInv
<1>2. 1 \in 1 .. Attempts
  BY InferenceClientAssumption DEF InferenceClientAssumption
<1>3. /\ call' \in [Caller -> {"idle", "ready", "waiting"}]
      /\ attempt' \in [Caller -> 1 .. Attempts]
  BY <1>2 DEF Leave, ClientInv
<1>4. \A d \in counted' : call'[d] # "idle"
  BY <1>1 DEF Leave, ClientInv, BreakerOK
<1>5. BreakerOK(state, counts, counted)'
  BY <1>1 DEF BreakerOK, NoCounts
<1>6. QED
  BY <1>1, <1>3, <1>4, <1>5 DEF Leave, ClientInv

\* A call begins.
LEMMA BeginInv ==
    ASSUME ClientInv, NEW c \in Caller, Analyze(c)
    PROVE  ClientInv' /\ call' = [call EXCEPT ![c] = "ready"]
<1>1. BreakerOK(Present.state, Counts, Counted) /\ c \notin Counted
  BY PresentBreaker DEF ClientInv, Analyze, Counted
<1>2. /\ Present.state \in {"closed", "half-open"} /\ Counts.requests < MaxRequests
      /\ Present.state = "half-open" => Counts.requests < HalfOpenMaxCalls
  BY <1>1, InferenceClientAssumption
     DEF Analyze, Admit, BreakerOK, InferenceClientAssumption
<1>3. BreakerOK(Present.state, [Counts EXCEPT !.requests = @ + 1], Counted \cup {c})
  BY <1>1, <1>2, AdmitBreaker
<1>4. BreakerOK(state', counts', counted')
  BY <1>3 DEF Analyze, Admit
<1>5. BreakerOK(state, counts, counted)' /\ expired' \in BOOLEAN
  BY <1>4 DEF BreakerOK, NoCounts, Analyze, Admit
<1>6. 1 \in 1 .. Attempts
  BY InferenceClientAssumption DEF InferenceClientAssumption
<1>7. /\ call' \in [Caller -> {"idle", "ready", "waiting"}]
      /\ attempt' \in [Caller -> 1 .. Attempts]
  BY <1>6 DEF Analyze, ClientInv
<1>8. \A d \in counted' : call'[d] # "idle"
  <2>1. counted' \subseteq counted \cup {c}
    BY DEF Analyze, Admit, Counted
  <2>2. QED
    BY <2>1 DEF Analyze, ClientInv, BreakerOK
<1>9. QED
  BY <1>5, <1>7, <1>8 DEF ClientInv, Analyze

\* A step of a call in its middle, and the ones that end a call.
LEMMA CallInv ==
    ASSUME ClientInv, NEW c \in Caller
    PROVE  /\ Send(c) => ClientInv' /\ call' = [call EXCEPT ![c] = "waiting"]
           /\ Retry(c) \/ (\E outcome \in Answered : Receive(c, outcome)) \/ GiveUp(c)
                 => \E to \in {"idle", "ready"} : ClientInv' /\ call' = [call EXCEPT ![c] = to]
<1>1. ASSUME Send(c)
      PROVE  ClientInv' /\ call' = [call EXCEPT ![c] = "waiting"]
  <2>1. BreakerOK(state, counts, counted)' <=> BreakerOK(state, counts, counted)
    BY <1>1 DEF Send, breakerVars, BreakerOK, NoCounts
  <2>2. QED
    BY <1>1, <2>1 DEF Send, ClientInv, breakerVars
<1>2. ASSUME Retry(c)
      PROVE  \E to \in {"idle", "ready"} : ClientInv' /\ call' = [call EXCEPT ![c] = to]
  <2>1. CASE Leave(c, FALSE)
    BY <2>1, LeaveInv
  <2>2. CASE /\ attempt[c] < Attempts /\ call' = [call EXCEPT ![c] = "ready"]
             /\ attempt' = [attempt EXCEPT ![c] = @ + 1] /\ UNCHANGED breakerVars
    <3>1. BreakerOK(state, counts, counted)' <=> BreakerOK(state, counts, counted)
      BY <2>2 DEF breakerVars, BreakerOK, NoCounts
    <3>2. Attempts \in Nat
      BY InferenceClientAssumption DEF InferenceClientAssumption
    <3>3. attempt' \in [Caller -> 1 .. Attempts]
      BY <2>2, <3>2 DEF ClientInv
    <3>4. ClientInv'
      BY <2>2, <3>1, <3>3 DEF ClientInv, breakerVars
    <3>5. QED
      BY <2>2, <3>4
  <2>3. QED
    BY <1>2, <2>1, <2>2 DEF Retry
<1>3. ASSUME NEW success \in BOOLEAN, Leave(c, success)
      PROVE  \E to \in {"idle", "ready"} : ClientInv' /\ call' = [call EXCEPT ![c] = to]
  BY <1>3, LeaveInv
<1>4. QED
  BY <1>1, <1>2, <1>3 DEF Receive, GiveUp

LEMMA ExpireInv ==
    ASSUME ClientInv, Expire
    PROVE  ClientInv' /\ UNCHANGED call
<1>1. BreakerOK(state, counts, counted)' <=> BreakerOK(state, counts, counted)
  BY DEF Expire, BreakerOK, NoCounts
<1>2. QED
  BY <1>1 DEF Expire, ClientInv

LEMMA ClientRests ==
    ASSUME ClientInv, UNCHANGED clientVars
    PROVE  ClientInv' /\ UNCHANGED call
<1>1. BreakerOK(state, counts, counted)' <=> BreakerOK(state, counts, counted)
  BY DEF clientVars, breakerVars, BreakerOK, NoCounts
<1>2. QED
  BY <1>1 DEF ClientInv, clientVars, breakerVars
-----------------------------------------------------------------------------
(* Together.                                                               *)

LEMMA InitInference == Init => Inv
<1> SUFFICES ASSUME Init
             PROVE  Inv
    OBVIOUS
<1>1. ServerInv
  BY InitServer DEF Init
<1>2. ClientInv
  <2>1. BreakerOK(state, counts, counted)
    BY FreshBreaker DEF Init, ClientInit
  <2>2. 1 \in 1 .. Attempts
    BY InferenceClientAssumption DEF InferenceClientAssumption
  <2>3. QED
    BY <2>1, <2>2 DEF Init, ClientInit, ClientInv
<1>3. Paired
  BY DEF Init, ServerInit, ClientInit, Paired
<1>4. QED
  BY <1>1, <1>2, <1>3 DEF Inv

\* What a step of the service does to the stages of its classifications.
LEMMA ServeStages ==
    ASSUME ServerInv, NEW c \in Caller, ClassifyStep(c)
    PROVE  \A d \in Caller : stage'[d] # "idle" <=> stage[d] # "idle"
BY DEF ClassifyStep, Snapshot, ImageEmbeds, Score, Respond, Finish, At, ServerInv, ServerTypeOK

LEMMA NextInference ==
    ASSUME Inv, [Next]_vars
    PROVE  Inv'
<1>1. ServerInv /\ ClientInv /\ Paired
  BY DEF Inv
<1>2. stage \in [Caller -> Stage] /\ call \in [Caller -> {"idle", "ready", "waiting"}]
  BY <1>1 DEF ServerInv, ServerTypeOK, ClientInv
<1>3. ASSUME NEW c \in Caller, Begin(c)
      PROVE  Inv'
  <2>1. ServerInv' /\ UNCHANGED stage
    BY <1>1, <1>3, ServerRests DEF Begin, serverVars
  <2>2. /\ ClientInv'
        /\ UNCHANGED call \/ (call[c] = "idle" /\ call' = [call EXCEPT ![c] = "ready"])
    <3>1. CASE Analyze(c)
      BY <1>1, <3>1, BeginInv DEF Analyze
    <3>2. CASE Refuse(c)
      BY <1>1, <3>2, ClientRests DEF Refuse, clientVars
    <3>3. QED
      BY <1>3, <3>1, <3>2 DEF Begin
  <2>3. QED
    BY <1>1, <1>2, <2>1, <2>2 DEF Inv, Paired
<1>4. ASSUME NEW c \in Caller, Attempt(c)
      PROVE  Inv'
  <2>1. ServerInv' /\ ClientInv' /\ call' = [call EXCEPT ![c] = "waiting"]
    BY <1>1, <1>4, AcceptInv, CallInv DEF Attempt
  <2>2. stage' = [stage EXCEPT ![c] = stage'[c]] /\ stage'[c] # "idle"
    BY <1>2, <1>4 DEF Attempt, Accept, Finish, At
  <2>3. QED
    BY <1>1, <1>2, <2>1, <2>2 DEF Inv, Paired
<1>5. ASSUME NEW c \in Caller, Serve(c)
      PROVE  Inv'
  BY <1>1, <1>5, ClassifyInv, ServeStages, ClientRests DEF Serve, Inv, Paired
<1>6. ASSUME NEW c \in Caller, Reply(c) \/ Timeout(c) \/ Cancel(c)
      PROVE  Inv'
  <2>1. /\ Finish(c, "idle")
        /\ Retry(c) \/ (\E outcome \in Answered : Receive(c, outcome)) \/ GiveUp(c)
    BY <1>6 DEF Reply, Timeout, Cancel
  <2>2. ServerInv' /\ stage' = [stage EXCEPT ![c] = "idle"]
    BY <1>1, <2>1, FinishInv DEF Finish, At
  <2>3. ClientInv' /\ \E to \in {"idle", "ready"} : call' = [call EXCEPT ![c] = to]
    BY <1>1, <2>1, CallInv
  <2>4. QED
    BY <1>1, <1>2, <2>2, <2>3 DEF Inv, Paired
<1>7. CASE Elapse
  BY <1>1, <1>7, ServerRests, ExpireInv DEF Elapse, Inv, Paired, serverVars
<1>8. CASE Administer
  <2>1. ServerInv' /\ ClientInv' /\ UNCHANGED call
    BY <1>1, <1>8, ReloadInv, ClientRests DEF Administer
  <2>2. \A c \in Caller : stage'[c] # "idle" <=> stage[c] # "idle"
    BY <1>8 DEF Administer, ReloadStep, Sighup, Replace, Embed, EmbedPanics, Start
  <2>3. QED
    BY <1>1, <2>1, <2>2 DEF Inv, Paired
<1>9. CASE UNCHANGED vars
  BY <1>1, <1>9, ServerRests, ClientRests DEF vars, Inv, Paired, serverVars
<1>10. QED
  BY <1>3, <1>4, <1>5, <1>6, <1>7, <1>8, <1>9 DEF Next, CallStep

LEMMA InferenceInvariant == Spec => []Inv
<1>1. Inv /\ [Next]_vars => Inv'
  BY NextInference
<1>2. QED
  BY <1>1, InitInference, PTL DEF Spec

\* The client and the service keep their types, in any number of calls, reloads and
\* crashes.
THEOREM InferenceTypeCorrect == Spec => []TypeOK
<1>1. Inv => TypeOK
  BY DEF Inv, ServerInv, ClientInv, BreakerOK, TypeOK, ClientTypeOK
<1>2. QED
  BY <1>1, InferenceInvariant, PTL

\* However reloads, crashes and restarts fall between its reads of the server: what
\* a classification reads under the lock is of one load unless an earlier reload
\* had failed, and so is what it reads without the lock, up to the version it
\* names, if no reload runs beside it (Classify and Reload of the Inference
\* handler).
THEOREM OneConfigEach == Spec => []OneConfig
<1>1. Inv => OneConfig
  BY DEF Inv, ServerInv
<1>2. QED
  BY <1>1, InferenceInvariant, PTL

\* The breaker's counters are those of the calls that were made, for any number
\* of callers and any thresholds (gobreaker, as newBreaker configures it).
THEOREM BreakerCounts == Spec => []BreakerCountsCalls
<1>1. Inv => BreakerCountsCalls
  BY DEF Inv, ClientInv, BreakerOK, BreakerCountsCalls
<1>2. QED
  BY <1>1, InferenceInvariant, PTL

\* What a call of an earlier generation comes to leaves the breaker as it is.
THEOREM LateOutcomesRest == Spec => LateOutcomesMoveNothing
<1> DEFINE Rests ==
      \A c \in Caller : (call[c] # "idle" /\ call'[c] = "idle" /\ c \notin counted)
          => \/ breakerVars' = breakerVars
             \/ expired /\ state' = Present.state /\ counts' = NoCounts
<1>1. ASSUME Inv, NEW c \in Caller, NEW success \in BOOLEAN, Leave(c, success)
      PROVE  Rests
  <2>1. \A d \in Caller \ {c} : call'[d] = call[d]
    BY <1>1 DEF Leave, Inv, ClientInv
  <2>2. c \notin counted => Late(c)
    BY <1>1 DEF Leave, AfterRequest, Succeeded, Failed, Counted
  <2>3. Late(c) => \/ breakerVars' = breakerVars
                   \/ expired /\ state' = Present.state /\ counts' = NoCounts
    <3>1. CASE expired
      BY <3>1 DEF Late, Present, Counts
    <3>2. CASE ~expired
      BY <1>1, <3>2 DEF Late, Present, Counts, Counted, breakerVars, Inv, ClientInv
    <3>3. QED
      BY <3>1, <3>2
  <2>4. QED
    BY <2>1, <2>2, <2>3
<1>2. Inv /\ [Next]_vars => [Rests]_clientVars
  <2> SUFFICES ASSUME Inv, [Next]_vars
               PROVE  Rests
      OBVIOUS
  <2> HIDE DEF Rests
  <2>1. CASE \E c \in Caller, success \in BOOLEAN : Leave(c, success)
    BY <1>1, <2>1
  <2>2. ASSUME \A c \in Caller : call[c] # "idle" => call'[c] # "idle"
        PROVE  Rests
    BY <2>2 DEF Rests
  <2>3. CASE UNCHANGED call
    BY <2>2, <2>3
  <2>4. ASSUME NEW c \in Caller, NEW to \in {"ready", "waiting"},
               call' = [call EXCEPT ![c] = to]
        PROVE  Rests
    BY <2>2, <2>4 DEF Inv, ClientInv
  <2>5. ASSUME NEW c \in Caller, Retry(c)
        PROVE  Rests
    BY <2>1, <2>4, <2>5 DEF Retry
  <2>6. ASSUME NEW c \in Caller, Begin(c) \/ CallStep(c) \/ Serve(c) \/ Cancel(c)
        PROVE  Rests
    BY <2>1, <2>3, <2>4, <2>5, <2>6
       DEF Begin, Analyze, Refuse, CallStep, Attempt, Send, Reply, Receive, Timeout,
           Serve, Cancel, GiveUp, clientVars
  <2>7. QED
    BY <2>3, <2>6 DEF Next, Elapse, Expire, Administer, clientVars, vars
<1>3. QED
  BY <1>2, InferenceInvariant, PTL DEF Spec, LateOutcomesMoveNothing
=============================================================================
