----------------------------- MODULE EdgeProofs -----------------------------
(***************************************************************************)
(* The Edge, for any number of bots and messages, any quota and any        *)
(* failures: its types, that the quota of its workspace is kept, and that  *)
(* a removal has its reason and its record.                                *)
(***************************************************************************)
EXTENDS Edge, FiniteSetTheorems, TLAPS

-----------------------------------------------------------------------------
(* Types.                                                                  *)

\* An outcome leaves the breaker with fewer failures than open it.
LEMMA RecordedType ==
    ASSUME TypeOK, NEW b \in Bot, NEW success \in BOOLEAN, Recorded(b, success)
    PROVE  /\ breaker' \in [Bot -> {"closed", "open", "half-open"}]
           /\ failures' \in [Bot -> 0 .. FailureThreshold - 1]
<1>1. /\ breaker \in [Bot -> {"closed", "open", "half-open"}]
      /\ failures \in [Bot -> 0 .. FailureThreshold - 1]
  BY DEF TypeOK
<1>2. 0 \in 0 .. FailureThreshold - 1
  BY EdgeAssumption
<1>3. CASE success
  BY <1>1, <1>2, <1>3 DEF Recorded
<1>4. CASE ~success
  <2>1. CASE failures[b] + 1 < FailureThreshold
    <3>1. failures[b] + 1 \in 0 .. FailureThreshold - 1
      BY <1>1, <2>1, EdgeAssumption
    <3>2. failures' = [failures EXCEPT ![b] = @ + 1] /\ UNCHANGED breaker
      BY <1>1, <1>4, <2>1, EdgeAssumption DEF Recorded
    <3>3. QED
      BY <1>1, <3>1, <3>2
  <2>2. CASE ~(failures[b] + 1 < FailureThreshold)
    <3>1. failures' = [failures EXCEPT ![b] = 0] /\ breaker' = [breaker EXCEPT ![b] = "open"]
      BY <1>4, <2>2 DEF Recorded
    <3>2. QED
      BY <1>1, <1>2, <3>1
  <2>3. QED
    BY <2>1, <2>2
<1>5. QED
  BY <1>3, <1>4

\* Where a handler stands, and whether it has a message, after it moves on or
\* returns.
Handling ==
    /\ inbox \in [Bot -> Seq(Msg)] /\ cur \in [Bot -> Msg \cup {NoMsg}]
    /\ at \in [Bot -> Label] /\ payload \in [Bot -> {"text", "attachment", "empty"}]
    /\ \A b \in Bot : at[b] = "idle" <=> cur[b] = NoMsg

LEMMA GotoType ==
    ASSUME Handling, NEW b \in Bot, at[b] # "idle",
           NEW label \in Label \ {"idle"}, Goto(b, label)
    PROVE  Handling'
  BY DEF Handling, Goto

LEMMA DoneType ==
    ASSUME Handling, NEW b \in Bot, Done(b)
    PROVE  Handling'
  BY EdgeAssumption DEF Handling, Done, Label

\* The rest of the types, but for the quota.
Records ==
    /\ closing \subseteq Bot /\ token \subseteq Bot
    /\ breaker \in [Bot -> {"closed", "open", "half-open"}]
    /\ failures \in [Bot -> 0 .. FailureThreshold - 1]
    /\ {posted, deleted, audited, paid, refused, gaveUp} \subseteq SUBSET Msg
    /\ denied \in [Msg -> Denial \cup {"no"}]
    /\ verdict \in [Msg -> Decision \cup {"none"}]
    /\ commands \in 0 .. MaxCommands /\ stops \in 0 .. MaxStops

LEMMA TypeParts == TypeOK <=> Handling /\ Records /\ used \in Nat
  BY DEF TypeOK, Handling, Records

\* A handler that is busy has a message.
LEMMA Busy == TypeOK => \A b \in Bot : at[b] # "idle" => cur[b] \in Msg
  BY DEF TypeOK

LEMMA EdgeTypeStep == TypeOK /\ [Next]_vars => TypeOK'
<1> SUFFICES ASSUME TypeOK, [Next]_vars
             PROVE  TypeOK'
    OBVIOUS
<1> USE EdgeAssumption, QuotaAssumption
<1>0. Handling /\ Records /\ used \in Nat
  BY TypeParts
<1>1. ASSUME NEW m \in Msg, Post(m)
      PROVE  TypeOK'
  <2>1. Home[m] \in Bot /\ Append(inbox[Home[m]], m) \in Seq(Msg)
    BY <1>0 DEF Handling, EdgeAssumption
  <2>2. Handling'
    BY <1>0, <1>1, <2>1 DEF Handling, Post
  <2>3. Records' /\ used' \in Nat
    BY <1>0, <1>1 DEF Records, Post, breakerVars, historyVars
  <2>4. QED
    BY <2>2, <2>3 DEF TypeOK, Handling, Records
<1>2. ASSUME NEW b \in Bot, TakeEvent(b)
      PROVE  TypeOK'
  <2>0. inbox[b] \in Seq(Msg) /\ inbox[b] # <<>>
    BY <1>0, <1>2 DEF Handling, TakeEvent
  <2>1. Head(inbox[b]) \in Msg /\ Tail(inbox[b]) \in Seq(Msg)
    BY <2>0
  <2>2. Handling'
    <3>1. inbox' \in [Bot -> Seq(Msg)]
      BY <1>0, <1>2, <2>1 DEF Handling, TakeEvent
    <3>2. CASE UNCHANGED <<cur, at, payload>>
      BY <1>0, <3>1, <3>2 DEF Handling
    <3>3. CASE /\ cur' = [cur EXCEPT ![b] = Head(inbox[b])]
               /\ at' = [at EXCEPT ![b] = "limit"] /\ UNCHANGED payload
      BY <1>0, <2>1, <3>1, <3>3 DEF Handling, Label
    <3>4. QED
      BY <1>2, <3>2, <3>3 DEF TakeEvent
  <2>3. Records' /\ used' \in Nat
    BY <1>0, <1>2 DEF Records, TakeEvent, breakerVars, msgVars, historyVars
  <2>4. QED
    BY <2>2, <2>3 DEF TypeOK, Handling, Records
<1>3. ASSUME NEW b \in Bot, DropEvent(b)
      PROVE  TypeOK'
  <2>1. Handling'
    BY <1>0, <1>3, DoneType DEF DropEvent
  <2>2. Records' /\ used' \in Nat
    BY <1>0, <1>3, Busy DEF Records, DropEvent, breakerVars, msgVars
  <2>3. QED
    BY <2>1, <2>2 DEF TypeOK, Handling, Records
<1>4. ASSUME NEW b \in Bot, TakeToken(b) \/ Download(b)
      PROVE  TypeOK'
  <2>1. OwnText(cur[b]) \in {"text", "attachment", "empty"}
    BY DEF OwnText
  <2>2. at' \in [Bot -> Label] /\ payload' \in [Bot -> {"text", "attachment", "empty"}]
    <3>1. at \in [Bot -> Label] /\ payload \in [Bot -> {"text", "attachment", "empty"}]
      BY <1>0 DEF Handling
    <3>2. \E label \in {"download", "consume"} : at' = [at EXCEPT ![b] = label]
      BY <1>4 DEF TakeToken, Download
    <3>3. \/ UNCHANGED payload
          \/ \E data \in {"attachment", OwnText(cur[b])} : payload' = [payload EXCEPT ![b] = data]
      BY <1>4 DEF TakeToken, Download
    <3>4. at' \in [Bot -> Label]
      BY <3>1, <3>2 DEF Label
    <3>5. payload' \in [Bot -> {"text", "attachment", "empty"}]
      BY <2>1, <3>1, <3>3
    <3>6. QED
      BY <3>4, <3>5
  <2>3. Handling'
    <3>1. /\ UNCHANGED <<inbox, cur>> /\ at[b] # "idle"
          /\ \E label \in Label \ {"idle"} : at' = [at EXCEPT ![b] = label]
      BY <1>4 DEF TakeToken, Download, Label
    <3>2. QED
      BY <1>0, <2>2, <3>1 DEF Handling
  <2>4. Records' /\ used' \in Nat
    BY <1>0, <1>4 DEF Records, TakeToken, Download, breakerVars, msgVars, historyVars
  <2>5. QED
    BY <2>3, <2>4 DEF TypeOK, Handling, Records
<1>5. ASSUME NEW b \in Bot, Consume(b)
      PROVE  TypeOK'
  <2>1. /\ at[b] = "consume" /\ cur[b] \in Msg
        /\ Goto(b, "analyze") \/ Goto(b, "delete") \/ Done(b)
    BY <1>5, Busy DEF Consume, Deny
  <2>2. Handling'
    BY <1>0, <2>1, GotoType, DoneType DEF Label
  <2>3. used' \in Nat
    BY <1>0, <1>5 DEF Consume, Take, Exhausted
  <2>4. paid' \in SUBSET Msg /\ denied' \in [Msg -> Denial \cup {"no"}]
    BY <1>0, <1>5, <2>1 DEF Records, Consume, Deny, Denial
  <2>5. UNCHANGED <<closing, token, breakerVars, msgVars, verdict, refused, gaveUp,
                  commands, stops>>
    BY <1>5 DEF Consume
  <2>6. Records'
    BY <1>0, <2>4, <2>5 DEF Records, breakerVars, msgVars
  <2>7. QED
    BY <2>2, <2>3, <2>6 DEF TypeOK, Handling, Records
<1>6. ASSUME NEW b \in Bot, AnalysisFails(b)
      PROVE  TypeOK'
  <2>1. Handling'
    BY <1>0, <1>6, DoneType DEF AnalysisFails
  <2>2. /\ breaker' \in [Bot -> {"closed", "open", "half-open"}]
        /\ failures' \in [Bot -> 0 .. FailureThreshold - 1]
    BY <1>0, <1>6, RecordedType DEF AnalysisFails, Records, breakerVars
  <2>3. Records' /\ used' \in Nat
    BY <1>0, <1>6, <2>2, Busy DEF Records, AnalysisFails, msgVars
  <2>4. QED
    BY <2>1, <2>3 DEF TypeOK, Handling, Records
<1>7. ASSUME NEW b \in Bot, NEW d \in Decision, Analyze(b, d)
      PROVE  TypeOK'
  <2>1. Handling'
    BY <1>0, <1>7, GotoType DEF Analyze, Label
  <2>2. /\ breaker' \in [Bot -> {"closed", "open", "half-open"}]
        /\ failures' \in [Bot -> 0 .. FailureThreshold - 1]
    BY <1>7, RecordedType DEF Analyze
  <2>3. Records' /\ used' \in Nat
    BY <1>0, <1>7, <2>2 DEF Records, Analyze, msgVars
  <2>4. QED
    BY <2>1, <2>3 DEF TypeOK, Handling, Records
<1>8. ASSUME NEW b \in Bot, EnforceDecision(b)
      PROVE  TypeOK'
  <2>1. Handling'
    BY <1>0, <1>8, GotoType, DoneType DEF EnforceDecision, Label
  <2>2. Records' /\ used' \in Nat
    BY <1>0, <1>8 DEF Records, EnforceDecision, breakerVars, msgVars, historyVars
  <2>3. QED
    BY <2>1, <2>2 DEF TypeOK, Handling, Records
<1>9. ASSUME NEW b \in Bot, Delete(b)
      PROVE  TypeOK'
  <2>1. Handling'
    BY <1>0, <1>9, GotoType, DoneType DEF Delete, Label
  <2>2. Records' /\ used' \in Nat
    BY <1>0, <1>9, Busy DEF Records, Delete, breakerVars
  <2>3. QED
    BY <2>1, <2>2 DEF TypeOK, Handling, Records
<1>10. ASSUME NEW b \in Bot, Audit(b)
       PROVE  TypeOK'
  <2>1. Handling'
    BY <1>0, <1>10, DoneType DEF Audit
  <2>2. Records' /\ used' \in Nat
    BY <1>0, <1>10, Busy DEF Records, Audit, breakerVars, historyVars
  <2>3. QED
    BY <2>1, <2>2 DEF TypeOK, Handling, Records
<1>11. ASSUME NEW b \in Bot, Elapse(b)
       PROVE  TypeOK'
  <2>1. Handling'
    BY <1>0, <1>11 DEF Handling, Elapse, botVars
  <2>2. Records' /\ used' \in Nat
    BY <1>0, <1>11 DEF Records, Elapse, msgVars, historyVars
  <2>3. QED
    BY <2>1, <2>2 DEF TypeOK, Handling, Records
<1>12. ASSUME NEW b \in Bot, TokenExpires(b) \/ Terminate(b)
       PROVE  TypeOK'
  <2>1. Handling'
    BY <1>0, <1>12 DEF Handling, TokenExpires, Terminate, botVars
  <2>2. Records' /\ used' \in Nat
    BY <1>0, <1>12 DEF Records, TokenExpires, Terminate, breakerVars, msgVars, historyVars
  <2>3. QED
    BY <2>1, <2>2 DEF TypeOK, Handling, Records
<1>13. ASSUME NEW b \in Bot, Exit(b)
       PROVE  TypeOK'
  <2>1. Handling'
    BY <1>0, <1>13 DEF Handling, Exit, Label
  <2>2. InHand(b) \subseteq Msg
    BY <1>0 DEF Handling, InHand
  <2>3. Records' /\ used' \in Nat
    BY <1>0, <1>13, <2>2 DEF Records, Exit, msgVars
  <2>4. QED
    BY <2>1, <2>3 DEF TypeOK, Handling, Records
<1>14. ASSUME NEW b \in Bot, NEW success \in BOOLEAN, Moderate(b, success)
       PROVE  TypeOK'
  <2>1. Handling'
    BY <1>0, <1>14 DEF Handling, Moderate, botVars
  <2>2. /\ breaker' \in [Bot -> {"closed", "open", "half-open"}]
        /\ failures' \in [Bot -> 0 .. FailureThreshold - 1]
    BY <1>14, RecordedType DEF Moderate
  <2>3. Records' /\ used' \in Nat
    BY <1>0, <1>14, <2>2 DEF Records, Moderate, msgVars, historyVars
  <2>4. QED
    BY <2>1, <2>3 DEF TypeOK, Handling, Records
<1>15. CASE UNCHANGED vars
  BY <1>15 DEF TypeOK, vars, botVars, breakerVars, msgVars, historyVars
<1>16. QED
  BY <1>1, <1>2, <1>3, <1>4, <1>5, <1>6, <1>7, <1>8, <1>9, <1>10, <1>11, <1>12, <1>13,
     <1>14, <1>15 DEF Next, Handle

LEMMA InitType == Init => TypeOK
<1> SUFFICES ASSUME Init PROVE TypeOK
    OBVIOUS
<1>1. 0 \in 0 .. FailureThreshold - 1 /\ 0 \in 0 .. MaxCommands /\ 0 \in 0 .. MaxStops
  BY EdgeAssumption
<1>2. Handling /\ Records /\ used \in Nat
  BY <1>1 DEF Init, QuotaInit, Handling, Records, Label
<1>3. QED
  BY <1>2, TypeParts

\* Every variable keeps its type, whatever fails, expires or stops.
THEOREM EdgeTypeCorrect == Spec => []TypeOK
  BY InitType, EdgeTypeStep, PTL DEF Spec
-----------------------------------------------------------------------------
(* The quota.                                                              *)

\* A message waits or is handled in one place, once, and is not paid for before
\* its handler gets there.
Queued ==
    /\ paid \subseteq posted
    /\ \A b \in Bot : \A i \in 1 .. Len(inbox[b]) :
          /\ inbox[b][i] \in posted \ paid
          /\ Home[inbox[b][i]] = b /\ inbox[b][i] # cur[b]
          /\ \A j \in 1 .. Len(inbox[b]) : i # j => inbox[b][i] # inbox[b][j]
    /\ \A b \in Bot : at[b] # "idle" => cur[b] \in posted /\ Home[cur[b]] = b
    /\ \A b \in Bot : at[b] \in {"limit", "download", "consume"} => cur[b] \notin paid

\* A unit is counted for each message that is paid for, and only such a message
\* reaches the Engine.
Metered ==
    /\ IsFiniteSet(paid)
    /\ used = Cardinality(paid) /\ used <= Limit
    /\ \A b \in Bot : at[b] = "analyze" => cur[b] \in paid
    /\ \A m \in Msg : verdict[m] # "none" => m \in paid

QuotaInv == TypeOK /\ Queued /\ Metered

\* Steps that neither take nor pay leave the books alone.
LEMMA MoveOn ==
    ASSUME QuotaInv, NEW b \in Bot, at[b] # "idle",
           UNCHANGED <<used, posted, paid, verdict>>,
           \/ \E label \in {"enforce", "delete", "audit"} : Goto(b, label)
           \/ Done(b)
    PROVE  Queued' /\ Metered'
<1> USE EdgeAssumption DEF QuotaInv, TypeOK
<1>1. \A a \in Bot \ {b} : at'[a] = at[a] /\ cur'[a] = cur[a]
  BY DEF Goto, Done
<1>2. /\ at'[b] \notin {"limit", "download", "consume", "analyze"} /\ UNCHANGED inbox
      /\ cur'[b] = cur[b] \/ (at'[b] = "idle" /\ cur'[b] = NoMsg)
  BY DEF Goto, Done
<1>3. \A a \in Bot : \A i \in 1 .. Len(inbox[a]) : inbox[a][i] \in Msg
  OBVIOUS
<1>4. Queued'
  <2>1. ASSUME NEW a \in Bot, NEW i \in 1 .. Len(inbox[a])
        PROVE  inbox[a][i] # cur'[a]
    <3>1. inbox[a][i] \in Msg /\ inbox[a][i] # cur[a]
      BY <1>3 DEF Queued
    <3>2. cur'[a] \in {cur[a], NoMsg}
      BY <1>1, <1>2
    <3>3. QED
      BY <3>1, <3>2
  <2>2. \A a \in Bot : at'[a] # "idle" => at[a] # "idle" /\ cur'[a] = cur[a]
    BY <1>1, <1>2
  <2>3. \A a \in Bot : at'[a] \in {"limit", "download", "consume"} => at'[a] = at[a] /\ cur'[a] = cur[a]
    BY <1>1, <1>2
  <2>4. QED
    BY <1>2, <2>1, <2>2, <2>3 DEF Queued
<1>5. Metered'
  BY <1>1, <1>2 DEF Metered
<1>6. QED
  BY <1>4, <1>5

LEMMA Unmoved ==
    ASSUME QuotaInv, UNCHANGED <<used, inbox, cur, at, posted, paid, verdict>>
    PROVE  Queued' /\ Metered'
  BY DEF QuotaInv, Queued, Metered

LEMMA PostQueued ==
    ASSUME QuotaInv, NEW m \in Msg, Post(m)
    PROVE  Queued' /\ Metered'
<1> USE EdgeAssumption DEF QuotaInv, TypeOK
<1>1. m \notin posted /\ posted' = posted \cup {m} /\ m \notin paid
  BY DEF Post, Queued
<1>2. UNCHANGED <<used, cur, at, paid, verdict>>
  BY DEF Post, historyVars
<1>3. \A b \in Bot \ {Home[m]} : inbox'[b] = inbox[b]
  BY DEF Post
<1>4. inbox[Home[m]] \in Seq(Msg) /\ inbox'[Home[m]] = Append(inbox[Home[m]], m)
  BY DEF Post
<1>5. \A b \in Bot : cur[b] # m
  BY <1>1 DEF Queued
<1>6. \A b \in Bot : \A i \in 1 .. Len(inbox'[b]) :
         \/ i \in 1 .. Len(inbox[b]) /\ inbox'[b][i] = inbox[b][i]
         \/ b = Home[m] /\ i = Len(inbox[b]) + 1 /\ inbox'[b][i] = m
  <2>1. ASSUME NEW i \in 1 .. Len(inbox'[Home[m]])
        PROVE  \/ i \in 1 .. Len(inbox[Home[m]]) /\ inbox'[Home[m]][i] = inbox[Home[m]][i]
               \/ i = Len(inbox[Home[m]]) + 1 /\ inbox'[Home[m]][i] = m
    BY <1>4
  <2>2. QED
    BY <1>3, <2>1
<1>7. \A b \in Bot : \A i \in 1 .. Len(inbox[b]) :
         inbox[b][i] # m /\ inbox'[b][i] = inbox[b][i]
  <2>1. \A i \in 1 .. Len(inbox[Home[m]]) : inbox'[Home[m]][i] = inbox[Home[m]][i]
    BY <1>4
  <2>2. \A b \in Bot : \A i \in 1 .. Len(inbox[b]) : inbox[b][i] # m
    BY <1>1 DEF Queued
  <2>3. QED
    BY <1>3, <2>1, <2>2
<1>8. Queued'
  <2>1. ASSUME NEW b \in Bot, NEW i \in 1 .. Len(inbox'[b])
        PROVE  /\ inbox'[b][i] \in posted' \ paid
               /\ Home[inbox'[b][i]] = b /\ inbox'[b][i] # cur[b]
    <3>1. CASE i \in 1 .. Len(inbox[b]) /\ inbox'[b][i] = inbox[b][i]
      BY <1>1, <3>1 DEF Queued
    <3>2. CASE b = Home[m] /\ inbox'[b][i] = m
      BY <1>1, <1>5, <3>2
    <3>3. QED
      BY <1>6, <3>1, <3>2
  <2>2. ASSUME NEW b \in Bot, NEW i \in 1 .. Len(inbox'[b]), NEW j \in 1 .. Len(inbox'[b]),
               i # j
        PROVE  inbox'[b][i] # inbox'[b][j]
    <3>1. CASE i \in 1 .. Len(inbox[b]) /\ j \in 1 .. Len(inbox[b])
      <4>1. inbox[b][i] # inbox[b][j]
        BY <2>2, <3>1 DEF Queued
      <4>2. QED
        BY <1>7, <3>1, <4>1
    <3>2. CASE i \in 1 .. Len(inbox[b]) /\ j \notin 1 .. Len(inbox[b])
      <4>1. inbox'[b][j] = m
        BY <1>6, <3>2
      <4>2. inbox[b][i] # m
        BY <1>7, <3>2
      <4>3. inbox'[b][i] = inbox[b][i]
        BY <1>7, <3>2
      <4>4. QED
        BY <4>1, <4>2, <4>3
    <3>3. CASE i \notin 1 .. Len(inbox[b]) /\ j \in 1 .. Len(inbox[b])
      <4>1. inbox'[b][i] = m
        BY <1>6, <3>3
      <4>2. inbox[b][j] # m
        BY <1>7, <3>3
      <4>3. inbox'[b][j] = inbox[b][j]
        BY <1>7, <3>3
      <4>4. QED
        BY <4>1, <4>2, <4>3
    <3>4. CASE i \notin 1 .. Len(inbox[b]) /\ j \notin 1 .. Len(inbox[b])
      <4>1. i = Len(inbox[b]) + 1 /\ j = Len(inbox[b]) + 1
        BY <1>6, <3>4
      <4>2. QED
        BY <2>2, <4>1
    <3>5. QED
      BY <3>1, <3>2, <3>3, <3>4
  <2>3. paid \subseteq posted' /\ posted \subseteq posted'
    BY <1>1 DEF Queued
  <2>4. QED
    BY <1>2, <2>1, <2>2, <2>3 DEF Queued
<1>9. Metered'
  BY <1>2 DEF Metered
<1>10. QED
  BY <1>8, <1>9

LEMMA TakeQueued ==
    ASSUME QuotaInv, NEW b \in Bot, TakeEvent(b)
    PROVE  Queued' /\ Metered'
<1> USE EdgeAssumption DEF QuotaInv, TypeOK
<1>1. at[b] = "idle" /\ inbox[b] \in Seq(Msg) /\ inbox[b] # <<>>
  BY DEF TakeEvent
<1>2. /\ UNCHANGED <<used, posted, paid, verdict>>
      /\ inbox' = [inbox EXCEPT ![b] = Tail(@)]
  BY DEF TakeEvent, msgVars, historyVars
<1>3. \A a \in Bot \ {b} : inbox'[a] = inbox[a] /\ cur'[a] = cur[a] /\ at'[a] = at[a]
  BY <1>2 DEF TakeEvent
<1>4. inbox'[b] = Tail(inbox[b]) /\ Head(inbox[b]) = inbox[b][1] /\ Len(inbox[b]) >= 1
  BY <1>1, <1>2
<1>5. \A i \in 1 .. Len(inbox'[b]) :
         i + 1 \in 2 .. Len(inbox[b]) /\ inbox'[b][i] = inbox[b][i + 1]
  BY <1>1, <1>4
<1>6. \/ at'[b] = "limit" /\ cur'[b] = inbox[b][1]
      \/ at'[b] = "idle" /\ cur'[b] = NoMsg
  BY <1>1, <1>4 DEF TakeEvent
<1>7. /\ inbox[b][1] \in posted \ paid /\ Home[inbox[b][1]] = b
      /\ \A i \in 2 .. Len(inbox[b]) : inbox[b][i] # inbox[b][1] /\ inbox[b][i] \in Msg
  BY <1>1, <1>4 DEF Queued
<1>8. \A a \in Bot : \A i \in 1 .. Len(inbox'[a]) :
         /\ inbox'[a][i] \in posted \ paid
         /\ Home[inbox'[a][i]] = a /\ inbox'[a][i] # cur'[a]
         /\ \A j \in 1 .. Len(inbox'[a]) : i # j => inbox'[a][i] # inbox'[a][j]
  <2>1. TAKE a \in Bot
  <2>2. CASE a = b
    <3>1. ASSUME NEW i \in 1 .. Len(inbox'[b])
          PROVE  /\ inbox'[b][i] \in posted \ paid
                 /\ Home[inbox'[b][i]] = b /\ inbox'[b][i] # cur'[b]
      <4>1. i + 1 \in 2 .. Len(inbox[b]) /\ i + 1 \in 1 .. Len(inbox[b])
        BY <1>5
      <4>2. inbox[b][i + 1] # inbox[b][1] /\ inbox[b][i + 1] \in Msg
        BY <1>7, <4>1
      <4>3. inbox[b][i + 1] \in posted \ paid /\ Home[inbox[b][i + 1]] = b
        BY <4>1 DEF Queued
      <4>4. inbox'[b][i] = inbox[b][i + 1] /\ cur'[b] \in {inbox[b][1], NoMsg}
        BY <1>5, <1>6
      <4>5. QED
        BY <4>2, <4>3, <4>4
    <3>2. ASSUME NEW i \in 1 .. Len(inbox'[b]), NEW j \in 1 .. Len(inbox'[b]), i # j
          PROVE  inbox'[b][i] # inbox'[b][j]
      <4>1. i + 1 \in 1 .. Len(inbox[b]) /\ j + 1 \in 1 .. Len(inbox[b]) /\ i + 1 # j + 1
        BY <1>5, <3>2
      <4>2. QED
        BY <1>5, <4>1 DEF Queued
    <3>3. QED
      BY <2>2, <3>1, <3>2
  <2>3. CASE a # b
    <3>1. inbox'[a] = inbox[a] /\ cur'[a] = cur[a]
      BY <2>1, <2>3, <1>3
    <3>2. QED
      BY <2>1, <3>1 DEF Queued
  <2>4. QED
    BY <2>2, <2>3
<1>9. Queued'
  <2>1. \A a \in Bot : at'[a] # "idle" => cur'[a] \in posted /\ Home[cur'[a]] = a
    BY <1>3, <1>6, <1>7 DEF Queued
  <2>2. \A a \in Bot : at'[a] \in {"limit", "download", "consume"} => cur'[a] \notin paid
    BY <1>3, <1>6, <1>7 DEF Queued
  <2>3. paid \subseteq posted /\ posted' = posted /\ paid' = paid
    BY <1>2 DEF Queued
  <2>4. QED
    BY <1>8, <2>1, <2>2, <2>3 DEF Queued
<1>10. Metered'
  BY <1>2, <1>3, <1>6 DEF Metered
<1>11. QED
  BY <1>9, <1>10

\* The heart: a unit is taken for a message nobody has paid for yet.
LEMMA ConsumeMetered ==
    ASSUME QuotaInv, NEW b \in Bot, Consume(b)
    PROVE  Queued' /\ Metered'
<1> USE EdgeAssumption, QuotaAssumption DEF QuotaInv, TypeOK
<1>1. /\ at[b] = "consume" /\ cur[b] \in Msg \ paid /\ cur[b] \in posted
      /\ Home[cur[b]] = b /\ UNCHANGED <<posted, verdict>>
  BY DEF Consume, Queued, msgVars
<1>2. /\ UNCHANGED inbox
      /\ \A a \in Bot \ {b} : at'[a] = at[a] /\ cur'[a] = cur[a]
      /\ at'[b] \notin {"limit", "download", "consume"}
      /\ cur'[b] = cur[b] \/ (at'[b] = "idle" /\ cur'[b] = NoMsg)
  BY <1>1 DEF Consume, Deny, Goto, Done
<1>3. \/ Take /\ paid' = paid \cup {cur[b]}
      \/ UNCHANGED <<used, paid>> /\ at'[b] # "analyze"
  BY <1>1 DEF Consume, Deny, Goto, Done, Exhausted
<1>4. paid \subseteq paid' /\ paid' \subseteq paid \cup {cur[b]}
  BY <1>3
<1>5. Queued'
  <2>1. \A a \in Bot : \A i \in 1 .. Len(inbox[a]) :
           inbox[a][i] # cur[b] /\ inbox[a][i] \in Msg
    BY <1>1 DEF Queued
  <2>2. \A a \in Bot \ {b} : at[a] # "idle" => cur[a] # cur[b]
    BY <1>1 DEF Queued
  <2>3. ASSUME NEW a \in Bot, NEW i \in 1 .. Len(inbox[a])
        PROVE  inbox[a][i] \notin paid' /\ inbox[a][i] # cur'[a]
    <3>1. cur'[a] \in {cur[a], NoMsg}
      BY <1>2
    <3>2. QED
      BY <1>4, <2>1, <3>1 DEF Queued
  <2>4. \A a \in Bot : at'[a] # "idle" => at[a] # "idle" /\ cur'[a] = cur[a]
    BY <1>1, <1>2
  <2>5. ASSUME NEW a \in Bot, at'[a] \in {"limit", "download", "consume"}
        PROVE  cur'[a] \notin paid'
    <3>1. a # b /\ at[a] = at'[a] /\ cur'[a] = cur[a] /\ at[a] # "idle"
      BY <1>2, <2>5
    <3>2. cur[a] # cur[b] /\ cur[a] \notin paid
      BY <2>2, <2>5, <3>1 DEF Queued
    <3>3. QED
      BY <1>4, <3>1, <3>2
  <2>6. paid' \subseteq posted
    BY <1>1, <1>4 DEF Queued
  <2>7. QED
    BY <1>1, <1>2, <2>3, <2>4, <2>5, <2>6 DEF Queued
<1>6. IsFiniteSet(paid') /\ used' = Cardinality(paid') /\ used' <= Limit
  <2>1. CASE Take /\ paid' = paid \cup {cur[b]}
    <3>1. IsFiniteSet(paid') /\ Cardinality(paid') = Cardinality(paid) + 1
      BY <1>1, <2>1, FS_AddElement DEF Metered
    <3>2. QED
      BY <2>1, <3>1 DEF Take, Metered
  <2>2. CASE UNCHANGED <<used, paid>>
    BY <2>2 DEF Metered
  <2>3. QED
    BY <1>3, <2>1, <2>2
<1>7. ASSUME NEW a \in Bot, at'[a] = "analyze"
      PROVE  cur'[a] \in paid'
  <2>1. CASE a = b
    <3>1. cur'[b] = cur[b] /\ cur[b] \in paid'
      BY <1>2, <1>3, <1>7, <2>1
    <3>2. QED
      BY <2>1, <3>1
  <2>2. CASE a # b
    <3>1. at[a] = "analyze" /\ cur'[a] = cur[a]
      BY <1>2, <1>7, <2>2
    <3>2. QED
      BY <1>4, <3>1 DEF Metered
  <2>3. QED
    BY <2>1, <2>2
<1>8. Metered'
  BY <1>1, <1>4, <1>6, <1>7 DEF Metered
<1>9. QED
  BY <1>5, <1>8

LEMMA QuotaInductive == QuotaInv /\ [Next]_vars => QuotaInv'
<1> SUFFICES ASSUME QuotaInv, [Next]_vars
             PROVE  Queued' /\ Metered'
    BY EdgeTypeStep DEF QuotaInv
<1>1. ASSUME NEW m \in Msg, Post(m)
      PROVE  Queued' /\ Metered'
  BY <1>1, PostQueued
<1>2. ASSUME NEW b \in Bot, TakeEvent(b)
      PROVE  Queued' /\ Metered'
  BY <1>2, TakeQueued
<1>3. ASSUME NEW b \in Bot, TakeToken(b) \/ Download(b)
      PROVE  Queued' /\ Metered'
  <2>1. /\ at[b] \in {"limit", "download"}
        /\ \E label \in {"download", "consume"} : at' = [at EXCEPT ![b] = label]
        /\ UNCHANGED <<used, inbox, cur, posted, paid, verdict>>
    BY <1>3 DEF TakeToken, Download, msgVars, historyVars
  <2>2. at'[b] \in {"download", "consume"} /\ \A a \in Bot \ {b} : at'[a] = at[a]
    BY <2>1 DEF QuotaInv, TypeOK
  <2>3. QED
    BY <2>1, <2>2 DEF QuotaInv, Queued, Metered
<1>4. ASSUME NEW b \in Bot, Consume(b)
      PROVE  Queued' /\ Metered'
  BY <1>4, ConsumeMetered
<1>5. ASSUME NEW b \in Bot, NEW d \in Decision, Analyze(b, d)
      PROVE  Queued' /\ Metered'
  <2>1. /\ at[b] = "analyze" /\ cur[b] \in paid /\ Goto(b, "enforce")
        /\ UNCHANGED <<used, posted, paid>>
        /\ verdict' = [verdict EXCEPT ![cur[b]] = d]
    BY <1>5 DEF Analyze, QuotaInv, Metered, msgVars
  <2>2. \A m \in Msg : verdict'[m] # "none" => m \in paid
    BY <2>1 DEF QuotaInv, Metered, TypeOK
  <2>3. /\ UNCHANGED <<inbox, cur>> /\ at'[b] = "enforce"
        /\ \A a \in Bot \ {b} : at'[a] = at[a]
    BY <2>1 DEF Goto, QuotaInv, TypeOK
  <2>4. Queued'
    BY <2>1, <2>3 DEF QuotaInv, Queued
  <2>5. Metered'
    BY <2>1, <2>2, <2>3 DEF QuotaInv, Metered
  <2>6. QED
    BY <2>4, <2>5
<1>6. ASSUME NEW b \in Bot,
             DropEvent(b) \/ AnalysisFails(b) \/ EnforceDecision(b) \/ Delete(b) \/ Audit(b)
      PROVE  Queued' /\ Metered'
  <2>1. at[b] # "idle" /\ UNCHANGED <<used, posted, paid, verdict>>
    BY <1>6 DEF DropEvent, AnalysisFails, EnforceDecision, Delete, Audit, msgVars,
                historyVars
  <2>2. (\E label \in {"enforce", "delete", "audit"} : Goto(b, label)) \/ Done(b)
    BY <1>6 DEF DropEvent, AnalysisFails, EnforceDecision, Delete, Audit
  <2>3. QED
    BY <2>1, <2>2, MoveOn
<1>7. ASSUME NEW b \in Bot, NEW success \in BOOLEAN,
             Elapse(b) \/ TokenExpires(b) \/ Terminate(b) \/ Moderate(b, success)
      PROVE  Queued' /\ Metered'
  <2>1. UNCHANGED <<used, inbox, cur, at, posted, paid, verdict>>
    BY <1>7 DEF Elapse, TokenExpires, Terminate, Moderate, botVars, msgVars, historyVars
  <2>2. QED
    BY <2>1, Unmoved
<1>8. ASSUME NEW b \in Bot, Exit(b)
      PROVE  Queued' /\ Metered'
  <2>1. /\ inbox'[b] = <<>> /\ cur'[b] = NoMsg /\ at'[b] = "idle"
        /\ \A a \in Bot \ {b} : inbox'[a] = inbox[a] /\ cur'[a] = cur[a] /\ at'[a] = at[a]
        /\ UNCHANGED <<used, posted, paid, verdict>>
    BY <1>8 DEF Exit, msgVars, QuotaInv, TypeOK
  <2>2. Len(inbox'[b]) = 0
    BY <2>1
  <2>3. QED
    BY <2>1, <2>2 DEF QuotaInv, Queued, Metered
<1>9. CASE UNCHANGED vars
  BY <1>9, Unmoved DEF vars, botVars, msgVars, historyVars
<1>10. QED
  BY <1>1, <1>2, <1>3, <1>4, <1>5, <1>6, <1>7, <1>8, <1>9 DEF Next, Handle

LEMMA QuotaInvariant == Spec => []QuotaInv
<1>1. Init => QuotaInv
  <2> SUFFICES ASSUME Init PROVE QuotaInv
    OBVIOUS
  <2>1. TypeOK
    BY InitType
  <2>2. Queued
    BY DEF Init, Queued
  <2>3. Metered
    BY FS_EmptySet, QuotaAssumption DEF Init, QuotaInit, Metered
  <2>4. QED
    BY <2>1, <2>2, <2>3 DEF QuotaInv
<1>2. QED
  BY <1>1, QuotaInductive, PTL DEF Spec

\* However bots interleave, answers are lost or handlers are cut off: a unit is
\* counted once for each message an Edge pays for, never beyond the limit, and
\* no message is analyzed unpaid (HandleConsume, lines 192-230, and handleMessage,
\* lines 348-361).
THEOREM QuotaHolds == Spec => []QuotaIsKept
<1>1. QuotaInv => QuotaIsKept
  BY DEF QuotaInv, Metered, QuotaIsKept
<1>2. QED
  BY <1>1, QuotaInvariant, PTL
-----------------------------------------------------------------------------
(* Removal.                                                                *)

\* Nothing is known of m, and nothing was done about it.
Fresh(m) == verdict[m] = "none" /\ denied[m] = "no" /\ m \notin deleted

\* m is to go.
Known(m) == verdict[m] = "BLOCK" \/ denied[m] # "no"

\* What a bot knows of the message it handles, by where it stands.
Stance(b) ==
    /\ at[b] \in {"limit", "download", "consume", "analyze"} => Fresh(cur[b])
    /\ at[b] = "enforce" => denied[cur[b]] = "no" /\ cur[b] \notin deleted
    /\ at[b] = "delete" => Known(cur[b]) /\ cur[b] \notin deleted
    /\ at[b] = "audit" => cur[b] \in deleted

\* The bot of its guild is at label with m.
HandledAt(m, labels) == cur[Home[m]] = m /\ at[Home[m]] \in labels

Accounted(m) ==
    /\ m \in audited => m \in deleted
    /\ m \in deleted => /\ Known(m)
                        /\ m \in audited \cup refused \cup gaveUp \/ HandledAt(m, {"audit"})

Held(m) ==
    Home[m] \in Enforcing /\ Known(m) =>
        m \in deleted \cup refused \cup gaveUp \/ HandledAt(m, {"enforce", "delete"})

\* A message is fresh until its handler has paid for it or was refused, and from
\* then on in one place: this makes RemovalIsAccounted and BlockedIsRemoved
\* inductive.
RemovalInv ==
    /\ \A m \in Msg \ posted : Fresh(m)
    /\ \A b \in Bot : \A i \in 1 .. Len(inbox[b]) : Fresh(inbox[b][i])
    /\ \A b \in Bot : Stance(b)
    /\ \A m \in Msg : Accounted(m) /\ Held(m)

\* No other bot has the message, and no inbox.
LEMMA OwnMessage ==
    ASSUME QuotaInv, NEW b \in Bot, at[b] # "idle"
    PROVE  /\ cur[b] \in Msg /\ cur[b] \in posted /\ Home[cur[b]] = b
           /\ \A a \in Bot \ {b} : at[a] # "idle" => cur[a] # cur[b]
           /\ \A a \in Bot : \A i \in 1 .. Len(inbox[a]) :
                 inbox[a][i] \in Msg /\ inbox[a][i] # cur[b]
<1>1. cur[b] \in Msg
  BY Busy DEF QuotaInv
<1>2. cur[b] \in posted /\ Home[cur[b]] = b
  BY DEF QuotaInv, Queued
<1>3. \A a \in Bot \ {b} : at[a] # "idle" => cur[a] # cur[b]
  BY <1>2 DEF QuotaInv, Queued
<1>4. ASSUME NEW a \in Bot, NEW i \in 1 .. Len(inbox[a])
      PROVE  inbox[a][i] \in Msg /\ inbox[a][i] # cur[b]
  <2>1. inbox[a] \in Seq(Msg) /\ Home[inbox[a][i]] = a /\ inbox[a][i] # cur[a]
    BY DEF QuotaInv, Queued, TypeOK
  <2>2. QED
    BY <1>2, <2>1
<1>5. QED
  BY <1>1, <1>2, <1>3, <1>4

\* A step of a handler disturbs only what concerns its own message.
LEMMA OwnStep ==
    ASSUME QuotaInv, RemovalInv, NEW b \in Bot, at[b] # "idle", NEW m, m = cur[b],
           UNCHANGED <<inbox, posted>>, gaveUp \subseteq gaveUp', refused \subseteq refused',
           \A a \in Bot \ {b} : at'[a] = at[a] /\ cur'[a] = cur[a],
           \A n \in Msg \ {m} :
               /\ verdict'[n] = verdict[n] /\ denied'[n] = denied[n]
               /\ n \in deleted' <=> n \in deleted
               /\ n \in audited' <=> n \in audited,
           Stance(b)', Accounted(m)', Held(m)'
    PROVE  RemovalInv'
<1>1. /\ m \in Msg /\ m \in posted /\ Home[m] = b
      /\ \A a \in Bot \ {b} : at[a] # "idle" => cur[a] # m
      /\ \A a \in Bot : \A i \in 1 .. Len(inbox[a]) : inbox[a][i] \in Msg /\ inbox[a][i] # m
  BY OwnMessage
<1>2. \A n \in Msg \ {m} : /\ Fresh(n) => Fresh(n)'
                           /\ Known(n)' <=> Known(n)
  BY DEF Fresh, Known
<1>3. \A n \in Msg \ posted' : Fresh(n)'
  BY <1>1, <1>2 DEF RemovalInv
<1>4. \A a \in Bot : \A i \in 1 .. Len(inbox'[a]) : Fresh(inbox[a][i])'
  BY <1>1, <1>2 DEF RemovalInv, Fresh
<1>5. ASSUME NEW a \in Bot \ {b}
      PROVE  Stance(a)'
  <2>1. at'[a] = at[a] /\ cur'[a] = cur[a] /\ Stance(a)
    BY DEF RemovalInv
  <2>2. CASE at[a] = "idle"
    BY <2>1, <2>2 DEF Stance
  <2>3. CASE at[a] # "idle"
    <3>1. cur[a] \in Msg \ {m}
      BY <1>1, <2>3, Busy DEF QuotaInv
    <3>2. QED
      BY <1>2, <2>1, <3>1 DEF Stance, Fresh, Known
  <2>4. QED
    BY <2>2, <2>3
<1>6. ASSUME NEW n \in Msg \ {m}
      PROVE  Accounted(n)' /\ Held(n)'
  <2>1. Accounted(n) /\ Held(n) /\ Home[n] \in Bot
    BY EdgeAssumption DEF RemovalInv
  <2>2. CASE Home[n] = b
    BY <1>2, <2>1, <2>2 DEF Accounted, Held, HandledAt
  <2>3. CASE Home[n] # b
    BY <1>2, <2>1, <2>3 DEF Accounted, Held, HandledAt
  <2>4. QED
    BY <2>2, <2>3
<1>7. QED
  BY <1>1, <1>3, <1>4, <1>5, <1>6 DEF RemovalInv, Fresh

LEMMA RemovalRests ==
    ASSUME RemovalInv,
           UNCHANGED <<inbox, cur, at, posted, deleted, audited, denied, verdict, refused, gaveUp>>
    PROVE  RemovalInv'
  BY DEF RemovalInv, Fresh, Known, Stance, HandledAt, Accounted, Held

LEMMA PostRemoval ==
    ASSUME QuotaInv, RemovalInv, NEW m \in Msg, Post(m)
    PROVE  RemovalInv'
<1>1. /\ m \notin posted /\ posted' = posted \cup {m}
      /\ UNCHANGED <<cur, at, deleted, audited, denied, verdict, refused, gaveUp>>
  BY DEF Post, historyVars
<1>2. \A n \in Msg : Fresh(n)' <=> Fresh(n)
  BY <1>1 DEF Fresh
<1>3. \A b \in Bot : \A i \in 1 .. Len(inbox'[b]) :
         \/ i \in 1 .. Len(inbox[b]) /\ inbox'[b][i] = inbox[b][i]
         \/ inbox'[b][i] = m
  <2>1. inbox \in [Bot -> Seq(Msg)] /\ Home[m] \in Bot
    BY EdgeAssumption DEF QuotaInv, TypeOK
  <2>2. inbox'[Home[m]] = Append(inbox[Home[m]], m)
    BY <2>1 DEF Post
  <2>3. \A b \in Bot \ {Home[m]} : inbox'[b] = inbox[b]
    BY <2>1 DEF Post
  <2>4. ASSUME NEW i \in 1 .. Len(inbox'[Home[m]])
        PROVE  \/ i \in 1 .. Len(inbox[Home[m]]) /\ inbox'[Home[m]][i] = inbox[Home[m]][i]
               \/ inbox'[Home[m]][i] = m
    BY <2>1, <2>2
  <2>5. QED
    BY <2>3, <2>4
<1>4. ASSUME NEW b \in Bot, NEW i \in 1 .. Len(inbox'[b])
      PROVE  Fresh(inbox'[b][i])
  BY <1>1, <1>3 DEF RemovalInv
<1>5. \A b \in Bot : \A i \in 1 .. Len(inbox'[b]) : Fresh(inbox[b][i])'
  BY <1>1, <1>4 DEF Fresh
<1>6. \A n \in Msg \ posted' : Fresh(n)'
  BY <1>1, <1>2 DEF RemovalInv
<1>7. \A b \in Bot : Stance(b)'
  BY <1>1 DEF RemovalInv, Stance, Fresh, Known
<1>8. \A n \in Msg : Accounted(n)' /\ Held(n)'
  BY <1>1 DEF RemovalInv, Accounted, Held, HandledAt, Known
<1>9. QED
  BY <1>5, <1>6, <1>7, <1>8 DEF RemovalInv

LEMMA TakeRemoval ==
    ASSUME QuotaInv, RemovalInv, NEW b \in Bot, TakeEvent(b)
    PROVE  RemovalInv'
<1> USE DEF QuotaInv, TypeOK
<1>1. /\ UNCHANGED <<posted, deleted, audited, denied, verdict, refused, gaveUp>>
      /\ at[b] = "idle" /\ inbox[b] \in Seq(Msg) /\ inbox[b] # <<>>
      /\ inbox' = [inbox EXCEPT ![b] = Tail(@)]
  BY DEF TakeEvent, msgVars, historyVars
<1>2. \A a \in Bot \ {b} : inbox'[a] = inbox[a] /\ cur'[a] = cur[a] /\ at'[a] = at[a]
  BY <1>1 DEF TakeEvent
<1>3. inbox'[b] = Tail(inbox[b]) /\ Head(inbox[b]) = inbox[b][1] /\ Len(inbox[b]) >= 1
  BY <1>1
<1>4. (at'[b] = "limit" /\ cur'[b] = inbox[b][1]) \/ at'[b] = "idle"
  BY <1>1, <1>3 DEF TakeEvent
<1>5. \A i \in 1 .. Len(inbox'[b]) :
         i + 1 \in 1 .. Len(inbox[b]) /\ inbox'[b][i] = inbox[b][i + 1]
  BY <1>1, <1>3
<1>6. \A n \in Msg \ posted' : Fresh(n)'
  BY <1>1 DEF RemovalInv, Fresh
<1>7. ASSUME NEW a \in Bot, NEW i \in 1 .. Len(inbox'[a])
      PROVE  Fresh(inbox'[a][i])
  <2>1. CASE a = b
    BY <1>5, <2>1 DEF RemovalInv
  <2>2. CASE a # b
    BY <1>2, <2>2 DEF RemovalInv
  <2>3. QED
    BY <2>1, <2>2
<1>8. \A a \in Bot : \A i \in 1 .. Len(inbox'[a]) : Fresh(inbox[a][i])'
  <2>1. \A n : Fresh(n)' <=> Fresh(n)
    BY <1>1 DEF Fresh
  <2>2. TAKE a \in Bot
  <2>3. TAKE i \in 1 .. Len(inbox'[a])
  <2>4. PICK n : n = inbox'[a][i]
    OBVIOUS
  <2>5. Fresh(n)'
    BY <1>7, <2>1, <2>4
  <2>6. QED
    BY <2>4, <2>5 DEF Fresh
<1>9. Stance(b)'
  BY <1>1, <1>3, <1>4 DEF RemovalInv, Stance, Fresh
<1>10. \A a \in Bot \ {b} : Stance(a)'
  BY <1>1, <1>2 DEF RemovalInv, Stance, Fresh, Known
<1>11. ASSUME NEW n \in Msg
       PROVE  Accounted(n)' /\ Held(n)'
  <2>1. Accounted(n) /\ Held(n) /\ Home[n] \in Bot
    BY EdgeAssumption DEF RemovalInv
  <2>2. CASE Home[n] = b
    BY <1>1, <2>1, <2>2 DEF Accounted, Held, HandledAt, Known
  <2>3. CASE Home[n] # b
    BY <1>1, <1>2, <2>1, <2>3 DEF Accounted, Held, HandledAt, Known
  <2>4. QED
    BY <2>2, <2>3
<1>12. QED
  BY <1>6, <1>8, <1>9, <1>10, <1>11 DEF RemovalInv

LEMMA ExitRemoval ==
    ASSUME QuotaInv, RemovalInv, NEW b \in Bot, Exit(b)
    PROVE  RemovalInv'
<1> USE DEF QuotaInv, TypeOK
<1>1. /\ UNCHANGED <<posted, deleted, audited, denied, verdict, refused>>
      /\ gaveUp' = gaveUp \cup InHand(b)
      /\ inbox'[b] = <<>> /\ at'[b] = "idle"
      /\ \A a \in Bot \ {b} : inbox'[a] = inbox[a] /\ cur'[a] = cur[a] /\ at'[a] = at[a]
  BY DEF Exit, msgVars
<1>2. \A n \in Msg : n = cur[b] => n \in gaveUp'
  BY <1>1, EdgeAssumption DEF InHand
<1>3. Len(inbox'[b]) = 0
  BY <1>1
<1>4. /\ \A n \in Msg \ posted' : Fresh(n)'
      /\ \A a \in Bot : \A i \in 1 .. Len(inbox'[a]) : Fresh(inbox[a][i])'
  <2>1. \A n \in Msg \ posted' : Fresh(n)'
    BY <1>1 DEF RemovalInv, Fresh
  <2>2. ASSUME NEW a \in Bot, NEW i \in 1 .. Len(inbox'[a])
        PROVE  Fresh(inbox[a][i])'
    <3>1. a # b /\ inbox'[a] = inbox[a]
      BY <1>1, <1>3, <2>2
    <3>2. Fresh(inbox[a][i])
      BY <2>2, <3>1 DEF RemovalInv
    <3>3. QED
      BY <1>1, <3>1, <3>2 DEF Fresh
  <2>3. QED
    BY <2>1, <2>2
<1>5. \A a \in Bot : Stance(a)'
  <2>1. Stance(b)'
    BY <1>1 DEF Stance
  <2>2. \A a \in Bot \ {b} : Stance(a)'
    BY <1>1 DEF RemovalInv, Stance, Fresh, Known
  <2>3. QED
    BY <2>1, <2>2
<1>6. ASSUME NEW n \in Msg
      PROVE  Accounted(n)' /\ Held(n)'
  <2>1. Accounted(n) /\ Held(n) /\ Home[n] \in Bot
    BY EdgeAssumption DEF RemovalInv
  <2>2. CASE Home[n] = b
    BY <1>1, <1>2, <2>1, <2>2 DEF Accounted, Held, HandledAt, Known
  <2>3. CASE Home[n] # b
    BY <1>1, <2>1, <2>3 DEF Accounted, Held, HandledAt, Known
  <2>4. QED
    BY <2>2, <2>3
<1>7. QED
  BY <1>4, <1>5, <1>6 DEF RemovalInv

\* What a handler does about its message, by where it stands.
LEMMA HandlerRemoval ==
    ASSUME QuotaInv, RemovalInv, NEW b \in Bot, at[b] # "idle", Handle(b)
    PROVE  RemovalInv'
<1>0. PICK m : m = cur[b]
  OBVIOUS
<1>1. /\ m \in Msg /\ Home[m] = b /\ m # NoMsg
      /\ Stance(b) /\ Accounted(m) /\ Held(m)
      /\ at \in [Bot -> Label] /\ cur \in [Bot -> Msg \cup {NoMsg}]
      /\ denied \in [Msg -> Denial \cup {"no"}] /\ verdict \in [Msg -> Decision \cup {"none"}]
  BY <1>0, OwnMessage, EdgeAssumption DEF RemovalInv, QuotaInv, TypeOK
<1>2. \A a \in Bot \ {b} : at'[a] = at[a] /\ cur'[a] = cur[a]
  BY <1>1 DEF Handle, TakeEvent, DropEvent, TakeToken, Download, Consume, Deny, AnalysisFails, Analyze,
     EnforceDecision, Delete, Audit, Goto, Done
<1>3. /\ UNCHANGED <<inbox, posted>>
      /\ gaveUp \subseteq gaveUp' /\ refused \subseteq refused'
  BY DEF Handle, TakeEvent, DropEvent, TakeToken, Download, Consume, Deny, AnalysisFails, Analyze,
     EnforceDecision, Delete, Audit, Goto, Done, msgVars, historyVars
\* A handler that goes on with a fresh message, or leaves it.
<1>4. ASSUME Fresh(m), UNCHANGED <<verdict, denied, deleted, audited>>,
             at'[b] \in {"idle", "download", "consume", "analyze"},
             cur'[b] = m \/ at'[b] = "idle"
      PROVE  RemovalInv'
  <2>1. Stance(b)' /\ Accounted(m)' /\ Held(m)'
    BY <1>1, <1>4 DEF Fresh, Stance, Accounted, Held, Known
  <2>2. QED
    BY <1>0, <1>2, <1>3, <1>4, <2>1, OwnStep
<1>5. CASE DropEvent(b)
  BY <1>0, <1>1, <1>4, <1>5 DEF DropEvent, Done, Stance, msgVars
<1>6. CASE TakeToken(b) \/ Download(b)
  <2>1. /\ at[b] \in {"limit", "download"}
        /\ \E label \in {"download", "consume"} : at' = [at EXCEPT ![b] = label]
        /\ UNCHANGED <<cur, verdict, denied, deleted, audited>>
    BY <1>6 DEF TakeToken, Download, msgVars, historyVars
  <2>2. QED
    BY <1>0, <1>1, <1>4, <2>1 DEF Stance
<1>7. CASE Consume(b)
  <2>1. Fresh(m) /\ UNCHANGED <<verdict, deleted, audited, refused, gaveUp>>
    BY <1>0, <1>1, <1>7 DEF Consume, Stance, msgVars
  <2>2. CASE Goto(b, "analyze") /\ UNCHANGED denied
    BY <1>0, <1>1, <1>4, <2>1, <2>2 DEF Goto
  <2>3. ASSUME NEW why \in Denial, Deny(b, why)
        PROVE  RemovalInv'
    <3>1. denied' = [denied EXCEPT ![m] = why] /\ denied'[m] # "no"
      BY <1>0, <1>1, <2>3 DEF Deny, Denial
    <3>2. CASE b \in Enforcing
      <4>1. at'[b] = "delete" /\ cur'[b] = m
        BY <1>0, <1>1, <2>3, <3>2 DEF Deny, Goto
      <4>2. Stance(b)' /\ Accounted(m)' /\ Held(m)'
        BY <1>1, <2>1, <3>1, <4>1
           DEF Fresh, Stance, Accounted, Held, HandledAt, Known
      <4>3. QED
        BY <1>0, <1>1, <1>2, <1>3, <2>1, <3>1, <4>2, OwnStep
    <3>3. CASE b \notin Enforcing
      <4>1. at'[b] = "idle"
        BY <1>1, <2>3, <3>3 DEF Deny, Done
      <4>2. Stance(b)' /\ Accounted(m)' /\ Held(m)'
        BY <1>1, <2>1, <3>1, <3>3, <4>1
           DEF Fresh, Stance, Accounted, Held, HandledAt, Known
      <4>3. QED
        BY <1>0, <1>1, <1>2, <1>3, <2>1, <3>1, <4>2, OwnStep
    <3>4. QED
      BY <3>2, <3>3
  <2>4. QED
    BY <1>7, <2>2, <2>3 DEF Consume, Denial
<1>8. CASE AnalysisFails(b)
  BY <1>0, <1>1, <1>4, <1>8 DEF AnalysisFails, Done, Stance, msgVars
<1>9. ASSUME NEW d \in Decision, Analyze(b, d)
      PROVE  RemovalInv'
  <2>1. /\ Fresh(m) /\ verdict' = [verdict EXCEPT ![m] = d]
        /\ UNCHANGED <<denied, deleted, audited>> /\ at'[b] = "enforce" /\ cur'[b] = m
    BY <1>0, <1>1, <1>9 DEF Analyze, Goto, Stance, msgVars
  <2>2. Stance(b)' /\ Accounted(m)' /\ Held(m)'
    BY <1>1, <2>1 DEF Fresh, Stance, Accounted, Held, HandledAt
  <2>3. QED
    BY <1>0, <1>1, <1>2, <1>3, <2>1, <2>2, OwnStep
<1>10. CASE EnforceDecision(b)
  <2>1. /\ denied[m] = "no" /\ m \notin deleted
        /\ UNCHANGED <<verdict, denied, deleted, audited, gaveUp>>
    BY <1>0, <1>1, <1>10 DEF EnforceDecision, Stance, msgVars, historyVars
  <2>2. \/ at'[b] = "delete" /\ cur'[b] = m /\ verdict[m] = "BLOCK"
        \/ at'[b] = "idle" /\ (b \notin Enforcing \/ verdict[m] # "BLOCK")
    BY <1>0, <1>1, <1>10 DEF EnforceDecision, Goto, Done
  <2>3. Stance(b)' /\ Accounted(m)' /\ Held(m)'
    BY <1>1, <2>1, <2>2 DEF Stance, Accounted, Held, HandledAt, Known
  <2>4. QED
    BY <1>0, <1>2, <1>3, <2>1, <2>3, OwnStep
<1>11. CASE Delete(b)
  <2>1. /\ Known(m) /\ m \notin deleted /\ UNCHANGED <<verdict, denied, audited>>
        /\ at[b] = "delete"
    BY <1>0, <1>1, <1>11 DEF Delete, Stance
  <2>2. \/ deleted' = deleted \cup {m} /\ at'[b] = "audit" /\ cur'[b] = m
        \/ /\ refused' = refused \cup {m} /\ at'[b] = "idle"
           /\ deleted' = deleted \/ deleted' = deleted \cup {m}
    BY <1>0, <1>1, <1>11 DEF Delete, Goto, Done
  <2>3. Stance(b)' /\ Accounted(m)' /\ Held(m)'
    BY <1>1, <2>1, <2>2 DEF Stance, Accounted, Held, HandledAt, Known
  <2>4. \A n \in Msg \ {m} : n \in deleted' <=> n \in deleted
    BY <2>2
  <2>5. QED
    BY <1>0, <1>2, <1>3, <2>1, <2>3, <2>4, OwnStep
<1>12. CASE Audit(b)
  <2>1. /\ m \in deleted /\ audited' = audited \cup {m} /\ at'[b] = "idle"
        /\ UNCHANGED <<verdict, denied, deleted>>
    BY <1>0, <1>1, <1>12 DEF Audit, Done, Stance, historyVars
  <2>2. Stance(b)' /\ Accounted(m)' /\ Held(m)'
    BY <1>1, <2>1 DEF Stance, Accounted, Held, Known
  <2>3. QED
    BY <1>0, <1>2, <1>3, <2>1, <2>2, OwnStep
<1>13. QED
  BY <1>5, <1>6, <1>7, <1>8, <1>9, <1>10, <1>11, <1>12 DEF Handle, TakeEvent

LEMMA RemovalInductive ==
    ASSUME QuotaInv, RemovalInv, [Next]_vars
    PROVE  RemovalInv'
<1>1. ASSUME NEW m \in Msg, Post(m)
      PROVE  RemovalInv'
  BY <1>1, PostRemoval
<1>2. ASSUME NEW b \in Bot, Handle(b)
      PROVE  RemovalInv'
  <2>1. CASE at[b] = "idle"
    BY <1>2, <2>1, TakeRemoval DEF Handle, TakeEvent, DropEvent, TakeToken, Download, Consume,
       AnalysisFails, Analyze, EnforceDecision, Delete, Audit
  <2>2. CASE at[b] # "idle"
    BY <1>2, <2>2, HandlerRemoval
  <2>3. QED
    BY <2>1, <2>2
<1>3. ASSUME NEW b \in Bot, NEW success \in BOOLEAN,
             Elapse(b) \/ TokenExpires(b) \/ Terminate(b) \/ Moderate(b, success)
      PROVE  RemovalInv'
  BY <1>3, RemovalRests
     DEF Elapse, TokenExpires, Terminate, Moderate, botVars, msgVars, historyVars
<1>4. ASSUME NEW b \in Bot, Exit(b)
      PROVE  RemovalInv'
  BY <1>4, ExitRemoval
<1>5. CASE UNCHANGED vars
  BY <1>5, RemovalRests DEF vars, botVars, msgVars, historyVars
<1>6. QED
  BY <1>1, <1>2, <1>3, <1>4, <1>5 DEF Next

LEMMA RemovalInvariant == Spec => [](QuotaInv /\ RemovalInv)
<1>1. Init => RemovalInv
  BY DEF Init, RemovalInv, Fresh, Stance, Accounted, Held, Known
<1>2. QuotaInv /\ RemovalInv /\ [Next]_vars => RemovalInv'
  BY RemovalInductive
<1>3. QED
  BY <1>1, <1>2, QuotaInvariant, PTL DEF Spec

\* Whatever is removed was blocked or denied, and is audited unless Discord answered
\* the deletion with an error or the process ended in between: for any number of
\* bots, whoever loses an answer, a token or its process (EnforceDecision and
\* handleMessage).
THEOREM RemovalsAreAccounted == Spec => []RemovalIsAccounted
<1>1. QuotaInv /\ RemovalInv => RemovalIsAccounted
  <2> SUFFICES ASSUME QuotaInv, RemovalInv, NEW m \in Msg
               PROVE  /\ m \in audited => m \in deleted
                      /\ m \in deleted =>
                            /\ verdict[m] = "BLOCK" \/ denied[m] # "no"
                            /\ \/ m \in audited \cup refused \cup gaveUp
                               \/ \E b \in Bot : cur[b] = m /\ at[b] = "audit"
      BY DEF RemovalIsAccounted, QuotaInv, TypeOK
  <2>1. Accounted(m) /\ Home[m] \in Bot
    BY EdgeAssumption DEF RemovalInv
  <2>2. QED
    BY <2>1 DEF Accounted, HandledAt, Known
<1>2. QED
  BY <1>1, RemovalInvariant, PTL

\* An enforcing bot that has learned of a block or a denial has removed the
\* message, is about to, or gave it up to Discord or to its own end.
THEOREM BlocksAreRemoved == Spec => []BlockedIsRemoved
<1>1. QuotaInv /\ RemovalInv => BlockedIsRemoved
  <2> SUFFICES ASSUME RemovalInv, NEW m \in Msg, Home[m] \in Enforcing, Known(m)
               PROVE  m \in deleted \cup refused \cup gaveUp \cup InHand(Home[m])
      BY DEF BlockedIsRemoved, Known
  <2>1. Held(m) /\ m # NoMsg
    BY EdgeAssumption DEF RemovalInv
  <2>2. QED
    BY <2>1 DEF Held, HandledAt, InHand
<1>2. QED
  BY <1>1, RemovalInvariant, PTL
=============================================================================
