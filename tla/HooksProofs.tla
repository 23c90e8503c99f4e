---------------------------- MODULE HooksProofs ----------------------------
(***************************************************************************)
(* The hooks after an answer and the URL gate before it, for any contents, *)
(* calls, events and goroutines, and any number of stops of the Engine.    *)
(***************************************************************************)
EXTENDS Hooks, UrlSafety, TLAPS

\* The gate alone.
UrlSpec == UrlInit /\ [][UrlNext]_urlVars

\* A call of UpdateStatus is made once, so what it was told stays; only the call
\* itself releases.
DecidedOnce ==
    /\ \A p \in Updater : stage[p] = "idle" => decision[p] = "none"
    /\ ReleasedOnlyIfAllowed

\* What the tracker's one error says of the calls that have not read it: an error
\* is the call's own, or came while the call was under way; and without one a
\* call's own error was wiped out.
TrackerOK ==
    tracked => \A e \in Event :
        /\ emit[e] \in {"idle", "log"} => e \notin logged
        /\ emit[e] = "log" /\ lastError => e \in blamed
        /\ emit[e] \in {"check", "refused"} /\ lastError => e \notin logged \/ e \in blamed
        /\ emit[e] = "refused" => e \notin logged \/ e \in blamed
        /\ emit[e] = "check" /\ ~lastError => e \in logged \cup cleared
        /\ emit[e] \in {"passed", "stored"} => e \in logged \cup cleared

HooksInv == TypeOK /\ DecidedOnce /\ TrackerOK
-----------------------------------------------------------------------------
(* The quarantine.                                                         *)

LEMMA UpdaterIsNoAsker == \A p \in Updater : p \in Call /\ p \notin Asker
BY QuarantineAssumption DEF QuarantineAssumption, Call

LEMMA QuarantineTypes ==
    ASSUME QuarantineTypeOK,
           \/ \E p \in Asker : Ask(p)
           \/ \E p \in Updater, d \in {"ALLOW", "BLOCK"} : Update(p, d)
           \/ \E p \in Call : Get(p) \/ Set(p)
           \/ \E c \in Content : Expire(c)
    PROVE  QuarantineTypeOK'
<1>1. ASSUME NEW p \in Asker, Ask(p)
      PROVE  QuarantineTypeOK'
  BY <1>1 DEF Ask, QuarantineTypeOK, Call
<1>2. ASSUME NEW p \in Updater, NEW d \in {"ALLOW", "BLOCK"}, Update(p, d)
      PROVE  QuarantineTypeOK'
  BY <1>2 DEF Update, QuarantineTypeOK, Call
<1>3. ASSUME NEW p \in Call, Get(p)
      PROVE  QuarantineTypeOK'
  BY <1>3, QuarantineAssumption
     DEF Get, GoesOn, Return, QuarantineTypeOK, QuarantineAssumption, State, Terminal
<1>4. ASSUME NEW p \in Call, Set(p)
      PROVE  QuarantineTypeOK'
  <2>1. /\ entry' \in [Content -> State] /\ UNCHANGED decision
    BY <1>4, QuarantineAssumption
       DEF Set, Settled, QuarantineTypeOK, QuarantineAssumption, State, Terminal
  <2>2. QED
    BY <1>4, <2>1 DEF Set, Return, QuarantineTypeOK, State
<1>5. ASSUME NEW c \in Content, Expire(c)
      PROVE  QuarantineTypeOK'
  BY <1>5 DEF Expire, QuarantineTypeOK, State
<1>6. QED
  BY <1>1, <1>2, <1>3, <1>4, <1>5

LEMMA QuarantineDecided ==
    ASSUME QuarantineTypeOK, DecidedOnce,
           \/ \E p \in Asker : Ask(p)
           \/ \E p \in Updater, d \in {"ALLOW", "BLOCK"} : Update(p, d)
           \/ \E p \in Call : Get(p) \/ Set(p)
           \/ \E c \in Content : Expire(c)
    PROVE  DecidedOnce'
<1> USE DEF DecidedOnce, ReleasedOnlyIfAllowed, QuarantineTypeOK
<1>1. ASSUME NEW p \in Asker, Ask(p)
      PROVE  DecidedOnce'
  BY <1>1, UpdaterIsNoAsker DEF Ask
<1>2. ASSUME NEW p \in Updater, NEW d \in {"ALLOW", "BLOCK"}, Update(p, d)
      PROVE  DecidedOnce'
  BY <1>2, UpdaterIsNoAsker DEF Update
<1>3. ASSUME NEW p \in Call, Get(p)
      PROVE  DecidedOnce'
  BY <1>3, UpdaterIsNoAsker DEF Get, Return
<1>4. ASSUME NEW p \in Call, Set(p)
      PROVE  DecidedOnce'
  <2>1. \A q \in Updater : stage'[q] = "idle" => decision'[q] = "none"
    BY <1>4, UpdaterIsNoAsker DEF Set, Return
  <2>2. ASSUME NEW c \in Content, entry'[c] = "RELEASED", entry[c] # "RELEASED"
        PROVE  For[p] = c /\ p \in Updater /\ decision[p] = "ALLOW"
    <3>1. /\ For[p] = c
          /\ entry'[c] = IF p \in Asker THEN "PENDING" ELSE Settled(decision[p])
      BY <1>4, <2>2 DEF Set
    <3>2. QED
      BY <2>2, <3>1 DEF Settled, Call
  <2>3. QED
    BY <1>4, <2>1, <2>2 DEF Set
<1>5. ASSUME NEW c \in Content, Expire(c)
      PROVE  DecidedOnce'
  BY <1>5 DEF Expire
<1>6. QED
  BY <1>1, <1>2, <1>3, <1>4, <1>5
-----------------------------------------------------------------------------
(* The audit.                                                              *)

LEMMA AuditTypes ==
    ASSUME AuditTypeOK, NEW e \in Event, Emit(e) \/ Log(e) \/ Check(e) \/ Store(e)
    PROVE  AuditTypeOK'
<1>1. CASE Emit(e)
  <2>1. CASE tracked /\ lastError' = FALSE
             /\ cleared' = cleared \cup {f \in Event : emit[f] = "check" /\ f \notin logged}
    <3>1. emit' \in [Event -> {"idle", "log", "check", "passed", "refused", "stored", "cut"}]
      BY <1>1 DEF Emit, At, AuditTypeOK
    <3>2. {logged', cleared', blamed'} \subseteq SUBSET Event
      BY <1>1, <2>1 DEF Emit, AuditTypeOK
    <3>3. lastError' \in BOOLEAN /\ ~lastError'
      BY <2>1
    <3>4. QED
      BY <1>1, <3>1, <3>2, <3>3 DEF Emit, AuditTypeOK
  <2>2. CASE UNCHANGED <<lastError, cleared>>
    BY <1>1, <2>2 DEF Emit, At, AuditTypeOK
  <2>3. QED
    BY <1>1, <2>1, <2>2 DEF Emit
<1>2. CASE Log(e)
  BY <1>2 DEF Log, At, AuditTypeOK
<1>3. CASE Check(e) \/ Store(e)
  BY <1>3 DEF Check, Store, At, AuditTypeOK
<1>4. QED
  BY <1>1, <1>2, <1>3

LEMMA AuditTracked ==
    ASSUME AuditTypeOK, TrackerOK, NEW e \in Event,
           Emit(e) \/ Log(e) \/ Check(e) \/ Store(e)
    PROVE  TrackerOK'
<1> SUFFICES ASSUME tracked, UNCHANGED tracked
             PROVE  TrackerOK'
  BY DEF TrackerOK, Emit, Log, Check, Store
<1> USE DEF TrackerOK, AuditTypeOK, At
<1>1. CASE Emit(e)
  BY <1>1 DEF Emit
<1>2. CASE Log(e)
  BY <1>2 DEF Log
<1>3. CASE Check(e)
  BY <1>3 DEF Check
<1>4. CASE Store(e)
  BY <1>4 DEF Store
<1>5. QED
  BY <1>1, <1>2, <1>3, <1>4
-----------------------------------------------------------------------------
(* Together.                                                               *)

LEMMA InitHooks == Init => HooksInv
<1> SUFFICES ASSUME Init
             PROVE  HooksInv
    OBVIOUS
<1> USE DEF Init, QuarantineInit, AuditInit
<1>1. TypeOK
  <2>1. QuarantineTypeOK
    BY DEF QuarantineTypeOK, State
  <2>2. AuditTypeOK
    BY DEF AuditTypeOK
  <2>3. stops \in 0 .. MaxStops
    BY HooksAssumption DEF HooksAssumption
  <2>4. QED
    BY <2>1, <2>2, <2>3 DEF TypeOK
<1>2. DecidedOnce
  BY DEF DecidedOnce, ReleasedOnlyIfAllowed
<1>3. TrackerOK
  BY DEF TrackerOK
<1>4. QED
  BY <1>1, <1>2, <1>3 DEF HooksInv

LEMMA StopHooks ==
    ASSUME HooksInv, Stop
    PROVE  HooksInv'
<1> USE DEF HooksInv, TypeOK, Stop
<1>1. QuarantineTypeOK'
  BY DEF QuarantineTypeOK, State, Call
<1>2. AuditTypeOK' /\ stops' \in 0 .. MaxStops
  <2>1. emit' \in [Event -> {"idle", "log", "check", "passed", "refused", "stored", "cut"}]
    BY DEF AuditTypeOK
  <2>2. lastError' \in BOOLEAN /\ ~lastError'
    OBVIOUS
  <2>3. stops' \in 0 .. MaxStops
    BY HooksAssumption DEF HooksAssumption
  <2>4. QED
    BY <2>1, <2>2, <2>3 DEF AuditTypeOK
<1>3. DecidedOnce'
  BY UpdaterIsNoAsker DEF DecidedOnce, ReleasedOnlyIfAllowed
<1>4. TrackerOK'
  BY DEF TrackerOK, AuditTypeOK
<1>5. QED
  BY <1>1, <1>2, <1>3, <1>4

LEMMA NextHooks ==
    ASSUME HooksInv, [Next]_vars
    PROVE  HooksInv'
<1> DEFINE Quarantines ==
              \/ \E p \in Asker : Ask(p)
              \/ \E p \in Updater, d \in {"ALLOW", "BLOCK"} : Update(p, d)
              \/ \E p \in Call : Get(p) \/ Set(p)
              \/ \E c \in Content : Expire(c)
           Audits == \E e \in Event : Emit(e) \/ Log(e) \/ Check(e) \/ Store(e)
<1>1. Quarantines => QuarantineTypeOK' /\ DecidedOnce'
  BY QuarantineTypes, QuarantineDecided DEF HooksInv, TypeOK
<1>2. Audits => AuditTypeOK' /\ TrackerOK'
  BY AuditTypes, AuditTracked DEF HooksInv, TypeOK
<1>3. UNCHANGED quarantineVars => QuarantineTypeOK' /\ DecidedOnce'
  BY DEF HooksInv, TypeOK, QuarantineTypeOK, DecidedOnce, ReleasedOnlyIfAllowed,
         quarantineVars
<1>4. UNCHANGED auditVars => AuditTypeOK' /\ TrackerOK'
  BY DEF HooksInv, TypeOK, AuditTypeOK, TrackerOK, auditVars
<1>5. CASE Stop
  BY <1>5, StopHooks
<1>6. CASE /\ Quarantines \/ UNCHANGED quarantineVars
           /\ Audits \/ UNCHANGED auditVars
           /\ UNCHANGED stops
  <2>1. stops' \in 0 .. MaxStops
    BY <1>6 DEF HooksInv, TypeOK
  <2> HIDE DEF Quarantines, Audits
  <2>2. QED
    BY <1>1, <1>2, <1>3, <1>4, <1>6, <2>1 DEF HooksInv, TypeOK
<1>7. ASSUME NEW a \in Updater, NEW d \in {"ALLOW", "BLOCK"}, FireHooks(a, d)
      PROVE  Quarantines /\ Audits /\ UNCHANGED stops
  BY <1>7, HooksAssumption DEF FireHooks, HooksAssumption
<1>8. QED
  BY <1>5, <1>6, <1>7 DEF Next, Step, Goroutine, Timeout, vars

LEMMA HooksInvariant == Spec => []HooksInv
<1>1. HooksInv /\ [Next]_vars => HooksInv'
  BY NextHooks
<1>2. QED
  BY <1>1, InitHooks, PTL DEF Spec

\* The entries, the calls and the audit keep their types across any number of
\* stops of the Engine (quarantine.go, emitter.go).
THEOREM HooksTypeCorrect == Spec => []TypeOK
BY HooksInvariant, PTL DEF HooksInv

\* Content leaves quarantine only by an ALLOW for it or because its entry expired,
\* in every interleaving of Quarantine, UpdateStatus, expiry and a stop
\* (quarantine.go).
THEOREM ReleasesAreAllowed == Spec => []ReleasedOnlyIfAllowed
BY HooksInvariant, PTL DEF HooksInv, DecidedOnce

\* The tracker of audit events reports a call's own failure, but for the calls
\* that overlap (emitter.go, MultiEmitter and errorTracker).
THEOREM ReportsAreOwn == Spec => []ReportIsOwn
<1>1. HooksInv => ReportIsOwn
  BY DEF HooksInv, TrackerOK, ReportIsOwn
<1>2. QED
  BY <1>1, HooksInvariant, PTL

\* A settled entry is written over only by a call that read it before it was
\* settled.
THEOREM SettledSurvives == Spec => TerminalSurvives
<1> DEFINE Survives ==
      \A c \in Content :
          entry[c] \in Terminal /\ entry'[c] \notin {entry[c], "none"} =>
              \E p \in Call : For[p] = c /\ stage[p] = "set" /\ seen[p] # entry[c]
<1>1. ASSUME HooksInv, NEW p \in Call, Set(p)
      PROVE  Survives
  <2>1. stage[p] = "set" /\ seen[p] \notin Terminal
    BY <1>1 DEF Set, HooksInv, TypeOK, QuarantineTypeOK
  <2>2. \A c \in Content : entry'[c] # entry[c] => For[p] = c
    BY <1>1 DEF Set, HooksInv, TypeOK, QuarantineTypeOK
  <2>3. QED
    BY <2>1, <2>2
<1>2. ASSUME HooksInv, NEW c \in Content, Expire(c)
      PROVE  Survives
  BY <1>2 DEF Expire, HooksInv, TypeOK, QuarantineTypeOK
<1>3. UNCHANGED entry => Survives
  OBVIOUS
<1>4. HooksInv /\ [Next]_vars => [Survives]_quarantineVars
  <2> SUFFICES ASSUME HooksInv, [Next]_vars
               PROVE  Survives
      OBVIOUS
  <2> HIDE DEF Survives
  <2>1. QED
    BY <1>1, <1>2, <1>3
       DEF Next, FireHooks, Update, Ask, Step, Get, Goroutine, Timeout, Stop,
           quarantineVars, vars
<1>5. QED
  BY <1>4, HooksInvariant, PTL DEF Spec, TerminalSurvives
-----------------------------------------------------------------------------
(* The URL gate.                                                           *)

\* A "safe" cached after the warning was fetched before it.
WarningKept == warned /\ cached = "safe" => outdated

LEMMA UrlInvariant == UrlSpec => [](UrlTypeOK /\ WarningKept)
<1>1. UrlInit => UrlTypeOK /\ WarningKept
  <2> SUFFICES ASSUME UrlInit
               PROVE  UrlTypeOK /\ WarningKept
      OBVIOUS
  <2>1. warned \in BOOLEAN /\ outdated \in BOOLEAN /\ WarningKept
    BY DEF UrlInit, WarningKept
  <2>2. turns \in 0 .. MaxTurns
    BY UrlSafetyAssumption DEF UrlInit, UrlSafetyAssumption
  <2>3. QED
    BY <2>1, <2>2 DEF UrlInit, UrlTypeOK, Reputation
<1>2. UrlTypeOK /\ WarningKept /\ [UrlNext]_urlVars => UrlTypeOK' /\ WarningKept'
  <2> SUFFICES ASSUME UrlTypeOK, WarningKept, [UrlNext]_urlVars
               PROVE  UrlTypeOK' /\ WarningKept'
      OBVIOUS
  <2> USE DEF UrlTypeOK, WarningKept, Reputation
  <2>1. CASE Turn
    <3>1. turns' \in 0 .. MaxTurns
      BY <2>1, UrlSafetyAssumption DEF Turn, UrlSafetyAssumption
    <3>2. warned' \in BOOLEAN /\ outdated' \in BOOLEAN /\ WarningKept'
      BY <2>1 DEF Turn
    <3>3. QED
      BY <2>1, <3>1, <3>2 DEF Turn, checkVars
  <2>2. CASE Forget
    BY <2>2 DEF Forget, checkVars
  <2>3. ASSUME NEW k \in Checker, CheckURL(k)
        PROVE  UrlTypeOK' /\ WarningKept'
    BY <2>3 DEF CheckURL
  <2>4. ASSUME NEW k \in Checker, ReadCache(k)
        PROVE  UrlTypeOK' /\ WarningKept'
    BY <2>4 DEF ReadCache, Conclude
  <2>5. ASSUME NEW k \in Checker, SearchUris(k)
        PROVE  UrlTypeOK' /\ WarningKept'
    BY <2>5 DEF SearchUris, Conclude
  <2>6. ASSUME NEW k \in Checker, Cache(k)
        PROVE  UrlTypeOK' /\ WarningKept'
    <3>1. threat[k] \in Reputation
      BY <2>6 DEF Cache
    <3>2. /\ checking' \in [Checker -> {"idle", "cache", "search", "store"}]
          /\ threat' \in [Checker -> Reputation \cup {"none"}]
          /\ answer' \in [Checker -> Reputation \cup {"none", "unavailable"}]
          /\ \A q \in Checker : checking'[q] = "store" <=> threat'[q] # "none"
      BY <2>6, <3>1 DEF Cache, Conclude
    <3>3. /\ cached' \in Reputation \cup {"none"}
          /\ warned' \in BOOLEAN /\ outdated' \in BOOLEAN
      BY <2>6, <3>1 DEF Cache
    <3>4. WarningKept'
      <4>1. CASE UNCHANGED <<cached, warned, outdated>>
        BY <4>1
      <4>2. CASE threat[k] = "malicious" /\ cached' = threat[k]
        BY <4>2
      <4>3. CASE /\ threat[k] = "safe" /\ cached' = threat[k]
                 /\ warned' = (warned \/ (threat[k] = "malicious" /\ reputation = "malicious"))
                 /\ outdated' = (warned /\ (outdated \/ threat[k] = "safe"))
        <5>1. (threat[k] = "safe") = TRUE /\ (threat[k] = "malicious") = FALSE
          BY <4>3
        <5>2. outdated' = warned /\ warned' = warned
          BY <4>3, <5>1
        <5>3. QED
          BY <5>2
      <4>4. QED
        BY <2>6, <3>1, <4>1, <4>2, <4>3 DEF Cache
    <3>5. QED
      BY <2>6, <3>2, <3>3, <3>4 DEF Cache
  <2>7. CASE UNCHANGED urlVars
    BY <2>7 DEF urlVars, checkVars
  <2>8. QED
    BY <2>1, <2>2, <2>3, <2>4, <2>5, <2>6, <2>7 DEF UrlNext, CheckStep
<1>3. QED
  BY <1>1, <1>2, PTL DEF UrlSpec

\* A check that is storing has a verdict of Web Risk, and no other check has one
\* (CheckURL).
THEOREM UrlTypeCorrect == UrlSpec => []UrlTypeOK
BY UrlInvariant, PTL

\* Once its threat is cached, a URL passes again only by a verdict fetched before
\* it turned malicious, however many checks race and whatever fails (CheckURL).
THEOREM ThreatsStay == UrlSpec => ThreatStays
<1> DEFINE Stays ==
      \A k \in Checker :
          warned /\ answer[k] # "safe" /\ answer'[k] = "safe" =>
              outdated' \/ threat[k] = "safe"
<1>1. UrlTypeOK /\ WarningKept /\ [UrlNext]_urlVars => [Stays]_urlVars
  <2> SUFFICES ASSUME UrlTypeOK, WarningKept, [UrlNext]_urlVars, NEW k \in Checker,
                      warned, answer[k] # "safe", answer'[k] = "safe"
               PROVE  outdated' \/ threat[k] = "safe"
      OBVIOUS
  <2> USE DEF UrlTypeOK, Conclude
  <2>1. ASSUME NEW q \in Checker, ReadCache(q)
        PROVE  outdated'
    BY <2>1 DEF ReadCache, WarningKept
  <2>2. ASSUME NEW q \in Checker, Cache(q)
        PROVE  threat[k] = "safe"
    BY <2>2 DEF Cache
  <2>3. ASSUME NEW q \in Checker, CheckURL(q) \/ SearchUris(q)
        PROVE  FALSE
    BY <2>3 DEF CheckURL, SearchUris
  <2>4. QED
    BY <2>1, <2>2, <2>3 DEF UrlNext, CheckStep, Turn, Forget, checkVars, urlVars
<1>2. QED
  BY <1>1, UrlInvariant, PTL DEF UrlSpec, ThreatStays
=============================================================================
