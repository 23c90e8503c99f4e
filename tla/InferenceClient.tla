-------------------------- MODULE InferenceClient --------------------------
(***************************************************************************)
(* The Engine's client of the Inference service,                           *)
(* engine/analyzer/inference_client.go: up to three attempts per call, and *)
(* around them one circuit breaker (sony/gobreaker, which is external)     *)
(* shared by all callers.                                                  *)
(*                                                                         *)
(* Time is a flag: the period of the breaker's present generation - the    *)
(* 60 s of closed counting, the 15 s of an open breaker - has run out.     *)
(* The breaker looks at it only when a call begins or ends.  Generations   *)
(* need no number: `counted` holds the calls of the present one.           *)
(***************************************************************************)
EXTENDS InferenceRPC

CONSTANTS
    Attempts,          \* len(backoffs): 3
    FailureThreshold,  \* consecutive failures that open the breaker: 8
    MinRequests,       \* requests before the failure rate counts: 10
    RatePercent,       \* the failure rate that opens it, in percent: 40
    HalfOpenMaxCalls,  \* probes of a half-open breaker: 3
    MaxRequests        \* bound on the calls one generation counts

ASSUME InferenceClientAssumption ==
    /\ {Attempts, FailureThreshold, MinRequests, HalfOpenMaxCalls} \subseteq Nat \ {0}
    /\ RatePercent \in Nat
    /\ MaxRequests \in Nat /\ MaxRequests >= HalfOpenMaxCalls

VARIABLES
    state,    \* of the breaker
    expired,  \* its present period has run out
    counts,   \* gobreaker.Counts
    counted,  \* the running calls that count for the present generation
    call,     \* where each call stands
    attempt   \* which attempt it is at

breakerVars == <<state, expired, counts, counted>>
clientVars == <<breakerVars, call, attempt>>

\* Consecutive successes are read in the half-open state only, and only kept there.
NoCounts == [requests |-> 0, failures |-> 0, inARow |-> 0, successes |-> 0]

ClientInit ==
    /\ state = "closed" /\ expired = FALSE
    /\ counts = NoCounts /\ counted = {}
    /\ call = [c \in Caller |-> "idle"]
    /\ attempt = [c \in Caller |-> 1]
-----------------------------------------------------------------------------
(* The breaker.                                                            *)

\* Mutant: the threshold is overshot.
TripsLate(n) == n.inARow > FailureThreshold

ReadyToTrip(n) ==
    \/ n.inARow >= FailureThreshold
    \/ n.requests >= MinRequests /\ n.failures * 100 >= RatePercent * n.requests

\* currentState: an expired generation is over as soon as anyone looks.
Present ==
    [state |-> IF state = "open" /\ expired THEN "half-open" ELSE state,
     fresh |-> expired]

\* Mutant: the generation of a call is not compared.
CountedAny == {c \in Caller : call[c] # "idle"}

Counted == IF Present.fresh THEN {} ELSE counted
Counts == IF Present.fresh THEN NoCounts ELSE counts

\* A half-open breaker waits for its probes, without a period.
Expire ==
    /\ state # "half-open" /\ ~expired
    /\ expired' = TRUE
    /\ UNCHANGED <<state, counts, counted, call, attempt>>

Generation(s) == state' = s /\ expired' = FALSE /\ counts' = NoCounts /\ counted' = {}

\* beforeRequest, for a call it lets through.
Admit(c) ==
    /\ \/ Present.state = "closed" /\ Counts.requests < MaxRequests
       \/ Present.state = "half-open" /\ Counts.requests < HalfOpenMaxCalls
    /\ state' = Present.state /\ expired' = FALSE
    /\ counts' = [Counts EXCEPT !.requests = @ + 1]
    /\ counted' = Counted \cup {c}

\* afterRequest: onSuccess and onFailure for a call of the present generation,
\* nothing for one of an earlier generation.
Late(c) ==
    /\ c \notin Counted
    /\ state' = Present.state /\ expired' = FALSE
    /\ counts' = Counts /\ counted' = Counted

\* Mutant: a half-open breaker waits for one success more than it admits.
SucceededGreater(c) ==
    /\ c \in Counted
    /\ counts' = [counts EXCEPT !.inARow = 0, !.successes = @ + 1]
    /\ counted' = counted \ {c} /\ UNCHANGED <<state, expired>>

Succeeded(c) ==
    /\ c \in Counted
    /\ LET n == [counts EXCEPT !.inARow = 0, !.successes =
                                  IF state = "half-open" THEN @ + 1 ELSE 0]
       IN  \/ n.successes < HalfOpenMaxCalls
              /\ counts' = n /\ counted' = counted \ {c} /\ UNCHANGED <<state, expired>>
           \/ n.successes >= HalfOpenMaxCalls /\ Generation("closed")

Failed(c) ==
    /\ c \in Counted
    /\ LET n == [counts EXCEPT !.failures = @ + 1, !.inARow = @ + 1]
           trips == state = "half-open" \/ ReadyToTrip(n)
       IN  \/ trips /\ Generation("open")
           \/ ~trips /\ counts' = n /\ counted' = counted \ {c}
              /\ UNCHANGED <<state, expired>>

AfterRequest(c, success) ==
    Late(c) \/ (success /\ Succeeded(c)) \/ (~success /\ Failed(c))
-----------------------------------------------------------------------------
(* Analyze and analyzeWithRetry.                                           *)

\* ErrOpenState, ErrTooManyRequests: a BLOCK result with the breaker's error, at
\* which the pipeline looks first.
Refuse(c) ==
    /\ call[c] = "idle"
    /\ \/ Present.state = "open"
       \/ Present.state = "half-open" /\ Counts.requests >= HalfOpenMaxCalls
    /\ UNCHANGED clientVars

Analyze(c) ==
    /\ call[c] = "idle"
    /\ Admit(c)
    /\ call' = [call EXCEPT ![c] = "ready"]
    /\ attempt' = [attempt EXCEPT ![c] = 1]

Leave(c, success) ==
    /\ AfterRequest(c, success)
    /\ call' = [call EXCEPT ![c] = "idle"]
    /\ attempt' = [attempt EXCEPT ![c] = 1]

\* An attempt goes out, after its backoff.
Send(c) ==
    /\ call[c] = "ready"
    /\ call' = [call EXCEPT ![c] = "waiting"]
    /\ UNCHANGED <<breakerVars, attempt>>

\* Mutant: one attempt too many.
RetryOnceMore(c) ==
    /\ call[c] = "waiting"
    /\ \/ /\ attempt[c] <= Attempts
          /\ call' = [call EXCEPT ![c] = "ready"]
          /\ attempt' = [attempt EXCEPT ![c] = @ + 1]
          /\ UNCHANGED breakerVars
       \/ attempt[c] > Attempts /\ Leave(c, FALSE)

\* Mutant: any error is worth another attempt, for ever.
RetryForever(c) ==
    /\ call[c] = "waiting"
    /\ call' = [call EXCEPT ![c] = "ready"]
    /\ UNCHANGED <<breakerVars, attempt>>

\* The attempt failed and may be made again; the last one fails the call.
Retry(c) ==
    /\ call[c] = "waiting"
    /\ \/ /\ attempt[c] < Attempts
          /\ call' = [call EXCEPT ![c] = "ready"]
          /\ attempt' = [attempt EXCEPT ![c] = @ + 1]
          /\ UNCHANGED breakerVars
       \/ attempt[c] >= Attempts /\ Leave(c, FALSE)

\* InvalidArgument and NotFound are not tried again; they count as a failure of
\* the service like any other error.
Receive(c, outcome) ==
    \/ outcome = "ok" /\ call[c] = "waiting" /\ Leave(c, TRUE)
    \/ outcome = "invalid" /\ call[c] = "waiting" /\ Leave(c, FALSE)
    \/ outcome = "unavailable" /\ Retry(c)

\* The context of the caller ended, or its image does not decode.
GiveUp(c) ==
    /\ call[c] # "idle"
    /\ Leave(c, FALSE)
-----------------------------------------------------------------------------
ClientTypeOK ==
    /\ state \in {"closed", "open", "half-open"} /\ expired \in BOOLEAN
    /\ counts \in [requests : 0 .. MaxRequests, failures : Nat, inARow : Nat,
                   successes : Nat]
    /\ counted \subseteq Caller
    /\ call \in [Caller -> {"idle", "ready", "waiting"}]
    /\ attempt \in [Caller -> 1 .. Attempts]

\* The counters are those of the calls that were made: whatever is admitted,
\* fails, succeeds or ends late in any order, a closed breaker has fewer
\* failures in a row than open it, a half-open one has let through no more
\* probes than configured, each of which is running or has succeeded, and an
\* open one has none (inference_client.go, lines 89-110).
BreakerCountsCalls ==
    /\ \A c \in counted : call[c] # "idle"
    /\ counts.failures + Cardinality(counted) <= counts.requests
    /\ state = "closed" => counts.inARow < FailureThreshold
    /\ state = "half-open" =>
          /\ counts.requests <= HalfOpenMaxCalls
          /\ counts.requests = counts.successes + Cardinality(counted)
    /\ state = "open" => counts = NoCounts /\ counted = {}

\* What a call of an earlier generation comes to does not move the breaker: an
\* answer or an error that arrives after the breaker opened, or after its
\* counting period ended, neither opens nor closes it (Analyze, line 128).
LateOutcomesMoveNothing ==
    [][\A c \in Caller : (call[c] # "idle" /\ call'[c] = "idle" /\ c \notin counted)
          => \/ breakerVars' = breakerVars
             \/ expired /\ state' = Present.state /\ counts' = NoCounts]_clientVars
=============================================================================
