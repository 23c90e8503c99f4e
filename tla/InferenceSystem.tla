-------------------------- MODULE InferenceSystem --------------------------
(***************************************************************************)
(* The Engine's client against the Inference service: attempts arrive at a *)
(* service that reloads, crashes and restarts, and answers may come too    *)
(* late.  A caller that stops waiting resets its stream; what the service  *)
(* then still does for it changes nothing, so its work ends there.         *)
(***************************************************************************)
EXTENDS Inference, InferenceClient

vars == <<serverVars, clientVars>>

Init == ServerInit /\ ClientInit

Begin(c) == (Analyze(c) \/ Refuse(c)) /\ UNCHANGED serverVars

Attempt(c) == Send(c) /\ Accept(c)

Serve(c) == ClassifyStep(c) /\ UNCHANGED clientVars

Reply(c) ==
    /\ stage[c] \in Answered
    /\ Receive(c, stage[c])
    /\ Finish(c, "idle")

\* The HTTP client's ten seconds are over.
Timeout(c) ==
    /\ stage[c] # "idle"
    /\ Retry(c)
    /\ Finish(c, "idle")

Cancel(c) == GiveUp(c) /\ Finish(c, "idle")

Elapse == Expire /\ UNCHANGED serverVars

Administer == ReloadStep /\ UNCHANGED clientVars

CallStep(c) == Attempt(c) \/ Reply(c) \/ Timeout(c)

Next ==
    \/ \E c \in Caller : Begin(c) \/ CallStep(c) \/ Serve(c) \/ Cancel(c)
    \/ Elapse
    \/ Administer

Spec == Init /\ [][Next]_vars

\* Go runs a call's goroutine, and its HTTP client gives up on an answer.
Fairness == \A c \in Caller : WF_vars(CallStep(c))
FairSpec == Spec /\ Fairness
-----------------------------------------------------------------------------
\* Client, breaker and server (inference_client.go and the Inference handler).
TypeOK == ServerTypeOK /\ ClientTypeOK

\* Every call ends, whatever the service does: a reload that holds its lock, a
\* crash, an answer that never comes (analyzeWithRetry, lines 171-203).
EveryCallEnds == \A c \in Caller : call[c] # "idle" ~> call[c] = "idle"

\* A half-open breaker that has sent out all its probes decides: it does not
\* refuse every call for ever because a probe's outcome went missing
\* (inference_client.go, lines 89-110).
ProbesDecide ==
    (state = "half-open" /\ counts.requests = HalfOpenMaxCalls)
       ~> state # "half-open"
=============================================================================
