---------------------------- MODULE AuditEmitter ----------------------------
(***************************************************************************)
(* MultiEmitter, engine/audit/emitter.go: an audit event goes to the log   *)
(* and then, each in a goroutine of its own, to Neon and to R2.  Emit is   *)
(* called concurrently, and an emitter with a tracker knows one last error *)
(* for all of its calls.                                                   *)
(***************************************************************************)
CONSTANT Event   \* audit events, each emitted once

VARIABLES
    tracked,    \* made by NewMultiEmitterWithTracker; main uses the other one
    lastError,  \* the tracker holds an error
    emit,       \* where the Emit of an event and its goroutines stand
    logged,     \* events the log's writer took
    cleared,    \* history: failed writes another call's Reset wiped out
    blamed      \* history: calls during which another call's write failed

auditVars == <<tracked, lastError, emit, logged, cleared, blamed>>

AuditInit ==
    /\ tracked \in BOOLEAN /\ lastError = FALSE
    /\ emit = [e \in Event |-> "idle"]
    /\ logged = {} /\ cleared = {} /\ blamed = {}

At(e, label) == emit' = [emit EXCEPT ![e] = label]

\* Emit begins with tracker.Reset.
Emit(e) ==
    /\ emit[e] = "idle" /\ At(e, "log")
    /\ \/ /\ tracked /\ lastError' = FALSE
          /\ cleared' = cleared \cup {f \in Event : emit[f] = "check" /\ f \notin logged}
       \/ ~tracked /\ UNCHANGED <<lastError, cleared>>
    /\ UNCHANGED <<tracked, logged, blamed>>

\* The handler writes its line; errorTracker.Write keeps the first error.
Log(e) ==
    /\ emit[e] = "log" /\ At(e, "check")
    /\ \/ logged' = logged \cup {e} /\ UNCHANGED <<lastError, blamed>>
       \/ /\ lastError' = tracked
          /\ blamed' = blamed \cup {f \in Event \ {e} : emit[f] \in {"log", "check"}}
          /\ UNCHANGED logged
    /\ UNCHANGED <<tracked, cleared>>

\* Mutant: the stores get what the log refused.
CheckNot(e) ==
    /\ emit[e] = "check" /\ At(e, "passed")
    /\ UNCHANGED <<tracked, lastError, logged, cleared, blamed>>

\* tracker.LastError; without one the goroutines for the stores start.
Check(e) ==
    /\ emit[e] = "check"
    /\ \/ lastError /\ At(e, "refused")
       \/ ~lastError /\ At(e, "passed")
    /\ UNCHANGED <<tracked, lastError, logged, cleared, blamed>>

\* InsertAudit or StoreAudit, whichever is first; that either fails is a warning,
\* and the put to R2 has a context that never ends.
Store(e) ==
    /\ emit[e] = "passed" /\ At(e, "stored")
    /\ UNCHANGED <<tracked, lastError, logged, cleared, blamed>>
-----------------------------------------------------------------------------
AuditTypeOK ==
    /\ tracked \in BOOLEAN /\ lastError \in BOOLEAN /\ (lastError => tracked)
    /\ emit \in [Event -> {"idle", "log", "check", "passed", "refused", "stored", "cut"}]
    /\ {logged, cleared, blamed} \subseteq SUBSET Event

\* With a tracker, a record reaches a store only after it was logged, and Emit
\* fails only when it was not, except where calls overlap: a Reset that wipes
\* out another call's error, a failed write that another call reads as its own.
ReportIsOwn ==
    tracked => \A e \in Event :
        /\ emit[e] = "stored" => e \in logged \cup cleared
        /\ emit[e] = "refused" => e \notin logged \/ e \in blamed
=============================================================================
