------------------------------- MODULE Hooks -------------------------------
(***************************************************************************)
(* What follows an answer of the pipeline: fireHooks starts a goroutine    *)
(* per hook, cmd/engine/main.go makes the hooks, and none is waited for    *)
(* when the Engine stops.                                                  *)
(*                                                                         *)
(* An answer is an UpdateStatus and an audit event.  Whoever uses the      *)
(* quarantine calls Quarantine; nothing in the program does.               *)
(***************************************************************************)
EXTENDS Quarantine, AuditEmitter, Naturals

CONSTANT MaxStops   \* bound on stops of the Engine

ASSUME HooksAssumption == Event = Updater /\ MaxStops \in Nat

VARIABLE stops   \* so far

vars == <<quarantineVars, auditVars, stops>>

Init ==
    /\ QuarantineInit /\ AuditInit /\ stops = 0

\* fireHooks: a goroutine each for the audit event and for the quarantine.
FireHooks(a, d) == Update(a, d) /\ Emit(a) /\ UNCHANGED stops

\* srv.Shutdown waits for requests only; the goroutines end with the process.
\* The calls of Quarantine come from elsewhere and go on.
Stop ==
    /\ stops < MaxStops /\ stops' = stops + 1
    /\ stage' = [p \in Call |-> IF p \in Updater /\ stage[p] # "idle" THEN "done" ELSE stage[p]]
    /\ seen' = [p \in Call |-> IF p \in Updater THEN "none" ELSE seen[p]]
    /\ emit' = [e \in Event |->
                   IF emit[e] \in {"log", "check", "passed"} THEN "cut" ELSE emit[e]]
    /\ lastError' = FALSE
    /\ UNCHANGED <<entry, decision, tracked, logged, cleared, blamed>>

Step(p) == (Get(p) \/ Set(p)) /\ UNCHANGED <<auditVars, stops>>

Goroutine(e) ==
    /\ Log(e) \/ Check(e) \/ Store(e)
    /\ UNCHANGED <<quarantineVars, stops>>

Timeout(c) == Expire(c) /\ UNCHANGED <<auditVars, stops>>

Next ==
    \/ \E a \in Updater, d \in {"ALLOW", "BLOCK"} : FireHooks(a, d)
    \/ \E p \in Asker : Ask(p) /\ UNCHANGED <<auditVars, stops>>
    \/ \E p \in Call : Step(p)
    \/ \E e \in Event : Goroutine(e)
    \/ \E c \in Content : Timeout(c)
    \/ Stop

Spec == Init /\ [][Next]_vars

\* Entries, calls and audit events of the Engine's hooks (quarantine.go, emitter.go).
TypeOK ==
    /\ QuarantineTypeOK /\ AuditTypeOK
    /\ stops \in 0 .. MaxStops
=============================================================================
