----------------------------- MODULE Quarantine -----------------------------
(***************************************************************************)
(* The inverted quarantine, engine/quarantine: an entry per content in     *)
(* Dragonfly, which calls read in one command and write in another.  No    *)
(* entry is locked between the two.                                        *)
(*                                                                         *)
(* Of an entry only its state is kept; StateAnalyzing is declared in the   *)
(* code and set nowhere.                                                   *)
(***************************************************************************)
CONSTANTS
    Content,    \* content identifiers
    Asker,      \* calls of Quarantine, each made once
    Updater,    \* calls of UpdateStatus, each made once
    For         \* the content a call is about

Call == Asker \cup Updater

ASSUME QuarantineAssumption ==
    /\ Asker \cap Updater = {} /\ For \in [Call -> Content]

Terminal == {"BLOCKED", "RELEASED"}
State == Terminal \cup {"none", "PENDING"}

VARIABLES
    entry,     \* the state of a content's entry, "none" without one
    stage,     \* where a call stands
    seen,      \* the entry a call has read
    decision   \* what an update was told, "none" before

quarantineVars == <<entry, stage, seen, decision>>

QuarantineInit ==
    /\ entry = [c \in Content |-> "none"]
    /\ stage = [p \in Call |-> "idle"]
    /\ seen = [p \in Call |-> "none"]
    /\ decision = [p \in Updater |-> "none"]

Return(p) ==
    stage' = [stage EXCEPT ![p] = "done"] /\ seen' = [seen EXCEPT ![p] = "none"]

Ask(p) ==
    /\ p \in Asker /\ stage[p] = "idle"
    /\ stage' = [stage EXCEPT ![p] = "get"]
    /\ UNCHANGED <<entry, seen, decision>>

Update(p, d) ==
    /\ p \in Updater /\ stage[p] = "idle"
    /\ stage' = [stage EXCEPT ![p] = "get"]
    /\ decision' = [decision EXCEPT ![p] = d]
    /\ UNCHANGED <<entry, seen>>

\* Mutant: a settled entry is settled again.
GoesOnAnyway(p) == IF p \in Asker THEN entry[For[p]] = "none" ELSE entry[For[p]] # "none"

\* Quarantine goes on without an entry, UpdateStatus with one it may settle.
GoesOn(p) ==
    entry[For[p]] = IF p \in Asker THEN "none" ELSE "PENDING"

\* GetQuarantineState, and the returns that follow it: an error, what is there
\* already, ErrNotFound.
Get(p) ==
    /\ stage[p] = "get"
    /\ \/ /\ GoesOn(p)
          /\ stage' = [stage EXCEPT ![p] = "set"]
          /\ seen' = [seen EXCEPT ![p] = entry[For[p]]]
       \/ Return(p)
    /\ UNCHANGED <<entry, decision>>

\* Mutant: only the word "blocked" blocks, and a hook says "DECISION_BLOCK".
SettledByWord(d) == IF d = "blocked" THEN "BLOCKED" ELSE "RELEASED"

Settled(d) == IF d = "ALLOW" THEN "RELEASED" ELSE "BLOCKED"

\* SetQuarantineState, which overwrites whatever is there and may fail.
Set(p) ==
    /\ stage[p] = "set"
    /\ LET new == IF p \in Asker THEN "PENDING" ELSE Settled(decision[p])
       IN  entry' = [entry EXCEPT ![For[p]] = new] \/ UNCHANGED entry
    /\ Return(p)
    /\ UNCHANGED decision

\* DefaultTTL is over: every write gives an entry another 24 hours.
Expire(c) ==
    /\ entry[c] # "none"
    /\ entry' = [entry EXCEPT ![c] = "none"]
    /\ UNCHANGED <<stage, seen, decision>>
-----------------------------------------------------------------------------
QuarantineTypeOK ==
    /\ entry \in [Content -> State] /\ seen \in [Call -> State]
    /\ stage \in [Call -> {"idle", "get", "set", "done"}]
    /\ decision \in [Updater -> {"none", "ALLOW", "BLOCK"}]
    /\ \A p \in Call : stage[p] = "set" => seen[p] \notin Terminal

\* Content leaves quarantine because its analysis allowed it or its entry
\* expired, whatever calls race for it.
ReleasedOnlyIfAllowed ==
    \A c \in Content : entry[c] = "RELEASED" =>
        \E p \in Updater : For[p] = c /\ decision[p] = "ALLOW"

\* A settled entry is written over only by a call that read it before it was
\* settled: calls that do not overlap leave it alone.  More cannot be said of "If
\* BLOCKED, the content stays quarantined" (lines 2-3): of two updates that both read
\* PENDING, the later one releases what the other blocked.
TerminalSurvives ==
    [][\A c \in Content :
          entry[c] \in Terminal /\ entry'[c] \notin {entry[c], "none"} =>
              \E p \in Call : For[p] = c /\ stage[p] = "set" /\ seen[p] # entry[c]
      ]_quarantineVars
=============================================================================
