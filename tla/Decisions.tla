----------------------------- MODULE Decisions -----------------------------
(***************************************************************************)
(* The decision history of a workspace, control/api/decisions.go: a client *)
(* walks the audit records page by page, by LIMIT and OFFSET over the      *)
(* newest first.  Between two pages the Engine's audit records go on       *)
(* arriving, not in the order of their timestamps, and those past their    *)
(* 90 days go (deployments/schema/001_audit_log.sql).                      *)
(*                                                                         *)
(* A filter only says which records there are; the status of the answer    *)
(* and its total are left out.                                             *)
(***************************************************************************)
EXTENDS Naturals, FiniteSets, SequencesExt

CONSTANTS
    AuditRecord,   \* records that pass the client's filter
    timestamp,     \* timestamp_utc of each
    MaxLimit,      \* 200
    DefaultLimit   \* 50

ASSUME DecisionsAssumption ==
    /\ IsFiniteSet(AuditRecord) /\ timestamp \in [AuditRecord -> Nat]
    /\ DefaultLimit \in 1 .. MaxLimit /\ MaxLimit \in Nat

VARIABLES
    log,       \* audit_log
    retired,   \* records the retention took
    offset,    \* where the next page begins
    walked,    \* history: records the client was shown
    there,     \* history: records that were there when it began
    walking    \* "no", "yes", or "done" when a page came back short

decisionVars == <<log, retired, offset, walked, there, walking>>

DecisionsInit ==
    /\ log \in SUBSET AuditRecord /\ retired = {}
    /\ offset = 0 /\ walked = {} /\ there = log /\ walking = "no"

\* Mutant: the oldest first.
BeforeAscending(r, s) == timestamp[r] < timestamp[s]

Before(r, s) == timestamp[r] > timestamp[s]

\* ORDER BY timestamp_utc DESC: records of one timestamp come in any order, which
\* need not be that of the query before.
Orders ==
    {order \in SetToSeqs(log) :
        \A i, j \in DOMAIN order : Before(order[i], order[j]) => i < j}

\* A limit out of range is the default.
PageLimit(asked) == IF asked \notin 1 .. MaxLimit THEN DefaultLimit ELSE asked

Page(order, limit) ==
    {order[i] : i \in {n \in DOMAIN order : offset < n /\ n <= offset + limit}}

\* HandleListDecisions, called for page after page until one is not full.  The
\* answer names the limit it used.
ListDecisions(asked) ==
    /\ walking # "done"
    /\ \E order \in Orders :
          LET page == Page(order, PageLimit(asked))
          IN  /\ walked' = walked \cup page
              /\ offset' = offset + Cardinality(page)
              /\ walking' = IF Cardinality(page) < PageLimit(asked) THEN "done" ELSE "yes"
    /\ there' = IF walking = "no" THEN log ELSE there
    /\ UNCHANGED <<log, retired>>

\* A record arrives, its timestamp that of the decision and not of the arrival.
InsertAudit(r) ==
    /\ r \in AuditRecord \ (log \cup retired)
    /\ log' = log \cup {r}
    /\ UNCHANGED <<retired, offset, walked, there, walking>>

\* The oldest go.
Retire(r) ==
    /\ r \in log /\ \A s \in log : ~(timestamp[s] < timestamp[r])
    /\ log' = log \ {r} /\ retired' = retired \cup {r}
    /\ UNCHANGED <<offset, walked, there, walking>>

DecisionsNext ==
    \/ \E asked \in 0 .. MaxLimit + 1 : ListDecisions(asked)
    \/ \E r \in AuditRecord : InsertAudit(r) \/ Retire(r)
-----------------------------------------------------------------------------
DecisionsTypeOK ==
    /\ {log, retired, walked, there} \subseteq SUBSET AuditRecord
    /\ log \cap retired = {} /\ offset \in Nat
    /\ walking \in {"no", "yes", "done"}

\* A client that walks the history to its end was shown every record that was
\* there when it began and is there still, whatever arrived or went meanwhile,
\* except records that share their timestamp with another.
NothingSkipped ==
    walking = "done" =>
        \A r \in (there \cap log) \ walked :
            \E s \in AuditRecord \ {r} : timestamp[s] = timestamp[r]
=============================================================================
