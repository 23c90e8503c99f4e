------------------------------ MODULE Appeals ------------------------------
(***************************************************************************)
(* Appeals against one decision, control/api/appeals.go: HandleSubmit      *)
(* looks for the decision's audit record, then for an appeal, and inserts  *)
(* one if it saw none.  The unique index of deployments/schema/            *)
(* 007_appeals.sql is all that stands between two of them.                 *)
(***************************************************************************)
EXTENDS FiniteSets

CONSTANT Submitter   \* requests for the same decision

VARIABLES
    recorded,    \* the decision has arrived in audit_log
    appeals,     \* rows of workspace_appeals, named by the request that inserted
    request,     \* where a request stands
    answer,      \* its status
    found,       \* the appeal it answered with
    broken,      \* history: requests the database failed
    raced        \* history: requests that looked for an appeal before there was one

appealVars == <<recorded, appeals, request, answer, found, broken, raced>>

AppealsInit ==
    /\ recorded = FALSE /\ appeals = {} /\ broken = {} /\ raced = {}
    /\ request = [r \in Submitter |-> "idle"]
    /\ answer = [r \in Submitter |-> "none"]
    /\ found = [r \in Submitter |-> {}]

\* The Engine's audit record arrives, some time after its answer or never.
Record ==
    /\ ~recorded /\ recorded' = TRUE
    /\ UNCHANGED <<appeals, request, answer, found, broken, raced>>

Move(r, label) == request' = [request EXCEPT ![r] = label]

Answer(r, status, rows) ==
    /\ Move(r, "done")
    /\ answer' = [answer EXCEPT ![r] = status]
    /\ found' = [found EXCEPT ![r] = rows]

Submit(r) ==
    /\ request[r] = "idle" /\ Move(r, "find")
    /\ UNCHANGED <<recorded, appeals, answer, found, broken, raced>>

\* No record, or a database that does not answer, is a 404.
FindDecision(r) ==
    /\ request[r] = "find"
    /\ \/ recorded /\ Move(r, "look") /\ UNCHANGED <<answer, found>>
       \/ Answer(r, "404", {})
    /\ UNCHANGED <<recorded, appeals, broken, raced>>

\* A query that fails reads as no appeal.
LookForAppeal(r) ==
    /\ request[r] = "look"
    /\ \/ appeals # {} /\ Answer(r, "200", appeals) /\ UNCHANGED <<broken, raced>>
       \/ appeals = {} /\ Move(r, "insert") /\ raced' = raced \cup {r}
          /\ UNCHANGED <<answer, found, broken>>
       \/ Move(r, "insert") /\ broken' = broken \cup {r} /\ UNCHANGED <<answer, found, raced>>
    /\ UNCHANGED <<recorded, appeals>>

\* Mutant: nothing keeps a second row out.
InsertAnyway(r) ==
    /\ request[r] = "insert"
    /\ appeals' = appeals \cup {r} /\ Answer(r, "201", {r})
    /\ UNCHANGED <<recorded, broken, raced>>

\* The insert fails on the unique index, or on the database.
Insert(r) ==
    /\ request[r] = "insert"
    /\ \/ appeals = {} /\ appeals' = {r} /\ Answer(r, "201", {r}) /\ UNCHANGED broken
       \/ appeals # {} /\ Answer(r, "500", {}) /\ UNCHANGED <<appeals, broken>>
       \/ Answer(r, "500", {}) /\ broken' = broken \cup {r} /\ UNCHANGED appeals
    /\ UNCHANGED <<recorded, raced>>

AppealsNext ==
    \/ Record
    \/ \E r \in Submitter : Submit(r) \/ FindDecision(r) \/ LookForAppeal(r) \/ Insert(r)
-----------------------------------------------------------------------------
AppealsTypeOK ==
    /\ recorded \in BOOLEAN /\ {appeals, broken, raced} \subseteq SUBSET Submitter
    /\ request \in [Submitter -> {"idle", "find", "look", "insert", "done"}]
    /\ answer \in [Submitter -> {"none", "200", "201", "404", "500"}]
    /\ found \in [Submitter -> SUBSET Submitter]

\* Whoever is told of an appeal is told of the same one.  A 500 for a recorded
\* decision means that the database failed or that another request, which looked
\* at the same time, was first.
AppealsAreOne ==
    /\ \A r, q \in Submitter : found[r] # {} /\ found[q] # {} => found[r] = found[q]
    /\ \A r \in Submitter : answer[r] = "500" =>
          r \in broken \/ (r \in raced /\ appeals \notin {{}, {r}})
=============================================================================
