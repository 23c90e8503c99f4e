----------------------------- MODULE MCControl -----------------------------
(***************************************************************************)
(* The Control API's tables share no state, so each is explored while the  *)
(* others rest: part says which.                                           *)
(***************************************************************************)
EXTENDS Control, TLC

CONSTANTS silver, other, e1, e2, e3, e4

\* One plan is on sale; the other price is of no plan.
MCPriceIDs == "silver" :> silver

\* Two records of one moment between an older and a newer one.
MCTimestamp == e1 :> 1 @@ e2 :> 2 @@ e3 :> 2 @@ e4 :> 3

\* Workspaces are alike, and customers.
MCSymmetry == Permutations(Workspace) \cup Permutations(Customer)

VARIABLE part

vars == <<controlVars, part>>

MCInit ==
    /\ ControlInit
    /\ part \in {"billing", "mfa", "appeals", "decisions"}
    /\ part # "decisions" => log = {}

MCNext ==
    /\ \/ part = "billing" /\ BillingRoutes
       \/ part = "mfa" /\ MfaRoutes
       \/ part = "appeals" /\ AppealsRoutes
       \/ part = "decisions" /\ DecisionsRoutes
    /\ UNCHANGED part

MCSpec == MCInit /\ [][MCNext]_vars
=============================================================================
