------------------------------- MODULE Control -------------------------------
(***************************************************************************)
(* The Control API over its database: its routes, those of New in          *)
(* control/api/handler.go and the billing ones of cmd/control/main.go, run *)
(* beside each other, a statement of one between two of another.           *)
(* Billing, second factor, appeals and decision history keep tables of     *)
(* their own; the quota of a workspace is in Quota.                        *)
(***************************************************************************)
EXTENDS Billing, Mfa, Appeals, Decisions

controlVars == <<billingVars, mfaVars, appealVars, decisionVars>>

ControlInit == BillingInit /\ MfaInit /\ AppealsInit /\ DecisionsInit

BillingRoutes == BillingNext /\ UNCHANGED <<mfaVars, appealVars, decisionVars>>
MfaRoutes == MfaNext /\ UNCHANGED <<billingVars, appealVars, decisionVars>>
AppealsRoutes == AppealsNext /\ UNCHANGED <<billingVars, mfaVars, decisionVars>>
DecisionsRoutes == DecisionsNext /\ UNCHANGED <<billingVars, mfaVars, appealVars>>

ControlNext == BillingRoutes \/ MfaRoutes \/ AppealsRoutes \/ DecisionsRoutes

ControlSpec == ControlInit /\ [][ControlNext]_controlVars
-----------------------------------------------------------------------------
\* The rows of all tables are of their types, and a webhook that is still to be
\* applied belongs to a customer some workspace was sold to (New of handler.go, and
\* main.go, lines 133-144).
ControlTypeOK == BillingTypeOK /\ MfaTypeOK /\ AppealsTypeOK /\ DecisionsTypeOK
=============================================================================
