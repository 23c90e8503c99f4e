------------------------------- MODULE Quota -------------------------------
(***************************************************************************)
(* The monthly analysis quota of one workspace, as the Control API keeps   *)
(* it in Postgres (control/api/workspace.go, HandleConsume) and as an Edge *)
(* sees it over the network (edge/discord/control/client.go, Consume).     *)
(*                                                                         *)
(* Nothing in the program sets the count back or moves the limit.          *)
(***************************************************************************)
EXTENDS Naturals

CONSTANT Limit   \* workspaces.monthly_analysis_limit

ASSUME QuotaAssumption == Limit \in Nat

VARIABLE used    \* workspaces.monthly_analysis_count

QuotaInit == used = 0

\* One UPDATE that counts only below the limit; it returns a row if it did.
Take == used < Limit /\ used' = used + 1

Exhausted == used >= Limit /\ UNCHANGED used
=============================================================================
