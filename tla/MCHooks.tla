------------------------------- MODULE MCHooks -------------------------------
(***************************************************************************)
(* What stands before the pipeline and what follows it: the URL gate, and  *)
(* the hooks with one content, asked for twice and answered twice.  They   *)
(* share no state, so each is explored while the other rests: part says    *)
(* which.                                                                  *)
(***************************************************************************)
EXTENDS Hooks, UrlSafety, TLC

CONSTANTS c, q1, q2, a1, a2

MCFor == q1 :> c @@ q2 :> c @@ a1 :> c @@ a2 :> c

VARIABLE part

MCInit ==
    /\ Init /\ UrlInit /\ part \in {"gate", "hooks"}
    /\ part = "gate" => ~tracked
    /\ part = "hooks" => reputation = "safe"

MCNext ==
    /\ \/ part = "gate" /\ UrlNext /\ UNCHANGED vars
       \/ part = "hooks" /\ Next /\ UNCHANGED urlVars
    /\ UNCHANGED part

\* Nothing is assumed of the hooks: no put to R2 has a deadline.
MCSpec == MCInit /\ [][MCNext]_<<vars, urlVars, part>> /\ UrlFairness
=============================================================================
