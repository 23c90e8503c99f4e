---------------------------- MODULE MCInference ----------------------------
(***************************************************************************)
(* Two versions of the configuration for TLC: a small one like             *)
(* inference/config.yaml, whose input_ids are in a file of their own, and  *)
(* a large one that carries them in the YAML, so that only its reload      *)
(* finds prompts to embed.                                                 *)
(*                                                                         *)
(* "system": client and service together; which versions a reload mixes    *)
(* makes no difference to the client, and there is one of them.            *)
(* "server": the service alone, between both versions, with attempts that  *)
(* arrive and are given up whatever state a breaker would be in.           *)
(***************************************************************************)
EXTENDS InferenceSystem, TLC

CONSTANTS small, large

MCPrompts == [g \in Config |-> IF g = small THEN 1 ELSE 2]
Shipped == [g \in Config |-> g # small]

VARIABLE part

MCInit ==
    /\ Init /\ part \in {"system", "server"}
    /\ part = "system" => file = small /\ server["config"].of = small

Arrive(c) == stage[c] = "idle" /\ Accept(c)
Return(c) == stage[c] \in Answered /\ Finish(c, "idle")

ServerNext ==
    /\ \/ \E c \in Caller : Arrive(c) \/ ClassifyStep(c) \/ Return(c)
       \/ ReloadStep
    /\ UNCHANGED clientVars

MCNext ==
    /\ \/ part = "system" /\ Next /\ reloads' <= 1
       \/ part = "server" /\ ServerNext
    /\ UNCHANGED part

MCSpec == MCInit /\ [][MCNext]_<<vars, part>>
MCFairSpec == MCSpec /\ Fairness
=============================================================================
