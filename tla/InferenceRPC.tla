---------------------------- MODULE InferenceRPC ----------------------------
(***************************************************************************)
(* What the Engine's client and the Inference service share: who calls     *)
(* InferenceService.Classify, and how an attempt may end.                  *)
(***************************************************************************)
EXTENDS Naturals, FiniteSets

CONSTANT Caller   \* goroutines of the Engine, each at one call at a time

\* A response; InvalidArgument; Unavailable, or a broken connection.
Answered == {"ok", "invalid", "unavailable"}
=============================================================================
