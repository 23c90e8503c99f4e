------------------------- MODULE PipelineRefinement -------------------------
(***************************************************************************)
(* The pipeline keeps the promise of Moderation: the caches, the recheck,  *)
(* the frame loop and the faults are steps the promise does not see.       *)
(***************************************************************************)
EXTENDS Pipeline

Alike(o, c) == \E level \in Level \cup {"NONE"} : Reaches(level, o, c)

Asked == [r \in Request |-> {frames[r][i] : i \in DOMAIN frames[r]} \cap Content]
Judged == {<<p[1], p[2].decision>> : p \in verdicts}
Answer == [r \in Request |-> IF resp[r] = None THEN None ELSE resp[r].decision]

Promise == INSTANCE Moderation
           WITH Pending <- None, asked <- Asked, judged <- Judged,
                answer <- Answer

\* Execute (pipeline.go, lines 173-239) and everything it calls implement the
\* promise: no interleaving of requests, fault, eviction or restart makes an
\* answer that no judgement of an alike content stands behind, and no answer
\* changes.
KeepsPromise == Promise!Spec
=============================================================================
