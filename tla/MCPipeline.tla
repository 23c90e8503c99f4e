----------------------------- MODULE MCPipeline -----------------------------
(***************************************************************************)
(* Small instances of the pipeline for TLC: three pictures, of which picB  *)
(* is a copy of picA to both similarity levels, picC only to the index,    *)
(* and picB and picC have nothing in common.                               *)
(***************************************************************************)
EXTENDS PipelineRefinement, TLC

CONSTANTS picA, picB, picC

MCPHashOf == picA :> (1 .. 30) @@ picB :> (1 .. 25) @@ picC :> (4 .. 33)

Flagged(category, conf) ==
    [flagged |-> TRUE, categories |-> {category}, conf |-> conf]
Clean == [flagged |-> FALSE, categories |-> {}, conf |-> 1]

\* A reload of the classifier between two calls can change its mind on picA.
MCOracle == picA :> {Flagged("violence", 2), Clean}
            @@ picB :> {Clean} @@ picC :> {Flagged("sexual", 3)}

\* A category of inference/config.yaml that the pipeline spells differently.
MinorsOracle == picA :> {Flagged("sexual_minors", 2)}
                @@ picB :> {Clean} @@ picC :> {Clean}

MCExtractions == {<<>>, <<picA, picB>>, <<picB, Undecodable, picC>>}
NoExtractions == {}
=============================================================================
