----------------------------- MODULE MCPipeline -----------------------------
(***************************************************************************)
(* Instances of the pipeline for TLC.  The code allows 3, 3 and 5          *)
(* deliveries; two of each reach exhaustion within the fault budget.       *)
(***************************************************************************)
EXTENDS PipelineProperties, TLC

CONSTANTS AiDeliveries, CvDeliveries, GwDeliveries

MCMaxDeliver ==
  [AI_PROCESSOR |-> AiDeliveries, CV_GENERATOR |-> CvDeliveries, GATEWAY_EVENTS |-> GwDeliveries]

\* Processes of one kind are interchangeable.
MCSymmetry ==
  Permutations(AiWorkers) \cup Permutations(CvWorkers) \cup Permutations(Replicas)
=============================================================================
