--------------------------- MODULE MCStatusStream ---------------------------
(***************************************************************************)
(* Instances of the pipeline with a status page for TLC.                   *)
(***************************************************************************)
EXTENDS StatusStream

CONSTANTS AiDeliveries, CvDeliveries, GwDeliveries

MCMaxDeliver ==
  [AI_PROCESSOR |-> AiDeliveries, CV_GENERATOR |-> CvDeliveries, GATEWAY_EVENTS |-> GwDeliveries]
=============================================================================
