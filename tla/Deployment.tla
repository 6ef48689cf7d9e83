----------------------------- MODULE Deployment -----------------------------
(***************************************************************************)
(* What the processes of the deployment share while they come and go: the  *)
(* JetStream entities the gateway provisions, the jobs on their way        *)
(* between processes, and the orders of the platform.  A job is only       *)
(* where it is and in whose hands; what happens to it there is Pipeline's. *)
(***************************************************************************)
EXTENDS ModelCatalog, Faults, FiniteSets

CONSTANTS Jobs, Gateways, AiWorkers, CvWorkers,
          MaxOrders    \* how many pods the platform stops or replaces

Workers == AiWorkers \cup CvWorkers

ASSUME ProcessesAssumption ==
  /\ AiWorkers \cap CvWorkers = {}
  /\ Gateways \cap Workers = {}
  /\ "nobody" \notin Gateways \cup Workers

ASSUME MaxOrdersAssumption == MaxOrders \in Nat

VARIABLES provisioned,  \* the JetStream entities that exist
          job,          \* job[j]: step, holder, model and deliveries so far
          orders        \* how many orders the platform has given

Entities == {"CV_EVENTS", "AI_PROCESSOR", "CV_GENERATOR", "GATEWAY_EVENTS", "model-catalog"}

\* "form" is in a gateway's request handler, "requested" and "structured" in
\* the stream, "processing" and "rendering" in a worker; "unknown" ended as
\* an unknown model, "dropped" died with the request that carried it.
JobSteps == {"none", "form", "requested", "processing", "structured", "rendering",
             "done", "unknown", "dropped"}

Job == [step : JobSteps, by : Gateways \cup Workers \cup {"nobody"},
        model : Models \cup {"none"}, deliveries : Nat]

DeploymentTypeOK ==
  /\ provisioned \subseteq Entities
  /\ job \in [Jobs -> Job]
  /\ orders \in Nat

DeploymentInit ==
  /\ provisioned = {}
  /\ job = [j \in Jobs |-> [step |-> "none", by |-> "nobody", model |-> "none", deliveries |-> 0]]
  /\ orders = 0

InHands(p) == {j \in Jobs : job[j].by = p}

Move(j, step, p) == job' = [job EXCEPT ![j].step = step, ![j].by = p]

\* Stop or replace a pod.
Order == orders < MaxOrders /\ orders' = orders + 1
=============================================================================
