------------------------------ MODULE Rollout -------------------------------
(***************************************************************************)
(* Gateways and workers that start, crash, are replaced and drain while    *)
(* visitors submit jobs: boot order, the shared model catalog over a       *)
(* rollout, and what an orderly stop costs.  A canary beside the primary   *)
(* (deploy/k8s/canary) is two gateways with different images; a promotion  *)
(* or a rollback is a Redeploy.                                            *)
(***************************************************************************)
EXTENDS GatewayProcess, WorkerProcess

vars == <<bucket, provisioned, job, orders, faults, gateway, image, seeding, worker>>

Init ==
  /\ CatalogInit /\ DeploymentInit /\ FaultsInit /\ GatewayInit /\ WorkerInit

Next ==
  \/ \E g \in Gateways : GatewayStep(g) /\ UNCHANGED worker
  \/ \E w \in Workers : WorkerStep(w) /\ UNCHANGED <<gateway, image, seeding>>

\* The platform starts what is down, and a process that runs goes on.  A mishap
\* or an order is owed by nobody, nor is a visitor's submission.
ProcessesFair ==
  /\ \A g \in Gateways :
       /\ WF_vars((BootStep(g) \/ Shutdown(g)) /\ NoFault /\ UNCHANGED worker)
       /\ \A j \in Jobs : WF_vars(PublishRequest(g, j) /\ UNCHANGED worker)
  /\ \A w \in Workers : WF_vars(WorkerRun(w) /\ UNCHANGED <<gateway, image, seeding>>)

RolloutSpec == Init /\ [][Next]_vars /\ ProcessesFair

(***************************************************************************)
(* Properties                                                              *)
(***************************************************************************)
\* Types, and that a binding worker has attempts left.
RolloutTypeOK ==
  /\ CatalogTypeOK /\ DeploymentTypeOK /\ FaultsTypeOK /\ GatewayTypeOK /\ WorkerTypeOK

\* A job that the gateway accepted and the ai-processor calls an unknown model
\* names a model that some revision that seeded does not have: seeding, restarts
\* and crashes of seeding alone lose no model (main.go seeds before it listens,
\* Seed deletes only what its own file lacks).
UnknownOnlyOverRollout ==
  \A j \in Jobs : job[j].step = "unknown" => \E r \in seeding : job[j].model \notin KeysOf(r)

\* While no other revision has written since a serving gateway loaded its
\* catalog, the bucket lists exactly that catalog: nothing is missing, no ghost
\* of an earlier revision stays, and no entry is an earlier revision's
\* (catalog.go:101-135, whose code and comment evict what the file lacks;
\* docs/adr/0016:52-54 still says that seeding is upsert-only).
LastSeederWins ==
  \A g \in Gateways : Serving(g) /\ gateway[g].alone => bucket = Seeded(gateway[g].rev)

\* Orderly stops are free: a message is delivered once per stage, and once more
\* for each mishap, and no submission dies without one (main.go:258-274,
\* consumer.py:60-63, main.py:53-75).
OrderlyStopsAreFree ==
  \A j \in Jobs :
    /\ job[j].deliveries <= faults +
         (IF job[j].step \in {"structured", "rendering", "done"} THEN 2 ELSE 1)
    /\ job[j].step = "dropped" => faults > 0

\* However often processes die or are replaced, once that ends every gateway
\* whose catalog loads serves and every worker is ready.
EverybodyComesUp ==
  /\ \A g \in Gateways : <>[](Serving(g) \/ ~Loads(image[g]))
  /\ \A w \in Workers : <>[]Ready(w)

\* docs/adr/0012:41: primary and canary gateways run concurrently safely; of a
\* submission its gateway accepted, no ai-processor says "unknown model".
AcceptedIsExecutable == \A j \in Jobs : job[j].step # "unknown"
=============================================================================
