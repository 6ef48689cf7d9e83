--------------------------- MODULE GatewayProcess ---------------------------
(***************************************************************************)
(* A gateway process from boot to exit (gateway cmd/gateway/main.go):      *)
(* connect, provision JetStream, load the catalog, seed the bucket, start  *)
(* the runner and both listeners; on SIGTERM close the app listener, let   *)
(* requests finish within fifteen seconds, drain, exit.  An error at any   *)
(* step of boot ends the process, and the platform starts it again.        *)
(* One action per call to another system.                                  *)
(***************************************************************************)
EXTENDS Deployment

CONSTANT First         \* the revision the deployment starts from

ASSUME FirstAssumption == First \in Revisions /\ Loads(First)

VARIABLES gateway,    \* gateway[g]: the process in pod g
          image,      \* image[g]: the revision the platform wants in pod g
          seeding     \* history: the revisions that began to seed

\* The order of Provision.
ProvisionOrder ==
  <<"CV_EVENTS", "AI_PROCESSOR", "CV_GENERATOR", "GATEWAY_EVENTS", "model-catalog">>

Boot == {"provision", "load", "put", "list", "evict", "start"}

\* todo is what is left to provision or to put, stale the keys left to evict;
\* alone is history: no other revision has written since the process loaded.
Gateway ==
  [phase : Boot \cup {"down", "serve", "drain"}, rev : Revisions,
   todo : Seq(Entities \cup Models), stale : SUBSET Models, alone : BOOLEAN]

GatewayTypeOK ==
  /\ gateway \in [Gateways -> Gateway]
  /\ image \in [Gateways -> Revisions]
  /\ seeding \subseteq Revisions

Off == [phase |-> "down", rev |-> First, todo |-> << >>, stale |-> {}, alone |-> FALSE]

GatewayInit ==
  /\ image = [g \in Gateways |-> First]
  /\ gateway = [g \in Gateways |-> Off]
  /\ seeding = {}

In(g, phase) == gateway[g].phase = phase

Serving(g) == In(g, "serve")

\* What a step may leave alone.
catalogVars == <<bucket, seeding>>
workVars == <<job, image, orders>>

GoOn(g, phase, todo, stale) ==
  gateway' = [gateway EXCEPT ![g].phase = phase, ![g].todo = todo, ![g].stale = stale]

GoDown(g) == gateway' = [gateway EXCEPT ![g] = Off]

\* Gateway g goes on after a write, which disturbs those of other revisions.
Write(g, phase, todo, stale) ==
  gateway' = [h \in Gateways |->
    IF h = g THEN [gateway[g] EXCEPT !.phase = phase, !.todo = todo, !.stale = stale]
    ELSE [gateway[h] EXCEPT !.alone = @ /\ gateway[h].rev = gateway[g].rev]]

\* The platform starts the container, which connects to Postgres, Valkey and
\* NATS; a connection that fails is Die.
StartGateway(g) ==
  /\ In(g, "down")
  /\ gateway' = [gateway EXCEPT ![g] =
                   [Off EXCEPT !.phase = "provision", !.rev = image[g], !.todo = ProvisionOrder]]
  /\ UNCHANGED <<catalogVars, workVars, provisioned, faults>>

\* Mutant: a stream that exists is taken for a finished provisioning.
ProvisionOnce(g) ==
  /\ In(g, "provision")
  /\ LET todo == gateway[g].todo
     IN IF todo = ProvisionOrder /\ Head(todo) \in provisioned
          THEN GoOn(g, "load", << >>, {}) /\ UNCHANGED provisioned
          ELSE /\ provisioned' = provisioned \cup {Head(todo)}
               /\ GoOn(g, IF Tail(todo) = << >> THEN "load" ELSE "provision", Tail(todo), {})
  /\ UNCHANGED <<catalogVars, workVars, faults>>

\* The next CreateOrUpdate; what exists stays as it is.
Provision(g) ==
  /\ In(g, "provision")
  /\ LET todo == gateway[g].todo
     IN /\ provisioned' = provisioned \cup {Head(todo)}
        /\ GoOn(g, IF Tail(todo) = << >> THEN "load" ELSE "provision", Tail(todo), {})
  /\ UNCHANGED <<catalogVars, workVars, faults>>

\* Mutant: the listeners do not wait for the catalog.
LoadAndServe(g) ==
  /\ In(g, "load")
  /\ LET r == gateway[g].rev
     IN IF Loads(r)
          THEN /\ gateway' = [gateway EXCEPT ![g].phase = "serve", ![g].alone = TRUE]
               /\ seeding' = seeding \cup {r}
          ELSE GoDown(g) /\ UNCHANGED seeding
  /\ UNCHANGED <<bucket, workVars, provisioned, faults>>

\* A file that does not load ends the process before it touches the bucket.
Load(g) ==
  /\ In(g, "load")
  /\ LET r == gateway[g].rev
     IN IF Loads(r)
          THEN /\ gateway' = [gateway EXCEPT
                     ![g].phase = "put", ![g].alone = TRUE,
                     ![g].todo = [i \in DOMAIN Yaml[r] |-> Yaml[r][i].key]]
               /\ seeding' = seeding \cup {r}
          ELSE GoDown(g) /\ UNCHANGED seeding
  /\ UNCHANGED <<bucket, workVars, provisioned, faults>>

\* Seed's first loop.
SeedPut(g) ==
  /\ In(g, "put")
  /\ LET todo == gateway[g].todo
     IN /\ PutEntry(gateway[g].rev, Head(todo))
        /\ Write(g, IF Tail(todo) = << >> THEN "list" ELSE "put", Tail(todo), {})
  /\ UNCHANGED <<seeding, workVars, provisioned, faults>>

\* Where Seed goes on when these keys are left to delete.
Evicting(stale) == IF stale = {} THEN "start" ELSE "evict"

\* Mutant: seeding only upserts.
SeedListNone(g) ==
  /\ In(g, "list")
  /\ GoOn(g, "start", << >>, {})
  /\ UNCHANGED <<catalogVars, workVars, provisioned, faults>>

\* kv.Keys: what the coming deletes go by, however old it is by then.
SeedList(g) ==
  /\ In(g, "list")
  /\ LET stale == Stale(gateway[g].rev) IN GoOn(g, Evicting(stale), << >>, stale)
  /\ UNCHANGED <<catalogVars, workVars, provisioned, faults>>

\* Seed's last loop, in the order the server listed the keys.
SeedEvict(g) ==
  /\ In(g, "evict")
  /\ \E k \in gateway[g].stale :
       /\ DeleteEntry(k)
       /\ LET stale == gateway[g].stale \ {k} IN Write(g, Evicting(stale), << >>, stale)
  /\ UNCHANGED <<seeding, workVars, provisioned, faults>>

\* SetProvisioned, Runner.Start, and both listeners.
StartServing(g) ==
  /\ In(g, "start")
  /\ "GATEWAY_EVENTS" \in provisioned
  /\ GoOn(g, "serve", << >>, {})
  /\ UNCHANGED <<catalogVars, workVars, provisioned, faults>>

\* A submission passes the check of its model against the gateway's own copy.
Accept(g, j) ==
  /\ Serving(g)
  /\ job[j].step = "none"
  /\ \E k \in KeysOf(gateway[g].rev) :
       job' = [job EXCEPT ![j] = [step |-> "form", by |-> g, model |-> k, deliveries |-> 0]]
  /\ UNCHANGED <<catalogVars, gateway, image, orders, provisioned, faults>>

\* The request handler publishes and answers; it may do so while draining.
PublishRequest(g, j) ==
  /\ job[j].step = "form" /\ job[j].by = g
  /\ Move(j, "requested", "nobody")
  /\ UNCHANGED <<catalogVars, gateway, image, orders, provisioned, faults>>

\* What a request leaves behind whose process is gone.
DropForms(g) ==
  job' = [j \in Jobs |-> IF j \in InHands(g)
                           THEN [job[j] EXCEPT !.step = "dropped", !.by = "nobody"]
                           ELSE job[j]]

\* SIGTERM: a booting process fails with its context, a serving one drains.
StopGateway(g, next) ==
  gateway' = [gateway EXCEPT ![g] =
                IF @.phase \in {"serve", "drain"} THEN [@ EXCEPT !.phase = next] ELSE Off]

\* The platform replaces the pod by one of revision r.
Redeploy(g, r) ==
  /\ Order
  /\ image' = [image EXCEPT ![g] = r]
  /\ StopGateway(g, "drain")
  /\ UNCHANGED <<catalogVars, job, provisioned, faults>>

\* Mutant: NATS is drained before the app server has shut down.
ShutdownAtOnce(g) ==
  /\ In(g, "drain")
  /\ GoDown(g)
  /\ DropForms(g)
  /\ UNCHANGED <<catalogVars, image, orders, provisioned, faults>>

\* appSrv.Shutdown returns once no request is in flight; then the ops
\* server, the runner and NATS follow.
Shutdown(g) ==
  /\ In(g, "drain")
  /\ InHands(g) = {}
  /\ GoDown(g)
  /\ UNCHANGED <<catalogVars, workVars, provisioned, faults>>

\* The process dies, boot reports an error, or the fifteen seconds pass.
Die(g) ==
  /\ ~In(g, "down")
  /\ GoDown(g)
  /\ DropForms(g)
  /\ Fault("crash")
  /\ UNCHANGED <<catalogVars, image, orders, provisioned>>

BootStep(g) ==
  \/ StartGateway(g) \/ Provision(g) \/ Load(g)
  \/ SeedPut(g) \/ SeedList(g) \/ SeedEvict(g) \/ StartServing(g)

GatewayStep(g) ==
  \/ BootStep(g) \/ Shutdown(g) \/ Die(g)
  \/ \E j \in Jobs : Accept(g, j) \/ PublishRequest(g, j)
  \/ \E r \in Revisions : Redeploy(g, r)
=============================================================================
