--------------------------- MODULE RolloutProofs ----------------------------
(***************************************************************************)
(* What a rollout guarantees for any revisions, any catalogs, any number   *)
(* of gateways, workers and jobs, and any crashes and orders: types, that  *)
(* only a retired model becomes unknown, and that an undisturbed Seed      *)
(* leaves exactly its catalog.                                             *)
(***************************************************************************)
EXTENDS Rollout, TLAPS

-----------------------------------------------------------------------------
(* The inductive invariant. *)

Nonempty(s, S) == s \in Seq(S) /\ s # << >>

\* A loop of boot or of a bind that has not ended has something left.
LoopsGoOn ==
  /\ \A g \in Gateways : In(g, "provision") => Nonempty(gateway[g].todo, Entities)
  /\ \A g \in Gateways : In(g, "put") => Nonempty(gateway[g].todo, Models)
  /\ \A w \in Workers : At(w, "bind") => worker[w].needs # << >>

RolloutTypeInv == RolloutTypeOK /\ LoopsGoOn

\* The members of a sequence.
Members(s) == {s[i] : i \in DOMAIN s}

\* The keys a gateway has put, as far as it has come.
PutKeys(g) == KeysOf(gateway[g].rev) \ (IF In(g, "put") THEN Members(gateway[g].todo) ELSE {})

\* No revision that seeded lacks k.
Safe(k) == \A r \in seeding : k \in KeysOf(r)

Past(g, phases) == gateway[g].phase \in phases

AfterList == {"evict", "start", "serve", "drain"}

AfterLoad == AfterList \cup {"put", "list"}

\* What gateway g knows of the bucket while it seeds and ever after.
SeedKnows(g) ==
  /\ In(g, "put") => Members(gateway[g].todo) \subseteq KeysOf(gateway[g].rev)
  /\ Past(g, AfterLoad) => gateway[g].rev \in seeding
  /\ Past(g, {"evict"}) => gateway[g].stale \cap KeysOf(gateway[g].rev) = {}
  /\ Past(g, AfterLoad) => \A k \in PutKeys(g) : Safe(k) => k \in Listed
  /\ Past(g, AfterLoad) /\ gateway[g].alone =>
       \A k \in PutKeys(g) : bucket[k] = gateway[g].rev
  /\ Past(g, AfterList) /\ gateway[g].alone =>
       \A k \in Listed \ KeysOf(gateway[g].rev) : In(g, "evict") /\ k \in gateway[g].stale

\* An accepted job names a model that stays listed while every seeding
\* revision has it; held by a process, it was accepted.
JobKnows(j) ==
  /\ job[j].by # "nobody" => job[j].step # "none"
  /\ job[j].step # "none" => job[j].model \in Models /\ (Safe(job[j].model) => job[j].model \in Listed)
  /\ job[j].step = "unknown" => ~Safe(job[j].model)
  /\ \A w \in Workers :
       job[j].by = w /\ worker[w].answer = "unknown" => ~Safe(job[j].model)

\* A worker has one message in hand, from fetching it until settling it.
OneInHand(w) ==
  /\ ~At(w, "settle") => worker[w].answer = "none"
  /\ \A j \in Jobs : job[j].by = w => At(w, "handle") \/ At(w, "settle")
  /\ \A i, j \in Jobs : job[i].by = w /\ job[j].by = w => i = j

RolloutInv ==
  /\ RolloutTypeInv
  /\ \A g \in Gateways : SeedKnows(g)
  /\ \A j \in Jobs : JobKnows(j)
  /\ \A w \in Workers : OneInHand(w)

-----------------------------------------------------------------------------
(* Sequences and catalogs. *)

\* Taking the head of a sequence takes it from its members.
LEMMA MembersTail ==
  ASSUME NEW S, NEW s, Nonempty(s, S)
  PROVE  /\ Head(s) \in S /\ Tail(s) \in Seq(S)
         /\ Members(s) = {Head(s)} \cup Members(Tail(s))
         /\ Tail(s) = << >> => Members(s) = {Head(s)}
<1>1. Head(s) \in S /\ Tail(s) \in Seq(S) /\ Len(Tail(s)) = Len(s) - 1 /\ Len(s) > 0
  BY DEF Nonempty
<1>2. Head(s) \in Members(s)
  BY <1>1 DEF Members, Nonempty
<1>3. ASSUME NEW i \in DOMAIN Tail(s)
      PROVE  Tail(s)[i] \in Members(s)
  <2>1. i + 1 \in DOMAIN s /\ Tail(s)[i] = s[i + 1]
    BY <1>1, <1>3 DEF Nonempty
  <2> QED
    BY <2>1 DEF Members
<1>4. ASSUME NEW i \in DOMAIN s, i # 1
      PROVE  s[i] \in Members(Tail(s))
  <2>1. i - 1 \in DOMAIN Tail(s) /\ s[i] = Tail(s)[i - 1]
    BY <1>1, <1>4 DEF Nonempty
  <2> QED
    BY <2>1 DEF Members
<1>5. Members(s) = {Head(s)} \cup Members(Tail(s))
  BY <1>2, <1>3, <1>4 DEF Members, Nonempty
<1>6. Tail(s) = << >> => Members(Tail(s)) = {}
  BY DEF Members
<1> QED
  BY <1>1, <1>5, <1>6

\* The elements of a sequence.
LEMMA SeqElements ==
  ASSUME NEW S, NEW s \in Seq(S)
  PROVE  /\ DOMAIN s = 1..Len(s) /\ Len(s) \in Nat
         /\ \A i \in DOMAIN s : s[i] \in S
OBVIOUS

\* What Seed is going to put.
LEMMA CatalogFacts ==
  ASSUME NEW r \in Revisions
  PROVE  LET todo == [i \in DOMAIN Yaml[r] |-> Yaml[r][i].key]
         IN /\ KeysOf(r) \subseteq Models
            /\ todo \in Seq(Models)
            /\ Members(todo) = KeysOf(r)
            /\ Loads(r) => todo # << >>
<1> DEFINE todo == [i \in DOMAIN Yaml[r] |-> Yaml[r][i].key]
<1>1. Yaml[r] \in Seq([key : Models, valid : BOOLEAN])
  BY YamlAssumption
<1>3. DOMAIN Yaml[r] = 1..Len(Yaml[r]) /\ Len(Yaml[r]) \in Nat
  BY <1>1, SeqElements
<1>2. ASSUME NEW i \in DOMAIN Yaml[r]
      PROVE  Yaml[r][i].key \in Models
  <2>1. Yaml[r][i] \in [key : Models, valid : BOOLEAN]
    BY <1>1, SeqElements
  <2> QED
    BY <2>1
<1>4. todo \in Seq(Models)
  BY <1>2, <1>3
<1>5. Yaml[r] # << >> => todo # << >>
  BY <1>1, <1>3, <1>4
<1> QED
  BY <1>2, <1>4, <1>5 DEF KeysOf, Members, Loads

-----------------------------------------------------------------------------
(* What a step of a gateway does to the processes. *)

GatewaysTyped == gateway \in [Gateways -> Gateway]

\* The process in pod g becomes this one, and all others keep all but alone.
Becomes(g, phase, rev, todo, stale, alone) ==
  /\ gateway' \in [Gateways -> Gateway]
  /\ gateway'[g] = [phase |-> phase, rev |-> rev, todo |-> todo, stale |-> stale, alone |-> alone]
  /\ \A h \in Gateways \ {g} :
       /\ gateway'[h].phase = gateway[h].phase /\ gateway'[h].rev = gateway[h].rev
       /\ gateway'[h].todo = gateway[h].todo /\ gateway'[h].stale = gateway[h].stale
       /\ gateway'[h].alone => gateway[h].alone

Phases == Boot \cup {"down", "serve", "drain"}

\* A process that goes on.
LEMMA GoOnBecomes ==
  ASSUME GatewaysTyped, NEW g \in Gateways, NEW phase \in Phases,
         NEW todo \in Seq(Entities \cup Models), NEW stale \in SUBSET Models,
         GoOn(g, phase, todo, stale)
  PROVE  /\ Becomes(g, phase, gateway[g].rev, todo, stale, gateway[g].alone)
         /\ \A h \in Gateways \ {g} : gateway'[h] = gateway[h]
BY ZenonT(30) DEF GatewaysTyped, Gateway, Phases, GoOn, Becomes

\* A process that exits.
LEMMA GoDownBecomes ==
  ASSUME GatewaysTyped, NEW g \in Gateways, GoDown(g)
  PROVE  /\ Becomes(g, "down", First, << >>, {}, FALSE)
         /\ \A h \in Gateways \ {g} : gateway'[h] = gateway[h]
BY FirstAssumption DEF GatewaysTyped, Gateway, GoDown, Off, Becomes

\* A process that goes on after a write.
LEMMA WriteBecomes ==
  ASSUME GatewaysTyped, NEW g \in Gateways, NEW phase \in Phases,
         NEW todo \in Seq(Entities \cup Models), NEW stale \in SUBSET Models,
         Write(g, phase, todo, stale)
  PROVE  /\ Becomes(g, phase, gateway[g].rev, todo, stale, gateway[g].alone)
         /\ \A h \in Gateways \ {g} : gateway'[h].alone => gateway[h].rev = gateway[g].rev
BY ZenonT(30) DEF GatewaysTyped, Gateway, Phases, Write, Becomes

\* A process that starts, loads or is told to stop.
LEMMA StartBecomes ==
  ASSUME GatewaysTyped, NEW g \in Gateways, image[g] \in Revisions, StartGateway(g)
  PROVE  /\ Becomes(g, "provision", image[g], ProvisionOrder, {}, FALSE)
         /\ \A h \in Gateways \ {g} : gateway'[h] = gateway[h]
<1>1. ProvisionOrder \in Seq(Entities \cup Models)
  BY DEF ProvisionOrder, Entities
<1> QED
  BY <1>1 DEF GatewaysTyped, Gateway, StartGateway, Off, Boot, Becomes

LEMMA StopBecomes ==
  ASSUME GatewaysTyped, NEW g \in Gateways, StopGateway(g, "drain")
  PROVE  /\ \/ /\ gateway[g].phase \in {"serve", "drain"}
               /\ Becomes(g, "drain", gateway[g].rev, gateway[g].todo, gateway[g].stale, gateway[g].alone)
            \/ Becomes(g, "down", First, << >>, {}, FALSE)
         /\ \A h \in Gateways \ {g} : gateway'[h] = gateway[h]
BY FirstAssumption DEF GatewaysTyped, Gateway, StopGateway, Off, Becomes

-----------------------------------------------------------------------------
(* Types. *)

\* The loops of the gateways.
GatewayLoops ==
  /\ \A g \in Gateways : In(g, "provision") => Nonempty(gateway[g].todo, Entities)
  /\ \A g \in Gateways : In(g, "put") => Nonempty(gateway[g].todo, Models)

\* One process changes and leaves no loop with nothing left.
LEMMA BecomesLoops ==
  ASSUME GatewaysTyped, GatewayLoops, NEW g \in Gateways,
         NEW phase, NEW rev, NEW todo, NEW stale, NEW alone,
         Becomes(g, phase, rev, todo, stale, alone),
         phase = "provision" => Nonempty(todo, Entities),
         phase = "put" => Nonempty(todo, Models)
  PROVE  GatewayLoops' /\ GatewaysTyped'
<1>1. GatewaysTyped'
  BY DEF Becomes, GatewaysTyped
<1>2. ASSUME NEW h \in Gateways
      PROVE  /\ In(h, "provision")' => Nonempty(gateway'[h].todo, Entities)
             /\ In(h, "put")' => Nonempty(gateway'[h].todo, Models)
  <2>1. CASE h = g
    BY <2>1 DEF Becomes, In
  <2>2. CASE h # g
    BY <2>2 DEF Becomes, In, GatewayLoops
  <2> QED
    BY <2>1, <2>2
<1> QED
  BY <1>1, <1>2 DEF GatewayLoops

\* A loop over one kind of thing is a list of boot.
LEMMA ListTypes ==
  /\ \A s \in Seq(Entities) : s \in Seq(Entities \cup Models)
  /\ \A s \in Seq(Models) : s \in Seq(Entities \cup Models)
  /\ << >> \in Seq(Entities \cup Models)
  /\ Nonempty(ProvisionOrder, Entities)
BY DEF Nonempty, ProvisionOrder, Entities

\* Boot, step by step.
LEMMA BootTypes ==
  ASSUME RolloutTypeInv, NEW g \in Gateways, BootStep(g)
  PROVE  GatewaysTyped' /\ GatewayLoops' /\ CatalogTypeOK' /\ provisioned' \subseteq Entities
         /\ seeding' \subseteq Revisions /\ UNCHANGED <<job, image, orders, faults>>
<1> USE DEF catalogVars, workVars
<1>0. /\ GatewaysTyped /\ GatewayLoops /\ CatalogTypeOK /\ provisioned \subseteq Entities
      /\ seeding \subseteq Revisions /\ image[g] \in Revisions
      /\ gateway[g].rev \in Revisions /\ gateway[g].stale \subseteq Models
  BY DEF RolloutTypeInv, RolloutTypeOK, GatewayTypeOK, DeploymentTypeOK, LoopsGoOn,
         GatewaysTyped, GatewayLoops, Gateway
<1>1. CASE StartGateway(g)
  <2>1. Becomes(g, "provision", image[g], ProvisionOrder, {}, FALSE)
    BY <1>0, <1>1, StartBecomes
  <2>2. GatewayLoops' /\ GatewaysTyped'
    BY <1>0, <2>1, ListTypes, BecomesLoops
  <2> QED
    BY <1>0, <1>1, <2>2 DEF StartGateway, CatalogTypeOK
<1>2. CASE Provision(g)
  <2> DEFINE todo == gateway[g].todo
             phase == IF Tail(todo) = << >> THEN "load" ELSE "provision"
  <2>1. Nonempty(todo, Entities)
    BY <1>0, <1>2 DEF Provision, GatewayLoops
  <2>2. Head(todo) \in Entities /\ Tail(todo) \in Seq(Entities)
    BY <2>1, MembersTail
  <2>3. GoOn(g, phase, Tail(todo), {}) /\ phase \in Phases /\ provisioned' = provisioned \cup {Head(todo)}
    BY <1>2 DEF Provision, Phases, Boot
  <2>4. Becomes(g, phase, gateway[g].rev, Tail(todo), {}, gateway[g].alone)
    BY <1>0, <2>2, <2>3, ListTypes, GoOnBecomes
  <2>5. GatewayLoops' /\ GatewaysTyped'
    BY <1>0, <2>2, <2>4, BecomesLoops DEF Nonempty
  <2> QED
    BY <1>0, <1>2, <2>2, <2>3, <2>5 DEF Provision, CatalogTypeOK
<1>3. CASE Load(g)
  <2> DEFINE r == gateway[g].rev
             todo == [i \in DOMAIN Yaml[r] |-> Yaml[r][i].key]
  <2>1. CASE Loads(r)
    <3>1. Nonempty(todo, Models) /\ todo \in Seq(Entities \cup Models)
      BY <1>0, <2>1, CatalogFacts, ListTypes DEF Nonempty
    <3>2. gateway' = [gateway EXCEPT ![g].phase = "put", ![g].alone = TRUE, ![g].todo = todo]
      BY <1>3, <2>1 DEF Load
    <3>3. Becomes(g, "put", r, todo, gateway[g].stale, TRUE)
      BY <1>0, <3>1, <3>2 DEF Becomes, GatewaysTyped, Gateway, Boot
    <3>4. GatewayLoops' /\ GatewaysTyped'
      BY <1>0, <3>1, <3>3, BecomesLoops
    <3> QED
      BY <1>0, <1>3, <2>1, <3>4 DEF Load, CatalogTypeOK
  <2>2. CASE ~Loads(r)
    <3>1. Becomes(g, "down", First, << >>, {}, FALSE)
      BY <1>0, <1>3, <2>2, GoDownBecomes DEF Load
    <3>2. GatewayLoops' /\ GatewaysTyped'
      BY <1>0, <3>1, BecomesLoops
    <3> QED
      BY <1>0, <1>3, <2>2, <3>2 DEF Load, CatalogTypeOK
  <2> QED
    BY <2>1, <2>2
<1>4. CASE SeedPut(g)
  <2> DEFINE todo == gateway[g].todo
             phase == IF Tail(todo) = << >> THEN "list" ELSE "put"
  <2>1. Nonempty(todo, Models)
    BY <1>0, <1>4 DEF SeedPut, GatewayLoops
  <2>2. Head(todo) \in Models /\ Tail(todo) \in Seq(Models)
    BY <2>1, MembersTail
  <2>3. Write(g, phase, Tail(todo), {}) /\ phase \in Phases
    BY <1>4 DEF SeedPut, Phases, Boot
  <2>4. Becomes(g, phase, gateway[g].rev, Tail(todo), {}, gateway[g].alone)
    BY <1>0, <2>2, <2>3, ListTypes, WriteBecomes
  <2>5. GatewayLoops' /\ GatewaysTyped'
    BY <1>0, <2>2, <2>4, BecomesLoops DEF Nonempty
  <2> QED
    BY <1>0, <1>4, <2>2, <2>5 DEF SeedPut, PutEntry, CatalogTypeOK
<1>5. CASE SeedList(g)
  <2> DEFINE stale == Stale(gateway[g].rev)
  <2>1. GoOn(g, Evicting(stale), << >>, stale) /\ Evicting(stale) \in {"start", "evict"}
    BY <1>5 DEF SeedList, Evicting
  <2>2. Becomes(g, Evicting(stale), gateway[g].rev, << >>, stale, gateway[g].alone)
    BY <1>0, <2>1, ListTypes, GoOnBecomes DEF Phases, Boot, Stale, Listed
  <2>3. GatewayLoops' /\ GatewaysTyped'
    BY <1>0, <2>1, <2>2, BecomesLoops
  <2> QED
    BY <1>0, <1>5, <2>3 DEF SeedList, CatalogTypeOK
<1>6. CASE SeedEvict(g)
  <2>1. PICK k \in gateway[g].stale :
          LET stale == gateway[g].stale \ {k}
          IN DeleteEntry(k) /\ Write(g, Evicting(stale), << >>, stale)
    BY <1>6 DEF SeedEvict
  <2> DEFINE stale == gateway[g].stale \ {k}
  <2>2. Write(g, Evicting(stale), << >>, stale) /\ Evicting(stale) \in {"start", "evict"}
    BY <2>1 DEF Evicting
  <2>3. Becomes(g, Evicting(stale), gateway[g].rev, << >>, stale, gateway[g].alone)
    BY <1>0, <2>2, ListTypes, WriteBecomes DEF Phases, Boot
  <2>4. GatewayLoops' /\ GatewaysTyped'
    BY <1>0, <2>2, <2>3, BecomesLoops
  <2> QED
    BY <1>0, <1>6, <2>1, <2>4 DEF SeedEvict, DeleteEntry, CatalogTypeOK
<1>7. CASE StartServing(g)
  <2>1. Becomes(g, "serve", gateway[g].rev, << >>, {}, gateway[g].alone)
    BY <1>0, <1>7, ListTypes, GoOnBecomes DEF StartServing, Phases
  <2>2. GatewayLoops' /\ GatewaysTyped'
    BY <1>0, <2>1, BecomesLoops
  <2> QED
    BY <1>0, <1>7, <2>2 DEF StartServing, CatalogTypeOK
<1> QED
  BY <1>1, <1>2, <1>3, <1>4, <1>5, <1>6, <1>7 DEF BootStep

JobsTyped == job \in [Jobs -> Job]

\* What processes do to jobs keeps them jobs.
LEMMA JobTypes ==
  ASSUME JobsTyped, NEW j \in Jobs
  PROVE  /\ \A step \in JobSteps, p \in Gateways \cup Workers \cup {"nobody"} :
              Move(j, step, p) => JobsTyped'
         /\ \A g \in Gateways : DropForms(g) => JobsTyped'
         /\ \A w \in Workers : Requeue(w) => JobsTyped'
<1>1. ASSUME NEW step \in JobSteps, NEW p \in Gateways \cup Workers \cup {"nobody"}, Move(j, step, p)
      PROVE  JobsTyped'
  BY <1>1 DEF JobsTyped, Job, Move
<1>2. ASSUME NEW g \in Gateways, DropForms(g)
      PROVE  JobsTyped'
  BY <1>2, ZenonT(30) DEF JobsTyped, Job, DropForms, JobSteps
<1>3. ASSUME NEW w \in Workers, Requeue(w)
      PROVE  JobsTyped'
  BY <1>3, ZenonT(30) DEF JobsTyped, Job, Requeue, JobSteps, Waiting
<1> QED
  BY <1>1, <1>2, <1>3

\* The budgets stay numbers.
LEMMA BudgetTypes ==
  /\ FaultsTypeOK /\ Fault("crash") => FaultsTypeOK'
  /\ orders \in Nat /\ Order => orders' \in Nat
BY DEF FaultsTypeOK, Fault, Order

\* Every step of a gateway.
LEMMA GatewayTypes ==
  ASSUME RolloutTypeInv, NEW g \in Gateways, GatewayStep(g), UNCHANGED worker
  PROVE  RolloutTypeInv'
<1> USE DEF catalogVars, workVars
<1>0. /\ GatewaysTyped /\ GatewayLoops /\ CatalogTypeOK /\ provisioned \subseteq Entities
      /\ seeding \subseteq Revisions /\ image \in [Gateways -> Revisions]
      /\ JobsTyped /\ orders \in Nat /\ FaultsTypeOK /\ WorkerTypeOK
      /\ \A w \in Workers : At(w, "bind") => worker[w].needs # << >>
  BY DEF RolloutTypeInv, RolloutTypeOK, GatewayTypeOK, DeploymentTypeOK, LoopsGoOn,
         GatewaysTyped, GatewayLoops, JobsTyped
<1>1. (/\ GatewaysTyped /\ GatewayLoops /\ CatalogTypeOK /\ provisioned \subseteq Entities
       /\ seeding \subseteq Revisions /\ image \in [Gateways -> Revisions]
       /\ JobsTyped /\ orders \in Nat /\ FaultsTypeOK)' => RolloutTypeInv'
  BY <1>0 DEF RolloutTypeInv, RolloutTypeOK, GatewayTypeOK, DeploymentTypeOK, LoopsGoOn,
         GatewaysTyped, GatewayLoops, JobsTyped, WorkerTypeOK, At
<1>2. CASE BootStep(g)
  BY <1>0, <1>1, <1>2, BootTypes DEF JobsTyped, FaultsTypeOK
<1>3. CASE Shutdown(g)
  <2>1. Becomes(g, "down", First, << >>, {}, FALSE)
    BY <1>0, <1>3, GoDownBecomes DEF Shutdown
  <2>2. GatewayLoops' /\ GatewaysTyped'
    BY <1>0, <2>1, BecomesLoops
  <2> QED
    BY <1>0, <1>1, <1>3, <2>2 DEF Shutdown, CatalogTypeOK, JobsTyped, FaultsTypeOK
<1>4. CASE Die(g)
  <2>1. Becomes(g, "down", First, << >>, {}, FALSE)
    BY <1>0, <1>4, GoDownBecomes DEF Die
  <2>2. GatewayLoops' /\ GatewaysTyped'
    BY <1>0, <2>1, BecomesLoops
  <2>3. JobsTyped'
    BY <1>0, <1>4, ZenonT(30) DEF Die, DropForms, JobsTyped, Job, JobSteps
  <2>4. FaultsTypeOK'
    BY <1>0, <1>4, BudgetTypes DEF Die
  <2> QED
    BY <1>0, <1>1, <1>4, <2>2, <2>3, <2>4 DEF Die, CatalogTypeOK
<1>5. ASSUME NEW j \in Jobs, Accept(g, j)
      PROVE  RolloutTypeInv'
  <2>1. gateway[g].rev \in Revisions
    BY <1>0 DEF GatewaysTyped, Gateway
  <2>2. PICK k \in Models :
          job' = [job EXCEPT ![j] = [step |-> "form", by |-> g, model |-> k, deliveries |-> 0]]
    BY <1>5, <2>1, CatalogFacts DEF Accept
  <2>3. JobsTyped'
    BY <1>0, <2>2 DEF JobsTyped, Job, JobSteps
  <2> QED
    BY <1>0, <1>1, <1>5, <2>3
       DEF Accept, CatalogTypeOK, FaultsTypeOK, GatewaysTyped, GatewayLoops, In
<1>6. ASSUME NEW j \in Jobs, PublishRequest(g, j)
      PROVE  RolloutTypeInv'
  <2>1. JobsTyped'
    BY <1>0, <1>6, JobTypes DEF PublishRequest, JobSteps
  <2> QED
    BY <1>0, <1>1, <1>6, <2>1
       DEF PublishRequest, CatalogTypeOK, FaultsTypeOK, GatewaysTyped, GatewayLoops, In
<1>7. ASSUME NEW r \in Revisions, Redeploy(g, r)
      PROVE  RolloutTypeInv'
  <2>1. \/ Becomes(g, "drain", gateway[g].rev, gateway[g].todo, gateway[g].stale, gateway[g].alone)
        \/ Becomes(g, "down", First, << >>, {}, FALSE)
    BY <1>0, <1>7, StopBecomes DEF Redeploy
  <2>2. GatewayLoops' /\ GatewaysTyped'
    <3>1. CASE Becomes(g, "drain", gateway[g].rev, gateway[g].todo, gateway[g].stale, gateway[g].alone)
      BY <1>0, <3>1, BecomesLoops
    <3>2. CASE Becomes(g, "down", First, << >>, {}, FALSE)
      BY <1>0, <3>2, BecomesLoops
    <3> QED
      BY <2>1, <3>1, <3>2
  <2>3. image' \in [Gateways -> Revisions] /\ orders' \in Nat
    BY <1>0, <1>7, BudgetTypes DEF Redeploy
  <2> QED
    BY <1>0, <1>1, <1>7, <2>2, <2>3 DEF Redeploy, CatalogTypeOK, JobsTyped, FaultsTypeOK
<1> QED
  BY <1>2, <1>3, <1>4, <1>5, <1>6, <1>7 DEF GatewayStep

-----------------------------------------------------------------------------
(* Types of the workers. *)

WorkersGoOn == \A w \in Workers : At(w, "bind") => worker[w].needs # << >>

\* A worker is either where the loop left it or gone.
LEMMA LoopTopTypes ==
  ASSUME WorkerTypeOK, WorkersGoOn, NEW w \in Workers, NEW r \in Worker, worker' = LoopTop(w, r)
  PROVE  WorkerTypeOK' /\ WorkersGoOn'
<1>1. worker'[w] \in Worker /\ worker'[w].phase # "bind"
  <2>1. Exited \in Worker /\ Exited.phase # "bind"
    BY BindAttemptsAssumption DEF Exited, Worker, Answers
  <2>2. [r EXCEPT !.phase = "fetch"] \in Worker /\ [r EXCEPT !.phase = "fetch"].phase # "bind"
    BY DEF Worker
  <2>3. worker'[w] = IF r.stop THEN Exited ELSE [r EXCEPT !.phase = "fetch"]
    BY DEF LoopTop, WorkerTypeOK
  <2> QED
    BY <2>1, <2>2, <2>3
<1>2. \A v \in Workers \ {w} : worker'[v] = worker[v]
  BY DEF LoopTop, WorkerTypeOK
<1>3. worker' \in [Workers -> Worker]
  BY <1>1, <1>2 DEF LoopTop, WorkerTypeOK
<1> QED
  BY <1>1, <1>2, <1>3 DEF WorkerTypeOK, WorkersGoOn, At

\* Every step of a worker.
LEMMA WorkerTypes ==
  ASSUME RolloutTypeInv, NEW w \in Workers, WorkerStep(w), UNCHANGED <<gateway, image, seeding>>
  PROVE  RolloutTypeInv'
<1> USE DEF othersVars
<1>0. /\ CatalogTypeOK /\ provisioned \subseteq Entities /\ JobsTyped /\ orders \in Nat
      /\ FaultsTypeOK /\ WorkerTypeOK /\ WorkersGoOn /\ worker[w] \in Worker
  BY DEF RolloutTypeInv, RolloutTypeOK, GatewayTypeOK, DeploymentTypeOK, LoopsGoOn,
         JobsTyped, WorkersGoOn, WorkerTypeOK
<1>1. (/\ JobsTyped /\ orders \in Nat /\ FaultsTypeOK /\ WorkerTypeOK /\ WorkersGoOn)'
        /\ UNCHANGED <<bucket, provisioned>> => RolloutTypeInv'
  BY DEF RolloutTypeInv, RolloutTypeOK, GatewayTypeOK, DeploymentTypeOK, LoopsGoOn,
         JobsTyped, WorkersGoOn, CatalogTypeOK, In
<1>2. Exited \in Worker /\ BindAttempts \in 0..BindAttempts /\ BindAttempts > 0
  BY BindAttemptsAssumption DEF Exited, Worker, Answers
<1>3. CASE StartWorker(w)
  <2> DEFINE r == [Exited EXCEPT !.phase = "bind", !.needs = Binds(w), !.tries = BindAttempts]
  <2>1. Binds(w) \in Seq(Entities) /\ Binds(w) # << >>
    <3>1. CASE w \in AiWorkers
      <4>1. Binds(w) = <<"AI_PROCESSOR", "model-catalog">>
        BY <3>1 DEF Binds
      <4> QED
        BY <4>1 DEF Entities
    <3>2. CASE w \notin AiWorkers
      <4>1. Binds(w) = <<"CV_GENERATOR">>
        BY <3>2 DEF Binds
      <4> QED
        BY <4>1 DEF Entities
    <3> QED
      BY <3>1, <3>2
  <2>2. r \in Worker /\ r.phase = "bind" /\ r.needs = Binds(w) /\ r.tries = BindAttempts
    BY <1>2, <2>1 DEF Exited, Worker, Answers
  <2>3. worker' = [worker EXCEPT ![w] = r]
    BY <1>3 DEF StartWorker
  <2>4. WorkerTypeOK' /\ WorkersGoOn'
    BY <1>0, <1>2, <2>1, <2>2, <2>3 DEF WorkerTypeOK, WorkersGoOn, At
  <2> QED
    BY <1>0, <1>1, <1>3, <2>4 DEF StartWorker, JobsTyped, FaultsTypeOK
<1>4. CASE Bind(w)
  <2>0. /\ worker[w].needs \in Seq(Entities) /\ worker[w].needs # << >>
        /\ worker[w].tries \in 0..BindAttempts /\ worker[w].tries > 0
    BY <1>0, <1>4 DEF Bind, WorkerTypeOK, WorkersGoOn, Worker
  <2>1. CASE Bound(w)
    <3> DEFINE r == [worker[w] EXCEPT !.needs = Tail(@), !.tries = BindAttempts]
    <3>1. Tail(worker[w].needs) \in Seq(Entities)
      BY <2>0
    <3>2. r \in Worker /\ r.needs = Tail(worker[w].needs) /\ r.tries = BindAttempts
      BY <1>0, <1>2, <3>1 DEF Worker
    <3>3. ASSUME r.needs = << >>
          PROVE  WorkerTypeOK' /\ WorkersGoOn'
      BY <1>0, <2>1, <3>2, <3>3, LoopTopTypes DEF Bound
    <3>4. ASSUME r.needs # << >>
          PROVE  WorkerTypeOK' /\ WorkersGoOn'
      <4>1. worker' = [worker EXCEPT ![w] = r]
        BY <2>1, <3>4 DEF Bound
      <4> QED
        BY <1>0, <1>2, <3>2, <3>4, <4>1 DEF WorkerTypeOK, WorkersGoOn, At
    <3>5. WorkerTypeOK' /\ WorkersGoOn'
      BY <3>3, <3>4
    <3> QED
      BY <1>0, <1>1, <1>4, <3>5 DEF Bind, JobsTyped, FaultsTypeOK
  <2>2. CASE ~Bound(w) /\ worker[w].tries = 1
    <3>1. worker' = [worker EXCEPT ![w] = Exited]
      BY <1>4, <2>2 DEF Bind
    <3>2. WorkerTypeOK' /\ WorkersGoOn'
      BY <1>0, <1>2, <3>1 DEF WorkerTypeOK, WorkersGoOn, At, Exited
    <3> QED
      BY <1>0, <1>1, <1>4, <3>2 DEF Bind, JobsTyped, FaultsTypeOK
  <2>3. CASE ~Bound(w) /\ worker[w].tries # 1
    <3>1. worker' = [worker EXCEPT ![w].tries = @ - 1]
      BY <1>4, <2>3 DEF Bind
    <3>2. worker[w].tries - 1 \in 0..BindAttempts /\ worker[w].tries - 1 > 0
      BY <2>0, <2>3, BindAttemptsAssumption
    <3>3. WorkerTypeOK' /\ WorkersGoOn'
      BY <1>0, <3>1, <3>2 DEF WorkerTypeOK, WorkersGoOn, At, Worker
    <3> QED
      BY <1>0, <1>1, <1>4, <3>3 DEF Bind, JobsTyped, FaultsTypeOK
  <2> QED
    BY <2>1, <2>2, <2>3
<1>5. CASE Fetch(w)
  <2>1. ASSUME NEW j \in Jobs, Goto(w, "handle"),
               job' = [job EXCEPT ![j].step = Handled(w), ![j].by = w, ![j].deliveries = @ + 1]
        PROVE  JobsTyped' /\ WorkerTypeOK' /\ WorkersGoOn'
    <3>1. JobsTyped'
      BY <1>0, <2>1 DEF JobsTyped, Job, JobSteps, Handled
    <3>2. WorkerTypeOK' /\ WorkersGoOn'
      BY <1>0, <2>1 DEF Goto, WorkerTypeOK, WorkersGoOn, At, Worker
    <3> QED
      BY <3>1, <3>2
  <2>2. ASSUME worker' = LoopTop(w, worker[w]), UNCHANGED job
        PROVE  JobsTyped' /\ WorkerTypeOK' /\ WorkersGoOn'
    BY <1>0, <2>2, LoopTopTypes DEF JobsTyped
  <2> QED
    BY <1>0, <1>1, <1>5, <2>1, <2>2 DEF Fetch, FaultsTypeOK
<1>6. CASE Handle(w)
  <2>1. PICK answer \in Answers :
          worker' = [worker EXCEPT ![w].phase = "settle", ![w].answer = answer]
    BY <1>6 DEF Handle, Answers
  <2>2. WorkerTypeOK' /\ WorkersGoOn'
    BY <1>0, <2>1 DEF WorkerTypeOK, WorkersGoOn, At, Worker
  <2> QED
    BY <1>0, <1>1, <1>6, <2>2 DEF Handle, JobsTyped, FaultsTypeOK
<1>7. CASE Settle(w)
  <2>1. [worker[w] EXCEPT !.answer = "none"] \in Worker
    BY <1>0 DEF Worker, Answers
  <2>2. WorkerTypeOK' /\ WorkersGoOn'
    BY <1>0, <1>7, <2>1, LoopTopTypes DEF Settle
  <2>3. worker[w].answer \in JobSteps
    BY <1>0 DEF Worker, Answers, JobSteps
  <2>4. PICK j \in Jobs : Move(j, worker[w].answer, "nobody")
    BY <1>7 DEF Settle, InHands
  <2>5. JobsTyped'
    BY <1>0, <2>3, <2>4, JobTypes
  <2> QED
    BY <1>0, <1>1, <1>7, <2>2, <2>5 DEF Settle, FaultsTypeOK
<1>8. CASE StopWorker(w)
  <2>1. WorkerTypeOK' /\ WorkersGoOn'
    BY <1>0, <1>8 DEF StopWorker, WorkerTypeOK, WorkersGoOn, At, Worker
  <2>2. orders' \in Nat
    BY <1>0, <1>8, BudgetTypes DEF StopWorker
  <2> QED
    BY <1>0, <1>1, <1>8, <2>1, <2>2 DEF StopWorker, JobsTyped, FaultsTypeOK
<1>9. CASE Kill(w)
  <2>1. WorkerTypeOK' /\ WorkersGoOn'
    BY <1>0, <1>2, <1>9 DEF Kill, WorkerTypeOK, WorkersGoOn, At, Exited
  <2>2. JobsTyped'
    BY <1>0, <1>9, ZenonT(30) DEF Kill, Requeue, JobsTyped, Job, JobSteps, Waiting
  <2>3. FaultsTypeOK'
    BY <1>0, <1>9, BudgetTypes DEF Kill
  <2> QED
    BY <1>0, <1>1, <1>9, <2>1, <2>2, <2>3 DEF Kill
<1> QED
  BY <1>3, <1>4, <1>5, <1>6, <1>7, <1>8, <1>9 DEF WorkerStep, WorkerRun

\* The initial state.
LEMMA InitTypes == Init => RolloutTypeInv
<1> SUFFICES ASSUME Init PROVE RolloutTypeInv
  OBVIOUS
<1>1. CatalogTypeOK
  BY DEF Init, CatalogInit, CatalogTypeOK
<1>2. DeploymentTypeOK
  BY DEF Init, DeploymentInit, DeploymentTypeOK, Job, JobSteps
<1>3. FaultsTypeOK
  BY DEF Init, FaultsInit, FaultsTypeOK
<1>4. Off \in Gateway
  BY FirstAssumption, ListTypes DEF Off, Gateway
<1>5. GatewayTypeOK /\ GatewayLoops
  BY <1>4, FirstAssumption DEF Init, GatewayInit, GatewayTypeOK, GatewayLoops, In, Off
<1>6. Exited \in Worker /\ Exited.phase = "down"
  BY BindAttemptsAssumption DEF Exited, Worker, Answers
<1>7. WorkerTypeOK /\ WorkersGoOn
  BY <1>6 DEF Init, WorkerInit, WorkerTypeOK, WorkersGoOn, At
<1> QED
  BY <1>1, <1>2, <1>3, <1>5, <1>7
     DEF RolloutTypeInv, RolloutTypeOK, LoopsGoOn, GatewayLoops, WorkersGoOn

\* Every step.
LEMMA NextTypes == RolloutTypeInv /\ [Next]_vars => RolloutTypeInv'
<1> SUFFICES ASSUME RolloutTypeInv, [Next]_vars PROVE RolloutTypeInv'
  OBVIOUS
<1>1. CASE Next
  BY <1>1, GatewayTypes, WorkerTypes DEF Next
<1>2. CASE UNCHANGED vars
  BY <1>2 DEF vars, RolloutTypeInv, RolloutTypeOK, CatalogTypeOK, DeploymentTypeOK, FaultsTypeOK,
              GatewayTypeOK, WorkerTypeOK, LoopsGoOn, In, At
<1> QED
  BY <1>1, <1>2

\* Whatever boots, crashes, is replaced or drains, every variable keeps its
\* type, and a binding worker has attempts left.
THEOREM RolloutTypeCorrect == RolloutSpec => []RolloutTypeOK
<1>1. RolloutTypeInv => RolloutTypeOK
  BY DEF RolloutTypeInv
<1> QED
  BY InitTypes, NextTypes, <1>1, PTL DEF RolloutSpec

-----------------------------------------------------------------------------
(* What a write to the bucket, or another revision that seeds, leaves true. *)

\* No key that all seeding revisions have is deleted.
Kept ==
  /\ seeding \subseteq seeding'
  /\ \A k \in Models : Safe(k)' /\ k \in Listed => k \in Listed'

\* A gateway process that does not move, and whose revision's entries are
\* disturbed only if it is no longer alone, knows what it knew.
LEMMA SeedKnowsKept ==
  ASSUME RolloutTypeInv, RolloutTypeInv', NEW h \in Gateways, SeedKnows(h), Kept,
         gateway'[h].phase = gateway[h].phase, gateway'[h].rev = gateway[h].rev,
         gateway'[h].todo = gateway[h].todo, gateway'[h].stale = gateway[h].stale,
         gateway'[h].alone => gateway[h].alone,
         gateway'[h].alone => \A k \in Models :
           /\ bucket[k] = gateway[h].rev => bucket'[k] = gateway[h].rev
           /\ k \in Listed' \ KeysOf(gateway[h].rev) => k \in Listed
  PROVE  SeedKnows(h)'
<1>1. KeysOf(gateway[h].rev) \subseteq Models /\ Listed' \subseteq Models
  BY CatalogFacts DEF RolloutTypeInv, RolloutTypeOK, GatewayTypeOK, Gateway, Listed
<1>2. PutKeys(h)' = PutKeys(h) /\ PutKeys(h) \subseteq Models
  BY <1>1 DEF PutKeys, In
<1>3. \A P : Past(h, P)' <=> Past(h, P)
  BY DEF Past
<1>4. \A p \in {"put", "evict"} : In(h, p)' <=> In(h, p)
  BY DEF In
<1>5. In(h, "put")' => Members(gateway'[h].todo) \subseteq KeysOf(gateway'[h].rev)
  BY <1>4 DEF SeedKnows
<1>6. (gateway[h].phase \in AfterLoad)' => gateway'[h].rev \in seeding'
  BY DEF SeedKnows, Past, Kept
<1>7. (gateway[h].phase \in {"evict"})' => gateway'[h].stale \cap KeysOf(gateway'[h].rev) = {}
  BY DEF SeedKnows, Past
<1>8. (gateway[h].phase \in AfterLoad)' => \A k \in PutKeys(h)' : Safe(k)' => k \in Listed'
  <2> SUFFICES ASSUME gateway'[h].phase \in AfterLoad, NEW k \in PutKeys(h), Safe(k)'
               PROVE  k \in Listed'
    BY <1>2
  <2>1. Safe(k)
    BY DEF Safe, Kept
  <2>2. k \in Listed /\ k \in Models
    BY <1>2, <2>1 DEF SeedKnows, Past
  <2> QED
    BY <2>2 DEF Kept
<1>9. (gateway[h].phase \in AfterLoad /\ gateway[h].alone)' =>
        \A k \in PutKeys(h)' : bucket'[k] = gateway'[h].rev
  BY <1>2 DEF SeedKnows, Past
<1>10. (gateway[h].phase \in AfterList /\ gateway[h].alone)' =>
         \A k \in Listed' \ KeysOf(gateway'[h].rev) : In(h, "evict")' /\ k \in gateway'[h].stale
  BY <1>1, <1>4 DEF SeedKnows, Past
<1> QED
  BY <1>5, <1>6, <1>7, <1>8, <1>9, <1>10 DEF SeedKnows, Past, AfterLoad, AfterList

\* A process that is not past its Load knows nothing yet.
LEMMA SeedKnowsBefore ==
  ASSUME NEW g \in Gateways, gateway'[g].phase \in {"down", "provision", "load"}
  PROVE  SeedKnows(g)'
BY DEF SeedKnows, In, Past, AfterLoad, AfterList

\* A job whose model stays listed or stops being safe, and that stays in the
\* same hands or leaves them.
LEMMA JobKnowsKept ==
  ASSUME NEW j \in Jobs, JobKnows(j), Kept,
         job'[j].model = job[j].model,
         job'[j].by # "nobody" => job'[j].step # "none",
         job'[j].step # "none" => job[j].step # "none",
         job'[j].step = "unknown" => ~Safe(job[j].model),
         \A w \in Workers : job'[j].by = w /\ worker'[w].answer = "unknown" => ~Safe(job[j].model)
  PROVE  JobKnows(j)'
<1> DEFINE m == job[j].model
<1>2. Safe(m)' => Safe(job[j].model)
  BY DEF Safe, Kept
<1>3. job'[j].step # "none" => m' \in Models /\ (Safe(m)' => m' \in Listed')
  <2> SUFFICES ASSUME job'[j].step # "none"
               PROVE  m' \in Models /\ (Safe(m)' => m' \in Listed')
    OBVIOUS
  <2>1. job[j].model \in Models /\ (Safe(job[j].model) => job[j].model \in Listed)
    BY DEF JobKnows
  <2>2. PICK k \in Models : k = job[j].model
    BY <2>1
  <2>3. Safe(k)' => k \in Listed'
    BY <1>2, <2>1, <2>2 DEF Kept, Safe
  <2> QED
    BY <2>1, <2>2, <2>3 DEF Safe
<1> QED
  BY <1>2, <1>3 DEF JobKnows

\* A bucket that nobody touches keeps what it lists.
LEMMA NothingDeleted ==
  ASSUME UNCHANGED bucket, seeding \subseteq seeding'
  PROVE  Kept /\ Listed' = Listed
BY DEF Kept, Listed

-----------------------------------------------------------------------------
(* What a step of boot leaves known. *)

\* The process in pod g moves, the bucket does not.
LEMMA OthersKnow ==
  ASSUME RolloutInv, RolloutTypeInv', NEW g \in Gateways,
         UNCHANGED bucket, seeding \subseteq seeding',
         \A h \in Gateways \ {g} :
           /\ gateway'[h].phase = gateway[h].phase /\ gateway'[h].rev = gateway[h].rev
           /\ gateway'[h].todo = gateway[h].todo /\ gateway'[h].stale = gateway[h].stale
           /\ gateway'[h].alone => gateway[h].alone
  PROVE  Kept /\ \A h \in Gateways \ {g} : SeedKnows(h)'
<1>1. Kept /\ Listed' = Listed
  BY NothingDeleted
<1>2. ASSUME NEW h \in Gateways \ {g}
      PROVE  SeedKnows(h)'
  BY <1>1, SeedKnowsKept DEF RolloutInv
<1> QED
  BY <1>1, <1>2

\* Load.
LEMMA LoadKnows ==
  ASSUME RolloutInv, RolloutTypeInv', NEW g \in Gateways, Load(g)
  PROVE  Kept /\ \A h \in Gateways : SeedKnows(h)'
<1> DEFINE r == gateway[g].rev
           todo == [i \in DOMAIN Yaml[r] |-> Yaml[r][i].key]
<1>0. GatewaysTyped /\ r \in Revisions
  BY DEF RolloutInv, RolloutTypeInv, RolloutTypeOK, GatewayTypeOK, GatewaysTyped, Gateway
<1>1. CASE Loads(r)
  <2>1. /\ gateway' = [gateway EXCEPT ![g].phase = "put", ![g].alone = TRUE, ![g].todo = todo]
        /\ seeding' = seeding \cup {r} /\ UNCHANGED bucket
    BY <1>1 DEF Load
  <2>2. /\ gateway'[g].phase = "put" /\ gateway'[g].rev = r /\ gateway'[g].todo = todo
        /\ \A h \in Gateways \ {g} : gateway'[h] = gateway[h]
    BY <1>0, <2>1 DEF GatewaysTyped, Gateway
  <2>3. Kept /\ \A h \in Gateways \ {g} : SeedKnows(h)'
    BY <2>1, <2>2, OthersKnow
  <2>4. Members(todo) = KeysOf(r)
    BY <1>0, CatalogFacts
  <2>5. PutKeys(g)' = {}
    BY <2>2, <2>4 DEF PutKeys, In
  <2>6. SeedKnows(g)'
    <3>1. ~In(g, "evict")' /\ ~Past(g, {"evict"})' /\ ~Past(g, AfterList)'
      BY <2>2 DEF In, Past, AfterList
    <3>2. Members(gateway'[g].todo) \subseteq KeysOf(gateway'[g].rev)
      BY <2>2, <2>4
    <3>3. gateway'[g].rev \in seeding'
      BY <2>1, <2>2
    <3> QED
      BY <2>5, <3>1, <3>2, <3>3 DEF SeedKnows
  <2> QED
    BY <2>3, <2>6
<1>2. CASE ~Loads(r)
  <2>1. Becomes(g, "down", First, << >>, {}, FALSE) /\ UNCHANGED <<bucket, seeding>>
    BY <1>0, <1>2, GoDownBecomes DEF Load
  <2> QED
    BY <2>1, OthersKnow, SeedKnowsBefore DEF Becomes
<1> QED
  BY <1>1, <1>2

\* A Put of one's own key.
LEMMA PutKnows ==
  ASSUME RolloutInv, RolloutTypeInv', NEW g \in Gateways, SeedPut(g)
  PROVE  Kept /\ \A h \in Gateways : SeedKnows(h)'
<1> DEFINE r == gateway[g].rev
           todo == gateway[g].todo
           key == Head(todo)
           phase == IF Tail(todo) = << >> THEN "list" ELSE "put"
<1>0. /\ GatewaysTyped /\ r \in Revisions /\ In(g, "put") /\ Nonempty(todo, Models)
      /\ bucket \in [Models -> Revisions \cup {"absent"}] /\ SeedKnows(g)
  BY DEF RolloutInv, RolloutTypeInv, RolloutTypeOK, CatalogTypeOK, GatewayTypeOK, LoopsGoOn,
         GatewaysTyped, Gateway, SeedPut
<1>1. /\ key \in Models /\ Tail(todo) \in Seq(Models)
      /\ Members(todo) = {key} \cup Members(Tail(todo))
      /\ Tail(todo) = << >> => Members(todo) = {key}
  BY <1>0, MembersTail
<1>2. key \in KeysOf(r) /\ r \in seeding
  BY <1>0, <1>1 DEF SeedKnows, In, Past, AfterLoad
<1>3. /\ Write(g, phase, Tail(todo), {}) /\ phase \in Phases
      /\ bucket' = [bucket EXCEPT ![key] = r] /\ UNCHANGED seeding
  BY DEF SeedPut, PutEntry, Phases, Boot
<1>4. /\ Becomes(g, phase, r, Tail(todo), {}, gateway[g].alone)
      /\ \A h \in Gateways \ {g} : gateway'[h].alone => gateway[h].rev = r
  <2>1. Tail(todo) \in Seq(Entities \cup Models)
    BY <1>1, ListTypes
  <2>2. GatewaysTyped /\ Write(g, phase, Tail(todo), {}) /\ phase \in Phases /\ {} \in SUBSET Models
    BY <1>0, <1>3
  <2> HIDE DEF phase
  <2> QED
    BY <2>1, <2>2, WriteBecomes
<1>5. Listed' = Listed \cup {key} /\ \A k \in Models \ {key} : bucket'[k] = bucket[k]
  BY <1>0, <1>1, <1>3, NoEntryAssumption DEF Listed
<1>6. bucket'[key] = r
  BY <1>0, <1>1, <1>3
<1>7. Kept
  BY <1>3, <1>5 DEF Kept
<1>8. ASSUME NEW h \in Gateways \ {g}
      PROVE  SeedKnows(h)'
  <2>1. gateway'[h].alone => \A k \in Models :
          /\ bucket[k] = gateway[h].rev => bucket'[k] = gateway[h].rev
          /\ k \in Listed' \ KeysOf(gateway[h].rev) => k \in Listed
    BY <1>2, <1>4, <1>5, <1>6
  <2> QED
    BY <1>4, <1>7, <2>1, SeedKnowsKept DEF RolloutInv, Becomes
<1>9. SeedKnows(g)'
  <2>1. gateway'[g] = [phase |-> phase, rev |-> r, todo |-> Tail(todo), stale |-> {},
                       alone |-> gateway[g].alone]
    BY <1>4 DEF Becomes
  <2>2. PutKeys(g)' \subseteq PutKeys(g) \cup {key} /\ PutKeys(g) \subseteq Models
    <3>1. KeysOf(r) \subseteq Models /\ PutKeys(g) = KeysOf(r) \ Members(todo)
      BY <1>0, CatalogFacts DEF PutKeys, In
    <3>2. PutKeys(g)' = KeysOf(r) \ (IF phase = "put" THEN Members(Tail(todo)) ELSE {})
      BY <2>1 DEF PutKeys, In
    <3> QED
      BY <1>1, <3>1, <3>2
  <2>3. ASSUME NEW k \in PutKeys(g)', Safe(k)'
        PROVE  k \in Listed'
    BY <1>0, <1>3, <1>5, <2>2, <2>3 DEF SeedKnows, Safe, Past, AfterLoad, In
  <2>4. ASSUME gateway'[g].alone, NEW k \in PutKeys(g)'
        PROVE  bucket'[k] = r
    BY <1>0, <1>5, <1>6, <2>1, <2>2, <2>4 DEF SeedKnows, Past, AfterLoad, In
  <2>5. In(g, "put")' => Members(gateway'[g].todo) \subseteq KeysOf(gateway'[g].rev)
    BY <1>0, <1>1, <2>1 DEF SeedKnows, In
  <2> QED
    BY <1>2, <1>3, <2>1, <2>3, <2>4, <2>5 DEF SeedKnows, Past, AfterLoad, AfterList, In
<1> QED
  BY <1>7, <1>8, <1>9

\* The keys that Seed finds and its file lacks.
LEMMA ListKnows ==
  ASSUME RolloutInv, RolloutTypeInv', NEW g \in Gateways, SeedList(g)
  PROVE  Kept /\ \A h \in Gateways : SeedKnows(h)'
<1> DEFINE r == gateway[g].rev
           stale == Stale(r)
<1>0. GatewaysTyped /\ In(g, "list") /\ SeedKnows(g) /\ UNCHANGED <<bucket, seeding>>
  BY DEF RolloutInv, RolloutTypeInv, RolloutTypeOK, GatewayTypeOK, GatewaysTyped, SeedList, catalogVars
<1>1. GoOn(g, Evicting(stale), << >>, stale) /\ Evicting(stale) \in Phases /\ stale \in SUBSET Models
  BY DEF SeedList, Evicting, Phases, Boot, Stale, Listed
<1>2. Becomes(g, Evicting(stale), r, << >>, stale, gateway[g].alone)
  BY <1>0, <1>1, ListTypes, GoOnBecomes
<1>3. Kept /\ Listed' = Listed /\ \A h \in Gateways \ {g} : SeedKnows(h)'
  BY <1>0, <1>2, OthersKnow, NothingDeleted DEF Becomes
<1>4. gateway'[g] = [phase |-> Evicting(stale), rev |-> r, todo |-> << >>, stale |-> stale,
                     alone |-> gateway[g].alone]
  BY <1>2 DEF Becomes
<1>5. PutKeys(g)' = KeysOf(r) /\ PutKeys(g) = KeysOf(r)
  BY <1>0, <1>4 DEF PutKeys, In, Evicting
<1>6. stale = Listed \ KeysOf(r) /\ (stale = {} <=> Evicting(stale) # "evict")
  BY DEF Stale, Evicting
<1>7. SeedKnows(g)'
  BY <1>0, <1>3, <1>4, <1>5, <1>6 DEF SeedKnows, Past, AfterLoad, AfterList, In, Safe, Evicting
<1> QED
  BY <1>3, <1>7

\* A Delete of a key that one's own file lacks.
LEMMA EvictKnows ==
  ASSUME RolloutInv, RolloutTypeInv', NEW g \in Gateways, SeedEvict(g)
  PROVE  Kept /\ \A h \in Gateways : SeedKnows(h)'
<1> DEFINE r == gateway[g].rev
<1>0. /\ GatewaysTyped /\ r \in Revisions /\ In(g, "evict") /\ SeedKnows(g) /\ UNCHANGED seeding
      /\ gateway[g].stale \subseteq Models
      /\ bucket \in [Models -> Revisions \cup {"absent"}]
  BY DEF RolloutInv, RolloutTypeInv, RolloutTypeOK, CatalogTypeOK, GatewayTypeOK, GatewaysTyped,
         Gateway, SeedEvict
<1>1. PICK key \in gateway[g].stale :
        LET left == gateway[g].stale \ {key}
        IN DeleteEntry(key) /\ Write(g, Evicting(left), << >>, left)
  BY DEF SeedEvict
<1> DEFINE left == gateway[g].stale \ {key}
<1>2. /\ Write(g, Evicting(left), << >>, left) /\ Evicting(left) \in Phases
      /\ left \in SUBSET Models /\ key \in Models
  BY <1>0, <1>1 DEF Evicting, Phases, Boot
<1>3. /\ Becomes(g, Evicting(left), r, << >>, left, gateway[g].alone)
      /\ \A h \in Gateways \ {g} : gateway'[h].alone => gateway[h].rev = r
  BY <1>0, <1>2, ListTypes, WriteBecomes
<1>4. key \notin KeysOf(r) /\ r \in seeding
  BY <1>0 DEF SeedKnows, Past, In, AfterLoad, AfterList
<1>5. Listed' = Listed \ {key} /\ \A k \in Models \ {key} : bucket'[k] = bucket[k]
  BY <1>0, <1>1, <1>2 DEF DeleteEntry, Listed
<1>6. Kept
  BY <1>0, <1>4, <1>5 DEF Kept, Safe
<1>7. ASSUME NEW h \in Gateways \ {g}
      PROVE  SeedKnows(h)'
  <2>1. CASE gateway'[h].alone
    <3>1. gateway[h].rev = r /\ gateway[h].alone
      BY <1>3, <2>1 DEF Becomes
    <3>2. \A k \in KeysOf(r) : k # key
      BY <1>4
    <3>3. /\ PutKeys(h)' = PutKeys(h) /\ PutKeys(h) \subseteq KeysOf(r) /\ KeysOf(r) \subseteq Models
      BY <1>0, <1>3, <3>1, CatalogFacts DEF PutKeys, Becomes, In
    <3>4. \A k \in PutKeys(h) : bucket'[k] = bucket[k] /\ (k \in Listed' <=> k \in Listed)
      BY <1>5, <3>2, <3>3
    <3>5. SeedKnows(h)
      BY DEF RolloutInv
    <3> QED
      BY <1>0, <1>3, <1>5, <3>1, <3>3, <3>4, <3>5
         DEF SeedKnows, Becomes, Past, In, Safe, AfterLoad, AfterList
  <2>2. CASE ~gateway'[h].alone
    BY <1>3, <1>6, <2>2, SeedKnowsKept DEF RolloutInv, Becomes
  <2> QED
    BY <2>1, <2>2
<1>8. SeedKnows(g)'
  <2>1. gateway'[g] = [phase |-> Evicting(left), rev |-> r, todo |-> << >>, stale |-> left,
                       alone |-> gateway[g].alone]
    BY <1>3 DEF Becomes
  <2>2. PutKeys(g)' = KeysOf(r) /\ PutKeys(g) = KeysOf(r) /\ KeysOf(r) \subseteq Models
    <3>1. KeysOf(r) \subseteq Models /\ PutKeys(g) = KeysOf(r)
      BY <1>0, CatalogFacts DEF PutKeys, In
    <3>2. Evicting(left) # "put"
      BY DEF Evicting
    <3>3. PutKeys(g)' = KeysOf(r)
      BY <2>1, <3>2 DEF PutKeys, In
    <3> QED
      BY <3>1, <3>3
  <2>3. \A k \in KeysOf(r) : bucket'[k] = bucket[k] /\ (k \in Listed' <=> k \in Listed)
    BY <1>4, <1>5, <2>2
  <2>4. left = {} <=> Evicting(left) # "evict"
    BY DEF Evicting
  <2> QED
    BY <1>0, <1>4, <1>5, <2>1, <2>2, <2>3, <2>4
       DEF SeedKnows, Past, In, Safe, AfterLoad, AfterList, Evicting
<1> QED
  BY <1>6, <1>7, <1>8

\* Every step of boot.
LEMMA BootKnows ==
  ASSUME RolloutInv, RolloutTypeInv', NEW g \in Gateways, BootStep(g)
  PROVE  Kept /\ \A h \in Gateways : SeedKnows(h)'
<1> USE DEF catalogVars, workVars
<1>0. GatewaysTyped /\ SeedKnows(g) /\ image[g] \in Revisions
  BY DEF RolloutInv, RolloutTypeInv, RolloutTypeOK, GatewayTypeOK, GatewaysTyped
<1>1. CASE StartGateway(g)
  <2>1. Becomes(g, "provision", image[g], ProvisionOrder, {}, FALSE)
    BY <1>0, <1>1, StartBecomes
  <2> QED
    BY <1>1, <2>1, OthersKnow, SeedKnowsBefore DEF Becomes, StartGateway
<1>2. CASE Provision(g)
  <2> DEFINE todo == Tail(gateway[g].todo)
             phase == IF todo = << >> THEN "load" ELSE "provision"
  <2>1. GoOn(g, phase, todo, {}) /\ UNCHANGED <<bucket, seeding>>
    BY <1>2 DEF Provision
  <2>2. /\ gateway'[g].phase \in {"load", "provision"}
        /\ \A h \in Gateways \ {g} : gateway'[h] = gateway[h]
    BY <1>0, <2>1 DEF GoOn, GatewaysTyped, Gateway
  <2> QED
    BY <2>1, <2>2, OthersKnow, SeedKnowsBefore
<1>3. CASE StartServing(g)
  <2>1. /\ Becomes(g, "serve", gateway[g].rev, << >>, {}, gateway[g].alone)
        /\ In(g, "start") /\ UNCHANGED <<bucket, seeding>>
    BY <1>0, <1>3, ListTypes, GoOnBecomes DEF StartServing, Phases
  <2>2. Kept /\ Listed' = Listed /\ \A h \in Gateways \ {g} : SeedKnows(h)'
    BY <2>1, OthersKnow, NothingDeleted DEF Becomes
  <2>3. gateway'[g] = [phase |-> "serve", rev |-> gateway[g].rev, todo |-> << >>, stale |-> {},
                       alone |-> gateway[g].alone]
    BY <2>1 DEF Becomes
  <2>4. PutKeys(g)' = PutKeys(g)
    BY <2>1, <2>3 DEF PutKeys, In
  <2>5. SeedKnows(g)'
    BY <1>0, <2>1, <2>2, <2>3, <2>4 DEF SeedKnows, Past, AfterLoad, AfterList, In, Safe
  <2> QED
    BY <2>2, <2>5
<1> QED
  BY <1>1, <1>2, <1>3, LoadKnows, PutKnows, ListKnows, EvictKnows DEF BootStep

-----------------------------------------------------------------------------
(* The invariant. *)

\* Initially nobody knows anything, and nothing is in anybody's hands.
LEMMA InitInv == Init => RolloutInv
<1> SUFFICES ASSUME Init PROVE RolloutInv
  OBVIOUS
<1>1. ASSUME NEW g \in Gateways PROVE SeedKnows(g)
  BY DEF Init, GatewayInit, Off, SeedKnows, In, Past, AfterLoad, AfterList
<1>2. ASSUME NEW j \in Jobs PROVE JobKnows(j)
  BY ProcessesAssumption DEF Init, DeploymentInit, JobKnows, Workers
<1>3. ASSUME NEW w \in Workers PROVE OneInHand(w)
  BY ProcessesAssumption DEF Init, DeploymentInit, WorkerInit, Exited, OneInHand, At, Workers
<1> QED
  BY <1>1, <1>2, <1>3, InitTypes DEF RolloutInv

\* A step of a gateway puts nothing into a worker's hands.
LEMMA HandsKept ==
  ASSUME UNCHANGED worker, NEW w \in Workers, OneInHand(w),
         \A j \in Jobs : job'[j].by = w => job[j].by = w
  PROVE  OneInHand(w)'
BY DEF OneInHand, At

\* Every step of a gateway.
LEMMA GatewayKnows ==
  ASSUME RolloutInv, RolloutTypeInv', NEW g \in Gateways, GatewayStep(g), UNCHANGED worker
  PROVE  RolloutInv'
<1> USE DEF catalogVars, workVars
<1>0. /\ GatewaysTyped /\ JobsTyped /\ g \notin Workers /\ "nobody" \notin Workers /\ g # "nobody"
      /\ \A h \in Gateways : SeedKnows(h)
  BY ProcessesAssumption
     DEF RolloutInv, RolloutTypeInv, RolloutTypeOK, GatewayTypeOK, DeploymentTypeOK,
         GatewaysTyped, JobsTyped
<1>1. ASSUME Kept, \A h \in Gateways : SeedKnows(h)', UNCHANGED job
      PROVE  RolloutInv'
  <2>1. ASSUME NEW j \in Jobs PROVE JobKnows(j)'
    <3>1. JobKnows(j)
      BY DEF RolloutInv
    <3> QED
      BY <1>1, <3>1, JobKnowsKept DEF JobKnows
  <2>2. ASSUME NEW w \in Workers PROVE OneInHand(w)'
    BY <1>1, HandsKept DEF RolloutInv
  <2> QED
    BY <1>1, <2>1, <2>2 DEF RolloutInv
<1>2. ASSUME UNCHANGED <<bucket, seeding>>, \A h \in Gateways : SeedKnows(h)',
             DropForms(g)
      PROVE  RolloutInv'
  <2>1. Kept
    BY <1>2, NothingDeleted
  <2>2. ASSUME NEW j \in Jobs
        PROVE  /\ job'[j].model = job[j].model
               /\ \/ job'[j] = job[j]
                  \/ job[j].by = g /\ job'[j].by = "nobody" /\ job'[j].step = "dropped"
    BY <1>0, <1>2 DEF DropForms, InHands, JobsTyped, Job
  <2>3. ASSUME NEW j \in Jobs PROVE JobKnows(j)'
    <3>1. JobKnows(j)
      BY DEF RolloutInv
    <3> QED
      BY <1>0, <2>1, <2>2, <3>1, JobKnowsKept DEF JobKnows
  <2>4. ASSUME NEW w \in Workers PROVE OneInHand(w)'
    BY <1>0, <2>2, HandsKept DEF RolloutInv
  <2> QED
    BY <1>2, <2>3, <2>4 DEF RolloutInv
<1>3. CASE BootStep(g)
  BY <1>1, <1>3, BootKnows, BootTypes DEF RolloutInv
<1>4. CASE Shutdown(g)
  <2>1. Becomes(g, "down", First, << >>, {}, FALSE) /\ UNCHANGED <<bucket, seeding, job>>
    BY <1>0, <1>4, GoDownBecomes DEF Shutdown
  <2>2. Kept /\ \A h \in Gateways : SeedKnows(h)'
    BY <2>1, OthersKnow, SeedKnowsBefore DEF Becomes
  <2> QED
    BY <1>1, <2>1, <2>2
<1>5. CASE Die(g)
  <2>1. Becomes(g, "down", First, << >>, {}, FALSE) /\ UNCHANGED <<bucket, seeding>>
    BY <1>0, <1>5, GoDownBecomes DEF Die
  <2>2. \A h \in Gateways : SeedKnows(h)'
    BY <2>1, OthersKnow, SeedKnowsBefore DEF Becomes
  <2> QED
    BY <1>2, <1>5, <2>1, <2>2 DEF Die
<1>6. ASSUME NEW r \in Revisions, Redeploy(g, r)
      PROVE  RolloutInv'
  <2>1. UNCHANGED <<bucket, seeding, job>> /\ StopGateway(g, "drain")
    BY <1>6 DEF Redeploy
  <2>2. \A h \in Gateways \ {g} : gateway'[h] = gateway[h]
    BY <1>0, <2>1, StopBecomes
  <2>3. Kept /\ Listed' = Listed /\ \A h \in Gateways \ {g} : SeedKnows(h)'
    BY <2>1, <2>2, OthersKnow, NothingDeleted
  <2>4. SeedKnows(g)'
    <3>1. CASE Becomes(g, "down", First, << >>, {}, FALSE)
      BY <3>1, SeedKnowsBefore DEF Becomes
    <3>2. CASE /\ gateway[g].phase \in {"serve", "drain"}
               /\ Becomes(g, "drain", gateway[g].rev, gateway[g].todo, gateway[g].stale, gateway[g].alone)
      <4>1. gateway'[g] = [phase |-> "drain", rev |-> gateway[g].rev, todo |-> gateway[g].todo,
                           stale |-> gateway[g].stale, alone |-> gateway[g].alone]
        BY <3>2 DEF Becomes
      <4>2. PutKeys(g)' = PutKeys(g)
        BY <3>2, <4>1 DEF PutKeys, In
      <4> QED
        BY <1>0, <2>1, <2>3, <3>2, <4>1, <4>2
           DEF SeedKnows, Past, AfterLoad, AfterList, In, Safe
    <3> QED
      BY <1>0, <2>1, <3>1, <3>2, StopBecomes
  <2> QED
    BY <1>1, <2>1, <2>3, <2>4
<1>7. ASSUME NEW i \in Jobs, Accept(g, i)
      PROVE  RolloutInv'
  <2>1. PICK k \in KeysOf(gateway[g].rev) :
          job' = [job EXCEPT ![i] = [step |-> "form", by |-> g, model |-> k, deliveries |-> 0]]
    BY <1>7 DEF Accept
  <2>2. UNCHANGED <<bucket, seeding, gateway>> /\ Serving(g)
    BY <1>7 DEF Accept
  <2>3. Kept /\ Listed' = Listed
    BY <2>2, NothingDeleted
  <2>4. \A h \in Gateways : SeedKnows(h)'
    BY <2>2, SeedKnowsKept, <2>3 DEF RolloutInv
  <2>5. k \in Models /\ (Safe(k) => k \in Listed)
    <3>1. gateway[g].rev \in Revisions
      BY <1>0 DEF GatewaysTyped, Gateway
    <3>2. k \in Models
      BY <3>1, CatalogFacts
    <3>3. k \in PutKeys(g)
      BY <2>2 DEF PutKeys, Serving, In
    <3> QED
      BY <1>0, <2>2, <3>2, <3>3 DEF SeedKnows, Serving, In, Past, AfterLoad, AfterList
  <2>6. ASSUME NEW j \in Jobs \ {i} PROVE job'[j] = job[j]
    BY <1>0, <2>1 DEF JobsTyped
  <2>7. job'[i] = [step |-> "form", by |-> g, model |-> k, deliveries |-> 0]
    BY <1>0, <2>1 DEF JobsTyped
  <2>8. ASSUME NEW j \in Jobs PROVE JobKnows(j)'
    <3>1. CASE j = i
      BY <1>0, <2>2, <2>3, <2>5, <2>7, <3>1 DEF JobKnows, Safe
    <3>2. CASE j # i
      <4>1. JobKnows(j)
        BY DEF RolloutInv
      <4> QED
        BY <2>3, <2>6, <3>2, <4>1, JobKnowsKept DEF JobKnows
    <3> QED
      BY <3>1, <3>2
  <2>9. ASSUME NEW w \in Workers PROVE OneInHand(w)'
    BY <1>0, <2>6, <2>7, HandsKept DEF RolloutInv
  <2> QED
    BY <2>4, <2>8, <2>9 DEF RolloutInv
<1>8. ASSUME NEW i \in Jobs, PublishRequest(g, i)
      PROVE  RolloutInv'
  <2>1. UNCHANGED <<bucket, seeding, gateway>>
    BY <1>8 DEF PublishRequest
  <2>2. Kept /\ Listed' = Listed
    BY <2>1, NothingDeleted
  <2>3. \A h \in Gateways : SeedKnows(h)'
    BY <2>1, <2>2, SeedKnowsKept DEF RolloutInv
  <2>4. ASSUME NEW j \in Jobs
        PROVE  /\ job'[j].model = job[j].model
               /\ \/ job'[j] = job[j]
                  \/ job[j].by = g /\ job'[j].by = "nobody" /\ job'[j].step = "requested"
    BY <1>0, <1>8 DEF PublishRequest, Move, JobsTyped, Job
  <2>5. ASSUME NEW j \in Jobs PROVE JobKnows(j)'
    <3>1. JobKnows(j)
      BY DEF RolloutInv
    <3> QED
      BY <1>0, <2>2, <2>4, <3>1, JobKnowsKept DEF JobKnows
  <2>6. ASSUME NEW w \in Workers PROVE OneInHand(w)'
    BY <1>0, <2>4, HandsKept DEF RolloutInv
  <2> QED
    BY <2>3, <2>5, <2>6 DEF RolloutInv
<1> QED
  BY <1>3, <1>4, <1>5, <1>6, <1>7, <1>8 DEF GatewayStep

\* A step of worker w that touches no job: idle, it stays without an answer;
\* busy, it stays where it is.
LEMMA IdleKnows ==
  ASSUME RolloutInv, NEW w \in Workers, UNCHANGED <<bucket, seeding, job>>,
         \A v \in Workers \ {w} : worker'[v] = worker[v],
         \/ ~At(w, "handle") /\ ~At(w, "settle") /\ worker'[w].answer = "none"
         \/ worker'[w].phase = worker[w].phase /\ worker'[w].answer = worker[w].answer
  PROVE  (\A j \in Jobs : JobKnows(j)') /\ (\A v \in Workers : OneInHand(v)')
<1>1. Kept
  BY NothingDeleted
<1>2. ASSUME NEW j \in Jobs PROVE JobKnows(j)'
  <2>1. JobKnows(j)
    BY DEF RolloutInv
  <2>2. \A v \in Workers : worker'[v].answer = "unknown" => worker[v].answer = "unknown"
    OBVIOUS
  <2> QED
    BY <1>1, <2>1, <2>2, JobKnowsKept DEF JobKnows
<1>3. ASSUME NEW v \in Workers PROVE OneInHand(v)'
  <2>1. OneInHand(v)
    BY DEF RolloutInv
  <2> QED
    BY <2>1 DEF OneInHand, At
<1> QED
  BY <1>2, <1>3

\* A worker at the top of its loop has no answer.
LEMMA LoopTopIdle ==
  ASSUME WorkerTypeOK, NEW w \in Workers, NEW r \in Worker, r.answer = "none",
         worker' = LoopTop(w, r)
  PROVE  /\ worker'[w].answer = "none" /\ worker'[w].phase \in {"down", "fetch"}
         /\ \A v \in Workers \ {w} : worker'[v] = worker[v]
<1>1. worker'[w] = IF r.stop THEN Exited ELSE [r EXCEPT !.phase = "fetch"]
  BY DEF LoopTop, WorkerTypeOK
<1>2. [r EXCEPT !.phase = "fetch"].answer = "none" /\ [r EXCEPT !.phase = "fetch"].phase = "fetch"
  BY DEF Worker
<1>3. \A v \in Workers \ {w} : worker'[v] = worker[v]
  BY DEF LoopTop, WorkerTypeOK
<1> QED
  BY <1>1, <1>2, <1>3 DEF Exited

\* Every step of a worker.
LEMMA WorkerKnows ==
  ASSUME RolloutInv, RolloutTypeInv', NEW w \in Workers, WorkerStep(w),
         UNCHANGED <<gateway, image, seeding>>
  PROVE  RolloutInv'
<1>0. /\ WorkerTypeOK /\ JobsTyped /\ worker[w] \in Worker /\ "nobody" # w
      /\ UNCHANGED <<bucket, seeding, gateway>> /\ OneInHand(w)
  BY ProcessesAssumption
     DEF RolloutInv, RolloutTypeInv, RolloutTypeOK, DeploymentTypeOK, JobsTyped, WorkerTypeOK,
         WorkerStep, WorkerRun, StartWorker, Bind, Fetch, Handle, Settle, StopWorker, Kill, othersVars
<1>1. Kept /\ Listed' = Listed
  BY <1>0, NothingDeleted
<1>2. \A g \in Gateways : SeedKnows(g)'
  BY <1>0, <1>1, SeedKnowsKept DEF RolloutInv, RolloutTypeInv
<1>3. (\A j \in Jobs : JobKnows(j)') /\ (\A v \in Workers : OneInHand(v)') => RolloutInv'
  BY <1>2 DEF RolloutInv
<1>4. CASE StartWorker(w)
  <2>1. worker'[w].answer = "none" /\ \A v \in Workers \ {w} : worker'[v] = worker[v]
    BY <1>0, <1>4 DEF StartWorker, WorkerTypeOK, Exited
  <2> QED
    BY <1>0, <1>3, <1>4, <2>1, IdleKnows DEF StartWorker, At
<1>5. CASE Bind(w)
  <2>0. worker[w].answer = "none" /\ At(w, "bind") /\ UNCHANGED job
    BY <1>0, <1>5 DEF Bind, OneInHand, At
  <2>1. worker'[w].answer = "none" /\ \A v \in Workers \ {w} : worker'[v] = worker[v]
    <3>1. CASE Bound(w)
      <4> DEFINE r == [worker[w] EXCEPT !.needs = Tail(@), !.tries = BindAttempts]
      <4>1. worker[w].needs \in Seq(Entities) /\ worker[w].needs # << >>
        BY <1>0, <2>0 DEF Worker, RolloutInv, RolloutTypeInv, LoopsGoOn
      <4>2. BindAttempts \in 0..BindAttempts /\ Tail(worker[w].needs) \in Seq(Entities)
        BY <4>1, BindAttemptsAssumption
      <4>3. r \in Worker /\ r.answer = "none"
        BY <1>0, <2>0, <4>2 DEF Worker
      <4>4. worker' = LoopTop(w, r) \/ worker' = [worker EXCEPT ![w] = r]
        BY <3>1 DEF Bound
      <4>5. ASSUME worker' = LoopTop(w, r)
            PROVE  worker'[w].answer = "none" /\ \A v \in Workers \ {w} : worker'[v] = worker[v]
        BY <1>0, <4>3, <4>5, LoopTopIdle
      <4>6. ASSUME worker' = [worker EXCEPT ![w] = r]
            PROVE  worker'[w].answer = "none" /\ \A v \in Workers \ {w} : worker'[v] = worker[v]
        <5> HIDE DEF r
        <5> QED
          BY <1>0, <4>3, <4>6 DEF WorkerTypeOK
      <4> QED
        BY <4>4, <4>5, <4>6
    <3>2. CASE ~Bound(w)
      BY <1>0, <1>5, <2>0, <3>2 DEF Bind, WorkerTypeOK, Worker, Exited
    <3> QED
      BY <3>1, <3>2
  <2> QED
    BY <1>0, <1>3, <2>0, <2>1, IdleKnows DEF At
<1>6. CASE Fetch(w)
  <2>0. worker[w].answer = "none" /\ At(w, "fetch")
    BY <1>0, <1>6 DEF Fetch, OneInHand, At
  <2>1. ASSUME NEW i \in Jobs, job[i].step = Waiting(w), Goto(w, "handle"),
               job' = [job EXCEPT ![i].step = Handled(w), ![i].by = w, ![i].deliveries = @ + 1]
        PROVE  RolloutInv'
    <3>1. /\ worker'[w].answer = "none" /\ worker'[w].phase = "handle"
          /\ \A v \in Workers \ {w} : worker'[v] = worker[v]
      BY <1>0, <2>0, <2>1 DEF Goto, WorkerTypeOK, Worker
    <3>2. /\ job'[i].step = Handled(w) /\ job'[i].by = w /\ job'[i].model = job[i].model
          /\ \A j \in Jobs \ {i} : job'[j] = job[j]
      BY <1>0, <2>1 DEF JobsTyped, Job
    <3>3. job[i].step \notin {"none", "unknown"} /\ Handled(w) \notin {"none", "unknown"}
      BY <2>1 DEF Waiting, Handled
    <3>4. ASSUME NEW j \in Jobs PROVE JobKnows(j)'
      <4>1. JobKnows(j)
        BY DEF RolloutInv
      <4>2. \A v \in Workers : worker'[v].answer = "unknown" => v # w /\ worker[v].answer = "unknown"
        BY <3>1
      <4> QED
        BY <1>1, <3>2, <3>3, <4>1, <4>2, JobKnowsKept DEF JobKnows
    <3>5. ASSUME NEW v \in Workers PROVE OneInHand(v)'
      <4>1. OneInHand(v)
        BY DEF RolloutInv
      <4>2. CASE v = w
        BY <2>0, <3>1, <3>2, <4>1, <4>2 DEF OneInHand, At
      <4>3. CASE v # w
        BY <3>1, <3>2, <4>1, <4>3 DEF OneInHand, At
      <4> QED
        BY <4>2, <4>3
    <3> QED
      BY <1>3, <3>4, <3>5
  <2>2. ASSUME worker' = LoopTop(w, worker[w]), UNCHANGED job
        PROVE  RolloutInv'
    <3>1. worker'[w].answer = "none" /\ \A v \in Workers \ {w} : worker'[v] = worker[v]
      BY <1>0, <2>0, <2>2, LoopTopIdle
    <3> QED
      BY <1>0, <1>3, <2>0, <2>2, <3>1, IdleKnows DEF At
  <2> QED
    BY <1>6, <2>1, <2>2 DEF Fetch
<1>7. CASE Handle(w)
  <2>1. PICK i \in InHands(w) :
          worker' = [worker EXCEPT ![w].phase = "settle", ![w].answer =
                       IF w \in CvWorkers THEN "done"
                       ELSE IF job[i].model \in Listed THEN "structured" ELSE "unknown"]
    BY <1>7 DEF Handle
  <2>2. i \in Jobs /\ job[i].by = w /\ UNCHANGED job /\ At(w, "handle")
    BY <1>7, <2>1 DEF InHands, Handle
  <2>3. /\ worker'[w].answer = "unknown" => job[i].model \notin Listed
        /\ worker'[w].phase = "settle"
        /\ \A v \in Workers \ {w} : worker'[v] = worker[v]
    BY <1>0, <2>1 DEF WorkerTypeOK, Worker
  <2>4. ASSUME NEW j \in Jobs PROVE JobKnows(j)'
    <3>1. JobKnows(j) /\ (job[j].by = w => j = i)
      BY <1>0, <2>2 DEF RolloutInv, OneInHand
    <3>2. job[j].by = w /\ worker'[w].answer = "unknown" => ~Safe(job[j].model)
      BY <1>0, <2>2, <2>3, <3>1 DEF JobKnows
    <3> QED
      BY <1>1, <2>2, <2>3, <3>1, <3>2, JobKnowsKept DEF JobKnows
  <2>5. ASSUME NEW v \in Workers PROVE OneInHand(v)'
    <3>1. OneInHand(v)
      BY DEF RolloutInv
    <3> QED
      BY <2>2, <2>3, <3>1 DEF OneInHand, At
  <2> QED
    BY <1>3, <2>4, <2>5
<1>8. CASE Settle(w)
  <2>1. [worker[w] EXCEPT !.answer = "none"] \in Worker
        /\ [worker[w] EXCEPT !.answer = "none"].answer = "none"
    BY <1>0 DEF Worker, Answers
  <2>2. worker'[w].answer = "none" /\ \A v \in Workers \ {w} : worker'[v] = worker[v]
    BY <1>0, <1>8, <2>1, LoopTopIdle DEF Settle
  <2>3. PICK i \in Jobs : job[i].by = w /\ Move(i, worker[w].answer, "nobody")
    BY <1>8 DEF Settle, InHands
  <2>4. /\ job'[i].step = worker[w].answer /\ job'[i].by = "nobody" /\ job'[i].model = job[i].model
        /\ \A j \in Jobs \ {i} : job'[j] = job[j]
    BY <1>0, <2>3 DEF Move, JobsTyped, Job
  <2>5. ASSUME NEW j \in Jobs PROVE JobKnows(j)'
    <3>1. JobKnows(j)
      BY DEF RolloutInv
    <3>2. \A v \in Workers : worker'[v].answer = "unknown" => v # w /\ worker[v].answer = "unknown"
      BY <2>2
    <3>3. CASE j = i
      <4>1. /\ job[j].step # "none" /\ (job'[j].step = "unknown" => ~Safe(job[j].model))
            /\ job'[j].model = job[j].model /\ job'[j].by = "nobody"
        BY <1>0, <2>3, <2>4, <3>1, <3>3 DEF JobKnows
      <4>2. "nobody" \notin Workers
        BY ProcessesAssumption
      <4> QED
        BY <1>1, <3>1, <4>1, <4>2, JobKnowsKept
    <3>4. CASE j # i
      <4>1. job'[j] = job[j]
        BY <2>4, <3>4
      <4>2. /\ job[j].by # "nobody" => job[j].step # "none"
            /\ job[j].step = "unknown" => ~Safe(job[j].model)
            /\ \A v \in Workers : job[j].by = v /\ worker'[v].answer = "unknown" => ~Safe(job[j].model)
        BY <3>1, <3>2 DEF JobKnows
      <4> QED
        BY <1>1, <3>1, <4>1, <4>2, JobKnowsKept
    <3> QED
      BY <3>3, <3>4
  <2>6. ASSUME NEW v \in Workers PROVE OneInHand(v)'
    <3>1. OneInHand(v)
      BY DEF RolloutInv
    <3>2. CASE v = w
      BY <1>0, <2>2, <2>3, <2>4, <3>1, <3>2 DEF OneInHand, At
    <3>3. CASE v # w
      BY ProcessesAssumption, <2>2, <2>4, <3>1, <3>3 DEF OneInHand, At
    <3> QED
      BY <3>2, <3>3
  <2> QED
    BY <1>3, <2>5, <2>6
<1>9. CASE StopWorker(w)
  <2>1. /\ worker'[w].answer = worker[w].answer /\ worker'[w].phase = worker[w].phase
        /\ \A v \in Workers \ {w} : worker'[v] = worker[v]
    BY <1>0, <1>9 DEF StopWorker, WorkerTypeOK, Worker
  <2> QED
    BY <1>0, <1>3, <1>9, <2>1, IdleKnows DEF StopWorker
<1>10. CASE Kill(w)
  <2>1. worker'[w] = Exited /\ \A v \in Workers \ {w} : worker'[v] = worker[v]
    BY <1>0, <1>10 DEF Kill, WorkerTypeOK
  <2>2. ASSUME NEW j \in Jobs
        PROVE  /\ job'[j].model = job[j].model
               /\ \/ job'[j] = job[j] /\ job[j].by # w
                  \/ job[j].by = w /\ job'[j].by = "nobody" /\ job'[j].step = Waiting(w)
    BY <1>0, <1>10 DEF Kill, Requeue, InHands, JobsTyped, Job
  <2>3. Waiting(w) \notin {"none", "unknown"} /\ Exited.answer = "none"
    BY DEF Waiting, Exited
  <2>4. ASSUME NEW j \in Jobs PROVE JobKnows(j)'
    <3>1. JobKnows(j)
      BY DEF RolloutInv
    <3>2. \A v \in Workers : worker'[v].answer = "unknown" => v # w /\ worker[v].answer = "unknown"
      BY <2>1, <2>3
    <3>3. /\ job[j].by # "nobody" => job[j].step # "none"
          /\ job[j].step = "unknown" => ~Safe(job[j].model)
          /\ \A v \in Workers : job[j].by = v /\ worker'[v].answer = "unknown" => ~Safe(job[j].model)
      BY <3>1, <3>2 DEF JobKnows
    <3>4. CASE job'[j] = job[j]
      BY <1>1, <3>1, <3>3, <3>4, JobKnowsKept
    <3>5. CASE job[j].by = w /\ job'[j].by = "nobody" /\ job'[j].step = Waiting(w)
      <4>1. "nobody" \notin Workers /\ job[j].step # "none"
        BY ProcessesAssumption, <1>0, <3>3, <3>5
      <4> QED
        BY <1>1, <2>2, <2>3, <3>1, <3>5, <4>1, JobKnowsKept
    <3> QED
      BY <2>2, <3>4, <3>5
  <2>5. ASSUME NEW v \in Workers PROVE OneInHand(v)'
    <3>1. OneInHand(v)
      BY DEF RolloutInv
    <3>2. \A j \in Jobs : job'[j].by = v => v # w /\ job[j].by = v
      BY ProcessesAssumption, <2>2
    <3> QED
      BY <2>1, <2>3, <3>1, <3>2 DEF OneInHand, At
  <2> QED
    BY <1>3, <2>4, <2>5
<1> QED
  BY <1>4, <1>5, <1>6, <1>7, <1>8, <1>9, <1>10 DEF WorkerStep, WorkerRun

\* Every step.
LEMMA NextInv == RolloutInv /\ [Next]_vars => RolloutInv'
<1> SUFFICES ASSUME RolloutInv, [Next]_vars PROVE RolloutInv'
  OBVIOUS
<1>1. RolloutTypeInv'
  BY NextTypes DEF RolloutInv
<1>2. CASE Next
  BY <1>1, <1>2, GatewayKnows, WorkerKnows DEF Next
<1>3. CASE UNCHANGED vars
  <2>1. \A g \in Gateways : SeedKnows(g)'
    BY <1>3 DEF vars, RolloutInv, SeedKnows, Past, In, PutKeys, Safe, Listed
  <2>2. \A j \in Jobs : JobKnows(j)'
    BY <1>3 DEF vars, RolloutInv, JobKnows, Safe, Listed
  <2>3. \A w \in Workers : OneInHand(w)'
    BY <1>3 DEF vars, RolloutInv, OneInHand, At
  <2> QED
    BY <1>1, <2>1, <2>2, <2>3 DEF RolloutInv
<1> QED
  BY <1>2, <1>3

-----------------------------------------------------------------------------
(* What a rollout guarantees. *)

\* A submission that an ai-processor calls an unknown model names a model that
\* some revision which seeded lacks: restarts, crashes in the middle of Seed
\* and any number of concurrent seeds alone lose none.
THEOREM RolloutUnknownOnlyOverRollout == RolloutSpec => []UnknownOnlyOverRollout
<1>1. RolloutInv => UnknownOnlyOverRollout
  BY DEF RolloutInv, JobKnows, Safe, UnknownOnlyOverRollout
<1> QED
  BY InitInv, NextInv, <1>1, PTL DEF RolloutSpec

\* As long as no other revision has written since a serving gateway loaded its
\* catalog, the bucket is exactly that catalog, however many gateways of the
\* same revision seed at once, crash and start again.
THEOREM RolloutLastSeederWins == RolloutSpec => []LastSeederWins
<1>1. RolloutInv => LastSeederWins
  <2> SUFFICES ASSUME RolloutInv, NEW g \in Gateways, Serving(g), gateway[g].alone
               PROVE  bucket = Seeded(gateway[g].rev)
    BY DEF LastSeederWins
  <2>1. SeedKnows(g) /\ bucket \in [Models -> Revisions \cup {"absent"}]
    BY DEF RolloutInv, RolloutTypeInv, RolloutTypeOK, CatalogTypeOK
  <2>2. ~In(g, "evict") /\ PutKeys(g) = KeysOf(gateway[g].rev)
        /\ Past(g, AfterLoad) /\ Past(g, AfterList)
    BY DEF Serving, In, PutKeys, Past, AfterLoad, AfterList
  <2>3. \A k \in KeysOf(gateway[g].rev) : bucket[k] = gateway[g].rev
    BY <2>1, <2>2 DEF SeedKnows
  <2>4. \A k \in Models \ KeysOf(gateway[g].rev) : bucket[k] = "absent"
    BY <2>1, <2>2 DEF SeedKnows, Listed
  <2> QED
    BY <2>1, <2>3, <2>4 DEF Seeded
<1> QED
  BY InitInv, NextInv, <1>1, PTL DEF RolloutSpec

-----------------------------------------------------------------------------
(* What orderly stops cost. *)

\* The deliveries a job at this step has behind it when nothing went wrong.
Stages(step) ==
  IF step \in {"rendering", "done"} THEN 2
  ELSE IF step \in {"processing", "structured", "unknown"} THEN 1 ELSE 0

\* Every further delivery of job j is some mishap's, and who has it in hand
\* is at the stage the job is at.
Accounted(j) ==
  /\ job[j].deliveries <= faults + Stages(job[j].step)
  /\ job[j].step \in {"none", "form"} => job[j].deliveries = 0
  /\ job[j].step = "dropped" => faults > 0
  /\ \A g \in Gateways : job[j].by = g => job[j].step = "form"
  /\ \A w \in Workers : job[j].by = w => job[j].step = Handled(w)

\* A worker answers with the end of its own stage.
AnswersItsStage(w) ==
  At(w, "settle") =>
    worker[w].answer \in IF w \in AiWorkers THEN {"structured", "unknown"} ELSE {"done"}

OrderlyInv == (\A j \in Jobs : Accounted(j)) /\ (\A w \in Workers : AnswersItsStage(w))

\* A step that leaves the jobs alone, or moves one up to a step of the same
\* stage, keeps the account.
LEMMA StaysAccounted ==
  ASSUME NEW j \in Jobs, Accounted(j), job'[j] = job[j],
         FaultsTypeOK, JobsTyped, faults' = faults \/ faults' = faults + 1
  PROVE  Accounted(j)'
<1>1. job[j].deliveries \in Nat /\ faults \in Nat /\ Stages(job[j].step) \in 0..2
  BY DEF JobsTyped, Job, FaultsTypeOK, Stages
<1>2. Stages(job'[j].step) = Stages(job[j].step)
  OBVIOUS
<1> QED
  BY <1>1, <1>2 DEF Accounted

\* Every step of a gateway.
LEMMA GatewayOrderly ==
  ASSUME RolloutTypeInv, OrderlyInv, NEW g \in Gateways, GatewayStep(g), UNCHANGED worker
  PROVE  OrderlyInv'
<1> USE DEF catalogVars, workVars
<1>0. /\ JobsTyped /\ FaultsTypeOK /\ faults \in Nat
      /\ g \notin Workers /\ "nobody" \notin Workers /\ "nobody" \notin Gateways
  BY ProcessesAssumption
     DEF RolloutTypeInv, RolloutTypeOK, DeploymentTypeOK, JobsTyped, FaultsTypeOK
<1>1. \A w \in Workers : AnswersItsStage(w)'
  BY DEF OrderlyInv, AnswersItsStage, At
<1>2. ASSUME UNCHANGED <<job, faults>>
      PROVE  OrderlyInv'
  BY <1>0, <1>1, <1>2, StaysAccounted DEF OrderlyInv
<1>3. CASE BootStep(g) \/ Shutdown(g) \/ \E r \in Revisions : Redeploy(g, r)
  BY <1>2, <1>3 DEF BootStep, StartGateway, Provision, Load, SeedPut, SeedList, SeedEvict,
       StartServing, Shutdown, Redeploy
<1>4. CASE Die(g)
  <2>1. DropForms(g) /\ faults' = faults + 1
    BY <1>4 DEF Die, Fault
  <2>2. ASSUME NEW j \in Jobs PROVE Accounted(j)'
    <3>1. CASE job[j].by = g
      <4>1. Accounted(j) /\ job[j].step = "form" /\ job[j].deliveries = 0
        BY <3>1 DEF OrderlyInv, Accounted
      <4>2. /\ job'[j].step = "dropped" /\ job'[j].by = "nobody"
            /\ job'[j].deliveries = job[j].deliveries
        BY <1>0, <2>1, <3>1 DEF DropForms, InHands, JobsTyped, Job
      <4> QED
        BY <1>0, <2>1, <4>1, <4>2 DEF Accounted, Stages
    <3>2. CASE job[j].by # g
      <4>1. job'[j] = job[j]
        BY <2>1, <3>2 DEF DropForms, InHands
      <4> QED
        BY <1>0, <2>1, <4>1, StaysAccounted DEF OrderlyInv
    <3> QED
      BY <3>1, <3>2
  <2> QED
    BY <1>1, <2>2 DEF OrderlyInv
<1>5. ASSUME NEW i \in Jobs, Accept(g, i)
      PROVE  OrderlyInv'
  <2>1. /\ job'[i].step = "form" /\ job'[i].by = g /\ job'[i].deliveries = 0
        /\ \A j \in Jobs \ {i} : job'[j] = job[j]
        /\ faults' = faults
    BY <1>0, <1>5 DEF Accept, JobsTyped
  <2>2. Accounted(i)'
    BY <1>0, <2>1 DEF Accounted, Stages
  <2>3. \A j \in Jobs \ {i} : Accounted(j)'
    BY <1>0, <2>1, StaysAccounted DEF OrderlyInv
  <2> QED
    BY <1>1, <2>2, <2>3 DEF OrderlyInv
<1>6. ASSUME NEW i \in Jobs, PublishRequest(g, i)
      PROVE  OrderlyInv'
  <2>1. job[i].step = "form" /\ faults' = faults /\ Move(i, "requested", "nobody")
    BY <1>6 DEF PublishRequest
  <2>2. /\ job'[i].step = "requested" /\ job'[i].by = "nobody"
        /\ job'[i].deliveries = job[i].deliveries
        /\ \A j \in Jobs \ {i} : job'[j] = job[j]
    BY <1>0, <2>1 DEF Move, JobsTyped, Job
  <2>3. Accounted(i)'
    BY <1>0, <2>1, <2>2 DEF OrderlyInv, Accounted, Stages
  <2>4. \A j \in Jobs \ {i} : Accounted(j)'
    BY <1>0, <2>1, <2>2, StaysAccounted DEF OrderlyInv
  <2> QED
    BY <1>1, <2>3, <2>4 DEF OrderlyInv
<1> QED
  BY <1>3, <1>4, <1>5, <1>6 DEF GatewayStep

\* Every step of a worker.
LEMMA WorkerOrderly ==
  ASSUME RolloutTypeInv, OrderlyInv, NEW w \in Workers, WorkerStep(w),
         UNCHANGED <<gateway, image, seeding>>
  PROVE  OrderlyInv'
<1> USE DEF othersVars
<1>0. /\ JobsTyped /\ FaultsTypeOK /\ faults \in Nat /\ WorkerTypeOK /\ worker[w] \in Worker
      /\ w \notin Gateways /\ "nobody" \notin Workers /\ "nobody" \notin Gateways
      /\ (w \in AiWorkers => w \notin CvWorkers)
  BY ProcessesAssumption
     DEF RolloutTypeInv, RolloutTypeOK, DeploymentTypeOK, JobsTyped, FaultsTypeOK, WorkerTypeOK
<1>1. ASSUME \A v \in Workers \ {w} : worker'[v] = worker[v], AnswersItsStage(w)'
      PROVE  \A v \in Workers : AnswersItsStage(v)'
  BY <1>1 DEF OrderlyInv, AnswersItsStage, At
<1>2. ASSUME UNCHANGED <<job, faults>>
      PROVE  \A j \in Jobs : Accounted(j)'
  BY <1>0, <1>2, StaysAccounted DEF OrderlyInv
<1>3. ASSUME NEW r \in Worker, worker' = LoopTop(w, r)
      PROVE  \A v \in Workers : AnswersItsStage(v)'
  <2>1. worker'[w].phase \in {"down", "fetch"} /\ \A v \in Workers \ {w} : worker'[v] = worker[v]
    BY <1>0, <1>3 DEF LoopTop, WorkerTypeOK, Worker, Exited
  <2> QED
    BY <1>1, <2>1 DEF AnswersItsStage, At
<1>4. CASE StartWorker(w)
  <2>1. worker'[w].phase = "bind" /\ \A v \in Workers \ {w} : worker'[v] = worker[v]
    BY <1>0, <1>4 DEF StartWorker, WorkerTypeOK, Exited
  <2> QED
    BY <1>1, <1>2, <1>4, <2>1 DEF StartWorker, OrderlyInv, AnswersItsStage, At
<1>5. CASE Bind(w)
  <2>1. At(w, "bind") /\ UNCHANGED <<job, faults>>
    BY <1>5 DEF Bind
  <2>2. CASE Bound(w)
    <3> DEFINE r == [worker[w] EXCEPT !.needs = Tail(@), !.tries = BindAttempts]
    <3>1. worker[w].needs \in Seq(Entities) /\ worker[w].needs # << >>
      BY <1>0, <2>1 DEF Worker, RolloutTypeInv, LoopsGoOn
    <3>2. BindAttempts \in 0..BindAttempts /\ Tail(worker[w].needs) \in Seq(Entities)
      BY <3>1, BindAttemptsAssumption
    <3>3. r \in Worker /\ r.phase = "bind"
      BY <1>0, <2>1, <3>2 DEF Worker, At
    <3>4. worker' = LoopTop(w, r) \/ worker' = [worker EXCEPT ![w] = r]
      BY <2>2 DEF Bound
    <3> HIDE DEF r
    <3>5. ASSUME worker' = [worker EXCEPT ![w] = r]
          PROVE  \A v \in Workers : AnswersItsStage(v)'
      BY <1>0, <1>1, <3>3, <3>5 DEF WorkerTypeOK, AnswersItsStage, At
    <3> QED
      BY <1>2, <1>3, <2>1, <3>3, <3>4, <3>5 DEF OrderlyInv
  <2>3. CASE ~Bound(w)
    <3>1. /\ worker'[w].phase \in {"bind", "down"}
          /\ \A v \in Workers \ {w} : worker'[v] = worker[v]
      BY <1>0, <1>5, <2>1, <2>3 DEF Bind, WorkerTypeOK, Worker, Exited, At
    <3> QED
      BY <1>1, <1>2, <2>1, <3>1 DEF OrderlyInv, AnswersItsStage, At
  <2> QED
    BY <2>2, <2>3
<1>6. CASE Fetch(w)
  <2>1. ASSUME NEW i \in Jobs, job[i].step = Waiting(w), Goto(w, "handle"),
               job' = [job EXCEPT ![i].step = Handled(w), ![i].by = w, ![i].deliveries = @ + 1]
        PROVE  OrderlyInv'
    <3>1. worker'[w].phase = "handle" /\ \A v \in Workers \ {w} : worker'[v] = worker[v]
      BY <1>0, <2>1 DEF Goto, WorkerTypeOK, Worker
    <3>2. /\ job'[i].step = Handled(w) /\ job'[i].by = w
          /\ job'[i].deliveries = job[i].deliveries + 1
          /\ \A j \in Jobs \ {i} : job'[j] = job[j]
      BY <1>0, <2>1 DEF JobsTyped, Job
    <3>3. faults' = faults
      BY <1>6 DEF Fetch
    <3>4. Stages(Handled(w)) = Stages(Waiting(w)) + 1
      BY DEF Stages, Handled, Waiting
    <3>5. Accounted(i)'
      <4>1. job[i].deliveries <= faults + Stages(Waiting(w)) /\ job[i].deliveries \in Nat
        BY <1>0, <2>1 DEF OrderlyInv, Accounted, JobsTyped, Job
      <4>2. job'[i].deliveries <= faults' + Stages(job'[i].step)
        BY <1>0, <3>2, <3>3, <3>4, <4>1 DEF Stages, Waiting
      <4> QED
        BY <1>0, <3>2, <4>2 DEF Accounted, Handled
    <3>6. \A j \in Jobs \ {i} : Accounted(j)'
      BY <1>0, <3>2, <3>3, StaysAccounted DEF OrderlyInv
    <3> QED
      BY <1>1, <3>1, <3>5, <3>6 DEF OrderlyInv, AnswersItsStage, At
  <2>2. ASSUME worker' = LoopTop(w, worker[w]), UNCHANGED job
        PROVE  OrderlyInv'
    BY <1>0, <1>2, <1>3, <1>6, <2>2 DEF OrderlyInv, Fetch
  <2> QED
    BY <1>6, <2>1, <2>2 DEF Fetch
<1>7. CASE Handle(w)
  <2>1. /\ worker'[w].answer \in IF w \in AiWorkers THEN {"structured", "unknown"} ELSE {"done"}
        /\ \A v \in Workers \ {w} : worker'[v] = worker[v]
    BY <1>0, <1>7 DEF Handle, WorkerTypeOK, Worker, Workers
  <2> QED
    BY <1>1, <1>2, <1>7, <2>1 DEF Handle, OrderlyInv, AnswersItsStage
<1>8. CASE Settle(w)
  <2>1. [worker[w] EXCEPT !.answer = "none"] \in Worker
    BY <1>0 DEF Worker, Answers
  <2>2. \A v \in Workers : AnswersItsStage(v)'
    BY <1>3, <1>8, <2>1 DEF Settle
  <2>3. PICK i \in Jobs : job[i].by = w /\ Move(i, worker[w].answer, "nobody")
    BY <1>8 DEF Settle, InHands
  <2>4. /\ job'[i].step = worker[w].answer /\ job'[i].by = "nobody"
        /\ job'[i].deliveries = job[i].deliveries
        /\ \A j \in Jobs \ {i} : job'[j] = job[j]
    BY <1>0, <2>3 DEF Move, JobsTyped, Job
  <2>5. faults' = faults /\ AnswersItsStage(w) /\ At(w, "settle")
    BY <1>8 DEF Settle, OrderlyInv
  <2>6. /\ Stages(worker[w].answer) = Stages(Handled(w))
        /\ worker[w].answer \notin {"none", "form", "dropped"}
    BY <2>5 DEF AnswersItsStage, Stages, Handled
  <2>7. Accounted(i)'
    BY <1>0, <2>3, <2>4, <2>5, <2>6 DEF OrderlyInv, Accounted
  <2>8. \A j \in Jobs \ {i} : Accounted(j)'
    BY <1>0, <2>4, <2>5, StaysAccounted DEF OrderlyInv
  <2> QED
    BY <2>2, <2>7, <2>8 DEF OrderlyInv
<1>9. CASE StopWorker(w)
  <2>1. /\ worker'[w].answer = worker[w].answer /\ worker'[w].phase = worker[w].phase
        /\ \A v \in Workers \ {w} : worker'[v] = worker[v]
    BY <1>0, <1>9 DEF StopWorker, WorkerTypeOK, Worker
  <2> QED
    BY <1>1, <1>2, <1>9, <2>1 DEF StopWorker, OrderlyInv, AnswersItsStage, At
<1>10. CASE Kill(w)
  <2>1. worker'[w].phase = "down" /\ \A v \in Workers \ {w} : worker'[v] = worker[v]
    BY <1>0, <1>10 DEF Kill, WorkerTypeOK, Exited
  <2>2. faults' = faults + 1 /\ Requeue(w)
    BY <1>10 DEF Kill, Fault
  <2>3. ASSUME NEW j \in Jobs PROVE Accounted(j)'
    <3>1. CASE job[j].by = w
      <4>1. /\ job[j].deliveries <= faults + Stages(Handled(w)) /\ job[j].deliveries \in Nat
        BY <1>0, <3>1 DEF OrderlyInv, Accounted, JobsTyped, Job
      <4>2. /\ job'[j].step = Waiting(w) /\ job'[j].by = "nobody"
            /\ job'[j].deliveries = job[j].deliveries
        BY <1>0, <2>2, <3>1 DEF Requeue, InHands, JobsTyped, Job
      <4>3. Stages(Handled(w)) = Stages(Waiting(w)) + 1 /\ Stages(Waiting(w)) \in Nat
        BY DEF Stages, Handled, Waiting
      <4>4. job'[j].deliveries <= faults' + Stages(job'[j].step)
        BY <1>0, <2>2, <4>1, <4>2, <4>3
      <4> QED
        BY <1>0, <4>2, <4>4 DEF Accounted, Waiting
    <3>2. CASE job[j].by # w
      <4>1. job'[j] = job[j]
        BY <2>2, <3>2 DEF Requeue, InHands
      <4> QED
        BY <1>0, <2>2, <4>1, StaysAccounted DEF OrderlyInv
    <3> QED
      BY <3>1, <3>2
  <2> QED
    BY <1>1, <2>1, <2>3 DEF OrderlyInv, AnswersItsStage, At
<1> QED
  BY <1>4, <1>5, <1>6, <1>7, <1>8, <1>9, <1>10 DEF WorkerStep, WorkerRun

\* However often gateways and workers are stopped, replaced and drained, and in
\* whatever order, no message is delivered again for it and no submission lost:
\* what a job pays beyond one delivery a stage is paid to crashes alone.
THEOREM RolloutOrderlyStopsAreFree == RolloutSpec => []OrderlyStopsAreFree
<1>1. Init => OrderlyInv
  BY ProcessesAssumption
     DEF Init, DeploymentInit, FaultsInit, WorkerInit, Exited, OrderlyInv, Accounted,
         AnswersItsStage, Stages, At, Workers
<1>2. RolloutTypeInv /\ OrderlyInv /\ [Next]_vars => OrderlyInv'
  <2> SUFFICES ASSUME RolloutTypeInv, OrderlyInv, [Next]_vars PROVE OrderlyInv'
    OBVIOUS
  <2>1. CASE Next
    BY <2>1, GatewayOrderly, WorkerOrderly DEF Next
  <2>2. CASE UNCHANGED vars
    BY <2>2 DEF vars, OrderlyInv, Accounted, AnswersItsStage, At
  <2> QED
    BY <2>1, <2>2
<1>3. RolloutTypeInv /\ OrderlyInv => OrderlyStopsAreFree
  <2> SUFFICES ASSUME RolloutTypeInv, OrderlyInv, NEW j \in Jobs
               PROVE  /\ job[j].deliveries <= faults +
                           (IF job[j].step \in {"structured", "rendering", "done"} THEN 2 ELSE 1)
                      /\ job[j].step = "dropped" => faults > 0
    BY DEF OrderlyStopsAreFree
  <2>1. Accounted(j) /\ job[j].deliveries \in Nat /\ faults \in Nat
    BY DEF OrderlyInv, RolloutTypeInv, RolloutTypeOK, DeploymentTypeOK, Job, FaultsTypeOK
  <2> QED
    BY <2>1 DEF Accounted, Stages
<1> QED
  BY <1>1, <1>2, <1>3, InitTypes, NextTypes, PTL DEF RolloutSpec
=============================================================================
