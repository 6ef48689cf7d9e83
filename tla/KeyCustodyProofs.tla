--------------------------- MODULE KeyCustodyProofs -------------------------
(***************************************************************************)
(* Provider keys, for every instance: a key is in the vault or in one hand *)
(* and pays for one CV, whatever is redelivered, retried, restarted or     *)
(* forgotten; and where keys do not expire, the first delivery of a        *)
(* request finds its key.  Two inductive invariants on top of TypeCorrect: *)
(* Custody (with Grounded, where the messages of the log come from) and    *)
(* FirstDelivery.                                                          *)
(***************************************************************************)
EXTENDS PipelineProofs, FiniteSetTheorems

-----------------------------------------------------------------------------
(* What the components' steps leave alone. *)

\* How often a request was delivered.
Deliveries(i) == delivery["AI_PROCESSOR"][i].count

DeliveriesStay == \A i \in Slots : Deliveries(i)' = Deliveries(i)

\* Only a delivery counts as one.
LEMMA DeliveriesMove ==
  ASSUME EventStreamTypeOK, NEW c \in Consumers, NEW i \in Slots
  PROVE  /\ Exhaust(c, i) \/ Settle(c, i) \/ Requeue(c, i) => DeliveriesStay
         /\ Deliver(c, i) /\ c # "AI_PROCESSOR" => DeliveriesStay
         /\ Deliver("AI_PROCESSOR", i) =>
              /\ Deliveries(i)' = Deliveries(i) + 1
              /\ \A k \in Slots \ {i} : Deliveries(k)' = Deliveries(k)
<1>1. /\ delivery \in [Consumers -> [Slots -> [state : DeliveryStates, count : Nat]]]
      /\ delivery[c][i] \in [state : DeliveryStates, count : Nat]
      /\ "AI_PROCESSOR" \in Consumers
  BY DEF EventStreamTypeOK, Consumers
<1>2. Exhaust(c, i) => DeliveriesStay
  BY <1>1 DEF Exhaust, DeliveriesStay, Deliveries
<1>3. Settle(c, i) => DeliveriesStay
  BY <1>1 DEF Settle, DeliveriesStay, Deliveries
<1>4. Requeue(c, i) => DeliveriesStay
  BY <1>1 DEF Requeue, DeliveriesStay, Deliveries
<1>5. Deliver(c, i) /\ c # "AI_PROCESSOR" => DeliveriesStay
  BY <1>1 DEF Deliver, DeliveriesStay, Deliveries
<1>6. Deliver("AI_PROCESSOR", i) =>
        /\ Deliveries(i)' = Deliveries(i) + 1
        /\ \A k \in Slots \ {i} : Deliveries(k)' = Deliveries(k)
  BY <1>1 DEF Deliver, Deliveries
<1> QED
  BY <1>2, <1>3, <1>4, <1>5, <1>6

\* Neither a submission nor a worker moves; a key may expire, and an id be
\* forgotten that no handler is still publishing under.
Elsewhere ==
  /\ UNCHANGED <<stream, form, worker>>
  /\ vault' = vault \/ (vault' \subseteq vault /\ "ttl" \in FaultKinds)
  /\ DeliveriesStay
  /\ \A id \in window \ window', w \in Workers :
       worker[w].pc = "publish" /\ worker[w].tries > 0 => Held(w).job # id[1]

\* The steps of the gateway and the clocks are elsewhere.
LEMMA StepKinds ==
  ASSUME TypeInv, [Next]_vars
  PROVE  \/ \E j \in Jobs : SubmitStep(j) /\ worker' = worker
         \/ \E w \in AiWorkers : AiStep(w) /\ form' = form
         \/ \E w \in CvWorkers : CvStep(w) /\ form' = form /\ vault' = vault
         \/ Elsewhere
<1>1. CASE \/ \E r \in Replicas : Project(r)
           \/ \E a \in advisories : Poison(a)
           \/ Sweep \/ \E j \in Jobs : Stall(j)
  <2>1. stream' = stream
    BY <1>1, ProjectKeeps, PoisonKeeps, TickKeeps
       DEF Project, Poison, Sweep, Stall, GatewayKept, GatewayInv, TypeInv, PipelineTypeOK, Placed
  <2>2. UNCHANGED <<worker, vault, form>>
    BY <1>1 DEF Project, Poison, Sweep, Stall
  <2>3. window' = window
    BY <1>1 DEF Project, GwStep, GwFetch, Deliver, GwApply, GwSettle, Settle, Requeue, GwCrash,
                Poison, GwAdvisory, TakeAdvisory, Sweep, GwSweep, Stall, GwAge, streamVars
  <2>4. DeliveriesStay
    <3>1. CASE delivery' = delivery
      BY <3>1 DEF DeliveriesStay, Deliveries
    <3>2. CASE \E r \in Replicas, i \in Slots :
                 \/ Deliver("GATEWAY_EVENTS", i)
                 \/ Settle("GATEWAY_EVENTS", i) \/ Requeue("GATEWAY_EVENTS", i)
      BY <3>2, DeliveriesMove DEF TypeInv, PipelineTypeOK, Consumers
    <3>3. Published \subseteq Slots
      BY StreamFacts DEF TypeInv, PipelineTypeOK
    <3>4. CASE \E r \in Replicas, i \in Published : GwFetch(r, i)
      BY <3>2, <3>3, <3>4 DEF GwFetch
    <3>5. CASE \E r \in Replicas : GwSettle(r)
      <4>1. PICK r \in Replicas : GwSettle(r)
        BY <3>5
      <4>2. replica[r].slot \in Slots
        BY <3>3, <4>1 DEF GwSettle, TypeInv, Placed, ReplicasPlaced
      <4> QED
        BY <3>1, <3>2, <4>1, <4>2 DEF GwSettle, streamVars
    <3> QED
      BY <1>1, <3>1, <3>4, <3>5 DEF Project, GwStep, GwApply, GwCrash, Poison, GwAdvisory,
           TakeAdvisory, Sweep, GwSweep, Stall, GwAge, streamVars
  <2> QED
    BY <2>1, <2>2, <2>3, <2>4 DEF Elsewhere
<1>2. CASE Clocks
  <2>1. vault' = vault \/ (vault' \subseteq vault /\ "ttl" \in FaultKinds)
    BY <1>2 DEF Clocks, WorkerLapse, GatewayLapse, GwAckWaitLapse, GiveUp, ForgetId, KeyExpires,
                ExpireKey, Fault
  <2>2. \A id \in window \ window', w \in Workers :
          worker[w].pc = "publish" /\ worker[w].tries > 0 => Held(w).job # id[1]
    BY <1>2 DEF Clocks, WorkerLapse, AckWaitLapse, GatewayLapse, GwAckWaitLapse, Requeue, GiveUp,
                Exhaust, ForgetId, Forget, KeyExpires, streamVars
  <2>3. DeliveriesStay
    <3>1. ASSUME NEW c \in Consumers, NEW i \in Published, Exhaust(c, i) \/ Requeue(c, i)
          PROVE  DeliveriesStay
      <4>1. i \in Slots /\ EventStreamTypeOK
        BY StreamFacts DEF TypeInv, PipelineTypeOK
      <4> QED
        BY <3>1, <4>1, DeliveriesMove
    <3>2. CASE delivery' = delivery
      BY <3>2 DEF DeliveriesStay, Deliveries
    <3>3. CASE \E w \in Workers, i \in Published : WorkerLapse(w, i)
      BY <3>1, <3>3, DurableIsConsumer DEF WorkerLapse, AckWaitLapse
    <3>4. CASE \E i \in Published : GatewayLapse(i)
      BY <3>1, <3>4 DEF GatewayLapse, GwAckWaitLapse, Consumers
    <3>5. CASE \E c \in Consumers, i \in Published : GiveUp(c, i)
      BY <3>1, <3>5 DEF GiveUp
    <3> QED
      BY <1>2, <3>2, <3>3, <3>4, <3>5 DEF Clocks, ForgetId, Forget, KeyExpires, streamVars
  <2> QED
    BY <1>2, <2>1, <2>2, <2>3, ClocksKeep DEF Elsewhere
<1>3. CASE UNCHANGED vars
  BY <1>3 DEF vars, Elsewhere, DeliveriesStay, Deliveries
<1>4. CASE \/ \E j \in Jobs : Submit(j)
           \/ \E w \in AiWorkers : Process(w)
           \/ \E w \in CvWorkers : Render(w)
  BY <1>4 DEF Submit, Process, Render
<1> QED
  BY <1>1, <1>2, <1>3, <1>4 DEF Next

\* How a submission goes on: the request is chosen once, the key is handed
\* over before the publish, and the publish is tried once.
LEMMA SubmitMoves ==
  ASSUME SubmitInv, NEW j \in Jobs, SubmitStep(j)
  PROVE  /\ form[j].step # "none" => form'[j].request = form[j].request
         /\ form[j].step \in {"enqueue", "done"} => form'[j].step \in {"enqueue", "done"}
         /\ form[j].step # "put" => vault' = vault
         /\ form[j].step = "put" => vault' \in {vault, vault \cup {j}}
         /\ form'[j].step = "publish" =>
              \/ form[j].step = "none" /\ form'[j].request # "real"
              \/ form[j].step = "put" /\ j \in vault'
         /\ delivery' = delivery /\ window \subseteq window'
         /\ \A i \in Published' \ Published :
              /\ i = Len(stream) + 1
              /\ form[j].step = "publish" /\ form'[j].step \in {"enqueue", "done"}
              /\ stream'[i] = Message(j, "requested", form[j].request)
<1> USE DEF SubmitInv
<1>1. form[j] \in [step : FormSteps, request : Bodies["requested"] \cup {"none"}]
  BY DEF SubmissionTypeOK
<1>2. ASSUME NEW step, SubmitGoto(j, step)
      PROVE  form'[j].step = step /\ form'[j].request = form[j].request
  BY <1>1, <1>2 DEF SubmitGoto, SubmissionTypeOK
<1>3. ASSUME stream' = stream
      PROVE  Published' = Published
  BY <1>3 DEF Published
<1>4. CASE SubmitCreate(j)
  <2>1. PICK request \in Bodies["requested"], step \in {"put", "publish", "done"} :
          /\ request = "real" => step # "publish"
          /\ form' = [form EXCEPT ![j] = [step |-> step, request |-> request]]
    BY <1>4 DEF SubmitCreate
  <2>2. form'[j].step = step /\ form'[j].request = request
    BY <2>1 DEF SubmissionTypeOK
  <2>3. form[j].step = "none" /\ UNCHANGED <<stream, window, delivery, vault>>
    BY <1>4 DEF SubmitCreate, At, streamVars
  <2> QED
    BY <1>3, <2>1, <2>2, <2>3
<1>5. CASE SubmitPutKey(j)
  <2>1. form[j].step = "put" /\ UNCHANGED <<stream, window, delivery>>
    BY <1>5 DEF SubmitPutKey, At, streamVars
  <2>2. CASE PutKey(j) /\ SubmitGoto(j, "publish")
    BY <1>2, <1>3, <2>1, <2>2 DEF PutKey
  <2>3. CASE (PutKey(j) \/ UNCHANGED vault) /\ SubmitGoto(j, "handoff")
    BY <1>2, <1>3, <2>1, <2>3 DEF PutKey
  <2> QED
    BY <1>5, <2>2, <2>3 DEF SubmitPutKey
<1>6. CASE SubmitPublish(j)
  <2> DEFINE m == Message(j, "requested", form[j].request)
  <2>1. form[j].step = "publish" /\ vault' = vault /\ form'[j].request = form[j].request
    BY <1>2, <1>6 DEF SubmitPublish, At
  <2>2. form'[j].step \in {"enqueue", "done"}
    BY <1>2, <1>6 DEF SubmitPublish
  <2>3. m \in Messages /\ (Publish(m) \/ PublishErr(m))
    BY <1>6, MessageType DEF Events, FormsPlaced, At, SubmitPublish
  <2>4. delivery' = delivery /\ window \subseteq window'
    BY <2>3 DEF Publish, PublishErr, streamVars
  <2>5. \A i \in Published' \ Published : i = Len(stream) + 1 /\ stream'[i] = m
    <3> HIDE DEF m
    <3> QED
      BY <2>3, PublishEffect, PublishErrEffect DEF AppendsAtMost
  <2> QED
    BY <2>1, <2>2, <2>4, <2>5
<1>7. CASE SubmitMarkFailed(j)
  BY <1>2, <1>3, <1>7 DEF SubmitMarkFailed, streamVars
<1>8. CASE SubmitCrash(j)
  BY <1>2, <1>3, <1>8 DEF SubmitCrash, streamVars
<1> QED
  BY <1>4, <1>5, <1>6, <1>7, <1>8 DEF SubmitStep, SubmitCall

\* How a handler of the ai-processor goes on.
AiMoves(w) ==
  /\ worker'[w].pc \in {"claim", "build", "call", "publish"} =>
       /\ Holding(w) /\ worker'[w].slot = worker[w].slot
       /\ worker'[w].pc = "claim" => worker[w].pc = "resolve" /\ Held(w).body = "real"
       /\ worker'[w].pc = "build" =>
            \/ worker[w].pc = "resolve" /\ Held(w).body = "fake"
            \/ worker[w].pc = "claim" /\ Held(w).job \in vault /\ Held(w).job \notin vault'
       /\ worker'[w].pc = "call" => worker[w].pc = "build"
       /\ worker'[w].pc = "publish" =>
            \/ worker[w].pc = "call"
            \/ worker[w].pc = "publish" /\ worker'[w].tries = worker[w].tries + 1
  /\ vault' = vault \/ (worker[w].pc = "claim" /\ vault' = vault \ {Held(w).job})
  /\ window \subseteq window'

\* Each step of it does.
LEMMA AiStepMoves ==
  ASSUME TypeInv, NEW w \in AiWorkers, AiStep(w)
  PROVE  AiMoves(w)
<1>1. PullLoopTypeOK /\ w \in Workers
  BY DEF TypeInv, PipelineTypeOK, Workers
<1>2. ASSUME UNCHANGED <<vault, window>>,
             \/ \E pc \in {"fail", "settle"} : \E note : Goto(w, pc, note)
             \/ Abandon(w)
             \/ \E i : Fetch(w, i, "resolve")
      PROVE  AiMoves(w)
  BY <1>1, <1>2, GotoMoves, AbandonMoves, FetchMoves DEF AiMoves
<1>3. CASE \E i \in Published : AiFetch(w, i)
  BY <1>2, <1>3 DEF AiFetch, Fetch, Deliver
<1>4. CASE AiResolve(w)
  <2>1. worker[w].pc = "resolve" /\ UNCHANGED <<vault, window>> /\ Holding(w)
    BY <1>4 DEF AiResolve, streamVars, Holding
  <2>2. CASE Goto(w, "fail", "processing") \/ Finish(w, "nak")
    BY <1>2, <2>1, <2>2 DEF Finish
  <2>3. CASE Held(w).body = "fake" /\ Goto(w, "build", "none")
    BY <1>1, <2>1, <2>3, GotoMoves DEF AiMoves
  <2>4. CASE Held(w).body = "real" /\ Goto(w, "claim", "none")
    BY <1>1, <2>1, <2>4, GotoMoves DEF AiMoves
  <2> QED
    BY <1>4, <2>2, <2>3, <2>4 DEF AiResolve
<1>5. CASE AiClaim(w)
  <2>1. worker[w].pc = "claim" /\ window' = window /\ Holding(w)
    BY <1>5 DEF AiClaim, streamVars, Holding
  <2>2. CASE ClaimKey(Held(w).job, TRUE) /\ Goto(w, "build", "none")
    BY <1>1, <2>1, <2>2, GotoMoves DEF AiMoves, ClaimKey
  <2>3. CASE ClaimKey(Held(w).job, FALSE) /\ Goto(w, "fail", "keyMissing")
    BY <1>1, <2>1, <2>3, GotoMoves DEF AiMoves, ClaimKey
  <2>4. CASE /\ \E found \in BOOLEAN : ClaimKey(Held(w).job, found) \/ UNCHANGED vault
             /\ Finish(w, "nak")
    BY <1>1, <2>1, <2>4, GotoMoves DEF AiMoves, ClaimKey, Finish
  <2> QED
    BY <1>5, <2>2, <2>3, <2>4 DEF AiClaim
<1>6. CASE AiBuild(w) \/ AiCall(w)
  <2>1. UNCHANGED <<vault, window>> /\ Holding(w)
    BY <1>6 DEF AiBuild, AiCall, streamVars, Holding
  <2>2. CASE Goto(w, "fail", "processing") \/ Finish(w, "nak")
    BY <1>2, <2>1, <2>2 DEF Finish
  <2>3. CASE worker[w].pc = "build" /\ Goto(w, "call", "none")
    BY <1>1, <2>1, <2>3, GotoMoves DEF AiMoves
  <2>4. CASE worker[w].pc = "call" /\ \E cv : Goto(w, "publish", cv)
    BY <1>1, <2>1, <2>4, GotoMoves DEF AiMoves
  <2> QED
    BY <1>6, <2>2, <2>3, <2>4 DEF AiBuild, AiCall
<1>7. CASE AiPublish(w)
  <2>1. /\ worker[w].pc = "publish" /\ Holding(w) /\ vault' = vault
        /\ window \subseteq window'
    BY <1>7 DEF AiPublish, PublishWithRetry, Publish, PublishErr, streamVars, Holding
  <2>2. CASE \E outcome : Finish(w, outcome)
    BY <1>1, <2>1, <2>2, GotoMoves DEF AiMoves, Finish
  <2>3. CASE worker' = [worker EXCEPT ![w].tries = @ + 1]
    BY <1>1, <2>1, <2>3, RetryMoves DEF AiMoves
  <2> QED
    BY <1>7, <2>2, <2>3 DEF AiPublish, PublishWithRetry
<1>8. CASE AiFail(w)
  <2>1. vault' = vault /\ window \subseteq window' /\ \E outcome : Goto(w, "settle", outcome)
    BY <1>8 DEF AiFail, ReportFailure, Publish, PublishErr, streamVars, Finish
  <2> QED
    BY <1>1, <2>1, GotoMoves DEF AiMoves
<1>9. CASE AiDispatch(w) \/ AiCrash(w)
  <2>1. UNCHANGED <<vault, window>> /\ Abandon(w)
    BY <1>9 DEF AiDispatch, AiCrash, Dispatch, Settle, Requeue, Crash, streamVars
  <2> QED
    BY <1>2, <2>1
<1> QED
  BY <1>3, <1>4, <1>5, <1>6, <1>7, <1>8, <1>9 DEF AiStep, AiHandler

\* A worker moves no other.
LEMMA OneWorkerMoves ==
  ASSUME TypeInv, NEW w \in Workers,
         (w \in AiWorkers /\ AiStep(w)) \/ (w \in CvWorkers /\ CvStep(w))
  PROVE  \A v \in Workers \ {w} : worker'[v] = worker[v]
<1>1. PullLoopTypeOK
  BY DEF TypeInv, PipelineTypeOK
<1>2. \/ \E pc, note : Goto(w, pc, note)
      \/ Abandon(w)
      \/ \E i, pc : Fetch(w, i, pc)
      \/ worker' = [worker EXCEPT ![w].tries = @ + 1]
  BY DEF AiStep, AiFetch, AiHandler, AiResolve, AiClaim, AiBuild, AiCall, AiPublish,
         PublishWithRetry, AiFail, ReportFailure, AiDispatch, Dispatch, AiCrash, Crash, Finish,
         CvStep, CvFetch, CvHandler, CvConvert, CvRender, CvPut, CvPublish, CvFail, CvDispatch, CvCrash
<1> QED
  BY <1>1, <1>2, GotoMoves, AbandonMoves, FetchMoves, RetryMoves

-----------------------------------------------------------------------------
(* Where the messages of the log come from. *)

\* Every message goes back to a submission that got to its publish, which
\* happens once; a CV to a request that passed the contract check.
MessagesGrounded ==
  /\ \A i \in Published :
       /\ form[stream[i].job].step \in {"enqueue", "done"}
       /\ stream[i].event = "requested" => stream[i].body = form[stream[i].job].request
       /\ stream[i].event = "structured" => form[stream[i].job].request # "bad"
       /\ stream[i].event = "rendered" => InStream(stream[i].job, "structured")
  /\ \A i, k \in Published :
       /\ stream[i].event = "requested" /\ stream[k].event = "requested"
       /\ stream[i].job = stream[k].job
       => i = k

\* Past the contract check a handler works on a request that passed it.
HandlersGrounded ==
  \A w \in AiWorkers :
    /\ worker[w].pc \in {"build", "call", "publish"} => Held(w).body # "bad"
    /\ worker[w].pc = "claim" => Held(w).body = "real"

Grounded == MessagesGrounded /\ HandlersGrounded

\* A worker that stays with its message in a log that grows holds the same one.
LEMMA HeldStays ==
  ASSUME TypeInv, LogGrows, NEW w \in Workers, Holding(w), worker'[w].slot = worker[w].slot
  PROVE  Held(w)' = Held(w)
BY HeldEvent DEF Held, LogGrows

\* A log that did not grow, or a new message that is grounded.
LEMMA GroundedGrows ==
  ASSUME TypeInv, MessagesGrounded, LogGrows,
         \A j \in Jobs : form[j].step \in {"enqueue", "done"} =>
           form'[j].step \in {"enqueue", "done"} /\ form'[j].request = form[j].request,
         \A i \in Published' \ Published :
           /\ i = Len(stream) + 1
           /\ form'[stream'[i].job].step \in {"enqueue", "done"}
           /\ stream'[i].event = "requested" =>
                /\ stream'[i].body = form'[stream'[i].job].request
                /\ form[stream'[i].job].step \notin {"enqueue", "done"}
           /\ stream'[i].event = "structured" => form'[stream'[i].job].request # "bad"
           /\ stream'[i].event = "rendered" => InStream(stream'[i].job, "structured")
  PROVE  MessagesGrounded'
<1>1. \A i \in Published : i \in Published' /\ stream'[i] = stream[i] /\ stream[i].job \in Jobs
  BY StreamFacts, MessageFields DEF LogGrows, TypeInv, PipelineTypeOK
<1>2. \A j : InStream(j, "structured") =>
              \E k \in Published' : stream'[k].job = j /\ stream'[k].event = "structured"
  BY DEF InStream, LogGrows
<1>3. ASSUME NEW i \in Published'
      PROVE  /\ form'[stream'[i].job].step \in {"enqueue", "done"}
             /\ stream'[i].event = "requested" => stream'[i].body = form'[stream'[i].job].request
             /\ stream'[i].event = "structured" => form'[stream'[i].job].request # "bad"
             /\ stream'[i].event = "rendered" =>
                  \E k \in Published' : stream'[k].job = stream'[i].job /\ stream'[k].event = "structured"
  <2>1. CASE i \in Published
    BY <1>1, <1>2, <2>1 DEF MessagesGrounded
  <2>2. CASE i \notin Published
    BY <1>2, <1>3, <2>2
  <2> QED
    BY <2>1, <2>2
<1>4. ASSUME NEW i \in Published', NEW k \in Published',
             stream'[i].event = "requested", stream'[k].event = "requested",
             stream'[i].job = stream'[k].job
      PROVE  i = k
  <2>1. CASE i \in Published /\ k \in Published
    BY <1>1, <1>4, <2>1 DEF MessagesGrounded
  <2>2. CASE i \notin Published /\ k \notin Published
    BY <1>4, <2>2
  <2>3. CASE i \in Published /\ k \notin Published
    BY <1>1, <1>4, <2>3 DEF MessagesGrounded
  <2>4. CASE i \notin Published /\ k \in Published
    BY <1>1, <1>4, <2>4 DEF MessagesGrounded
  <2> QED
    BY <2>1, <2>2, <2>3, <2>4
<1> QED
  BY <1>3, <1>4 DEF MessagesGrounded, InStream

\* Every step keeps the ground.
LEMMA NextGrounds ==
  ASSUME TypeInv, Grounded, [Next]_vars
  PROVE  Grounded'
<1>1. LogGrows /\ EventStreamTypeOK /\ PullLoopTypeOK /\ SubmissionTypeOK
  BY NextKeeps, SameLog DEF TypeInv, PipelineTypeOK, vars
<1>2. AiWorkers \subseteq Workers /\ CvWorkers \subseteq Workers
  BY DEF Workers
<1>3. ASSUME NEW w \in AiWorkers, worker'[w] = worker[w]
      PROVE  /\ worker'[w].pc \in {"build", "call", "publish"} => Held(w)'.body # "bad"
             /\ worker'[w].pc = "claim" => Held(w)'.body = "real"
  <2>1. worker[w].pc \in {"build", "call", "publish", "claim"} => Held(w)' = Held(w)
    BY <1>1, <1>2, <1>3, HeldStays DEF Holding
  <2> QED
    BY <1>3, <2>1 DEF Grounded, HandlersGrounded
<1>4. ASSUME stream' = stream, form' = form, worker' = worker
      PROVE  Grounded'
  <2>1. MessagesGrounded'
    BY <1>4 DEF Grounded, MessagesGrounded, InStream, Published
  <2> QED
    BY <1>3, <1>4, <2>1 DEF Grounded, HandlersGrounded
<1>5. ASSUME NEW w \in Workers, Holding(w),
             /\ form[Held(w).job].step \in {"enqueue", "done"}
             /\ worker[w].pc = "publish" /\ Answer(w) = "structured" => form[Held(w).job].request # "bad"
             /\ Answer(w) = "rendered" => InStream(Held(w).job, "structured"),
             NEW m, \/ worker[w].pc = "publish" /\ m = Message(Held(w).job, Answer(w), worker[w].note)
                    \/ m = Message(Held(w).job, "failed", worker[w].note)
      PROVE  /\ form[m.job].step \in {"enqueue", "done"}
             /\ m.event # "requested"
             /\ m.event = "structured" => form[m.job].request # "bad"
             /\ m.event = "rendered" => InStream(m.job, "structured")
  <2>1. m.job = Held(w).job /\ (m.event = "failed" \/ (worker[w].pc = "publish" /\ m.event = Answer(w)))
    BY <1>5, MessageParts
  <2>2. Answer(w) \in {"structured", "rendered"}
    BY DEF Answer
  <2> QED
    BY <1>5, <2>1, <2>2
<1>6. ASSUME NEW w \in Workers, (w \in AiWorkers /\ AiStep(w)) \/ (w \in CvWorkers /\ CvStep(w)),
             form' = form
      PROVE  MessagesGrounded'
  <2>1. Holding(w) =>
          /\ form[Held(w).job].step \in {"enqueue", "done"}
          /\ worker[w].pc = "publish" /\ Answer(w) = "structured" => form[Held(w).job].request # "bad"
          /\ Answer(w) = "rendered" => InStream(Held(w).job, "structured")
    <3>1. Holding(w) => form[Held(w).job].step \in {"enqueue", "done"}
      BY HeldEvent DEF Grounded, MessagesGrounded, Held
    <3>2. ASSUME Holding(w), w \in AiWorkers, worker[w].pc = "publish"
          PROVE  form[Held(w).job].request # "bad"
      BY <3>2, HeldEvent DEF Grounded, MessagesGrounded, HandlersGrounded, Held
    <3>3. ASSUME Holding(w), w \in CvWorkers
          PROVE  InStream(Held(w).job, "structured")
      BY <3>3, HeldEvent DEF InStream, Held
    <3>4. (Answer(w) = "structured" => w \in AiWorkers) /\ (Answer(w) = "rendered" => w \in CvWorkers)
      BY DEF Answer, Workers
    <3> QED
      BY <3>1, <3>2, <3>3, <3>4
  <2>2. ASSUME NEW i \in Published' \ Published
        PROVE  /\ i = Len(stream) + 1
               /\ form[stream'[i].job].step \in {"enqueue", "done"}
               /\ stream'[i].event # "requested"
               /\ stream'[i].event = "structured" => form[stream'[i].job].request # "bad"
               /\ stream'[i].event = "rendered" => InStream(stream'[i].job, "structured")
    BY <1>5, <1>6, <2>1, <2>2, WorkerAdds
  <2> QED
    BY <1>1, <1>6, <2>2, GroundedGrows DEF Grounded
<1>7. ASSUME NEW w \in AiWorkers, AiStep(w), form' = form
      PROVE  Grounded'
  <2>1. ASSUME NEW v \in AiWorkers
        PROVE  /\ worker'[v].pc \in {"build", "call", "publish"} => Held(v)'.body # "bad"
               /\ worker'[v].pc = "claim" => Held(v)'.body = "real"
    <3>1. CASE v # w
      <4>1. worker'[v] = worker[v]
        BY <1>2, <1>7, <3>1, OneWorkerMoves
      <4> QED
        BY <1>3, <4>1
    <3>2. CASE v = w /\ worker'[w].pc \in {"claim", "build", "call", "publish"}
      <4>1. AiMoves(w) /\ Holding(w) /\ worker'[w].slot = worker[w].slot
        BY <1>7, <3>2, AiStepMoves DEF AiMoves
      <4>2. Held(w)' = Held(w)
        BY <1>1, <1>2, <4>1, HeldStays
      <4> QED
        BY <3>2, <4>1, <4>2 DEF AiMoves, Grounded, HandlersGrounded
    <3> QED
      BY <3>1, <3>2
  <2> QED
    BY <1>2, <1>6, <1>7, <2>1 DEF Grounded, HandlersGrounded
<1>8. ASSUME NEW w \in CvWorkers, CvStep(w), form' = form
      PROVE  Grounded'
  <2>1. \A v \in AiWorkers : worker'[v] = worker[v]
    BY <1>2, <1>8, OneWorkerMoves, WorkersAssumption
  <2> QED
    BY <1>2, <1>3, <1>6, <1>8, <2>1 DEF Grounded, HandlersGrounded
<1>9. ASSUME NEW j \in Jobs, SubmitStep(j), worker' = worker
      PROVE  Grounded'
  <2>1. SubmitInv
    BY DEF SubmitInv, TypeInv, PipelineTypeOK, Placed
  <2>2. \A i \in Jobs \ {j} : form'[i] = form[i]
    BY <1>9, <2>1, SubmitTouches
  <2>3. /\ form[j].step # "none" => form'[j].request = form[j].request
        /\ form[j].step \in {"enqueue", "done"} => form'[j].step \in {"enqueue", "done"}
        /\ \A i \in Published' \ Published :
             /\ i = Len(stream) + 1
             /\ form[j].step = "publish" /\ form'[j].step \in {"enqueue", "done"}
             /\ stream'[i] = Message(j, "requested", form[j].request)
    BY <1>9, <2>1, SubmitMoves
  <2>4. MessagesGrounded'
    BY <1>1, <2>2, <2>3, GroundedGrows, MessageParts DEF Grounded
  <2> QED
    BY <1>3, <1>9, <2>4 DEF Grounded, HandlersGrounded
<1> QED
  BY <1>4, <1>7, <1>8, <1>9, StepKinds DEF Elsewhere

-----------------------------------------------------------------------------
(* The custody of a key. *)

\* The handler of w has claimed the key of job j, and may still publish.
Paid(w, j) ==
  /\ worker[w].pc \in {"build", "call", "publish"}
  /\ Held(w).job = j
  /\ Held(w).body = "real"

\* w has not tried to publish yet.
Untried(w) == worker[w].pc # "publish" \/ worker[w].tries = 0

\* A key is in the vault, or with one handler, or used up: it is with the
\* handler as long as that handler may still publish, and what the handler
\* published is in the window, so that a retry is swallowed.
CustodyOf(j) ==
  /\ j \in vault /\ form[j].request = "real" =>
       ~InStream(j, "structured") /\ \A w \in AiWorkers : ~Paid(w, j)
  /\ \A v, w \in AiWorkers : Paid(v, j) /\ Paid(w, j) => v = w
  /\ \A w \in AiWorkers : Paid(w, j) /\ InStream(j, "structured") =>
       ~Untried(w) /\ <<j, "structured">> \in window
  /\ form[j].request = "real" => \A i, k \in Positions(j, "structured") : i = k

Custody == \A j \in Jobs : CustodyOf(j)

\* Only a request of a real provider costs a key.
LEMMA PaidIsReal ==
  ASSUME TypeInv, Grounded, NEW w \in AiWorkers, NEW j \in Jobs, Paid(w, j)
  PROVE  form[j].request = "real" /\ form[j].step \in {"enqueue", "done"}
BY HeldEvent DEF Paid, Holding, Workers, Grounded, MessagesGrounded, Held

\* The custody of a job nothing is done about.
LEMMA CustodyStays ==
  ASSUME TypeInv, LogGrows, NEW j \in Jobs, CustodyOf(j),
         form'[j].request = form[j].request, j \in vault' => j \in vault,
         \A i \in Published' \ Published : stream'[i].event # "structured" \/ stream'[i].job # j,
         \A w \in AiWorkers : Paid(w, j)' => Paid(w, j) /\ (Untried(w)' => Untried(w)),
         \A w \in AiWorkers :
           Paid(w, j) /\ ~Untried(w) /\ <<j, "structured">> \in window => <<j, "structured">> \in window'
  PROVE  CustodyOf(j)'
<1>1. \A i \in Published : i \in Published' /\ stream'[i] = stream[i]
  BY DEF LogGrows
<1>2. InStream(j, "structured")' => InStream(j, "structured")
  BY <1>1 DEF InStream
<1>3. Positions(j, "structured")' \subseteq Positions(j, "structured")
  BY <1>1 DEF Positions
<1> QED
  BY <1>2, <1>3 DEF CustodyOf

\* A new CV of a job enters the log with its id.
LEMMA PublishGrows ==
  ASSUME EventStreamTypeOK, NEW m \in Messages, Publish(m) \/ PublishErr(m)
  PROVE  \A i \in Published' \ Published : MsgID(m) \in window' \ window
BY DEF Publish, PublishErr, streamVars, Published

\* How keys come to be paid with: by a claim.
LEMMA AiPays ==
  ASSUME TypeInv, Grounded, LogGrows, NEW w \in AiWorkers, AiStep(w), NEW j \in Jobs,
         NEW v \in AiWorkers, Paid(v, j)'
  PROVE  \/ /\ Paid(v, j) /\ (Untried(v)' => Untried(v))
            /\ v = w /\ worker[w].pc = "publish" => ~Untried(v)'
         \/ /\ v = w /\ worker[w].pc = "claim" /\ Held(w).job = j /\ Held(w).body = "real"
            /\ j \in vault /\ j \notin vault'
<1>1. v \in Workers /\ w \in Workers
  BY DEF Workers
<1>2. ASSUME worker'[v].slot = worker[v].slot, Holding(v)
      PROVE  Held(v)' = Held(v)
  BY <1>1, <1>2, HeldStays
<1>3. CASE v # w
  <2>1. worker'[v] = worker[v]
    BY <1>1, <1>3, OneWorkerMoves
  <2>2. Held(v)' = Held(v)
    BY <1>2, <2>1 DEF Paid, Holding
  <2> QED
    BY <1>3, <2>1, <2>2 DEF Paid, Untried
<1>4. CASE v = w
  <2>1. /\ worker'[w].pc \in {"build", "call", "publish"}
        /\ Held(w)'.job = j /\ Held(w)'.body = "real"
    BY <1>4 DEF Paid
  <2>2. AiMoves(w) /\ Holding(w) /\ Held(w)' = Held(w)
    BY <1>2, <1>4, <2>1, AiStepMoves DEF AiMoves
  <2>3. worker[w].tries \in Nat
    BY <1>1, PublishAttemptsAssumption DEF TypeInv, PipelineTypeOK, PullLoopTypeOK, Worker
  <2>4. CASE worker'[w].pc = "build"
    BY <1>4, <2>1, <2>2, <2>4 DEF AiMoves
  <2>5. CASE worker'[w].pc = "call"
    BY <1>4, <2>1, <2>2, <2>5 DEF AiMoves, Paid, Untried
  <2>6. CASE worker'[w].pc = "publish"
    BY <1>4, <2>1, <2>2, <2>3, <2>6 DEF AiMoves, Paid, Untried
  <2> QED
    BY <2>1, <2>4, <2>5, <2>6
<1> QED
  BY <1>3, <1>4

\* What a step of the ai-processor publishes, it publishes with its id.
LEMMA AiPublishesOnce ==
  ASSUME TypeInv, NEW w \in AiWorkers, AiStep(w), worker[w].pc = "publish"
  PROVE  \A i \in Published' \ Published : <<Held(w).job, "structured">> \in window' \ window
<1>1. EventStreamTypeOK /\ w \in Workers /\ WellPlaced(w) /\ Holding(w) /\ Answer(w) = "structured"
  BY DEF TypeInv, PipelineTypeOK, Placed, WorkersPlaced, Workers, Holding, Answer
<1>2. CASE AiPublish(w)
  <2> DEFINE m == Message(Held(w).job, "structured", worker[w].note)
  <2>1. m \in Messages /\ MsgID(m) = <<Held(w).job, "structured">>
    BY <1>1, HeldIsMessage, MessageType, MessageParts DEF WellPlaced, Events, MsgID
  <2>2. Publish(m) \/ PublishErr(m)
    BY <1>2 DEF AiPublish, PublishWithRetry
  <2> HIDE DEF m
  <2> QED
    BY <1>1, <2>1, <2>2, PublishGrows
<1>3. CASE AiCrash(w)
  BY <1>3 DEF AiCrash, Crash, streamVars, Published
<1> QED
  BY <1>2, <1>3 DEF AiStep, AiFetch, Fetch, Holding, AiHandler, AiResolve, AiClaim, AiBuild, AiCall,
       AiFail, ReportFailure, AiDispatch, Dispatch

\* A claim takes the key from the vault into one hand.
LEMMA ClaimKeepsCustody ==
  ASSUME TypeInv, Grounded, LogGrows, NEW w \in AiWorkers, AiStep(w), form' = form,
         NEW j \in Jobs, CustodyOf(j), worker[w].pc = "claim", Paid(w, j)', ~Paid(w, j)
  PROVE  CustodyOf(j)'
<1>1. /\ Held(w).job = j /\ Held(w).body = "real" /\ j \in vault /\ j \notin vault'
  BY AiPays
<1>2. form[j].request = "real"
  BY <1>1, HeldEvent DEF Workers, Holding, Grounded, MessagesGrounded, Held
<1>3. ~InStream(j, "structured") /\ \A v \in AiWorkers : ~Paid(v, j)
  BY <1>1, <1>2 DEF CustodyOf
<1>4. Published' \ Published = {}
  BY WorkerAdds DEF Workers
<1>5. Published' = Published /\ \A i \in Published : stream'[i] = stream[i]
  BY <1>4 DEF LogGrows
<1>6. ~InStream(j, "structured")' /\ Positions(j, "structured")' = {}
  BY <1>3, <1>5 DEF InStream, Positions
<1>7. \A v \in AiWorkers : Paid(v, j)' => v = w
  BY <1>3, AiPays
<1> QED
  BY <1>1, <1>6, <1>7 DEF CustodyOf

\* The CV a key paid for is the first of its job.
LEMMA PublishKeepsCustody ==
  ASSUME TypeInv, Grounded, LogGrows, NEW w \in AiWorkers, AiStep(w), form' = form,
         NEW j \in Jobs, CustodyOf(j), worker[w].pc = "publish", Held(w).job = j,
         form[j].request = "real", Published' # Published
  PROVE  CustodyOf(j)'
<1>1. w \in Workers /\ Holding(w)
  BY DEF Workers, Holding
<1>2. Paid(w, j)
  BY <1>1, HeldEvent DEF Paid, Grounded, MessagesGrounded, Held
<1>3. \A i \in Published : i \in Published' /\ stream'[i] = stream[i]
  BY DEF LogGrows
<1>4. \A i \in Published' \ Published : i = Len(stream) + 1
  BY <1>1, WorkerAdds
<1>5. <<j, "structured">> \in window' \ window
  BY <1>3, AiPublishesOnce
<1>6. ~InStream(j, "structured") /\ j \notin vault
  BY <1>2, <1>5 DEF CustodyOf
<1>7. \A i, k \in Positions(j, "structured")' : i = k
  BY <1>3, <1>4, <1>6 DEF Positions, InStream
<1>8. j \notin vault'
  BY <1>6, AiStepMoves DEF AiMoves
<1>9. \A v \in AiWorkers : Paid(v, j)' => Paid(v, j) /\ v = w /\ ~Untried(v)'
  <2>1. \A v \in AiWorkers : Paid(v, j)' =>
          Paid(v, j) /\ (v = w /\ worker[w].pc = "publish" => ~Untried(v)')
    BY <1>6, AiPays
  <2> QED
    BY <1>2, <2>1 DEF CustodyOf
<1> QED
  BY <1>5, <1>7, <1>8, <1>9 DEF CustodyOf

\* The custody of every job through a step of the ai-processor.
LEMMA AiKeepsCustody ==
  ASSUME TypeInv, Grounded, LogGrows, NEW w \in AiWorkers, AiStep(w), form' = form,
         NEW j \in Jobs, CustodyOf(j)
  PROVE  CustodyOf(j)'
<1>1. AiMoves(w)
  BY AiStepMoves
<1>2. CASE Paid(w, j)' /\ ~Paid(w, j)
  BY <1>2, AiPays, ClaimKeepsCustody
<1>3. ASSUME ~(Paid(w, j)' /\ ~Paid(w, j))
      PROVE  /\ \A v \in AiWorkers : Paid(v, j)' => Paid(v, j) /\ (Untried(v)' => Untried(v))
             /\ j \in vault' => j \in vault
             /\ window \subseteq window'
  <2>1. ASSUME NEW v \in AiWorkers, Paid(v, j)'
        PROVE  Paid(v, j) /\ (Untried(v)' => Untried(v))
    <3>1. worker[w].pc = "claim" => ~Paid(w, j)
      BY DEF Paid
    <3> QED
      BY <1>3, <2>1, <3>1, AiPays
  <2>2. (j \in vault' => j \in vault) /\ window \subseteq window'
    BY <1>1 DEF AiMoves
  <2> QED
    BY <2>1, <2>2
<1>4. CASE /\ ~(Paid(w, j)' /\ ~Paid(w, j))
           /\ \A i \in Published' \ Published : stream'[i].event # "structured" \/ stream'[i].job # j
  BY <1>3, <1>4, CustodyStays
<1>5. ASSUME NEW i \in Published' \ Published, stream'[i].event = "structured", stream'[i].job = j
      PROVE  worker[w].pc = "publish" /\ Held(w).job = j
  <2>1. \/ /\ worker[w].pc = "publish"
           /\ stream'[i] = Message(Held(w).job, Answer(w), worker[w].note)
        \/ /\ worker[w].pc = "fail"
           /\ stream'[i] = Message(Held(w).job, "failed", worker[w].note)
    BY <1>5, WorkerAdds DEF Workers
  <2> QED
    BY <1>5, <2>1, MessageParts
<1>6. CASE form[j].request # "real" /\ ~(Paid(w, j)' /\ ~Paid(w, j))
  <2>1. \A v \in AiWorkers : ~Paid(v, j)'
    BY <1>3, <1>6, PaidIsReal
  <2> QED
    BY <1>6, <2>1 DEF CustodyOf
<1>7. CASE form[j].request = "real" /\ worker[w].pc = "publish" /\ Held(w).job = j
           /\ Published' # Published
  BY <1>7, PublishKeepsCustody
<1> QED
  BY <1>2, <1>4, <1>5, <1>6, <1>7

\* The custody of a submission's job: nothing is known of it before its publish.
LEMMA SubmitKeepsCustody ==
  ASSUME TypeInv, Grounded, LogGrows, NEW i \in Jobs, SubmitStep(i), worker' = worker,
         NEW j \in Jobs, CustodyOf(j)
  PROVE  CustodyOf(j)'
<1>1. SubmitInv
  BY DEF SubmitInv, TypeInv, PipelineTypeOK, Placed
<1>2. \A k \in Jobs \ {i} : form'[k] = form[k]
  BY <1>1, SubmitTouches
<1>3. /\ form[i].step # "none" => form'[i].request = form[i].request
      /\ form[i].step # "put" => vault' = vault
      /\ vault' \in {vault, vault \cup {i}}
      /\ window \subseteq window'
      /\ \A k \in Published' \ Published : stream'[k] = Message(i, "requested", form[i].request)
  BY <1>1, SubmitMoves
<1>4. \A k \in Published' \ Published : stream'[k].event # "structured"
  BY <1>3, MessageParts
<1>5. \A w \in AiWorkers : Paid(w, j)' => Paid(w, j) /\ (Untried(w)' => Untried(w))
  <2> SUFFICES ASSUME NEW w \in AiWorkers, Paid(w, j)'
               PROVE  Paid(w, j) /\ (Untried(w)' => Untried(w))
    OBVIOUS
  <2>1. Holding(w) /\ worker'[w].slot = worker[w].slot
    BY DEF Paid, Holding
  <2>2. Held(w)' = Held(w)
    BY <2>1, HeldStays DEF Workers
  <2> QED
    BY <2>2 DEF Paid, Untried
<1>6. CASE form[j].step \in {"enqueue", "done"}
  <2>1. form'[j].request = form[j].request /\ (j \in vault' => j \in vault)
    BY <1>2, <1>3, <1>6
  <2> QED
    BY <1>3, <1>4, <1>5, <2>1, CustodyStays
<1>7. CASE form[j].step \notin {"enqueue", "done"}
  <2>1. ~InStream(j, "structured")
    BY <1>7 DEF Grounded, MessagesGrounded, InStream
  <2>2. \A w \in AiWorkers : ~Paid(w, j)'
    BY <1>5, <1>7, PaidIsReal
  <2>3. ~InStream(j, "structured")' /\ Positions(j, "structured")' = {}
    BY <1>4, <2>1 DEF InStream, Positions, LogGrows
  <2> QED
    BY <2>2, <2>3 DEF CustodyOf
<1> QED
  BY <1>6, <1>7

\* Every step keeps the custody of every key.
LEMMA NextKeepsCustody ==
  ASSUME TypeInv, Grounded, Custody, [Next]_vars
  PROVE  Custody'
<1> SUFFICES ASSUME NEW j \in Jobs PROVE CustodyOf(j)'
  BY DEF Custody
<1>1. CustodyOf(j) /\ LogGrows /\ PullLoopTypeOK
  BY NextKeeps, SameLog DEF TypeInv, PipelineTypeOK, vars, Custody
<1>2. ASSUME NEW v \in AiWorkers, worker'[v] = worker[v], Paid(v, j)'
      PROVE  Paid(v, j) /\ (Untried(v)' => Untried(v))
  <2>1. Held(v)' = Held(v)
    BY <1>1, <1>2, HeldStays DEF Workers, Paid, Holding
  <2> QED
    BY <1>2, <2>1 DEF Paid, Untried
<1>3. ASSUME NEW w \in CvWorkers, CvStep(w), form' = form, vault' = vault
      PROVE  CustodyOf(j)'
  <2>1. \A v \in AiWorkers : worker'[v] = worker[v]
    BY <1>3, OneWorkerMoves, WorkersAssumption DEF Workers
  <2>2. window \subseteq window'
    BY <1>3 DEF CvStep, CvFetch, Fetch, Deliver, CvHandler, CvConvert, CvRender, CvPut, CvPublish,
                PublishWithRetry, CvFail, ReportFailure, Publish, PublishErr, CvDispatch, Dispatch,
                Settle, Requeue, CvCrash, Crash, streamVars
  <2>3. OnlyAdds({"rendered", "failed"})
    BY <1>3, CvKeeps DEF LoopInv, TypeInv, PipelineTypeOK, Placed
  <2> QED
    BY <1>1, <1>2, <1>3, <2>1, <2>2, <2>3, CustodyStays DEF OnlyAdds
<1>4. CASE Elsewhere
  <2>1. \A v \in AiWorkers : worker'[v] = worker[v]
    BY <1>4 DEF Elsewhere
  <2>2. ASSUME NEW w \in AiWorkers, Paid(w, j), ~Untried(w), <<j, "structured">> \in window
        PROVE  <<j, "structured">> \in window'
    <3>1. worker[w].pc = "publish" /\ worker[w].tries > 0 /\ Held(w).job = j
      BY <1>1, <2>2, PublishAttemptsAssumption DEF Paid, Untried, PullLoopTypeOK, Worker, Workers
    <3> QED
      BY <1>4, <2>2, <3>1 DEF Elsewhere, Workers
  <2>3. Published' = Published /\ form' = form /\ vault' \subseteq vault
    BY <1>4 DEF Elsewhere, Published
  <2> QED
    BY <1>1, <1>2, <2>1, <2>2, <2>3, CustodyStays
<1> QED
  BY <1>1, <1>3, <1>4, StepKinds, SubmitKeepsCustody, AiKeepsCustody

\* In every reachable state messages are grounded and keys in custody.
LEMMA InCustody == SafeSpec => [](Grounded /\ Custody)
<1>1. Init => Grounded /\ Custody
  <2> SUFFICES ASSUME Init PROVE Grounded /\ Custody
    OBVIOUS
  <2>1. Published = {} /\ \A w \in AiWorkers : worker[w].pc = "idle"
    BY DEF Init, EventStreamInit, Published, PullLoopInit, Workers, Idle
  <2>2. vault = {}
    BY DEF Init, VaultInit
  <2> QED
    BY <2>1, <2>2 DEF Grounded, MessagesGrounded, HandlersGrounded, Custody, CustodyOf, Paid, Positions
<1>2. TypeInv /\ (Grounded /\ Custody) /\ [Next]_vars => (Grounded /\ Custody)'
  BY NextGrounds, NextKeepsCustody
<1> QED
  BY <1>1, <1>2, TypeCorrect, PTL DEF SafeSpec

\* A key is in the vault or with one handler, never with two, whatever is
\* redelivered, retried or restarted.
THEOREM PipelineKeyInOneHand == SafeSpec => []KeyInOneHand
<1>1. TypeInv /\ Grounded /\ Custody => KeyInOneHand
  <2> SUFFICES ASSUME TypeInv, Grounded, Custody, NEW j \in Jobs
               PROVE  /\ \A v, w \in AiWorkers : HoldsKey(v, j) /\ HoldsKey(w, j) => v = w
                      /\ j \in vault => \A w \in AiWorkers : ~HoldsKey(w, j)
    BY DEF KeyInOneHand
  <2>1. \A w \in AiWorkers : HoldsKey(w, j) => Paid(w, j) /\ form[j].request = "real"
    BY PaidIsReal DEF HoldsKey, Paid
  <2> QED
    BY <2>1 DEF Custody, CustodyOf
<1> QED
  BY <1>1, InCustody, TypeCorrect, PTL

\* A set whose elements are all the same has at most one.
LEMMA AtMostOne ==
  ASSUME NEW S, \A x, y \in S : x = y
  PROVE  Cardinality(S) <= 1
<1>1. CASE S = {}
  BY <1>1, FS_EmptySet
<1>2. CASE S # {}
  <2>1. PICK x : S = {x}
    BY <1>2
  <2> QED
    BY <2>1, FS_Singleton
<1> QED
  BY <1>1, <1>2

\* A job that came with a key is structured at most once, even when the stream
\* has forgotten the id: a second CV would have to be paid for again.
THEOREM PipelineKeyedJobStructuredOnce == SafeSpec => []KeyedJobStructuredOnce
<1>1. Custody => KeyedJobStructuredOnce
  BY AtMostOne DEF Custody, CustodyOf, KeyedJobStructuredOnce
<1> QED
  BY <1>1, InCustody, PTL

\* When a job of a real provider completes, its key has left the vault.
THEOREM PipelineCompletedSpentItsKey == SafeSpec => []CompletedSpentItsKey
<1>1. TypeInv /\ Grounded /\ Custody /\ CompletedHasPdf => CompletedSpentItsKey
  <2> SUFFICES ASSUME TypeInv, Grounded, Custody, CompletedHasPdf,
                      NEW j \in Jobs, rows[j].status = "completed", j \in vault
               PROVE  form[j].request = "fake"
    BY DEF CompletedSpentItsKey
  <2>1. PICK i \in Published : stream[i].job = j /\ stream[i].event = "rendered"
    BY DEF CompletedHasPdf, InStream
  <2>2. InStream(j, "structured")
    BY <2>1 DEF Grounded, MessagesGrounded
  <2>3. form[j].request \notin {"bad", "real"}
    BY <2>2 DEF Grounded, MessagesGrounded, InStream, Custody, CustodyOf
  <2>4. form[j].request \in Bodies["requested"]
    BY <2>1 DEF Grounded, MessagesGrounded, TypeInv, Placed, FormsPlaced
  <2> QED
    BY <2>3, <2>4 DEF Bodies
<1> QED
  BY <1>1, InCustody, TypeCorrect, PipelineCompletedHasPdf, PTL

-----------------------------------------------------------------------------
(* First deliveries, where keys do not expire. *)

\* A submission about to publish a request of a real provider has handed over
\* the key.
KeysHandedOver == \A j \in Jobs : form[j].step = "publish" /\ form[j].request = "real" => j \in vault

\* What a handler holds was delivered, and once for each handler that holds it.
HoldersDelivered ==
  /\ \A w \in AiWorkers : Holding(w) => Deliveries(worker[w].slot) >= 1
  /\ \A v, w \in AiWorkers :
       Holding(v) /\ Holding(w) /\ worker[v].slot = worker[w].slot /\ v # w =>
         Deliveries(worker[w].slot) > 1

\* The handler of a first delivery will find the key.
FirstFindsKey ==
  \A w \in AiWorkers :
    /\ worker[w].pc \in {"resolve", "claim"} /\ Held(w).body = "real"
    /\ Deliveries(worker[w].slot) = 1
    => Held(w).job \in vault

\* A handler that missed the key is not the first; a render reports no key.
MissedByLater ==
  /\ \A w \in AiWorkers :
       worker[w].pc = "fail" /\ worker[w].note = "keyMissing" => Deliveries(worker[w].slot) > 1
  /\ \A w \in CvWorkers : worker[w].pc = "fail" => worker[w].note = "rendering"

FirstDelivery ==
  /\ KeysHandedOver
  /\ KeyBeforeEvent
  /\ HoldersDelivered
  /\ FirstFindsKey
  /\ MissedByLater
  /\ MissingKeyNeedsRedelivery

\* Deliveries are counted, of every message of the log.
LEMMA DeliveriesType ==
  ASSUME EventStreamTypeOK, NEW i \in Slots
  PROVE  Deliveries(i) \in Nat
<1>1. "AI_PROCESSOR" \in Consumers
  BY DEF Consumers
<1>2. delivery["AI_PROCESSOR"][i] \in [state : DeliveryStates, count : Nat]
  BY <1>1 DEF EventStreamTypeOK
<1> QED
  BY <1>2 DEF Deliveries

\* A body tells the event.
LEMMA BodyTells ==
  ASSUME EventStreamTypeOK, NEW i \in Published
  PROVE  /\ stream[i].job \in Jobs
         /\ stream[i].body = "real" => stream[i].event = "requested"
         /\ stream[i].body = "keyMissing" => stream[i].event = "failed"
<1>1. /\ stream[i].job \in Jobs /\ stream[i].event \in Events
      /\ stream[i].body \in Bodies[stream[i].event]
  BY StreamFacts, MessageFields
<1> QED
  BY <1>1 DEF Events, Bodies

\* The request of a job is the message its handler holds.
LEMMA OneRequest ==
  ASSUME TypeInv, Grounded, NEW w \in AiWorkers, Holding(w),
         NEW i \in Published, stream[i].body = "real", stream[i].job = Held(w).job
  PROVE  i = worker[w].slot
<1>1. worker[w].slot \in Published /\ stream[worker[w].slot].event = "requested"
  BY HeldEvent DEF Workers, Held
<1>2. stream[i].event = "requested"
  BY BodyTells DEF TypeInv, PipelineTypeOK
<1> QED
  BY <1>1, <1>2 DEF Grounded, MessagesGrounded, Held

\* How a step of the ai-processor counts: as a delivery or not at all; and a
\* key is missed by a claim of what is not in the vault.
LEMMA AiDelivers ==
  ASSUME TypeInv, NEW w \in AiWorkers, AiStep(w)
  PROVE  \/ \E i \in Published :
              /\ ~Holding(w) /\ worker'[w].pc = "resolve" /\ worker'[w].slot = i
              /\ UNCHANGED <<stream, vault>>
              /\ Deliveries(i)' = Deliveries(i) + 1
              /\ \A k \in Slots \ {i} : Deliveries(k)' = Deliveries(k)
         \/ /\ DeliveriesStay
            /\ worker'[w].pc # "idle" =>
                 Holding(w) /\ worker'[w].slot = worker[w].slot /\ worker'[w].pc # "resolve"
            /\ worker'[w].pc = "fail" /\ worker'[w].note = "keyMissing" =>
                 worker[w].pc = "claim" /\ Held(w).job \notin vault
<1>1. /\ PullLoopTypeOK /\ EventStreamTypeOK /\ w \in Workers /\ Published \subseteq Slots
      /\ Durable(w) = "AI_PROCESSOR" /\ "AI_PROCESSOR" \in Consumers
  BY StreamFacts DEF TypeInv, PipelineTypeOK, Workers, Durable, Consumers
<1>2. CASE \E i \in Published : AiFetch(w, i)
  <2>1. PICK i \in Published : Fetch(w, i, "resolve") /\ vault' = vault
    BY <1>2 DEF AiFetch
  <2>2. ~Holding(w) /\ Deliver("AI_PROCESSOR", i) /\ stream' = stream
    BY <1>1, <2>1 DEF Fetch, Deliver
  <2> QED
    BY <1>1, <2>1, <2>2, FetchMoves, DeliveriesMove
<1>3. ASSUME delivery' = delivery, Holding(w),
             \/ \E pc \in {"claim", "build", "call", "publish", "settle"} : \E note : Goto(w, pc, note)
             \/ Goto(w, "fail", "processing")
             \/ \E cv : Goto(w, "publish", cv)
             \/ \E outcome : Goto(w, "settle", outcome)
             \/ worker[w].pc = "claim" /\ Held(w).job \notin vault /\ Goto(w, "fail", "keyMissing")
             \/ worker[w].pc = "publish" /\ worker' = [worker EXCEPT ![w].tries = @ + 1]
             \/ Abandon(w)
      PROVE  /\ DeliveriesStay
             /\ worker'[w].pc # "idle" =>
                  Holding(w) /\ worker'[w].slot = worker[w].slot /\ worker'[w].pc # "resolve"
             /\ worker'[w].pc = "fail" /\ worker'[w].note = "keyMissing" =>
                  worker[w].pc = "claim" /\ Held(w).job \notin vault
  BY <1>1, <1>3, GotoMoves, AbandonMoves, RetryMoves DEF DeliveriesStay, Deliveries
<1>4. CASE AiResolve(w) \/ AiClaim(w) \/ AiBuild(w) \/ AiCall(w)
  BY <1>3, <1>4 DEF AiResolve, AiClaim, ClaimKey, AiBuild, AiCall, Finish, streamVars, Holding
<1>5. CASE AiPublish(w) \/ AiFail(w)
  BY <1>3, <1>5 DEF AiPublish, PublishWithRetry, AiFail, ReportFailure, Publish, PublishErr,
                    Finish, streamVars, Holding
<1>6. CASE AiCrash(w)
  BY <1>3, <1>6 DEF AiCrash, Crash, streamVars
<1>7. CASE AiDispatch(w)
  <2>1. Abandon(w) /\ Holding(w)
    BY <1>7 DEF AiDispatch, Dispatch, Holding
  <2>2. worker[w].slot \in Slots
    BY <1>1, <2>1, HeldEvent
  <2>3. DeliveriesStay
    <3>1. CASE delivery' = delivery
      BY <3>1 DEF DeliveriesStay, Deliveries
    <3> QED
      BY <1>1, <1>7, <2>2, <3>1, DeliveriesMove DEF AiDispatch, Dispatch, streamVars
  <2> QED
    BY <1>1, <2>1, <2>3, AbandonMoves
<1> QED
  BY <1>2, <1>4, <1>5, <1>6, <1>7 DEF AiStep, AiHandler

\* A step of the cv-generator counts as no delivery of a request.
LEMMA CvLeavesDeliveries ==
  ASSUME TypeInv, NEW w \in CvWorkers, CvStep(w)
  PROVE  /\ DeliveriesStay
         /\ worker'[w].pc = "fail" => worker'[w].note = "rendering"
<1>1. /\ PullLoopTypeOK /\ EventStreamTypeOK /\ w \in Workers /\ Published \subseteq Slots
      /\ Durable(w) # "AI_PROCESSOR" /\ Durable(w) \in Consumers
  BY StreamFacts, WorkersAssumption DEF TypeInv, PipelineTypeOK, Workers, Durable, Consumers
<1>2. CASE \E i \in Published : CvFetch(w, i)
  <2>1. PICK i \in Published : Fetch(w, i, "convert")
    BY <1>2 DEF CvFetch
  <2>2. Deliver(Durable(w), i)
    BY <2>1 DEF Fetch
  <2> QED
    BY <1>1, <2>1, <2>2, FetchMoves, DeliveriesMove
<1>3. ASSUME delivery' = delivery,
             \/ \E pc \in {"render", "put", "publish", "settle"} : \E note : Goto(w, pc, note)
             \/ Goto(w, "fail", "rendering")
             \/ worker[w].pc = "publish" /\ worker' = [worker EXCEPT ![w].tries = @ + 1]
             \/ Abandon(w)
      PROVE  /\ DeliveriesStay
             /\ worker'[w].pc = "fail" => worker'[w].note = "rendering"
  BY <1>1, <1>3, GotoMoves, AbandonMoves, RetryMoves DEF DeliveriesStay, Deliveries
<1>4. CASE CvConvert(w) \/ CvRender(w) \/ CvPut(w)
  BY <1>3, <1>4 DEF CvConvert, CvRender, CvPut, Finish, streamVars
<1>5. CASE CvPublish(w) \/ CvFail(w)
  BY <1>3, <1>5 DEF CvPublish, PublishWithRetry, CvFail, ReportFailure, Publish, PublishErr,
                    Finish, streamVars
<1>6. CASE CvCrash(w)
  BY <1>3, <1>6 DEF CvCrash, Crash, streamVars
<1>7. CASE CvDispatch(w)
  <2>1. Abandon(w) /\ Holding(w)
    BY <1>7 DEF CvDispatch, Dispatch, Holding
  <2>2. worker[w].slot \in Slots
    BY <1>1, <2>1, HeldEvent
  <2>3. DeliveriesStay
    <3>1. CASE delivery' = delivery
      BY <3>1 DEF DeliveriesStay, Deliveries
    <3> QED
      BY <1>1, <1>7, <2>2, <3>1, DeliveriesMove DEF CvDispatch, Dispatch, streamVars
  <2> QED
    BY <1>1, <2>1, <2>3, AbandonMoves
<1> QED
  BY <1>2, <1>4, <1>5, <1>6, <1>7 DEF CvStep, CvHandler

\* What a key-missing failure shows, through a step that takes no delivery back.
LEMMA MissedStays ==
  ASSUME TypeInv, LogGrows, MissingKeyNeedsRedelivery,
         \A k \in Published : Deliveries(k) > 1 => Deliveries(k)' > 1,
         \A i \in Published' \ Published : stream'[i].body = "keyMissing" =>
           \E k \in Published :
             /\ stream[k].event = "requested" /\ stream[k].job = stream'[i].job
             /\ Deliveries(k) > 1
  PROVE  MissingKeyNeedsRedelivery'
<1>1. \A k \in Published : k \in Published' /\ stream'[k] = stream[k]
  BY DEF LogGrows
<1> SUFFICES ASSUME NEW i \in Published', stream'[i].body = "keyMissing"
             PROVE  \E k \in Published' :
                      /\ stream'[k].job = stream'[i].job /\ stream'[k].event = "requested"
                      /\ Deliveries(k)' > 1
  BY DEF MissingKeyNeedsRedelivery, Positions, Deliveries
<1>2. \E k \in Published :
        /\ stream[k].event = "requested" /\ stream[k].job = stream'[i].job
        /\ Deliveries(k) > 1
  BY <1>1 DEF MissingKeyNeedsRedelivery, Positions, Deliveries
<1> QED
  BY <1>1, <1>2

\* What a worker that does not move knows of its message.
LEMMA RestKnows ==
  ASSUME TypeInv, LogGrows, NEW v \in AiWorkers, worker'[v] = worker[v], DeliveriesStay
  PROVE  Holding(v) => /\ Holding(v)' /\ worker[v].slot \in Published
                       /\ Held(v)' = Held(v)
                       /\ Deliveries(worker[v].slot)' = Deliveries(worker[v].slot)
<1>1. v \in Workers /\ Published \subseteq Slots
  BY StreamFacts DEF Workers, TypeInv, PipelineTypeOK
<1> QED
  BY <1>1, HeldEvent, HeldStays DEF Holding, DeliveriesStay, Deliveries

\* The handlers' part of it, through a step of another process.
LEMMA HandlersRest ==
  ASSUME TypeInv, LogGrows, \A v \in AiWorkers : worker'[v] = worker[v], DeliveriesStay,
         vault \subseteq vault', HoldersDelivered, FirstFindsKey
  PROVE  HoldersDelivered' /\ FirstFindsKey'
<1>1. \A v \in AiWorkers : Holding(v)' => Holding(v)
  BY DEF Holding
<1>2. HoldersDelivered'
  BY <1>1, RestKnows DEF HoldersDelivered
<1>3. FirstFindsKey'
  <2> SUFFICES ASSUME NEW w \in AiWorkers,
                      worker'[w].pc \in {"resolve", "claim"}, Held(w)'.body = "real",
                      Deliveries(worker[w].slot)' = 1
               PROVE  Held(w)'.job \in vault'
    BY DEF FirstFindsKey, Deliveries
  <2>1. Holding(w) /\ worker[w].pc \in {"resolve", "claim"}
    BY DEF Holding
  <2> QED
    BY <2>1, RestKnows DEF FirstFindsKey
<1> QED
  BY <1>2, <1>3

\* The messages' part of it.
LEMMA MessagesRest ==
  ASSUME TypeInv, LogGrows, DeliveriesStay, vault \subseteq vault', KeyBeforeEvent,
         \A i \in Published' \ Published : stream'[i].body = "real" => stream'[i].job \in vault'
  PROVE  KeyBeforeEvent'
<1>1. Published \subseteq Slots /\ \A i \in Published : stream'[i] = stream[i]
  BY StreamFacts DEF TypeInv, PipelineTypeOK, LogGrows
<1> SUFFICES ASSUME NEW i \in Published', stream'[i].body = "real", Deliveries(i)' = 0
             PROVE  stream'[i].job \in vault'
  BY DEF KeyBeforeEvent, Deliveries
<1> QED
  BY <1>1 DEF KeyBeforeEvent, DeliveriesStay, Deliveries

\* Through a step of the gateway's projection or of the clocks.
LEMMA ElsewhereFirst ==
  ASSUME TypeInv, LogGrows, FirstDelivery, Elsewhere, "ttl" \notin FaultKinds
  PROVE  FirstDelivery'
<1> USE DEF FirstDelivery
<1>1. UNCHANGED <<stream, form, worker, vault>> /\ DeliveriesStay /\ Published' = Published
  BY DEF Elsewhere, Published
<1>2. KeysHandedOver' /\ KeyBeforeEvent'
  BY <1>1, MessagesRest DEF KeysHandedOver
<1>3. HoldersDelivered' /\ FirstFindsKey'
  BY <1>1, HandlersRest
<1>4. MissedByLater'
  <2> SUFFICES ASSUME NEW w \in AiWorkers, worker[w].pc = "fail", worker[w].note = "keyMissing"
               PROVE  Deliveries(worker[w].slot)' > 1
    BY <1>1 DEF MissedByLater, Deliveries
  <2> QED
    BY <1>1, RestKnows DEF MissedByLater, Holding
<1>5. MissingKeyNeedsRedelivery'
  <2>1. Published \subseteq Slots
    BY StreamFacts DEF TypeInv, PipelineTypeOK
  <2> QED
    BY <1>1, <2>1, MissedStays DEF DeliveriesStay
<1> QED
  BY <1>2, <1>3, <1>4, <1>5

\* Through a step of a submission: the key goes before the request.
LEMMA SubmitFirst ==
  ASSUME TypeInv, LogGrows, FirstDelivery, NEW j \in Jobs, SubmitStep(j), worker' = worker
  PROVE  FirstDelivery'
<1> USE DEF FirstDelivery
<1>1. SubmitInv
  BY DEF SubmitInv, TypeInv, PipelineTypeOK, Placed
<1>2. \A i \in Jobs \ {j} : form'[i] = form[i]
  BY <1>1, SubmitTouches
<1>3. /\ form[j].step # "none" => form'[j].request = form[j].request
      /\ form[j].step # "put" => vault' = vault
      /\ vault \subseteq vault'
      /\ form'[j].step = "publish" =>
           \/ form[j].step = "none" /\ form'[j].request # "real"
           \/ form[j].step = "put" /\ j \in vault'
      /\ delivery' = delivery
      /\ \A i \in Published' \ Published :
           form[j].step = "publish" /\ stream'[i] = Message(j, "requested", form[j].request)
  BY <1>1, SubmitMoves
<1>4. DeliveriesStay /\ Published \subseteq Slots
  BY <1>3, StreamFacts DEF DeliveriesStay, Deliveries, TypeInv, PipelineTypeOK
<1>5. KeysHandedOver'
  BY <1>2, <1>3 DEF KeysHandedOver
<1>6. \A i \in Published' \ Published :
        /\ stream'[i].body = "real" => stream'[i].job \in vault'
        /\ stream'[i].body # "keyMissing"
  <2> SUFFICES ASSUME NEW i \in Published' \ Published
               PROVE  /\ stream'[i].body = "real" => stream'[i].job \in vault'
                      /\ stream'[i].body # "keyMissing"
    OBVIOUS
  <2>1. form[j].step = "publish" /\ stream'[i].job = j /\ stream'[i].body = form[j].request
    BY <1>3, MessageParts
  <2>2. form[j].request \in {"real", "fake", "bad"}
    BY <2>1 DEF TypeInv, Placed, FormsPlaced, Bodies
  <2> QED
    BY <1>3, <2>1, <2>2 DEF KeysHandedOver
<1>7. KeyBeforeEvent'
  BY <1>3, <1>4, <1>6, MessagesRest
<1>8. HoldersDelivered' /\ FirstFindsKey'
  BY <1>3, <1>4, HandlersRest
<1>9. MissedByLater'
  <2> SUFFICES ASSUME NEW w \in AiWorkers, worker[w].pc = "fail", worker[w].note = "keyMissing"
               PROVE  Deliveries(worker[w].slot)' > 1
    BY DEF MissedByLater, Deliveries
  <2> QED
    BY <1>4, RestKnows DEF MissedByLater, Holding
<1>10. MissingKeyNeedsRedelivery'
  BY <1>4, <1>6, MissedStays DEF DeliveriesStay
<1> QED
  BY <1>5, <1>7, <1>8, <1>9, <1>10

\* Through a step of the cv-generator.
LEMMA CvFirst ==
  ASSUME TypeInv, LogGrows, FirstDelivery, NEW w \in CvWorkers, CvStep(w),
         form' = form, vault' = vault
  PROVE  FirstDelivery'
<1> USE DEF FirstDelivery
<1>1. DeliveriesStay /\ (worker'[w].pc = "fail" => worker'[w].note = "rendering")
  BY CvLeavesDeliveries
<1>2. /\ \A v \in Workers \ {w} : worker'[v] = worker[v]
      /\ w \notin AiWorkers /\ w \in Workers /\ Published \subseteq Slots
  BY OneWorkerMoves, WorkersAssumption, StreamFacts DEF Workers, TypeInv, PipelineTypeOK
<1>3. \A v \in AiWorkers : worker'[v] = worker[v]
  BY <1>2 DEF Workers
<1>4. \A i \in Published' \ Published : stream'[i].body \notin {"real", "keyMissing"}
  <2> SUFFICES ASSUME NEW i \in Published' \ Published
               PROVE  stream'[i].body \notin {"real", "keyMissing"}
    OBVIOUS
  <2>1. \/ /\ worker[w].pc = "publish"
           /\ stream'[i] = Message(Held(w).job, Answer(w), worker[w].note)
        \/ /\ worker[w].pc = "fail"
           /\ stream'[i] = Message(Held(w).job, "failed", worker[w].note)
    BY <1>2, WorkerAdds
  <2>2. worker[w].pc = "fail" => worker[w].note = "rendering"
    BY DEF MissedByLater
  <2>3. worker[w].pc = "publish" => worker[w].note = "good"
    BY <1>2 DEF TypeInv, Placed, WorkersPlaced, WellPlaced, NoteFits, Answer, Bodies, Holding
  <2> QED
    BY <2>1, <2>2, <2>3, MessageParts
<1>5. KeysHandedOver' /\ KeyBeforeEvent'
  BY <1>1, <1>4, MessagesRest DEF KeysHandedOver
<1>6. HoldersDelivered' /\ FirstFindsKey'
  BY <1>1, <1>3, HandlersRest
<1>7. MissedByLater'
  <2>1. ASSUME NEW v \in AiWorkers, worker'[v].pc = "fail", worker'[v].note = "keyMissing"
        PROVE  Deliveries(worker[v].slot)' > 1
    BY <1>1, <1>3, <2>1, RestKnows DEF MissedByLater, Holding
  <2>2. \A v \in CvWorkers : worker'[v].pc = "fail" => worker'[v].note = "rendering"
    BY <1>1, <1>2 DEF MissedByLater, Workers
  <2> QED
    BY <2>1, <2>2 DEF MissedByLater, Deliveries
<1>8. MissingKeyNeedsRedelivery'
  BY <1>1, <1>2, <1>4, MissedStays DEF DeliveriesStay
<1> QED
  BY <1>5, <1>6, <1>7, <1>8

\* Through a delivery to the ai-processor: it is the first only of a message
\* no other handler holds, and finds the key then.
LEMMA AiFetchFirst ==
  ASSUME TypeInv, LogGrows, Grounded, FirstDelivery, NEW w \in AiWorkers, form' = form,
         \A v \in AiWorkers \ {w} : worker'[v] = worker[v],
         \A v \in CvWorkers : worker'[v] = worker[v],
         NEW i \in Published,
         ~Holding(w), worker'[w].pc = "resolve", worker'[w].slot = i,
         UNCHANGED <<stream, vault>>,
         Deliveries(i)' = Deliveries(i) + 1,
         \A k \in Slots \ {i} : Deliveries(k)' = Deliveries(k)
  PROVE  FirstDelivery'
<1> USE DEF FirstDelivery
<1>1. /\ Published' = Published /\ Published \subseteq Slots
      /\ \A k \in Slots : Deliveries(k) \in Nat
  BY StreamFacts, DeliveriesType DEF Published, TypeInv, PipelineTypeOK
<1>2. \A k \in Slots : Deliveries(k)' >= Deliveries(k)
  BY <1>1
<1>3. \A v \in AiWorkers \ {w} : Holding(v) =>
        /\ worker[v].slot \in Published /\ Deliveries(worker[v].slot)' >= Deliveries(worker[v].slot)
        /\ worker[v].slot = i => Deliveries(worker[v].slot)' > 1
        /\ worker[v].slot # i => Deliveries(worker[v].slot)' = Deliveries(worker[v].slot)
  <2> SUFFICES ASSUME NEW v \in AiWorkers, v # w, Holding(v)
               PROVE  /\ worker[v].slot \in Published
                      /\ Deliveries(worker[v].slot)' >= Deliveries(worker[v].slot)
                      /\ worker[v].slot = i => Deliveries(worker[v].slot)' > 1
                      /\ worker[v].slot # i => Deliveries(worker[v].slot)' = Deliveries(worker[v].slot)
    OBVIOUS
  <2>1. worker[v].slot \in Published
    BY HeldEvent DEF Workers
  <2>2. Deliveries(worker[v].slot)' = delivery'["AI_PROCESSOR"][worker[v].slot].count
    BY DEF Deliveries
  <2>3. \A k \in Slots : delivery'["AI_PROCESSOR"][k].count = Deliveries(k)'
    BY DEF Deliveries
  <2>4. Deliveries(worker[v].slot) >= 1
    BY DEF HoldersDelivered
  <2> QED
    BY <1>1, <2>1, <2>2, <2>3, <2>4
<1>4. Deliveries(worker[w].slot)' = Deliveries(i) + 1 /\ Deliveries(i) \in Nat
  BY <1>1 DEF Deliveries
<1>5. KeysHandedOver'
  BY DEF KeysHandedOver
<1>6. KeyBeforeEvent'
  <2> SUFFICES ASSUME NEW k \in Published, stream[k].body = "real", Deliveries(k)' = 0
               PROVE  stream[k].job \in vault
    BY <1>1 DEF KeyBeforeEvent, Deliveries
  <2>1. Deliveries(k) = 0
    BY <1>1, <1>2
  <2> QED
    BY <2>1 DEF KeyBeforeEvent, Deliveries
<1>7. HoldersDelivered'
  <2>1. ASSUME NEW v \in AiWorkers, Holding(v)'
        PROVE  Deliveries(worker[v].slot)' >= 1
    <3>1. CASE v = w
      BY <1>4, <3>1
    <3>2. CASE v # w
      <4>1. Holding(v) /\ Deliveries(worker[v].slot) >= 1
        BY <2>1, <3>2 DEF Holding, HoldersDelivered
      <4>2. Deliveries(worker[v].slot) \in Nat
        BY <1>1, <1>3, <3>2, <4>1
      <4> QED
        BY <1>3, <3>2, <4>1, <4>2
    <3> QED
      BY <3>1, <3>2
  <2>2. ASSUME NEW u \in AiWorkers, NEW v \in AiWorkers, Holding(u)', Holding(v)',
               worker'[u].slot = worker'[v].slot, u # v
        PROVE  Deliveries(worker[v].slot)' > 1
    <3>1. CASE u # w /\ v # w
      <4>1. Holding(u) /\ Holding(v) /\ worker[u].slot = worker[v].slot
        BY <2>2, <3>1 DEF Holding
      <4>2. Deliveries(worker[v].slot) > 1
        BY <2>2, <4>1 DEF HoldersDelivered
      <4>3. Deliveries(worker[v].slot) \in Nat
        BY <1>1, <1>3, <3>1, <4>1
      <4> QED
        BY <1>3, <3>1, <4>1, <4>2, <4>3
    <3>2. CASE u = w /\ v # w
      BY <1>3, <2>2, <3>2 DEF Holding
    <3>3. CASE v = w /\ u # w
      <4>1. Holding(u) /\ worker[u].slot = i
        BY <2>2, <3>3 DEF Holding
      <4>2. Deliveries(i) >= 1
        BY <4>1 DEF HoldersDelivered
      <4> QED
        BY <1>4, <3>3, <4>2
    <3> QED
      BY <2>2, <3>1, <3>2, <3>3
  <2> QED
    BY <2>1, <2>2 DEF HoldersDelivered
<1>8. FirstFindsKey'
  <2> SUFFICES ASSUME NEW v \in AiWorkers,
                      worker'[v].pc \in {"resolve", "claim"}, Held(v)'.body = "real",
                      Deliveries(worker[v].slot)' = 1
               PROVE  Held(v)'.job \in vault
    BY DEF FirstFindsKey
  <2>1. CASE v = w
    BY <1>4, <2>1 DEF KeyBeforeEvent, Deliveries, Held
  <2>2. CASE v # w
    <3>1. Holding(v) /\ Held(v)' = Held(v)
      BY <2>2 DEF Holding, Held
    <3>2. Deliveries(worker[v].slot) = 1
      BY <1>3, <2>2, <3>1
    <3> QED
      BY <2>2, <3>1, <3>2 DEF FirstFindsKey
  <2> QED
    BY <2>1, <2>2
<1>9. MissedByLater'
  <2>1. ASSUME NEW v \in AiWorkers, worker'[v].pc = "fail", worker'[v].note = "keyMissing"
        PROVE  Deliveries(worker[v].slot)' > 1
    <3>1. v # w /\ Holding(v) /\ worker[v].pc = "fail" /\ worker[v].note = "keyMissing"
      BY <2>1 DEF Holding
    <3>2. Deliveries(worker[v].slot) > 1
      BY <3>1 DEF MissedByLater
    <3> QED
      BY <1>3, <3>1, <3>2
  <2>2. \A v \in CvWorkers : worker'[v].pc = "fail" => worker'[v].note = "rendering"
    BY DEF MissedByLater
  <2> QED
    BY <2>1, <2>2 DEF MissedByLater
<1>10. MissingKeyNeedsRedelivery'
  <2>1. \A k \in Published : Deliveries(k) > 1 => Deliveries(k)' > 1
    BY <1>1
  <2> QED
    BY <1>1, <2>1, MissedStays
<1> QED
  BY <1>5, <1>6, <1>7, <1>8, <1>9, <1>10

\* Through the rest of the handler: who claims the key of a first delivery
\* finds it, and everyone else with that request is a later delivery.
LEMMA AiHandlerFirst ==
  ASSUME TypeInv, LogGrows, Grounded, FirstDelivery, NEW w \in AiWorkers, AiStep(w), form' = form,
         DeliveriesStay,
         worker'[w].pc # "idle" =>
           Holding(w) /\ worker'[w].slot = worker[w].slot /\ worker'[w].pc # "resolve",
         worker'[w].pc = "fail" /\ worker'[w].note = "keyMissing" =>
           worker[w].pc = "claim" /\ Held(w).job \notin vault
  PROVE  FirstDelivery'
<1> USE DEF FirstDelivery
<1>1. /\ Published \subseteq Slots /\ \A k \in Slots : Deliveries(k) \in Nat
      /\ w \in Workers /\ w \notin CvWorkers
  BY StreamFacts, DeliveriesType, WorkersAssumption DEF TypeInv, PipelineTypeOK, Workers
<1>2. \A v \in Workers \ {w} : worker'[v] = worker[v]
  BY <1>1, OneWorkerMoves
<1>3. \A k \in Published : k \in Published' /\ stream'[k] = stream[k]
  BY DEF LogGrows
<1>4. AiMoves(w)
  BY AiStepMoves
<1>5. vault' = vault \/ (worker[w].pc = "claim" /\ Holding(w) /\ vault' = vault \ {Held(w).job})
  BY <1>4 DEF AiMoves, Holding
<1>6. KeysHandedOver'
  <2>1. Holding(w) => form[Held(w).job].step # "publish"
    BY HeldEvent DEF Workers, Grounded, MessagesGrounded, Held
  <2> QED
    BY <1>5, <2>1 DEF KeysHandedOver
<1>7. \A i \in Published' \ Published :
        /\ stream'[i].body # "real"
        /\ stream'[i].body = "keyMissing" =>
             /\ Holding(w) /\ stream'[i].job = Held(w).job
             /\ worker[w].pc = "fail" /\ worker[w].note = "keyMissing"
  <2> SUFFICES ASSUME NEW i \in Published' \ Published
               PROVE  /\ stream'[i].body # "real"
                      /\ stream'[i].body = "keyMissing" =>
                           /\ Holding(w) /\ stream'[i].job = Held(w).job
                           /\ worker[w].pc = "fail" /\ worker[w].note = "keyMissing"
    OBVIOUS
  <2>1. /\ Holding(w)
        /\ \/ /\ worker[w].pc = "publish"
              /\ stream'[i] = Message(Held(w).job, Answer(w), worker[w].note)
           \/ /\ worker[w].pc = "fail"
              /\ stream'[i] = Message(Held(w).job, "failed", worker[w].note)
    BY <1>1, WorkerAdds
  <2>2. /\ worker[w].pc = "publish" => worker[w].note \in {"good", "bad"}
        /\ worker[w].pc = "fail" => worker[w].note \in {"keyMissing", "processing", "rendering"}
    BY <1>1 DEF TypeInv, Placed, WorkersPlaced, WellPlaced, Answer, Bodies
  <2> QED
    BY <2>1, <2>2, MessageParts
<1>8. \A v \in AiWorkers : Holding(v)' =>
        /\ Holding(v) /\ worker'[v].slot = worker[v].slot /\ worker[v].slot \in Published
        /\ Held(v)' = Held(v) /\ Deliveries(worker[v].slot)' = Deliveries(worker[v].slot)
  <2> SUFFICES ASSUME NEW v \in AiWorkers, Holding(v)'
               PROVE  /\ Holding(v) /\ worker'[v].slot = worker[v].slot
                      /\ worker[v].slot \in Published
                      /\ Held(v)' = Held(v)
                      /\ Deliveries(worker[v].slot)' = Deliveries(worker[v].slot)
    OBVIOUS
  <2>1. v \in Workers /\ Holding(v) /\ worker'[v].slot = worker[v].slot
    BY <1>2 DEF Holding, Workers
  <2>2. worker[v].slot \in Published /\ Held(v)' = Held(v)
    BY <2>1, HeldEvent, HeldStays
  <2> QED
    BY <1>1, <2>1, <2>2 DEF DeliveriesStay, Deliveries
<1>9. KeyBeforeEvent'
  <2> SUFFICES ASSUME NEW i \in Published', stream'[i].body = "real", Deliveries(i)' = 0
               PROVE  stream'[i].job \in vault'
    BY DEF KeyBeforeEvent, Deliveries
  <2>1. i \in Published /\ stream'[i] = stream[i]
    BY <1>3, <1>7
  <2>2. Deliveries(i) = 0
    BY <1>1, <2>1 DEF DeliveriesStay
  <2>3. stream[i].job \in vault
    BY <2>1, <2>2 DEF KeyBeforeEvent, Deliveries
  <2>4. Holding(w) /\ stream[i].job = Held(w).job => FALSE
    BY <2>1, <2>2, OneRequest DEF HoldersDelivered
  <2> QED
    BY <1>5, <2>1, <2>3, <2>4
<1>10. HoldersDelivered'
  BY <1>8 DEF HoldersDelivered
<1>11. FirstFindsKey'
  <2> SUFFICES ASSUME NEW v \in AiWorkers,
                      worker'[v].pc \in {"resolve", "claim"}, Held(v)'.body = "real",
                      Deliveries(worker[v].slot)' = 1
               PROVE  Held(v)'.job \in vault'
    BY DEF FirstFindsKey
  <2>1. Holding(v) /\ Held(v)' = Held(v) /\ Deliveries(worker[v].slot) = 1 /\ v \in Workers
    BY <1>8 DEF Holding, Workers
  <2>2. worker[v].pc \in {"resolve", "claim"}
    BY <1>2, <1>4, <2>1 DEF AiMoves
  <2>3. Held(v).job \in vault
    BY <2>1, <2>2 DEF FirstFindsKey
  <2>4. worker[w].pc = "claim" /\ Holding(w) /\ vault' = vault \ {Held(w).job} /\ Held(v).job = Held(w).job
          => FALSE
    <3> SUFFICES ASSUME worker[w].pc = "claim", Holding(w), Held(v).job = Held(w).job
                 PROVE  FALSE
      OBVIOUS
    <3>1. v # w
      BY <1>4 DEF AiMoves
    <3>2. worker[v].slot \in Published /\ Held(v).body = "real"
      BY <1>8, <2>1 DEF Holding
    <3>3. worker[v].slot = worker[w].slot
      BY <3>2, OneRequest DEF Held
    <3> QED
      BY <2>1, <3>1, <3>3 DEF HoldersDelivered
  <2> QED
    BY <1>5, <2>1, <2>3, <2>4
<1>12. MissedByLater'
  <2>1. ASSUME NEW v \in AiWorkers, worker'[v].pc = "fail", worker'[v].note = "keyMissing"
        PROVE  Deliveries(worker[v].slot)' > 1
    <3>1. Holding(v) /\ Deliveries(worker[v].slot)' = Deliveries(worker[v].slot) /\ v \in Workers
          /\ worker[v].slot \in Slots
      BY <1>1, <1>8, <2>1 DEF Holding, Workers
    <3>2. CASE v # w
      BY <1>2, <2>1, <3>1, <3>2 DEF MissedByLater
    <3>3. CASE v = w
      <4>1. worker[w].pc = "claim" /\ Held(w).job \notin vault
        BY <2>1, <3>3
      <4>2. Held(w).body = "real"
        BY <4>1 DEF Grounded, HandlersGrounded
      <4>3. Deliveries(worker[w].slot) # 1
        BY <4>1, <4>2 DEF FirstFindsKey
      <4>4. Deliveries(worker[w].slot) >= 1 /\ Deliveries(worker[w].slot) \in Nat
        BY <1>1, <3>1, <3>3 DEF HoldersDelivered
      <4> QED
        BY <3>1, <3>3, <4>3, <4>4
    <3> QED
      BY <3>2, <3>3
  <2>2. \A v \in CvWorkers : worker'[v].pc = "fail" => worker'[v].note = "rendering"
    BY <1>1, <1>2 DEF MissedByLater, Workers
  <2> QED
    BY <2>1, <2>2 DEF MissedByLater
<1>13. MissingKeyNeedsRedelivery'
  <2>1. ASSUME NEW i \in Published' \ Published, stream'[i].body = "keyMissing"
        PROVE  \E k \in Published :
                 /\ stream[k].event = "requested" /\ stream[k].job = stream'[i].job
                 /\ Deliveries(k) > 1
    <3>1. /\ Holding(w) /\ stream'[i].job = Held(w).job
          /\ worker[w].pc = "fail" /\ worker[w].note = "keyMissing"
      BY <1>7, <2>1
    <3>2. worker[w].slot \in Published /\ stream[worker[w].slot].event = "requested"
      BY <1>1, <3>1, HeldEvent DEF Held
    <3>3. Deliveries(worker[w].slot) > 1
      BY <3>1 DEF MissedByLater
    <3> QED
      BY <3>1, <3>2, <3>3 DEF Held
  <2>2. \A k \in Published : Deliveries(k) > 1 => Deliveries(k)' > 1
    BY <1>1 DEF DeliveriesStay
  <2> QED
    BY <2>1, <2>2, MissedStays
<1> QED
  BY <1>6, <1>9, <1>10, <1>11, <1>12, <1>13

\* Every step keeps it, where keys do not expire.
LEMMA NextKeepsFirst ==
  ASSUME TypeInv, Grounded, FirstDelivery, [Next]_vars, "ttl" \notin FaultKinds
  PROVE  FirstDelivery'
<1>1. LogGrows
  BY NextKeeps, SameLog DEF TypeInv, PipelineTypeOK, vars
<1>2. ASSUME NEW w \in AiWorkers, AiStep(w), form' = form
      PROVE  FirstDelivery'
  <2>1. \A v \in Workers \ {w} : worker'[v] = worker[v]
    BY <1>2, OneWorkerMoves DEF Workers
  <2>2. CASE \E i \in Published :
               /\ ~Holding(w) /\ worker'[w].pc = "resolve" /\ worker'[w].slot = i
               /\ UNCHANGED <<stream, vault>>
               /\ Deliveries(i)' = Deliveries(i) + 1
               /\ \A k \in Slots \ {i} : Deliveries(k)' = Deliveries(k)
    <3>1. /\ \A v \in AiWorkers \ {w} : worker'[v] = worker[v]
          /\ \A v \in CvWorkers : worker'[v] = worker[v]
      BY <2>1, WorkersAssumption DEF Workers
    <3> QED
      BY <1>1, <1>2, <2>2, <3>1, AiFetchFirst
  <2> QED
    BY <1>1, <1>2, <2>2, AiDelivers, AiHandlerFirst
<1> QED
  BY <1>1, <1>2, StepKinds, ElsewhereFirst, SubmitFirst, CvFirst

\* So it holds of every reachable state.
LEMMA FirstDeliveries == "ttl" \notin FaultKinds => (SafeSpec => []FirstDelivery)
<1> SUFFICES ASSUME "ttl" \notin FaultKinds PROVE SafeSpec => []FirstDelivery
  OBVIOUS
<1>1. Init => FirstDelivery
  <2> SUFFICES ASSUME Init PROVE FirstDelivery
    OBVIOUS
  <2>1. Published = {} /\ \A w \in Workers : worker[w].pc = "idle"
    BY DEF Init, EventStreamInit, Published, PullLoopInit, Idle
  <2>2. \A j \in Jobs : form[j].step = "none"
    BY DEF Init, SubmissionInit
  <2> QED
    BY <2>1, <2>2 DEF FirstDelivery, KeysHandedOver, KeyBeforeEvent, HoldersDelivered,
         FirstFindsKey, MissedByLater, MissingKeyNeedsRedelivery, Holding, Workers
<1>2. TypeInv /\ Grounded /\ FirstDelivery /\ [Next]_vars => FirstDelivery'
  BY NextKeepsFirst
<1> QED
  BY <1>1, <1>2, TypeCorrect, InCustody, PTL DEF SafeSpec

\* The processor never meets the event without the key: unless keys expire,
\* a request of a real provider that was not delivered yet has its key in the
\* vault, however its submission was cut off or its publish failed.
THEOREM PipelineKeyBeforeEvent == "ttl" \notin FaultKinds => (SafeSpec => []KeyBeforeEvent)
<1> SUFFICES ASSUME "ttl" \notin FaultKinds PROVE SafeSpec => []KeyBeforeEvent
  OBVIOUS
<1>1. FirstDelivery => KeyBeforeEvent
  BY DEF FirstDelivery
<1> QED
  BY <1>1, FirstDeliveries, PTL

\* A key that did not expire is reported missing only of a request that was
\* delivered before.
THEOREM PipelineMissingKeyNeedsRedelivery ==
  "ttl" \notin FaultKinds => (SafeSpec => []MissingKeyNeedsRedelivery)
<1> SUFFICES ASSUME "ttl" \notin FaultKinds PROVE SafeSpec => []MissingKeyNeedsRedelivery
  OBVIOUS
<1>1. FirstDelivery => MissingKeyNeedsRedelivery
  BY DEF FirstDelivery
<1> QED
  BY <1>1, FirstDeliveries, PTL
=============================================================================
