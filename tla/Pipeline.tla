------------------------------ MODULE Pipeline ------------------------------
(***************************************************************************)
(* The whole of cvgen: visitors submit jobs to the gateway, the            *)
(* ai-processor and the cv-generator work on the event stream, the gateway *)
(* projects the stream on the jobs table.  Each step is one component's;   *)
(* components meet only in the stream, the table, the key vault and the    *)
(* bucket.                                                                 *)
(***************************************************************************)
EXTENDS AiProcessor, CvGenerator, JobSubmission, GatewayEvents, FiniteSets

CONSTANT Stalls     \* whether a run lets ten minutes pass over a job

ASSUME StallsAssumption == Stalls \in BOOLEAN

vars == <<stream, window, delivery, advisories, faults, worker, vault, objects,
          rows, form, replica, tally>>

PipelineTypeOK ==
  /\ EventStreamTypeOK
  /\ FaultsTypeOK
  /\ PullLoopTypeOK
  /\ VaultTypeOK
  /\ ObjectsTypeOK
  /\ StoreTypeOK
  /\ SubmissionTypeOK
  /\ GatewayTypeOK

Init ==
  /\ EventStreamInit
  /\ FaultsInit
  /\ PullLoopInit
  /\ VaultInit
  /\ ObjectsInit
  /\ StoreInit
  /\ SubmissionInit
  /\ GatewayInit

-----------------------------------------------------------------------------
(* The components' steps, and what each leaves to the others. *)

Submit(j) == SubmitStep(j) /\ UNCHANGED <<worker, objects, replica, tally>>

Process(w) == AiStep(w) /\ UNCHANGED <<objects, rows, form, replica, tally>>

Render(w) == CvStep(w) /\ UNCHANGED <<vault, rows, form, replica, tally>>

Project(r) == GwStep(r) /\ UNCHANGED <<worker, vault, objects, form>>

Poison(a) == GwAdvisory(a) /\ UNCHANGED <<worker, vault, objects, form>>

Stall(j) == Stalls /\ GwAge(j) /\ UNCHANGED <<worker, vault, objects, form>>

Sweep == GwSweep /\ UNCHANGED <<worker, vault, objects, form>>

-----------------------------------------------------------------------------
(* The clocks nobody holds: ack_wait, the de-duplication window, the key's *)
(* expiry, and the server giving a message up.                             *)

WorkerLapse(w, i) ==
  /\ AckWaitLapse(w, i)
  /\ UNCHANGED <<vault, objects, rows, form, replica, tally>>

GatewayLapse(i) ==
  /\ GwAckWaitLapse(i)
  /\ UNCHANGED <<worker, vault, objects, form>>

GiveUp(c, i) ==
  /\ Exhaust(c, i)
  /\ UNCHANGED <<faults, worker, vault, objects, rows, form, replica, tally>>

\* Two minutes are far longer than publish_with_retry's attempts, so an id
\* is not forgotten between two attempts of one handler.
ForgetId(id) ==
  /\ Forget(id)
  /\ \A w \in Workers : worker[w].pc = "publish" /\ worker[w].tries > 0 => Held(w).job # id[1]
  /\ Fault("window")
  /\ UNCHANGED <<worker, vault, objects, rows, form, replica, tally>>

KeyExpires(j) ==
  /\ ExpireKey(j)
  /\ Fault("ttl")
  /\ UNCHANGED <<streamVars, worker, objects, rows, form, replica, tally>>

Clocks ==
  \/ \E w \in Workers, i \in Published : WorkerLapse(w, i)
  \/ \E i \in Published : GatewayLapse(i)
  \/ \E c \in Consumers, i \in Published : GiveUp(c, i)
  \/ \E id \in window : ForgetId(id)
  \/ \E j \in vault : KeyExpires(j)

Next ==
  \/ \E j \in Jobs : Submit(j) \/ Stall(j)
  \/ \E w \in AiWorkers : Process(w)
  \/ \E w \in CvWorkers : Render(w)
  \/ \E r \in Replicas : Project(r)
  \/ \E a \in advisories : Poison(a)
  \/ Sweep
  \/ Clocks

SafeSpec == Init /\ [][Next]_vars

-----------------------------------------------------------------------------
(* Fairness: the event loops run what is ready, the server redelivers, the *)
(* sweeper ticks every minute.  Visitors and mishaps owe nothing.          *)

HandlersFair ==
  /\ \A w \in AiWorkers :
       /\ WF_vars(AiHandler(w) /\ NoFault /\ UNCHANGED <<objects, rows, form, replica, tally>>)
       /\ WF_vars((\E i \in Published : AiFetch(w, i))
                    /\ UNCHANGED <<objects, rows, form, replica, tally>>)
  /\ \A w \in CvWorkers :
       /\ WF_vars(CvHandler(w) /\ NoFault /\ UNCHANGED <<vault, rows, form, replica, tally>>)
       /\ WF_vars((\E i \in Published : CvFetch(w, i))
                    /\ UNCHANGED <<vault, rows, form, replica, tally>>)
  /\ \A r \in Replicas : WF_vars(Project(r) /\ NoFault)

ServerFair ==
  /\ WF_vars((\E w \in Workers, i \in Published : WorkerLapse(w, i)) /\ NoFault)
  /\ WF_vars((\E i \in Published : GatewayLapse(i)) /\ NoFault)
  /\ WF_vars(\E c \in Consumers, i \in Published : GiveUp(c, i))
  /\ WF_vars((\E a \in advisories : Poison(a)) /\ NoFault)

SubmitFair == \A j \in Jobs : WF_vars(SubmitCall(j) /\ NoFault
                                        /\ UNCHANGED <<worker, objects, replica, tally>>)

SweepFair == WF_vars(Sweep) /\ \A j \in Jobs : WF_vars(Stall(j))

\* Everything but the sweeper is owed progress.
WorkSpec == SafeSpec /\ HandlersFair /\ ServerFair /\ SubmitFair
=============================================================================
