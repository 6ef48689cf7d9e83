---------------------------- MODULE JobSubmission ---------------------------
(***************************************************************************)
(* handleJobCreate (gateway internal/web/handlers.go) from the moment its  *)
(* checks have passed: insert the row, hand the key to Valkey, publish the *)
(* requested event.  There is no transaction around the three, and every   *)
(* call uses the request's context, so a visitor who leaves makes any of   *)
(* them, and the MarkFailed that answers an error, fail as well.           *)
(* form[j] is the submission of job j: its step and the model it names.    *)
(***************************************************************************)
EXTENDS EventStream, KeyVault, JobStore, Faults

VARIABLE form

\* "put" and "publish" are the next call of the handler, "handoff" and
\* "enqueue" the MarkFailed that follows when that call failed.
FormSteps == {"none", "put", "publish", "handoff", "enqueue", "done"}

SubmissionTypeOK ==
  form \in [Jobs -> [step : FormSteps, request : Bodies["requested"] \cup {"none"}]]

SubmissionInit == form = [j \in Jobs |-> [step |-> "none", request |-> "none"]]

submissionVars == <<streamVars, vault, rows, faults, form>>

At(j, step) == form[j].step = step

SubmitGoto(j, step) == form' = [form EXCEPT ![j].step = step]

\* Mutant: the event is published before the key is handed over.
SubmitCreateKeyLast(j) ==
  /\ At(j, "none")
  /\ CreateJob(j)
  /\ \E request \in Bodies["requested"] :
       form' = [form EXCEPT ![j] = [step |-> "publish", request |-> request]]
  /\ UNCHANGED <<streamVars, vault, faults>>

\* CreateJob.  A model of a real provider comes with a key; with the fake one
\* a key is optional and handed over all the same.  An INSERT that committed
\* but reports an error leaves a row nobody goes on with.
SubmitCreate(j) ==
  /\ At(j, "none")
  /\ CreateJob(j)
  /\ \E request \in Bodies["requested"], step \in {"put", "publish", "done"} :
       /\ request = "real" => step # "publish"
       /\ form' = [form EXCEPT ![j] = [step |-> step, request |-> request]]
       /\ IF step = "done" THEN Fault("db") ELSE NoFault
  /\ UNCHANGED <<streamVars, vault>>

SubmitPutKey(j) ==
  /\ At(j, "put")
  /\ \/ PutKey(j) /\ SubmitGoto(j, "publish") /\ NoFault
     \/ (PutKey(j) \/ UNCHANGED vault) /\ SubmitGoto(j, "handoff") /\ Fault("vault")
  /\ UNCHANGED <<streamVars, rows>>

\* Mutant: the error of the publish is only logged.
SubmitPublishShrug(j) ==
  /\ At(j, "publish")
  /\ LET m == Message(j, "requested", form[j].request)
     IN (Publish(m) /\ NoFault) \/ (PublishErr(m) /\ Fault("publish"))
  /\ SubmitGoto(j, "done")
  /\ UNCHANGED <<vault, rows>>

SubmitPublish(j) ==
  /\ At(j, "publish")
  /\ LET m == Message(j, "requested", form[j].request)
     IN \/ Publish(m) /\ SubmitGoto(j, "done") /\ NoFault
        \/ PublishErr(m) /\ SubmitGoto(j, "enqueue") /\ Fault("publish")
  /\ UNCHANGED <<vault, rows>>

\* MarkFailed on the request's context: its error is dropped.
SubmitMarkFailed(j) ==
  /\ form[j].step \in {"handoff", "enqueue"}
  /\ SubmitGoto(j, "done")
  /\ \/ MarkFailed(j, form[j].step) /\ NoFault
     \/ UNCHANGED rows /\ Fault("db")
  /\ UNCHANGED <<streamVars, vault>>

\* The gateway dies inside the handler.
SubmitCrash(j) ==
  /\ form[j].step \notin {"none", "done"}
  /\ SubmitGoto(j, "done")
  /\ Fault("crash")
  /\ UNCHANGED <<streamVars, vault, rows>>

SubmitCall(j) == SubmitPutKey(j) \/ SubmitPublish(j) \/ SubmitMarkFailed(j)

SubmitStep(j) == SubmitCreate(j) \/ SubmitCall(j) \/ SubmitCrash(j)
=============================================================================
