------------------------------ MODULE Contract ------------------------------
(***************************************************************************)
(* The contract every service of the pipeline shares: event names, the     *)
(* durable consumers and their filters, de-duplication ids, job statuses.  *)
(* (gateway internal/jetstream/jetstream.go, cv_shared/natsx.py,           *)
(* proto/cvgen/events/v1/events.proto)                                     *)
(***************************************************************************)
EXTENDS Naturals, Sequences

CONSTANT Jobs       \* the job ids (uuids in the code)

Events == {"requested", "structured", "rendered", "failed"}

Consumers == {"AI_PROCESSOR", "CV_GENERATOR", "GATEWAY_EVENTS"}

\* The event suffixes each durable consumer is filtered on.
FilterSubjects ==
  [AI_PROCESSOR   |-> {"requested"},
   CV_GENERATOR   |-> {"structured"},
   GATEWAY_EVENTS |-> Events]

(***************************************************************************)
(* What the properties tell apart in a payload.                            *)
(*   requested : the provider of the chosen model, or "bad" for a request  *)
(*               the ai-processor's contract check refuses                 *)
(*   structured: a CV that renders, or one that does not ("bad": it breaks *)
(*               the contract, does not compile or exceeds the page limit) *)
(*   failed    : "keyMissing" and "processing" carry JOB_STAGE_PROCESSING, *)
(*               "rendering" carries JOB_STAGE_RENDERING                   *)
(***************************************************************************)
Bodies ==
  [requested  |-> {"real", "fake", "bad"},
   structured |-> {"good", "bad"},
   rendered   |-> {"good"},
   failed     |-> {"keyMissing", "processing", "rendering"}]

Messages == UNION {[job : Jobs, event : {e}, body : Bodies[e]] : e \in Events}

Message(j, e, b) == [job |-> j, event |-> e, body |-> b]

Stage(m) == IF m.body = "rendering" THEN "RENDERING" ELSE "PROCESSING"

\* The Nats-Msg-Id "{job}:{event}": neither stage nor payload is part of it.
MsgID(m) == <<m.job, m.event>>

Statuses == {"pending", "rendering", "completed", "failed"}

Terminal == {"completed", "failed"}
=============================================================================
