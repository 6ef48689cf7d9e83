------------------------------ MODULE PullLoop ------------------------------
(***************************************************************************)
(* run_pull_loop of cv_shared/consumer.py, the loop both Python workers    *)
(* run, with the publish helpers of cv_shared/natsx.py.  The loop fetches  *)
(* one message, runs the handler while a heartbeat task extends ack_wait,  *)
(* and acks, terms or naks by how the handler ended.  An error of the ack, *)
(* term or nak itself leaves the loop and the process.                     *)
(*                                                                         *)
(* What a worker is at is a record:                                        *)
(*   pc   : the step of the handler it takes next                          *)
(*   slot : the message it holds                                           *)
(*   tries: publish attempts already spent                                 *)
(*   note : what the step is about to publish, or how the handler ended    *)
(***************************************************************************)
EXTENDS EventStream, Faults

CONSTANTS AiWorkers,        \* ai-processor processes
          CvWorkers,        \* cv-generator processes
          PublishAttempts   \* len(delays_s) + 1 of publish_with_retry

ASSUME WorkersAssumption == AiWorkers \cap CvWorkers = {}
ASSUME PublishAttemptsAssumption == PublishAttempts \in Nat \ {0}

VARIABLE worker

loopVars == <<streamVars, faults, worker>>

Workers == AiWorkers \cup CvWorkers

Durable(w) == IF w \in AiWorkers THEN "AI_PROCESSOR" ELSE "CV_GENERATOR"

AiPcs == {"resolve", "claim", "build", "call"}
CvPcs == {"convert", "render", "put"}
LoopPcs == {"idle", "publish", "fail", "settle"}

Outcomes == {"ack", "term", "nak"}

Notes == {"none"} \cup Outcomes \cup UNION {Bodies[e] : e \in Events}

Worker == [pc : AiPcs \cup CvPcs \cup LoopPcs, slot : 0 .. MaxStream,
           tries : 0 .. PublishAttempts, note : Notes]

Idle == [pc |-> "idle", slot |-> 0, tries |-> 0, note |-> "none"]

PullLoopTypeOK == worker \in [Workers -> Worker]

PullLoopInit == worker = [w \in Workers |-> Idle]

Holding(w) == worker[w].pc # "idle"

\* The message worker w holds.
Held(w) == stream[worker[w].slot]

\* The handler goes on with step pc, about note.
Goto(w, pc, note) ==
  worker' = [worker EXCEPT ![w].pc = pc, ![w].note = note, ![w].tries = 0]

\* The handler returned (ack), raised TerminalError (term) or anything else (nak).
Finish(w, outcome) == Goto(w, "settle", outcome)

Abandon(w) == worker' = [worker EXCEPT ![w] = Idle]

\* consumer.fetch(1) hands message i to w, whose handler starts at pc.
Fetch(w, i, pc) ==
  /\ ~Holding(w)
  /\ Deliver(Durable(w), i)
  /\ worker' = [worker EXCEPT ![w] = [Idle EXCEPT !.pc = pc, !.slot = i]]
  /\ NoFault

\* Mutant: TerminalError is caught with all other errors, and nak'd.
DispatchNakTerm(w) ==
  /\ worker[w].pc = "settle"
  /\ Abandon(w)
  /\ NoFault
  /\ IF worker[w].note = "ack" THEN Settle(Durable(w), worker[w].slot)
                               ELSE Requeue(Durable(w), worker[w].slot)

\* The handler's outcome reaches the server; or it does not: the loop dies
\* of the error, or never learns of it, and the message stays un-acked.
Dispatch(w) ==
  /\ worker[w].pc = "settle"
  /\ Abandon(w)
  /\ \/ /\ worker[w].note = "nak"
        /\ Requeue(Durable(w), worker[w].slot)
        /\ NoFault
     \/ /\ worker[w].note \in {"ack", "term"}
        /\ Settle(Durable(w), worker[w].slot)
        /\ NoFault
     \/ /\ Fault("settle")
        /\ UNCHANGED streamVars

\* publish_with_retry: a transport error is retried until the attempts are
\* spent; any other error, or the last one, ends the handler.
PublishWithRetry(w, m) ==
  /\ worker[w].pc = "publish"
  /\ \/ /\ Publish(m)
        /\ NoFault
        /\ Finish(w, "ack")
     \/ /\ PublishErr(m)
        /\ Fault("publish")
        /\ \/ /\ worker[w].tries + 1 < PublishAttempts
              /\ worker' = [worker EXCEPT ![w].tries = @ + 1]
           \/ Finish(w, "nak")

\* Mutant: TerminalError is raised even when the publish failed.
ReportFailureBlind(w, m) ==
  /\ worker[w].pc = "fail"
  /\ \/ /\ Publish(m)
        /\ NoFault
     \/ /\ PublishErr(m)
        /\ Fault("publish")
  /\ Finish(w, "term")

\* _fail of both handlers: one publish without retry, then TerminalError;
\* an error of that publish is not a TerminalError.
ReportFailure(w, m) ==
  /\ worker[w].pc = "fail"
  /\ \/ /\ Publish(m)
        /\ NoFault
        /\ Finish(w, "term")
     \/ /\ PublishErr(m)
        /\ Fault("publish")
        /\ Finish(w, "nak")

\* The process dies, or its drain budget ends in a cancel; a new one starts.
Crash(w) ==
  /\ Holding(w)
  /\ Fault("crash")
  /\ Abandon(w)
  /\ UNCHANGED streamVars

\* ack_wait passes for message i: its holder is gone, or alive but its
\* heartbeats stopped reaching the server.
AckWaitLapse(w, i) ==
  /\ delivery[Durable(w)][i].state = "out"
  /\ Requeue(Durable(w), i)
  /\ IF \E v \in Workers : Durable(v) = Durable(w) /\ Holding(v) /\ worker[v].slot = i
     THEN Fault("lapse") ELSE NoFault
  /\ UNCHANGED worker
=============================================================================
