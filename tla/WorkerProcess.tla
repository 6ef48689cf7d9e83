---------------------------- MODULE WorkerProcess ---------------------------
(***************************************************************************)
(* A worker process from start to exit (main.py of the ai-processor and of *)
(* the cv-generator, around run_pull_loop of cv_shared/consumer.py): bind  *)
(* with a bounded wait to what the gateway provisions, be ready, consume   *)
(* one message at a time; on SIGTERM finish the message in hand within the *)
(* drain budget, fetch no other, exit.                                     *)
(***************************************************************************)
EXTENDS Deployment

CONSTANT BindAttempts  \* _BIND_MAX_ATTEMPTS

ASSUME BindAttemptsAssumption == BindAttempts \in Nat \ {0}

VARIABLE worker        \* worker[w]: phase, entities left to bind, tries, stop event, answer

Answers == {"none", "structured", "done", "unknown"}

Worker ==
  [phase : {"down", "bind", "fetch", "handle", "settle"},
   needs : Seq(Entities), tries : 0..BindAttempts, stop : BOOLEAN, answer : Answers]

At(w, phase) == worker[w].phase = phase

WorkerTypeOK ==
  /\ worker \in [Workers -> Worker]
  /\ \A w \in Workers : At(w, "bind") => worker[w].tries > 0

Exited == [phase |-> "down", needs |-> << >>, tries |-> 0, stop |-> FALSE, answer |-> "none"]

WorkerInit == worker = [w \in Workers |-> Exited]

Goto(w, phase) == worker' = [worker EXCEPT ![w].phase = phase]

\* What /readyz answers.
Ready(w) == worker[w].phase \in {"fetch", "handle", "settle"}

Binds(w) == IF w \in AiWorkers THEN <<"AI_PROCESSOR", "model-catalog">> ELSE <<"CV_GENERATOR">>

Waiting(w) == IF w \in AiWorkers THEN "requested" ELSE "structured"

Handled(w) == IF w \in AiWorkers THEN "processing" ELSE "rendering"

othersVars == <<bucket, provisioned, orders>>

\* The platform starts the container.
StartWorker(w) ==
  /\ At(w, "down")
  /\ worker' = [worker EXCEPT ![w] = [Exited EXCEPT !.phase = "bind", !.needs = Binds(w),
                                                    !.tries = BindAttempts]]
  /\ UNCHANGED <<othersVars, job, faults>>

\* Between two messages, and only there, the stop event is looked at.
LoopTop(w, r) == [worker EXCEPT ![w] = IF r.stop THEN Exited ELSE [r EXCEPT !.phase = "fetch"]]

\* An attempt that found the next entity.
Bound(w) ==
  LET r == [worker[w] EXCEPT !.needs = Tail(@), !.tries = BindAttempts]
  IN /\ Head(worker[w].needs) \in provisioned
     /\ worker' = IF r.needs = << >> THEN LoopTop(w, r) ELSE [worker EXCEPT ![w] = r]

\* Mutant: one attempt too many.
BindOnceMore(w) ==
  /\ At(w, "bind")
  /\ \/ Bound(w)
     \/ /\ Head(worker[w].needs) \notin provisioned
        /\ worker' = IF worker[w].tries = 0
                       THEN [worker EXCEPT ![w] = Exited]
                       ELSE [worker EXCEPT ![w].tries = @ - 1]
  /\ UNCHANGED <<othersVars, job, faults>>

\* One attempt.  The last one that finds nothing raises and ends the process;
\* a signal is only looked at in the loop.
Bind(w) ==
  /\ At(w, "bind")
  /\ \/ Bound(w)
     \/ /\ Head(worker[w].needs) \notin provisioned
        /\ worker' = IF worker[w].tries = 1
                       THEN [worker EXCEPT ![w] = Exited]
                       ELSE [worker EXCEPT ![w].tries = @ - 1]
  /\ UNCHANGED <<othersVars, job, faults>>

\* A fetch that was under way when the signal came may still bring a message,
\* which is then handled; a quiet one returns to the top.
Fetch(w) ==
  /\ At(w, "fetch")
  /\ \/ \E j \in Jobs :
          /\ job[j].step = Waiting(w)
          /\ job' = [job EXCEPT ![j].step = Handled(w), ![j].by = w, ![j].deliveries = @ + 1]
          /\ Goto(w, "handle")
     \/ worker' = LoopTop(w, worker[w]) /\ UNCHANGED job
  /\ UNCHANGED <<othersVars, faults>>

\* The handler: an ai-processor resolves the model in the bucket, and reports
\* one that is not listed as unknown.
Handle(w) ==
  /\ At(w, "handle")
  /\ \E j \in InHands(w) :
       worker' = [worker EXCEPT ![w].phase = "settle", ![w].answer =
                    IF w \in CvWorkers THEN "done"
                    ELSE IF job[j].model \in Listed THEN "structured" ELSE "unknown"]
  /\ UNCHANGED <<othersVars, job, faults>>

\* The answer is out and the message settled; what may come in between is
\* Pipeline's.
Settle(w) ==
  /\ At(w, "settle")
  /\ worker' = LoopTop(w, [worker[w] EXCEPT !.answer = "none"])
  /\ \E j \in InHands(w) : Move(j, worker[w].answer, "nobody")
  /\ UNCHANGED <<othersVars, faults>>

\* What an abandoned message comes back to.
Requeue(w) ==
  job' = [j \in Jobs |-> IF j \in InHands(w)
                           THEN [job[j] EXCEPT !.step = Waiting(w), !.by = "nobody"]
                           ELSE job[j]]

\* Mutant: the handler is cancelled as soon as the signal comes.
StopWorkerAtOnce(w) ==
  /\ ~At(w, "down") /\ ~worker[w].stop
  /\ Order
  /\ worker' = [worker EXCEPT ![w] = Exited]
  /\ Requeue(w)
  /\ UNCHANGED <<bucket, provisioned, faults>>

\* SIGTERM sets the stop event and waits for the consume task.
StopWorker(w) ==
  /\ ~At(w, "down") /\ ~worker[w].stop
  /\ Order
  /\ worker' = [worker EXCEPT ![w].stop = TRUE]
  /\ UNCHANGED <<bucket, provisioned, job, faults>>

\* The process dies, the loop raises, or the drain budget ends in a cancel.
Kill(w) ==
  /\ ~At(w, "down")
  /\ worker' = [worker EXCEPT ![w] = Exited]
  /\ Requeue(w)
  /\ Fault("crash")
  /\ UNCHANGED othersVars

WorkerRun(w) == StartWorker(w) \/ Bind(w) \/ Fetch(w) \/ Handle(w) \/ Settle(w)

WorkerStep(w) == WorkerRun(w) \/ StopWorker(w) \/ Kill(w)
=============================================================================
