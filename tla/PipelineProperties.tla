------------------------- MODULE PipelineProperties -------------------------
(***************************************************************************)
(* What must hold of the pipeline, whatever the interleaving and the       *)
(* mishaps; and what its documentation says of it that does not.           *)
(***************************************************************************)
EXTENDS Pipeline

\* The positions of the messages of job j with event e in the log.
Positions(j, e) == {i \in Published : stream[i].job = j /\ stream[i].event = e}

-----------------------------------------------------------------------------
(* Safety. *)

\* A job shown as completed can be downloaded: its PDF is in the bucket and
\* the event that announced it is in the log (cv_generator/handler.py stores
\* before it publishes; handleJobDownload serves completed rows).
CompletedHasPdf ==
  \A j \in Jobs : rows[j].status = "completed" => j \in objects /\ InStream(j, "rendered")

\* A provider key is in one place at a time: in the vault, or in the memory of
\* one handler (apikeys.go, GETDEL in ai_processor/handler.py).
KeyInOneHand ==
  \A j \in Jobs :
    /\ \A v, w \in AiWorkers : HoldsKey(v, j) /\ HoldsKey(w, j) => v = w
    /\ j \in vault => \A w \in AiWorkers : ~HoldsKey(w, j)

\* One key pays for one structured CV: no redelivery, retry, crash or forgotten
\* de-duplication id puts a second `structured` of a job with a key in the log.
KeyedJobStructuredOnce ==
  \A j \in Jobs : form[j].request = "real" => Cardinality(Positions(j, "structured")) <= 1

\* A worker that settled a message left its answer in the log: an ack or term
\* never loses a job (consumer.py, _fail, publish_with_retry).
SettledIsAnswered ==
  \A i \in Published :
    LET j == stream[i].job
    IN /\ stream[i].event = "requested" /\ delivery["AI_PROCESSOR"][i].state = "done"
            => InStream(j, "structured") \/ InStream(j, "failed")
       /\ stream[i].event = "structured" /\ delivery["CV_GENERATOR"][i].state = "done"
            => InStream(j, "rendered") \/ InStream(j, "failed")

\* An event the gateway acked is reflected by the table: handleMsg never acks
\* what it did not apply, and nothing undoes it later.
AckedIsApplied ==
  \A i \in Published :
    delivery["GATEWAY_EVENTS"][i].state = "done" =>
      LET row == rows[stream[i].job]
      IN CASE stream[i].event = "requested"  -> row.status # "absent"
           [] stream[i].event = "structured" -> row.status # "pending"
           [] stream[i].event = "rendered"   -> row.status \in Terminal
           [] stream[i].event = "failed"     -> IF Stage(stream[i]) = "PROCESSING"
                                                THEN row.status # "pending"
                                                ELSE row.status \in Terminal

\* cvgen.jobs.total counts a job at most once, under the status it ended with,
\* however often its events and advisories are delivered and to whom.
CountedOnce ==
  \A j \in Jobs :
    /\ tally[j]["completed"] + tally[j]["failed"] <= 1
    /\ \A s \in Terminal : tally[j][s] > 0 => rows[j].status = s

\* The processor never meets the event without the key (handlers.go: the key
\* goes to Valkey before the event is published).
KeyBeforeEvent ==
  \A i \in Published :
    stream[i].body = "real" /\ delivery["AI_PROCESSOR"][i].count = 0 => stream[i].job \in vault

\* A key that did not expire is reported missing only of a request that was
\* delivered before: a first delivery always finds its key.
MissingKeyNeedsRedelivery ==
  \A i \in Published :
    stream[i].body = "keyMissing" =>
      \E k \in Positions(stream[i].job, "requested") : delivery["AI_PROCESSOR"][k].count > 1

\* A key outlives its use only by the fake provider: when a job of a real one
\* completes, nothing of its key is left (handlers.go:250 stores either).
CompletedSpentItsKey ==
  \A j \in Jobs : rows[j].status = "completed" /\ j \in vault => form[j].request = "fake"

\* Message i takes its job on when consumer c handles it: the request, the CV,
\* and of what the gateway is told, what ends the row it finds.
TakesOn(c, i) ==
  LET m == stream[i]
  IN IF c = "GATEWAY_EVENTS"
     THEN m.event = "rendered" \/ (m.event = "failed" /\ m.job \in FailGuard(m))
     ELSE m.event \in FilterSubjects[c]

\* Consumer c will still hear of message i, or was to hear of it: then its
\* deliveries are exhausted, and the advisory that says so is on its way, or was
\* lost to one mishap more than it took to exhaust them.
Expected(c, i) ==
  \/ delivery[c][i].state \in {"ready", "out"}
  \/ /\ delivery[c][i].state = "exhausted"
     /\ <<c, i>> \in advisories \/ faults > MaxDeliver[c]

\* The cv-generator terminated the CV of message i, and the log has no failure
\* of its rendering.
Swallowed(i) ==
  /\ stream[i].event = "structured" /\ stream[i].body = "bad"
  /\ delivery["CV_GENERATOR"][i].state = "done"
  /\ \A k \in Positions(stream[i].job, "failed") : Stage(stream[k]) # "RENDERING"

\* No requested job is forgotten: while its row is live, a message that takes it
\* on is expected somewhere.  The one exception is a rendering failure that the
\* window took for the processing failure before it.
UnfinishedIsOwed ==
  \A j \in Live :
    InStream(j, "requested") =>
      \/ \E c \in Consumers, i \in Published :
           stream[i].job = j /\ TakesOn(c, i) /\ Expected(c, i)
      \/ /\ rows[j].status = "rendering" /\ Positions(j, "failed") # {}
         /\ \E i \in Positions(j, "structured") : Swallowed(i)

\* Redeliveries of healthy work exhaust nothing, whoever overtakes whom: each one
\* a consumer is charged for is paid by a mishap of its own (consumer.py naks
\* only what failed).  So nobody is failed as poisoned before MaxDeliver of them.
ExhaustionTakesMishaps ==
  \A c \in Consumers, i \in Published :
    delivery[c][i].state = "exhausted" => faults >= MaxDeliver[c]

\* Once the table has the job rendering, only a failure of the rendering fails
\* it: a stale failure of the processing, published or applied later, does not
\* (jobs.go:227).
StaleFailureKeepsRendering ==
  [][\A j \in Jobs :
       rows[j].status = "rendering" /\ rows'[j].error = "worker"
         => \E k \in Positions(j, "failed") : Stage(stream[k]) = "RENDERING"]_vars

\* The events the log has of each job.
eventsMade == [j \in Jobs |-> {stream[i].event : i \in {k \in Published : stream[k].job = j}}]

Service == INSTANCE JobService WITH phase <- statusColumn, made <- eventsMade, pdfs <- objects

\* Streams, workers, keys, retries, crashes and sweeps together implement
\* JobService: a row, a request, a CV, a PDF, its announcement, the end of the
\* row, each only after the one before it and none of them undone.
ServiceSafe == Service!SafeSpec

-----------------------------------------------------------------------------
(* Liveness.  (That the sweeper ends every job that has a row is           *)
(* LifecycleLive: JobStore.)                                               *)

\* A job that was enqueued ends by the work of the pipeline alone.
EnqueuedJobEnds ==
  \A j \in Jobs : InStream(j, "requested") ~> rows[j].status \in Terminal

-----------------------------------------------------------------------------
(* Stated by comments of the code, and not so. *)

\* consumer.py:30 "the handler has already reported the failure": a message of
\* the cv-generator that was terminated for its CV has its failure in the log.
RenderFailureReported == \A i \in Published : ~Swallowed(i)
=============================================================================
