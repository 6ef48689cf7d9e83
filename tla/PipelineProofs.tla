--------------------------- MODULE PipelineProofs ---------------------------
(***************************************************************************)
(* What the pipeline guarantees for every number of jobs, workers and      *)
(* replicas, every delivery limit, every length of the log and every       *)
(* budget of mishaps: types; that only the statements of the table write   *)
(* it, so that it keeps the promise of JobLifecycle; that the counter of   *)
(* ended jobs never counts one twice, a completed job has its PDF, a stale *)
(* failure never ends a job that renders, an acked event is in the table,  *)
(* a settled message has its answer in the log; and that all of it         *)
(* together implements JobService.  Each theorem rests on TypeCorrect and  *)
(* one or two inductive invariants.                                        *)
(***************************************************************************)
EXTENDS PipelineProperties, SharedProofs

-----------------------------------------------------------------------------
(* The type invariant is not inductive: that a step reads a message it may *)
(* read depends on where every process is.                                 *)

Steps(w) == IF w \in AiWorkers THEN AiPcs ELSE CvPcs

\* The event a worker answers a message with.
Answer(w) == IF w \in AiWorkers THEN "structured" ELSE "rendered"

\* Worker w runs the handler of its service on a message it was given, and is
\* about to publish something its service publishes.
WellPlaced(w) ==
  /\ worker[w].pc \in Steps(w) \cup LoopPcs
  /\ Holding(w) => /\ worker[w].slot \in Published
                   /\ Held(w).event \in FilterSubjects[Durable(w)]
  /\ worker[w].pc = "publish" => worker[w].note \in Bodies[Answer(w)]
  /\ worker[w].pc = "fail" => worker[w].note \in Bodies["failed"]

WorkersPlaced == \A w \in Workers : WellPlaced(w)

ReplicasPlaced == \A r \in Replicas : replica[r].pc # "idle" => replica[r].slot \in Published

AdvisoriesPlaced == \A a \in advisories : a[2] \in Published

Placed == WorkersPlaced /\ ReplicasPlaced /\ AdvisoriesPlaced /\ FormsPlaced

TypeInv == PipelineTypeOK /\ Placed

-----------------------------------------------------------------------------
(* Steps of a worker. *)

\* A message keeps its place when the log grows, and so does who holds it.
LEMMA OthersStayPlaced ==
  ASSUME EventStreamTypeOK, LogGrows,
         NEW w \in Workers, WellPlaced(w), worker'[w] = worker[w]
  PROVE  WellPlaced(w)'
BY DEF LogGrows, WellPlaced, Holding, Held

\* A busy worker reads a message.
LEMMA HeldIsMessage ==
  ASSUME EventStreamTypeOK, NEW w \in Workers, WellPlaced(w), Holding(w)
  PROVE  Held(w) \in Messages /\ Held(w).job \in Jobs
BY StreamFacts, MessageFields DEF WellPlaced, Held

NoteFits(w, pc, note) ==
  /\ pc = "publish" => note \in Bodies[Answer(w)]
  /\ pc = "fail" => note \in Bodies["failed"]

\* The notes a worker may carry.
LEMMA NotesFacts ==
  /\ "none" \in Notes
  /\ Outcomes \subseteq Notes
  /\ \A e \in Events : Bodies[e] \subseteq Notes
BY DEF Notes

\* The handler goes on: the worker stays with its message.
LEMMA GotoPlaced ==
  ASSUME EventStreamTypeOK, PullLoopTypeOK, WorkersPlaced, LogGrows,
         NEW w \in Workers, Holding(w),
         NEW pc \in Steps(w) \cup (LoopPcs \ {"idle"}), NEW note \in Notes, NoteFits(w, pc, note),
         Goto(w, pc, note)
  PROVE  PullLoopTypeOK' /\ WorkersPlaced'
<1>1. worker[w] \in Worker /\ WellPlaced(w)
  BY DEF PullLoopTypeOK, WorkersPlaced
<1>2. pc \in AiPcs \cup CvPcs \cup LoopPcs /\ pc # "idle"
  BY DEF Steps, AiPcs, CvPcs, LoopPcs
<1>3. worker'[w] = [worker[w] EXCEPT !.pc = pc, !.note = note, !.tries = 0]
  BY DEF Goto, PullLoopTypeOK
<1>4. /\ worker'[w] \in Worker
      /\ worker'[w].pc = pc /\ worker'[w].note = note /\ worker'[w].slot = worker[w].slot
  <2>1. 0 \in 0 .. PublishAttempts
    BY PublishAttemptsAssumption
  <2> QED
    BY <1>1, <1>2, <1>3, <2>1, Zenon DEF Worker
<1>5. \A v \in Workers \ {w} : worker'[v] = worker[v]
  BY DEF Goto, PullLoopTypeOK
<1>6. PullLoopTypeOK'
  BY <1>4, <1>5 DEF Goto, PullLoopTypeOK
<1>7. WellPlaced(w)'
  BY <1>1, <1>4 DEF WellPlaced, Holding, Held, LogGrows, NoteFits
<1> QED
  BY <1>5, <1>6, <1>7, OthersStayPlaced DEF WorkersPlaced

\* A handler that ends is still well placed.
LEMMA FinishPlaced ==
  ASSUME EventStreamTypeOK, PullLoopTypeOK, WorkersPlaced, LogGrows,
         NEW w \in Workers, Holding(w), NEW outcome \in Outcomes, Finish(w, outcome)
  PROVE  PullLoopTypeOK' /\ WorkersPlaced'
<1>1. outcome \in Notes /\ "settle" \in LoopPcs \ {"idle"} /\ NoteFits(w, "settle", outcome)
  BY NotesFacts DEF LoopPcs, NoteFits
<1> QED
  BY <1>1, GotoPlaced DEF Finish

\* So is a worker that let its message go.
LEMMA AbandonPlaced ==
  ASSUME EventStreamTypeOK, PullLoopTypeOK, WorkersPlaced, LogGrows,
         NEW w \in Workers, Abandon(w)
  PROVE  PullLoopTypeOK' /\ WorkersPlaced'
<1>1. Idle \in Worker /\ Idle.pc = "idle"
  BY NotesFacts, MaxStreamAssumption, PublishAttemptsAssumption DEF Idle, Worker, LoopPcs
<1>2. worker'[w] = Idle /\ \A v \in Workers \ {w} : worker'[v] = worker[v]
  BY DEF Abandon, PullLoopTypeOK
<1>3. PullLoopTypeOK'
  BY <1>1, <1>2 DEF Abandon, PullLoopTypeOK
<1>4. WellPlaced(w)'
  BY <1>1, <1>2 DEF WellPlaced, Holding, LoopPcs
<1> QED
  BY <1>2, <1>3, <1>4, OthersStayPlaced DEF WorkersPlaced

LoopInv == EventStreamTypeOK /\ FaultsTypeOK /\ PullLoopTypeOK /\ WorkersPlaced

\* What every step of a worker keeps; advisories are the server's and the gateway's.
LoopKept == LoopInv' /\ LogGrows /\ advisories' = advisories

\* A worker pulls from one of the durable consumers.
LEMMA DurableIsConsumer == ASSUME NEW w \in Workers PROVE Durable(w) \in Consumers
BY DEF Durable, Consumers

\* A fetched message is one the consumer's filter lets through.
LEMMA FetchKeeps ==
  ASSUME LoopInv, NEW w \in Workers, NEW i \in Published, NEW pc \in Steps(w), Fetch(w, i, pc)
  PROVE  LoopKept
<1>1. Bookkeeping /\ advisories' = advisories
  BY DurableIsConsumer, StreamFacts DEF LoopInv, Fetch, Deliver, Bookkeeping
<1>2. EventStreamTypeOK' /\ stream' = stream /\ LogGrows
  BY <1>1, BookkeepingEffect DEF LoopInv
<1>3. stream[i].event \in FilterSubjects[Durable(w)] /\ i \in Slots
  BY StreamFacts DEF Fetch, Deliver, Deliverable, Wants, LoopInv
<1>4. /\ pc \in AiPcs \cup CvPcs \cup LoopPcs
      /\ pc \notin {"idle", "publish", "fail"}
  BY DEF Steps, AiPcs, CvPcs, LoopPcs
<1>5. [Idle EXCEPT !.pc = pc, !.slot = i] \in Worker
  <2>1. 0 \in 0 .. PublishAttempts /\ i \in 0 .. MaxStream /\ "none" \in Notes
    BY <1>3, NotesFacts, PublishAttemptsAssumption, MaxStreamAssumption DEF Slots
  <2> QED
    BY <1>4, <2>1 DEF Idle, Worker
<1>6. /\ worker'[w] = [Idle EXCEPT !.pc = pc, !.slot = i]
      /\ \A v \in Workers \ {w} : worker'[v] = worker[v]
  BY DEF Fetch, LoopInv, PullLoopTypeOK
<1>7. PullLoopTypeOK'
  BY <1>5 DEF Fetch, LoopInv, PullLoopTypeOK
<1>8. worker'[w].pc = pc /\ worker'[w].slot = i
  BY <1>6 DEF Idle
<1>9. WellPlaced(w)'
  BY <1>2, <1>3, <1>4, <1>8 DEF WellPlaced, Holding, Held, Published
<1>10. WorkersPlaced'
  BY <1>2, <1>6, <1>9, OthersStayPlaced DEF WorkersPlaced, LoopInv
<1> QED
  BY <1>1, <1>2, <1>7, <1>10, FaultType DEF LoopKept, LoopInv, Fetch

\* Publishing a result, its retries included.
LEMMA PublishWithRetryKeeps ==
  ASSUME LoopInv, NEW w \in Workers, NEW m \in Messages, PublishWithRetry(w, m)
  PROVE  LoopKept /\ AppendsAtMost(m)
<1>1. EventStreamTypeOK' /\ AppendsAtMost(m)
  BY PublishEffect, PublishErrEffect DEF PublishWithRetry, LoopInv
<1>2. LogGrows /\ advisories' = advisories
  BY <1>1 DEF AppendsAtMost, PublishWithRetry, PublishErr, Publish, streamVars
<1>3. FaultsTypeOK'
  BY FaultType DEF PublishWithRetry, LoopInv, AllFaultKinds
<1>4. Holding(w)
  BY DEF PublishWithRetry, Holding
<1>5. CASE Finish(w, "ack") \/ Finish(w, "nak")
  BY <1>1, <1>2, <1>3, <1>4, <1>5, FinishPlaced DEF LoopKept, LoopInv, Outcomes
<1>6. CASE /\ worker[w].tries + 1 < PublishAttempts
           /\ worker' = [worker EXCEPT ![w].tries = @ + 1]
  <2>1. worker[w] \in Worker /\ worker[w].tries + 1 \in 0 .. PublishAttempts
    BY <1>6, PublishAttemptsAssumption DEF LoopInv, PullLoopTypeOK, Worker
  <2>2. /\ worker'[w] = [worker[w] EXCEPT !.tries = @ + 1]
        /\ \A v \in Workers \ {w} : worker'[v] = worker[v]
    BY <1>6 DEF LoopInv, PullLoopTypeOK
  <2>3. /\ worker'[w] \in Worker
        /\ worker'[w].pc = worker[w].pc
        /\ worker'[w].slot = worker[w].slot
        /\ worker'[w].note = worker[w].note
    BY <2>1, <2>2 DEF Worker
  <2>4. PullLoopTypeOK'
    BY <1>6, <2>2, <2>3 DEF LoopInv, PullLoopTypeOK
  <2>5. WellPlaced(w)'
    BY <1>2, <2>3 DEF WellPlaced, Holding, Held, LogGrows, LoopInv, WorkersPlaced
  <2> QED
    BY <1>1, <1>2, <1>3, <2>2, <2>4, <2>5, OthersStayPlaced DEF LoopKept, LoopInv, WorkersPlaced
<1> QED
  BY <1>1, <1>5, <1>6 DEF PublishWithRetry

\* Reporting a failure.
LEMMA ReportFailureKeeps ==
  ASSUME LoopInv, NEW w \in Workers, NEW m \in Messages, ReportFailure(w, m)
  PROVE  LoopKept /\ AppendsAtMost(m)
<1>1. EventStreamTypeOK' /\ AppendsAtMost(m)
  BY PublishEffect, PublishErrEffect DEF ReportFailure, LoopInv
<1>2. LogGrows /\ advisories' = advisories
  BY <1>1 DEF AppendsAtMost, ReportFailure, PublishErr, Publish, streamVars
<1>3. FaultsTypeOK'
  BY FaultType DEF ReportFailure, LoopInv, AllFaultKinds
<1>4. Holding(w) /\ (Finish(w, "term") \/ Finish(w, "nak"))
  BY DEF ReportFailure, Holding
<1> QED
  BY <1>1, <1>2, <1>3, <1>4, FinishPlaced DEF LoopKept, LoopInv, Outcomes

\* Settling a message.
LEMMA DispatchKeeps ==
  ASSUME LoopInv, NEW w \in Workers, Dispatch(w)
  PROVE  LoopKept /\ stream' = stream
<1>1. worker[w].slot \in Slots
  BY StreamFacts DEF LoopInv, WorkersPlaced, WellPlaced, Holding, Dispatch
<1>2. Bookkeeping /\ advisories' = advisories
  BY <1>1, DurableIsConsumer DEF Dispatch, Bookkeeping, Settle, Requeue, streamVars
<1>3. EventStreamTypeOK' /\ stream' = stream /\ LogGrows
  BY <1>2, BookkeepingEffect DEF LoopInv
<1>4. FaultsTypeOK'
  BY FaultType DEF Dispatch, LoopInv, AllFaultKinds
<1> QED
  BY <1>2, <1>3, <1>4, AbandonPlaced DEF LoopKept, LoopInv, Dispatch

\* A crash.
LEMMA CrashKeeps ==
  ASSUME LoopInv, NEW w \in Workers, Crash(w)
  PROVE  LoopKept /\ stream' = stream
<1>1. EventStreamTypeOK' /\ LogGrows
  BY SameStream DEF Crash, LoopInv
<1>2. FaultsTypeOK'
  BY FaultType DEF Crash, LoopInv, AllFaultKinds
<1> QED
  BY <1>1, <1>2, AbandonPlaced DEF LoopKept, LoopInv, Crash, streamVars

\* The lapse of ack_wait.
LEMMA AckWaitLapseKeeps ==
  ASSUME LoopInv, NEW w \in Workers, NEW i \in Published, AckWaitLapse(w, i)
  PROVE  LoopKept /\ stream' = stream
<1>1. Bookkeeping /\ advisories' = advisories
  BY DurableIsConsumer, StreamFacts DEF LoopInv, AckWaitLapse, Requeue, Bookkeeping
<1>2. EventStreamTypeOK' /\ stream' = stream /\ LogGrows
  BY <1>1, BookkeepingEffect DEF LoopInv
<1>3. FaultsTypeOK'
  BY FaultType DEF AckWaitLapse, LoopInv, AllFaultKinds
<1>4. PullLoopTypeOK' /\ \A v \in Workers : worker'[v] = worker[v]
  BY DEF AckWaitLapse, LoopInv, PullLoopTypeOK
<1>5. WorkersPlaced'
  BY <1>2, <1>4, OthersStayPlaced DEF WorkersPlaced, LoopInv
<1> QED
  BY <1>1, <1>2, <1>3, <1>4, <1>5 DEF LoopKept, LoopInv

\* A step between two awaits that publishes nothing.
LEMMA QuietGotoKeeps ==
  ASSUME LoopInv, UNCHANGED streamVars, NoFault \/ \E k \in AllFaultKinds : Fault(k),
         NEW w \in Workers, Holding(w),
         NEW pc \in Steps(w) \cup (LoopPcs \ {"idle"}), NEW note \in Notes, NoteFits(w, pc, note),
         Goto(w, pc, note)
  PROVE  LoopKept /\ stream' = stream
BY SameStream, FaultType, GotoPlaced DEF LoopKept, LoopInv, streamVars

\* A handler that ends without a word to the stream.
LEMMA QuietFinishKeeps ==
  ASSUME LoopInv, UNCHANGED streamVars, NoFault \/ \E k \in AllFaultKinds : Fault(k),
         NEW w \in Workers, Holding(w), NEW outcome \in Outcomes, Finish(w, outcome)
  PROVE  LoopKept /\ stream' = stream
BY SameStream, FaultType, FinishPlaced DEF LoopKept, LoopInv, streamVars

-----------------------------------------------------------------------------
(* Steps of the components: what they keep, and what they add to the log. *)

\* Every step of an ai-processor.
LEMMA AiKeeps ==
  ASSUME LoopInv, VaultTypeOK, NEW w \in AiWorkers, AiStep(w)
  PROVE  LoopKept /\ VaultTypeOK' /\ OnlyAdds({"structured", "failed"})
<1> DEFINE Kept == LoopKept /\ VaultTypeOK' /\ OnlyAdds({"structured", "failed"})
<1>1. w \in Workers /\ WellPlaced(w) /\ Steps(w) = AiPcs /\ Answer(w) = "structured"
  BY DEF Workers, LoopInv, WorkersPlaced, Steps, Answer
<1>2. Holding(w) => Held(w) \in Messages /\ Held(w).job \in Jobs
  BY <1>1, HeldIsMessage DEF LoopInv
<1>3. ASSUME LoopKept, stream' = stream, VaultTypeOK'
      PROVE  Kept
  BY <1>3, SameLogAddsNothing
<1>4. CASE \E i \in Published : AiFetch(w, i)
  <2>1. PICK i \in Published : AiFetch(w, i)
    BY <1>4
  <2>2. Fetch(w, i, "resolve") /\ "resolve" \in Steps(w) /\ VaultTypeOK'
    BY <1>1, <2>1 DEF AiFetch, AiPcs, VaultTypeOK
  <2>3. LoopKept /\ stream' = stream
    BY <1>1, <2>2, FetchKeeps DEF Fetch, Deliver
  <2> QED
    BY <1>3, <2>2, <2>3
<1>5. CASE AiResolve(w)
  <2>1. Holding(w) /\ UNCHANGED streamVars /\ VaultTypeOK'
    BY <1>5 DEF AiResolve, Holding, VaultTypeOK
  <2>2. CASE \E pc \in {"build", "claim"} : Goto(w, pc, "none") /\ NoFault
    BY <1>1, <1>3, <2>1, <2>2, QuietGotoKeeps, NotesFacts DEF AiPcs, NoteFits
  <2>3. CASE Goto(w, "fail", "processing") /\ NoFault
    <3>1. NoteFits(w, "fail", "processing") /\ "processing" \in Notes /\ "fail" \in LoopPcs \ {"idle"}
      BY NotesFacts DEF NoteFits, Bodies, LoopPcs, Notes, Events
    <3> QED
      BY <1>1, <1>3, <2>1, <2>3, <3>1, QuietGotoKeeps
  <2>4. CASE Finish(w, "nak") /\ Fault("kv")
    BY <1>1, <1>3, <2>1, <2>4, QuietFinishKeeps DEF Outcomes, AllFaultKinds
  <2> QED
    BY <1>5, <2>2, <2>3, <2>4 DEF AiResolve
<1>6. CASE AiClaim(w)
  <2>1. Holding(w) /\ UNCHANGED streamVars /\ VaultTypeOK'
    BY <1>6 DEF AiClaim, Holding, ClaimKey, VaultTypeOK
  <2>2. CASE Goto(w, "build", "none") /\ NoFault
    BY <1>1, <1>3, <2>1, <2>2, QuietGotoKeeps, NotesFacts DEF AiPcs, NoteFits
  <2>3. CASE Goto(w, "fail", "keyMissing") /\ NoFault
    <3>1. NoteFits(w, "fail", "keyMissing") /\ "keyMissing" \in Notes /\ "fail" \in LoopPcs \ {"idle"}
      BY NotesFacts DEF NoteFits, Bodies, LoopPcs, Notes, Events
    <3> QED
      BY <1>1, <1>3, <2>1, <2>3, <3>1, QuietGotoKeeps
  <2>4. CASE Finish(w, "nak") /\ Fault("vault")
    BY <1>1, <1>3, <2>1, <2>4, QuietFinishKeeps DEF Outcomes, AllFaultKinds
  <2> QED
    BY <1>6, <2>2, <2>3, <2>4 DEF AiClaim
<1>7. CASE AiBuild(w) \/ AiCall(w)
  <2>1. Holding(w) /\ UNCHANGED streamVars /\ VaultTypeOK'
    BY <1>7 DEF AiBuild, AiCall, Holding, VaultTypeOK
  <2>2. CASE Goto(w, "call", "none") /\ NoFault
    BY <1>1, <1>3, <2>1, <2>2, QuietGotoKeeps, NotesFacts DEF AiPcs, NoteFits
  <2>3. CASE Goto(w, "fail", "processing") /\ NoFault
    <3>1. NoteFits(w, "fail", "processing") /\ "processing" \in Notes /\ "fail" \in LoopPcs \ {"idle"}
      BY NotesFacts DEF NoteFits, Bodies, LoopPcs, Notes, Events
    <3> QED
      BY <1>1, <1>3, <2>1, <2>3, <3>1, QuietGotoKeeps
  <2>4. ASSUME NEW cv \in Bodies["structured"], Goto(w, "publish", cv), NoFault
        PROVE  Kept
    <3>1. NoteFits(w, "publish", cv) /\ cv \in Notes /\ "publish" \in LoopPcs \ {"idle"}
      BY <1>1, NotesFacts DEF NoteFits, LoopPcs, Events
    <3> QED
      BY <1>1, <1>3, <2>1, <2>4, <3>1, QuietGotoKeeps
  <2>5. CASE Finish(w, "nak") /\ Fault("internal")
    BY <1>1, <1>3, <2>1, <2>5, QuietFinishKeeps DEF Outcomes, AllFaultKinds
  <2> QED
    BY <1>7, <2>2, <2>3, <2>4, <2>5 DEF AiBuild, AiCall, NoFault
<1>8. CASE AiPublish(w)
  <2> DEFINE m == Message(Held(w).job, "structured", worker[w].note)
  <2>1. Holding(w) /\ PublishWithRetry(w, m) /\ worker[w].note \in Bodies["structured"]
    BY <1>1, <1>8 DEF AiPublish, PublishWithRetry, Holding, WellPlaced
  <2>2. m \in Messages /\ m.event = "structured"
    BY <1>2, <2>1, MessageType DEF Message, Events
  <2>3. VaultTypeOK'
    BY <1>8 DEF AiPublish, VaultTypeOK
  <2> HIDE DEF m
  <2>4. LoopKept /\ AppendsAtMost(m)
    BY <1>1, <2>1, <2>2, PublishWithRetryKeeps
  <2> QED
    BY <2>2, <2>3, <2>4, AppendAdds DEF OnlyAdds
<1>9. CASE AiFail(w)
  <2> DEFINE m == Message(Held(w).job, "failed", worker[w].note)
  <2>1. Holding(w) /\ ReportFailure(w, m) /\ worker[w].note \in Bodies["failed"]
    BY <1>1, <1>9 DEF AiFail, ReportFailure, Holding, WellPlaced
  <2>2. m \in Messages /\ m.event = "failed"
    BY <1>2, <2>1, MessageType DEF Message, Events
  <2>3. VaultTypeOK'
    BY <1>9 DEF AiFail, VaultTypeOK
  <2> HIDE DEF m
  <2>4. LoopKept /\ AppendsAtMost(m)
    BY <1>1, <2>1, <2>2, ReportFailureKeeps
  <2> QED
    BY <2>2, <2>3, <2>4, AppendAdds DEF OnlyAdds
<1>10. CASE AiDispatch(w)
  BY <1>1, <1>3, <1>10, DispatchKeeps DEF AiDispatch, VaultTypeOK
<1>11. CASE AiCrash(w)
  BY <1>1, <1>3, <1>11, CrashKeeps DEF AiCrash, VaultTypeOK
<1> QED
  BY <1>4, <1>5, <1>6, <1>7, <1>8, <1>9, <1>10, <1>11 DEF AiStep, AiHandler

\* Every step of a cv-generator.
LEMMA CvKeeps ==
  ASSUME LoopInv, ObjectsTypeOK, NEW w \in CvWorkers, CvStep(w)
  PROVE  LoopKept /\ ObjectsTypeOK' /\ OnlyAdds({"rendered", "failed"})
<1> DEFINE Kept == LoopKept /\ ObjectsTypeOK' /\ OnlyAdds({"rendered", "failed"})
<1>1. w \in Workers /\ WellPlaced(w) /\ Steps(w) = CvPcs /\ Answer(w) = "rendered"
  BY WorkersAssumption DEF Workers, LoopInv, WorkersPlaced, Steps, Answer
<1>2. Holding(w) => Held(w) \in Messages /\ Held(w).job \in Jobs
  BY <1>1, HeldIsMessage DEF LoopInv
<1>3. ASSUME LoopKept, stream' = stream, ObjectsTypeOK'
      PROVE  Kept
  BY <1>3, SameLogAddsNothing
<1>4. CASE \E i \in Published : CvFetch(w, i)
  <2>1. PICK i \in Published : CvFetch(w, i)
    BY <1>4
  <2>2. Fetch(w, i, "convert") /\ "convert" \in Steps(w) /\ ObjectsTypeOK'
    BY <1>1, <2>1 DEF CvFetch, CvPcs, ObjectsTypeOK
  <2>3. LoopKept /\ stream' = stream
    BY <1>1, <2>2, FetchKeeps DEF Fetch, Deliver
  <2> QED
    BY <1>3, <2>2, <2>3
<1>5. CASE CvConvert(w) \/ CvRender(w)
  <2>1. Holding(w) /\ UNCHANGED streamVars /\ ObjectsTypeOK'
    BY <1>5 DEF CvConvert, CvRender, Holding, ObjectsTypeOK
  <2>2. CASE \E pc \in {"render", "put"} : Goto(w, pc, "none") /\ NoFault
    BY <1>1, <1>3, <2>1, <2>2, QuietGotoKeeps, NotesFacts DEF CvPcs, NoteFits
  <2>3. CASE Goto(w, "fail", "rendering") /\ NoFault
    <3>1. NoteFits(w, "fail", "rendering") /\ "rendering" \in Notes /\ "fail" \in LoopPcs \ {"idle"}
      BY NotesFacts DEF NoteFits, Bodies, LoopPcs, Notes, Events
    <3> QED
      BY <1>1, <1>3, <2>1, <2>3, <3>1, QuietGotoKeeps
  <2>4. CASE Finish(w, "nak") /\ Fault("internal")
    BY <1>1, <1>3, <2>1, <2>4, QuietFinishKeeps DEF Outcomes, AllFaultKinds
  <2> QED
    BY <1>5, <2>2, <2>3, <2>4 DEF CvConvert, CvRender, NoFault
<1>6. CASE CvPut(w)
  <2>1. Holding(w) /\ UNCHANGED streamVars
    BY <1>6 DEF CvPut, Holding
  <2>2. ObjectsTypeOK'
    BY <1>2, <1>6, <2>1 DEF CvPut, ObjectsTypeOK
  <2>3. CASE Goto(w, "publish", "good") /\ NoFault
    <3>1. NoteFits(w, "publish", "good") /\ "good" \in Notes /\ "publish" \in LoopPcs \ {"idle"}
      BY <1>1, NotesFacts DEF NoteFits, Bodies, LoopPcs, Notes, Events
    <3> QED
      BY <1>1, <1>3, <2>1, <2>2, <2>3, <3>1, QuietGotoKeeps
  <2>4. CASE Finish(w, "nak") /\ Fault("s3")
    BY <1>1, <1>3, <2>1, <2>2, <2>4, QuietFinishKeeps DEF Outcomes, AllFaultKinds
  <2> QED
    BY <1>6, <2>3, <2>4 DEF CvPut
<1>7. CASE CvPublish(w)
  <2> DEFINE m == Message(Held(w).job, "rendered", worker[w].note)
  <2>1. Holding(w) /\ PublishWithRetry(w, m) /\ worker[w].note \in Bodies["rendered"]
    BY <1>1, <1>7 DEF CvPublish, PublishWithRetry, Holding, WellPlaced
  <2>2. m \in Messages /\ m.event = "rendered"
    BY <1>2, <2>1, MessageType DEF Message, Events
  <2>3. ObjectsTypeOK'
    BY <1>7 DEF CvPublish, ObjectsTypeOK
  <2> HIDE DEF m
  <2>4. LoopKept /\ AppendsAtMost(m)
    BY <1>1, <2>1, <2>2, PublishWithRetryKeeps
  <2> QED
    BY <2>2, <2>3, <2>4, AppendAdds DEF OnlyAdds
<1>8. CASE CvFail(w)
  <2> DEFINE m == Message(Held(w).job, "failed", worker[w].note)
  <2>1. Holding(w) /\ ReportFailure(w, m) /\ worker[w].note \in Bodies["failed"]
    BY <1>1, <1>8 DEF CvFail, ReportFailure, Holding, WellPlaced
  <2>2. m \in Messages /\ m.event = "failed"
    BY <1>2, <2>1, MessageType DEF Message, Events
  <2>3. ObjectsTypeOK'
    BY <1>8 DEF CvFail, ObjectsTypeOK
  <2> HIDE DEF m
  <2>4. LoopKept /\ AppendsAtMost(m)
    BY <1>1, <2>1, <2>2, ReportFailureKeeps
  <2> QED
    BY <2>2, <2>3, <2>4, AppendAdds DEF OnlyAdds
<1>9. CASE CvDispatch(w)
  BY <1>1, <1>3, <1>9, DispatchKeeps DEF CvDispatch, ObjectsTypeOK
<1>10. CASE CvCrash(w)
  BY <1>1, <1>3, <1>10, CrashKeeps DEF CvCrash, ObjectsTypeOK
<1> QED
  BY <1>4, <1>5, <1>6, <1>7, <1>8, <1>9, <1>10 DEF CvStep, CvHandler

\* The worker's view of a step of another component.
LEMMA WorkersStayPlaced ==
  ASSUME EventStreamTypeOK, LogGrows, PullLoopTypeOK, WorkersPlaced, worker' = worker
  PROVE  PullLoopTypeOK' /\ WorkersPlaced'
<1>1. \A w \in Workers : worker'[w] = worker[w]
  OBVIOUS
<1> QED
  BY <1>1, OthersStayPlaced DEF WorkersPlaced, PullLoopTypeOK

\* A replica's slot stays in a log that grows.
LEMMA ReplicasStayPlaced ==
  ASSUME LogGrows, ReplicasPlaced, replica' = replica
  PROVE  ReplicasPlaced'
BY DEF LogGrows, ReplicasPlaced

\* So does an advisory's.
LEMMA AdvisoriesStayPlaced ==
  ASSUME LogGrows, AdvisoriesPlaced, advisories' \subseteq advisories
  PROVE  AdvisoriesPlaced'
BY DEF LogGrows, AdvisoriesPlaced

GatewayInv ==
  /\ EventStreamTypeOK /\ FaultsTypeOK
  /\ StoreTypeOK /\ GatewayTypeOK /\ ReplicasPlaced /\ AdvisoriesPlaced

\* What every step of the gateway keeps.
GatewayKept == GatewayInv' /\ stream' = stream /\ LogGrows /\ RowsStep

TallyType == tally \in [Jobs -> [Terminal -> Nat]]

\* The statement of any event is a step of the table.
LEMMA ApplySteps ==
  ASSUME StoreTypeOK, NEW m \in Messages, Apply(m)
  PROVE  RowsStep
<1>1. m.job \in Jobs /\ m.event \in Events
  BY MessageFields
<1>2. MarkFailedProcessing(m.job, "worker") \/ MarkFailed(m.job, "worker") => RowsStep
  BY <1>1 DEF RowsStep, StoreNext
<1>3. MarkRendering(m.job) \/ MarkCompleted(m.job) => RowsStep
  BY <1>1 DEF RowsStep, StoreNext
<1>4. CASE m.event = "requested"
  BY <1>4 DEF Apply, RowsStep
<1>5. CASE m.event = "structured"
  BY <1>3, <1>5 DEF Apply
<1>6. CASE m.event = "rendered"
  BY <1>3, <1>6 DEF Apply
<1>7. CASE m.event = "failed"
  BY <1>2, <1>7 DEF Apply
<1> QED
  BY <1>1, <1>4, <1>5, <1>6, <1>7 DEF Events

\* Counting keeps the tally's type.
LEMMA CountIfType ==
  ASSUME TallyType, NEW applied, NEW j \in Jobs, NEW s \in Terminal, CountIf(applied, j, s)
  PROVE  TallyType'
BY DEF TallyType, CountIf

\* Counting for any event does.
LEMMA CountAppliedType ==
  ASSUME TallyType, NEW m \in Messages, CountApplied(m)
  PROVE  TallyType'
<1>1. m.job \in Jobs
  BY MessageFields
<1>2. CASE m.event = "rendered"
  <2>1. CountIf(m.job \in Live, m.job, "completed")
    BY <1>2 DEF CountApplied
  <2> QED
    BY <1>1, <2>1, CountIfType DEF Terminal
<1>3. CASE m.event = "failed"
  <2>1. CountIf(m.job \in FailGuard(m), m.job, "failed")
    BY <1>3 DEF CountApplied
  <2> QED
    BY <1>1, <2>1, CountIfType DEF Terminal
<1>4. CASE m.event \notin {"rendered", "failed"}
  BY <1>4 DEF CountApplied, TallyType
<1> QED
  BY <1>2, <1>3, <1>4

\* A replica goes from one step to the next, or lets its message go.
LEMMA ReplicaMoves ==
  ASSUME GatewayTypeOK, ReplicasPlaced, LogGrows, NEW r \in Replicas,
         \/ Release(r)
         \/ replica[r].pc # "idle" /\ \E pc \in {"ack", "nak"} : ReplicaGoto(r, pc)
  PROVE  replica' \in [Replicas -> Replica] /\ ReplicasPlaced'
<1>1. CASE Release(r)
  <2>1. Free \in Replica
    BY MaxStreamAssumption DEF Free, Replica
  <2>2. replica' \in [Replicas -> Replica]
    BY <1>1, <2>1 DEF Release, GatewayTypeOK
  <2> QED
    BY <1>1, <2>2 DEF Release, GatewayTypeOK, ReplicasPlaced, LogGrows, Free
<1>2. ASSUME replica[r].pc # "idle", NEW pc \in {"ack", "nak"}, ReplicaGoto(r, pc)
      PROVE  replica' \in [Replicas -> Replica] /\ ReplicasPlaced'
  <2>1. replica[r] \in Replica
    BY DEF GatewayTypeOK
  <2>2. replica' = [replica EXCEPT ![r] = [pc |-> pc, slot |-> replica[r].slot]]
    <3>1. [replica[r] EXCEPT !.pc = pc] = [pc |-> pc, slot |-> replica[r].slot]
      BY <2>1 DEF Replica
    <3> QED
      BY <1>2, <3>1, Zenon DEF ReplicaGoto
  <2>3. [pc |-> pc, slot |-> replica[r].slot] \in Replica
    BY <2>1 DEF Replica
  <2>4. replica' \in [Replicas -> Replica]
    BY <2>2, <2>3 DEF GatewayTypeOK
  <2>5. ReplicasPlaced'
    BY <1>2, <2>2 DEF GatewayTypeOK, ReplicasPlaced, LogGrows
  <2> QED
    BY <2>4, <2>5
<1> QED
  BY <1>1, <1>2

\* A busy replica reads a message.
LEMMA EventIsMessage ==
  ASSUME EventStreamTypeOK, ReplicasPlaced, NEW r \in Replicas, replica[r].pc # "idle"
  PROVE  Event(r) \in Messages /\ replica[r].slot \in Slots
BY StreamFacts DEF Event, ReplicasPlaced

\* Every step of a gateway replica.
LEMMA ProjectKeeps ==
  ASSUME GatewayInv, NEW r \in Replicas, GwStep(r)
  PROVE  GatewayKept /\ advisories' = advisories
<1> USE DEF GatewayInv
<1>1. TallyType /\ (TallyType' /\ replica' \in [Replicas -> Replica] => GatewayTypeOK')
  BY DEF GatewayTypeOK, TallyType
<1>2. ASSUME LogGrows, advisories' = advisories
      PROVE  AdvisoriesPlaced'
  BY <1>2, AdvisoriesStayPlaced
<1>3. CASE \E i \in Published : GwFetch(r, i)
  <2>1. PICK i \in Published : GwFetch(r, i)
    BY <1>3
  <2>2. Bookkeeping /\ advisories' = advisories
    BY <2>1, StreamFacts DEF GwFetch, Deliver, Bookkeeping, Consumers
  <2>3. EventStreamTypeOK' /\ stream' = stream /\ LogGrows
    BY <2>2, BookkeepingEffect
  <2>4. [pc |-> "apply", slot |-> i] \in Replica
    BY StreamFacts, MaxStreamAssumption DEF Replica, Slots
  <2>5. replica' \in [Replicas -> Replica]
    BY <2>1, <2>4 DEF GwFetch, GatewayTypeOK
  <2>6. ReplicasPlaced'
    BY <2>1, <2>3 DEF GwFetch, ReplicasPlaced, GatewayTypeOK, LogGrows
  <2>7. FaultsTypeOK' /\ StoreTypeOK' /\ TallyType' /\ RowsStep
    BY <1>1, <2>1 DEF GwFetch, FaultsTypeOK, StoreTypeOK, TallyType, RowsStep
  <2> QED
    BY <1>1, <1>2, <2>2, <2>3, <2>5, <2>6, <2>7 DEF GatewayKept
<1>4. CASE GwApply(r)
  <2>1. replica[r].pc # "idle" /\ Event(r) \in Messages
    BY <1>4, EventIsMessage DEF GwApply
  <2>2. EventStreamTypeOK' /\ stream' = stream /\ LogGrows /\ advisories' = advisories
    BY <1>4, SameStream DEF GwApply, streamVars
  <2>3. replica' \in [Replicas -> Replica] /\ ReplicasPlaced'
    BY <1>4, <2>1, <2>2, ReplicaMoves DEF GwApply
  <2>4. RowsStep
    BY <1>4, <2>1, ApplySteps DEF GwApply, RowsStep
  <2>5. TallyType'
    BY <1>1, <1>4, <2>1, CountAppliedType DEF GwApply, TallyType
  <2>6. FaultsTypeOK'
    BY <1>4, FaultType DEF GwApply, AllFaultKinds
  <2> QED
    BY <1>1, <1>2, <2>2, <2>3, <2>4, <2>5, <2>6, RowsStepType DEF GatewayKept
<1>5. CASE GwSettle(r) \/ GwCrash(r)
  <2>1. replica[r].pc # "idle" /\ replica[r].slot \in Slots
    BY <1>5, EventIsMessage DEF GwSettle, GwCrash
  <2>2. Bookkeeping /\ advisories' = advisories
    BY <1>5, <2>1 DEF GwSettle, GwCrash, Bookkeeping, Settle, Requeue, Consumers, streamVars
  <2>3. EventStreamTypeOK' /\ stream' = stream /\ LogGrows
    BY <2>2, BookkeepingEffect
  <2>4. replica' \in [Replicas -> Replica] /\ ReplicasPlaced'
    BY <1>5, <2>3, ReplicaMoves DEF GwSettle, GwCrash
  <2>5. StoreTypeOK' /\ TallyType' /\ RowsStep
    BY <1>1, <1>5 DEF GwSettle, GwCrash, StoreTypeOK, TallyType, RowsStep
  <2>6. FaultsTypeOK'
    BY <1>5, FaultType DEF GwSettle, GwCrash, AllFaultKinds
  <2> QED
    BY <1>1, <1>2, <2>2, <2>3, <2>4, <2>5, <2>6 DEF GatewayKept
<1> QED
  BY <1>3, <1>4, <1>5 DEF GwStep

\* An advisory.
LEMMA PoisonKeeps ==
  ASSUME GatewayInv, NEW a \in advisories, GwAdvisory(a)
  PROVE  GatewayKept
<1> USE DEF GatewayInv
<1>1. stream[a[2]] \in Messages /\ stream[a[2]].job \in Jobs
  BY StreamFacts, MessageFields DEF AdvisoriesPlaced
<1>2. Bookkeeping
  BY DEF GwAdvisory, Bookkeeping
<1>3. EventStreamTypeOK' /\ stream' = stream /\ LogGrows
  BY <1>2, BookkeepingEffect
<1>4. AdvisoriesPlaced' /\ ReplicasPlaced'
  BY <1>3, AdvisoriesStayPlaced, ReplicasStayPlaced DEF GwAdvisory, TakeAdvisory
<1>5. FaultsTypeOK'
  BY FaultType DEF GwAdvisory, AllFaultKinds
<1>6. RowsStep
  BY <1>1, MarkFailedSteps DEF GwAdvisory, RowsStep
<1>7. TallyType'
  BY <1>1, CountIfType DEF GwAdvisory, TallyType, GatewayTypeOK, Terminal
<1> QED
  BY <1>3, <1>4, <1>5, <1>6, <1>7, RowsStepType DEF GatewayKept, GatewayTypeOK, TallyType, GwAdvisory

\* The clock of the rows and the sweeper.
LEMMA TickKeeps ==
  ASSUME GatewayInv, GwSweep \/ \E j \in Jobs : GwAge(j)
  PROVE  GatewayKept
<1> USE DEF GatewayInv
<1>1. EventStreamTypeOK' /\ stream' = stream /\ LogGrows
  BY SameStream DEF GwSweep, GwAge, streamVars
<1>2. AdvisoriesPlaced' /\ ReplicasPlaced'
  BY <1>1, AdvisoriesStayPlaced, ReplicasStayPlaced DEF GwSweep, GwAge, streamVars
<1>3. RowsStep
  BY DEF GwSweep, GwAge, RowsStep, StoreNext
<1>4. FaultsTypeOK' /\ GatewayTypeOK'
  BY DEF GwSweep, GwAge, FaultsTypeOK, GatewayTypeOK
<1> QED
  BY <1>1, <1>2, <1>3, <1>4, RowsStepType DEF GatewayKept

\* The clocks touch the stream's bookkeeping, the vault and the budget.
LEMMA ClocksKeep ==
  ASSUME TypeInv, Clocks
  PROVE  /\ TypeInv'
         /\ stream' = stream /\ LogGrows
         /\ UNCHANGED <<worker, objects, rows, form, replica, tally>>
<1> USE DEF TypeInv, PipelineTypeOK, Placed
<1>1. /\ UNCHANGED <<worker, objects, rows, form, replica, tally>>
      /\ VaultTypeOK'
  BY DEF Clocks, WorkerLapse, AckWaitLapse, GatewayLapse, GwAckWaitLapse, GiveUp, ForgetId,
         KeyExpires, ExpireKey, VaultTypeOK
<1>2. FaultsTypeOK'
  BY FaultType DEF Clocks, WorkerLapse, AckWaitLapse, GatewayLapse, GwAckWaitLapse, GiveUp,
       ForgetId, KeyExpires, AllFaultKinds, FaultsTypeOK, NoFault
<1>3. /\ Bookkeeping
      /\ \A a \in advisories' : a \in advisories \/ a[2] \in Published
  <2>1. Published \subseteq Slots /\ \A w \in Workers : Durable(w) \in Consumers
    BY StreamFacts, DurableIsConsumer
  <2>2. CASE \E w \in Workers, i \in Published : WorkerLapse(w, i)
    BY <2>1, <2>2 DEF WorkerLapse, AckWaitLapse, Requeue, Bookkeeping
  <2>3. CASE \E i \in Published : GatewayLapse(i)
    BY <2>1, <2>3 DEF GatewayLapse, GwAckWaitLapse, Requeue, Bookkeeping, Consumers
  <2>4. CASE \E c \in Consumers, i \in Published : GiveUp(c, i)
    <3>1. PICK c \in Consumers, i \in Published : Exhaust(c, i)
      BY <2>4 DEF GiveUp
    <3>2. i \in Slots /\ advisories' = advisories \cup {<<c, i>>}
      BY <2>1, <3>1 DEF Exhaust
    <3> QED
      BY <3>1, <3>2 DEF Bookkeeping
  <2>5. CASE \E id \in window : ForgetId(id)
    BY <2>5 DEF ForgetId, Forget, Bookkeeping
  <2>6. CASE \E j \in vault : KeyExpires(j)
    BY <2>6 DEF KeyExpires, Bookkeeping, streamVars
  <2> QED
    BY <2>2, <2>3, <2>4, <2>5, <2>6 DEF Clocks
<1>4. EventStreamTypeOK' /\ stream' = stream /\ LogGrows /\ Published' = Published
  BY <1>3, BookkeepingEffect
<1>5. WorkersPlaced' /\ ReplicasPlaced' /\ PullLoopTypeOK'
  BY <1>1, <1>4, WorkersStayPlaced, ReplicasStayPlaced
<1>6. AdvisoriesPlaced'
  BY <1>3, <1>4 DEF AdvisoriesPlaced
<1>7. ObjectsTypeOK' /\ StoreTypeOK' /\ SubmissionTypeOK' /\ GatewayTypeOK' /\ FormsPlaced'
  BY <1>1 DEF ObjectsTypeOK, StoreTypeOK, SubmissionTypeOK, GatewayTypeOK, FormsPlaced
<1> QED
  BY <1>1, <1>2, <1>4, <1>5, <1>6, <1>7

\* What every step of the pipeline does to the log and to the table.
LEMMA NextKeeps ==
  ASSUME TypeInv, Next
  PROVE  TypeInv' /\ LogGrows /\ RowsStep
<1> USE DEF TypeInv, PipelineTypeOK, Placed
<1>1. ASSUME NEW j \in Jobs, Submit(j)
      PROVE  TypeInv' /\ LogGrows /\ RowsStep
  <2>1. /\ SubmitInv' /\ LogGrows /\ advisories' = advisories /\ RowsStep
        /\ UNCHANGED <<worker, objects, replica, tally>>
    BY <1>1, SubmitKeeps DEF Submit, SubmitInv
  <2>2. WorkersPlaced' /\ PullLoopTypeOK' /\ ReplicasPlaced' /\ AdvisoriesPlaced'
    BY <2>1, WorkersStayPlaced, ReplicasStayPlaced, AdvisoriesStayPlaced
  <2>3. ObjectsTypeOK' /\ GatewayTypeOK'
    BY <2>1 DEF ObjectsTypeOK, GatewayTypeOK
  <2> QED
    BY <2>1, <2>2, <2>3 DEF SubmitInv
<1>2. ASSUME NEW w \in AiWorkers, Process(w)
      PROVE  TypeInv' /\ LogGrows /\ RowsStep
  <2>1. LoopKept /\ VaultTypeOK' /\ UNCHANGED <<objects, rows, form, replica, tally>>
    BY <1>2, AiKeeps DEF Process, LoopInv
  <2>2. ReplicasPlaced' /\ AdvisoriesPlaced'
    BY <2>1, ReplicasStayPlaced, AdvisoriesStayPlaced DEF LoopKept
  <2>3. /\ ObjectsTypeOK' /\ StoreTypeOK' /\ SubmissionTypeOK' /\ GatewayTypeOK'
        /\ FormsPlaced' /\ RowsStep
    BY <2>1 DEF ObjectsTypeOK, StoreTypeOK, SubmissionTypeOK, GatewayTypeOK, FormsPlaced, RowsStep
  <2> QED
    BY <2>1, <2>2, <2>3 DEF LoopKept, LoopInv
<1>3. ASSUME NEW w \in CvWorkers, Render(w)
      PROVE  TypeInv' /\ LogGrows /\ RowsStep
  <2>1. LoopKept /\ ObjectsTypeOK' /\ UNCHANGED <<vault, rows, form, replica, tally>>
    BY <1>3, CvKeeps DEF Render, LoopInv
  <2>2. ReplicasPlaced' /\ AdvisoriesPlaced'
    BY <2>1, ReplicasStayPlaced, AdvisoriesStayPlaced DEF LoopKept
  <2>3. /\ VaultTypeOK' /\ StoreTypeOK' /\ SubmissionTypeOK' /\ GatewayTypeOK'
        /\ FormsPlaced' /\ RowsStep
    BY <2>1 DEF VaultTypeOK, StoreTypeOK, SubmissionTypeOK, GatewayTypeOK, FormsPlaced, RowsStep
  <2> QED
    BY <2>1, <2>2, <2>3 DEF LoopKept, LoopInv
<1>4. ASSUME GatewayKept, UNCHANGED <<worker, vault, objects, form>>
      PROVE  TypeInv' /\ LogGrows /\ RowsStep
  <2>1. WorkersPlaced' /\ PullLoopTypeOK'
    BY <1>4, WorkersStayPlaced DEF GatewayKept
  <2>2. VaultTypeOK' /\ ObjectsTypeOK' /\ SubmissionTypeOK' /\ FormsPlaced'
    BY <1>4 DEF VaultTypeOK, ObjectsTypeOK, SubmissionTypeOK, FormsPlaced
  <2> QED
    BY <1>4, <2>1, <2>2 DEF GatewayKept, GatewayInv
<1>5. ASSUME NEW r \in Replicas, Project(r)
      PROVE  TypeInv' /\ LogGrows /\ RowsStep
  BY <1>4, <1>5, ProjectKeeps DEF Project, GatewayInv
<1>6. ASSUME NEW a \in advisories, Poison(a)
      PROVE  TypeInv' /\ LogGrows /\ RowsStep
  BY <1>4, <1>6, PoisonKeeps DEF Poison, GatewayInv
<1>7. ASSUME Sweep \/ \E j \in Jobs : Stall(j)
      PROVE  TypeInv' /\ LogGrows /\ RowsStep
  BY <1>4, <1>7, TickKeeps DEF Sweep, Stall, GatewayInv
<1>8. CASE Clocks
  BY <1>8, ClocksKeep DEF RowsStep
<1> QED
  BY <1>1, <1>2, <1>3, <1>5, <1>6, <1>7, <1>8 DEF Next

\* A step that changes nothing.
LEMMA StutterKeeps ==
  ASSUME TypeInv, UNCHANGED vars
  PROVE  TypeInv'
<1> USE DEF TypeInv, PipelineTypeOK, Placed, vars
<1>1. EventStreamTypeOK' /\ LogGrows /\ advisories' = advisories
  BY SameStream DEF streamVars
<1>2. WorkersPlaced' /\ PullLoopTypeOK' /\ ReplicasPlaced' /\ AdvisoriesPlaced'
  BY <1>1, WorkersStayPlaced, ReplicasStayPlaced, AdvisoriesStayPlaced
<1> QED
  BY <1>1, <1>2 DEF FaultsTypeOK, VaultTypeOK, ObjectsTypeOK, StoreTypeOK, SubmissionTypeOK,
       GatewayTypeOK, FormsPlaced

\* The initial state.
LEMMA InitTyped ==
  ASSUME Init
  PROVE  TypeInv
<1> USE DEF Init
<1>1. EventStreamTypeOK
  BY MaxStreamAssumption DEF EventStreamInit, EventStreamTypeOK, DeliveryStates
<1>2. Idle \in Worker /\ Idle.pc = "idle" /\ "idle" \in LoopPcs
  BY NotesFacts, MaxStreamAssumption, PublishAttemptsAssumption DEF Idle, Worker, LoopPcs
<1>3. PullLoopTypeOK /\ WorkersPlaced
  BY <1>2 DEF PullLoopInit, PullLoopTypeOK, WorkersPlaced, WellPlaced, Holding
<1>4. Free \in Replica /\ Free.pc = "idle"
  BY MaxStreamAssumption DEF Free, Replica
<1>5. GatewayTypeOK /\ ReplicasPlaced /\ AdvisoriesPlaced
  BY <1>4 DEF GatewayInit, GatewayTypeOK, ReplicasPlaced, EventStreamInit, AdvisoriesPlaced
<1>6. StoreTypeOK
  BY DEF StoreInit, StoreTypeOK, NoRow, Row, Errors
<1>7. SubmissionTypeOK /\ FormsPlaced
  BY DEF SubmissionInit, SubmissionTypeOK, FormsPlaced, FormSteps
<1>8. FaultsTypeOK /\ VaultTypeOK /\ ObjectsTypeOK
  BY DEF FaultsInit, FaultsTypeOK, VaultInit, VaultTypeOK, ObjectsInit, ObjectsTypeOK
<1> QED
  BY <1>1, <1>3, <1>5, <1>6, <1>7, <1>8 DEF TypeInv, PipelineTypeOK, Placed

\* Every process of the pipeline stays on a step of its own handler, holding a
\* message of the log its consumer may be given, about to publish an event of
\* its service: the types of all components, for every instance.
THEOREM TypeCorrect == SafeSpec => []TypeInv
<1>1. TypeInv /\ [Next]_vars => TypeInv'
  BY NextKeeps, StutterKeeps
<1> QED
  BY <1>1, InitTyped, PTL DEF SafeSpec

\* The part of it the runs check.
THEOREM PipelineTypeCorrect == SafeSpec => []PipelineTypeOK
<1>1. TypeInv => PipelineTypeOK
  BY DEF TypeInv
<1> QED
  BY <1>1, TypeCorrect, PTL

-----------------------------------------------------------------------------
(* The jobs table. *)

\* Whatever component moves, the table takes a step of the lifecycle or none.
LEMMA TableSteps ==
  ASSUME TypeInv, [Next]_vars
  PROVE  /\ [Lifecycle!Next]_statusColumn
         /\ \A j \in Jobs : rows[j].status \in Terminal => rows'[j] = rows[j]
<1>1. StoreTypeOK
  BY DEF TypeInv, PipelineTypeOK
<1>2. CASE StoreStep
  BY <1>1, <1>2, StepIsLifecycleStep, StepTouchesRows DEF RowStep
<1>3. CASE rows' = rows
  BY <1>3 DEF statusColumn
<1>4. StoreStep \/ rows' = rows
  BY <1>1, NextKeeps, RowsStepIsStep DEF RowsStep, vars
<1> QED
  BY <1>2, <1>3, <1>4

\* Events in any order, redelivered or late, advisories, sweeps and failed
\* submissions move a job along JobLifecycle and nowhere else.
THEOREM PipelineImplementsLifecycle == SafeSpec => LifecycleSafe
<1>1. Init => Lifecycle!Init
  BY DEF Init, StoreInit, Lifecycle!Init, statusColumn, NoRow
<1>2. TypeInv /\ [Next]_vars => [Lifecycle!Next]_statusColumn
  BY TableSteps
<1> QED
  BY <1>1, <1>2, TypeCorrect, PTL DEF SafeSpec, LifecycleSafe, Lifecycle!SafeSpec

\* The end of a job is final in the whole pipeline.
THEOREM PipelineTerminalIsFinal == SafeSpec => TerminalIsFinal
<1>1. TypeInv /\ [Next]_vars
        => [\A j \in Jobs : rows[j].status \in Terminal => rows'[j] = rows[j]]_rows
  BY TableSteps
<1> QED
  BY <1>1, TypeCorrect, PTL DEF SafeSpec, TerminalIsFinal

\* Whatever moves, and whatever fails, the table takes one of its own statements
\* or none: all that is proved of the table, its clock and its sweeps included,
\* holds in the pipeline.
THEOREM PipelineRunsStatements == SafeSpec => StoreSafe
<1>1. Init => StoreInit
  BY DEF Init
<1>2. TypeInv /\ [Next]_vars => [StoreNext]_rows
  BY NextKeeps DEF RowsStep, vars
<1> QED
  BY <1>1, <1>2, TypeCorrect, PTL DEF SafeSpec, StoreSafe

-----------------------------------------------------------------------------
(* The counter: what a step may do to the tally of one job. *)

Counts(j) ==
  \/ tally'[j] = tally[j]
  \/ \E s \in Terminal :
       /\ rows[j].status \notin Terminal
       /\ rows'[j].status = s
       /\ tally'[j][s] = tally[j][s] + 1
       /\ \A t \in Terminal \ {s} : tally'[j][t] = tally[j][t]

\* The counter is bumped with the transition, or left alone.
LEMMA CountIfCounts ==
  ASSUME TallyType, NEW j \in Jobs, NEW s \in Terminal,
         \/ tally' = tally
         \/ /\ tally' = [tally EXCEPT ![j][s] = @ + 1]
            /\ rows[j].status \notin Terminal
            /\ rows'[j].status = s
  PROVE  \A i \in Jobs : Counts(i)
<1>1. CASE tally' = tally
  BY <1>1 DEF Counts
<1>2. CASE /\ tally' = [tally EXCEPT ![j][s] = @ + 1]
           /\ rows[j].status \notin Terminal
           /\ rows'[j].status = s
  BY <1>2 DEF TallyType, Counts
<1> QED
  BY <1>1, <1>2

\* A failing statement that applied leaves a failed row.
LEMMA FailWhereFails ==
  ASSUME StoreTypeOK, NEW j \in Jobs, NEW guard \in SUBSET Live, NEW error,
         FailWhere(j, guard, error), j \in guard
  PROVE  rows[j].status \notin Terminal /\ rows'[j].status = "failed"
BY DEF StoreTypeOK, FailWhere, Live, Row

\* Applying an event counts what its statement ended.
LEMMA ApplyCounts ==
  ASSUME StoreTypeOK, TallyType, NEW m \in Messages, Apply(m), CountApplied(m)
  PROVE  \A j \in Jobs : Counts(j)
<1>1. m.job \in Jobs /\ m.event \in Events
  BY MessageFields
<1>2. CASE m.event \in {"requested", "structured"}
  <2>1. tally' = tally
    BY <1>2 DEF CountApplied
  <2> QED
    BY <2>1 DEF Counts
<1>3. CASE m.event = "rendered"
  <2>1. /\ tally' = IF m.job \in Live THEN [tally EXCEPT ![m.job]["completed"] = @ + 1] ELSE tally
        /\ MarkCompleted(m.job)
    BY <1>3 DEF CountApplied, CountIf, Apply
  <2>2. m.job \in Live => rows[m.job].status \notin Terminal /\ rows'[m.job].status = "completed"
    BY <1>1, <2>1 DEF MarkCompleted, StoreTypeOK, Live, Row
  <2> QED
    BY <1>1, <2>1, <2>2, CountIfCounts DEF Terminal
<1>4. CASE m.event = "failed"
  <2>1. /\ tally' = IF m.job \in FailGuard(m)
                    THEN [tally EXCEPT ![m.job]["failed"] = @ + 1] ELSE tally
        /\ FailWhere(m.job, FailGuard(m), "worker")
    BY <1>4 DEF CountApplied, CountIf, Apply, FailGuard, MarkFailedProcessing, MarkFailed
  <2>2. FailGuard(m) \in SUBSET Live
    BY DEF FailGuard, Pending, Live, Statuses, Terminal
  <2>3. m.job \in FailGuard(m) =>
          rows[m.job].status \notin Terminal /\ rows'[m.job].status = "failed"
    BY <1>1, <2>1, <2>2, FailWhereFails
  <2> QED
    BY <1>1, <2>1, <2>3, CountIfCounts DEF Terminal
<1> QED
  BY <1>1, <1>2, <1>3, <1>4 DEF Events

\* No step counts a job it did not end.
LEMMA NextCounts ==
  ASSUME TypeInv, [Next]_vars
  PROVE  \A j \in Jobs : Counts(j)
<1>1. StoreTypeOK /\ TallyType /\ EventStreamTypeOK /\ ReplicasPlaced /\ AdvisoriesPlaced
  BY DEF TypeInv, PipelineTypeOK, GatewayTypeOK, TallyType, Placed
<1>2. ASSUME tally' = tally
      PROVE  \A j \in Jobs : Counts(j)
  BY <1>2 DEF Counts
<1>3. ASSUME NEW r \in Replicas, Project(r)
      PROVE  \A j \in Jobs : Counts(j)
  <2>1. CASE GwApply(r)
    <3>1. Event(r) \in Messages
      BY <1>1, <2>1, EventIsMessage DEF GwApply
    <3> QED
      BY <1>1, <1>2, <2>1, <3>1, ApplyCounts DEF GwApply
  <2> QED
    BY <1>2, <1>3, <2>1 DEF Project, GwStep, GwFetch, GwSettle, GwCrash
<1>4. ASSUME NEW a \in advisories, Poison(a)
      PROVE  \A j \in Jobs : Counts(j)
  <2> DEFINE j == stream[a[2]].job
  <2>1. j \in Jobs
    BY <1>1, StreamFacts, MessageFields DEF AdvisoriesPlaced
  <2>2. CASE /\ MarkFailed(j, "poisoned")
             /\ tally' = IF j \in Live THEN [tally EXCEPT ![j]["failed"] = @ + 1] ELSE tally
    <3>1. j \in Live => rows[j].status \notin Terminal /\ rows'[j].status = "failed"
      BY <1>1, <2>1, <2>2, FailWhereFails DEF MarkFailed
    <3> HIDE DEF j
    <3> QED
      BY <1>1, <2>1, <2>2, <3>1, CountIfCounts DEF Terminal
  <2> QED
    BY <1>2, <1>4, <2>2 DEF Poison, GwAdvisory, CountIf
<1>5. CASE \/ \E j \in Jobs : Submit(j) \/ Stall(j)
           \/ \E w \in AiWorkers : Process(w)
           \/ \E w \in CvWorkers : Render(w)
           \/ Sweep \/ UNCHANGED vars
  <2>1. tally' = tally
    BY <1>5 DEF Submit, Stall, Process, Render, Sweep, GwSweep, GwAge, vars
  <2> QED
    BY <1>2, <2>1
<1>6. CASE Clocks
  BY <1>2, <1>6, ClocksKeep
<1> QED
  BY <1>3, <1>4, <1>5, <1>6 DEF Next

\* cvgen.jobs.total counts a job at most once, under the status it has: each
\* count goes with a transition into that status, and an end is final.
THEOREM PipelineCountedOnce == SafeSpec => []CountedOnce
<1>1. Init => CountedOnce
  <2> SUFFICES ASSUME Init, NEW j \in Jobs
               PROVE  /\ tally[j]["completed"] + tally[j]["failed"] <= 1
                      /\ \A s \in Terminal : ~(tally[j][s] > 0)
    BY DEF CountedOnce
  <2>1. \A s \in Terminal : tally[j][s] = 0
    BY DEF Init, GatewayInit
  <2> QED
    BY <2>1 DEF Terminal
<1>2. TypeInv /\ CountedOnce /\ [Next]_vars => CountedOnce'
  <2> SUFFICES ASSUME TypeInv, CountedOnce, [Next]_vars, NEW j \in Jobs
               PROVE  /\ tally'[j]["completed"] + tally'[j]["failed"] <= 1
                      /\ \A s \in Terminal : tally'[j][s] > 0 => rows'[j].status = s
    BY DEF CountedOnce
  <2>1. tally[j] \in [Terminal -> Nat]
    BY DEF TypeInv, PipelineTypeOK, GatewayTypeOK
  <2>2. CASE tally'[j] = tally[j]
    <3>1. \A s \in Terminal : tally[j][s] > 0 => rows[j].status = s /\ rows'[j] = rows[j]
      BY TableSteps DEF CountedOnce
    <3> QED
      BY <2>2, <3>1 DEF CountedOnce
  <2>3. ASSUME NEW s \in Terminal,
               rows[j].status \notin Terminal,
               rows'[j].status = s,
               tally'[j][s] = tally[j][s] + 1,
               \A t \in Terminal \ {s} : tally'[j][t] = tally[j][t]
        PROVE  /\ tally'[j]["completed"] + tally'[j]["failed"] <= 1
               /\ \A t \in Terminal : tally'[j][t] > 0 => rows'[j].status = t
    <3>1. \A t \in Terminal : tally[j][t] = 0
      BY <2>1, <2>3 DEF CountedOnce
    <3> QED
      BY <2>1, <2>3, <3>1 DEF Terminal
  <2> QED
    BY <2>2, <2>3, NextCounts DEF Counts
<1> QED
  BY <1>1, <1>2, TypeCorrect, PTL DEF SafeSpec

-----------------------------------------------------------------------------
(* The PDF.  What makes a completed job downloadable: the worker stores the *)
(* object before it announces it, and the table completes a job only on the *)
(* announcement.                                                            *)

\* What is announced, or about to be, is in the bucket.
Stored ==
  /\ \A i \in Published : stream[i].event = "rendered" => stream[i].job \in objects
  /\ \A w \in CvWorkers : worker[w].pc = "publish" => Held(w).job \in objects

\* A step that stores nothing new and takes no worker to its announcement.
LEMMA StoredStays ==
  ASSUME TypeInv, Stored, LogGrows, objects \subseteq objects',
         \A i \in Published' : i \in Published \/ stream'[i].event # "rendered",
         \A w \in CvWorkers :
           worker'[w].pc = "publish" => worker[w].pc = "publish" /\ worker'[w].slot = worker[w].slot
  PROVE  Stored'
<1>1. \A i \in Published : i \in Published' /\ stream'[i] = stream[i]
  BY DEF LogGrows
<1>2. \A i \in Published' : stream'[i].event = "rendered" => stream'[i].job \in objects'
  BY <1>1 DEF Stored
<1>3. ASSUME NEW w \in CvWorkers, worker'[w].pc = "publish"
      PROVE  Held(w)'.job \in objects'
  <2>1. worker[w].pc = "publish" /\ worker'[w].slot = worker[w].slot
    BY <1>3
  <2>2. worker[w].slot \in Published
    BY <2>1 DEF TypeInv, Placed, WorkersPlaced, WellPlaced, Holding, Workers
  <2> QED
    BY <1>1, <2>1, <2>2 DEF Stored, Held
<1> QED
  BY <1>2, <1>3 DEF Stored

\* The steps of the loop that leave a worker at no announcement it was not at.
LEMMA QuietWorkers ==
  ASSUME PullLoopTypeOK, NEW w \in Workers,
         \/ Abandon(w)
         \/ \E pc, note : pc # "publish" /\ Goto(w, pc, note)
         \/ worker' = [worker EXCEPT ![w].tries = @ + 1]
         \/ \E pc, i : pc # "publish" /\ worker' = [worker EXCEPT ![w] = [Idle EXCEPT !.pc = pc, !.slot = i]]
  PROVE  \A v \in Workers :
           worker'[v].pc = "publish" => worker[v].pc = "publish" /\ worker'[v].slot = worker[v].slot
<1>1. \A v \in Workers \ {w} : worker'[v] = worker[v]
  BY DEF PullLoopTypeOK, Abandon, Goto
<1>2. CASE Abandon(w)
  BY <1>1, <1>2 DEF PullLoopTypeOK, Abandon, Idle
<1>3. CASE \E pc, note : pc # "publish" /\ Goto(w, pc, note)
  BY <1>1, <1>3 DEF PullLoopTypeOK, Goto, Worker
<1>4. CASE worker' = [worker EXCEPT ![w].tries = @ + 1]
  <2>1. worker[w] \in Worker /\ worker'[w] = [worker[w] EXCEPT !.tries = worker[w].tries + 1]
    BY <1>4 DEF PullLoopTypeOK
  <2>2. worker'[w].pc = worker[w].pc /\ worker'[w].slot = worker[w].slot
    BY <2>1 DEF Worker
  <2> QED
    BY <1>1, <2>2
<1>5. CASE \E pc, i : pc # "publish" /\ worker' = [worker EXCEPT ![w] = [Idle EXCEPT !.pc = pc, !.slot = i]]
  BY <1>1, <1>5 DEF PullLoopTypeOK, Idle
<1> QED
  BY <1>2, <1>3, <1>4, <1>5

\* An ai-processor moves no other worker.
LEMMA AiMovesItself ==
  ASSUME PullLoopTypeOK, NEW w \in AiWorkers, AiStep(w)
  PROVE  \A v \in CvWorkers : worker'[v] = worker[v]
<1>1. \A v \in CvWorkers : v \in Workers /\ v # w
  BY WorkersAssumption DEF Workers
<1>2. \/ \E x : worker' = [worker EXCEPT ![w] = x]
      \/ \E pc, note : Goto(w, pc, note)
      \/ worker' = [worker EXCEPT ![w].tries = @ + 1]
  BY DEF AiStep, AiFetch, Fetch, AiHandler, AiResolve, AiClaim, AiBuild, AiCall, AiPublish,
         PublishWithRetry, AiFail, ReportFailure, AiDispatch, Dispatch, AiCrash, Crash, Finish, Abandon
<1> QED
  BY <1>1, <1>2 DEF PullLoopTypeOK, Goto

\* The cv-generator announces what it stored: put_pdf, then publish.
LEMMA RenderStores ==
  ASSUME TypeInv, Stored, NEW w \in CvWorkers, CvStep(w)
  PROVE  Stored' /\ objects \subseteq objects'
<1>1. PullLoopTypeOK /\ w \in Workers /\ WellPlaced(w) /\ EventStreamTypeOK
  BY DEF TypeInv, PipelineTypeOK, Placed, WorkersPlaced, Workers
<1>2. LogGrows /\ OnlyAdds({"rendered", "failed"})
  BY CvKeeps DEF TypeInv, PipelineTypeOK, Placed, LoopInv, LoopKept
<1>3. CvWorkers \subseteq Workers
  BY DEF Workers
<1>4. ASSUME stream' = stream, UNCHANGED objects,
             \/ Abandon(w)
             \/ \E pc, note : pc # "publish" /\ Goto(w, pc, note)
             \/ \E pc, i : pc # "publish" /\ worker' = [worker EXCEPT ![w] = [Idle EXCEPT !.pc = pc, !.slot = i]]
      PROVE  Stored' /\ objects \subseteq objects'
  BY <1>1, <1>2, <1>3, <1>4, QuietWorkers, StoredStays DEF Published
<1>5. CASE \E i \in Published : CvFetch(w, i)
  BY <1>4, <1>5 DEF CvFetch, Fetch, Deliver
<1>6. CASE CvConvert(w) \/ CvRender(w)
  BY <1>4, <1>6 DEF CvConvert, CvRender, Finish, streamVars
<1>7. CASE CvPut(w)
  <2>1. stream' = stream /\ objects \subseteq objects' /\ Published' = Published
    BY <1>7 DEF CvPut, streamVars, Published
  <2>2. CASE Finish(w, "nak")
    BY <1>1, <1>2, <1>3, <2>1, <2>2, QuietWorkers, StoredStays DEF Finish
  <2>3. CASE objects' = objects \cup {Held(w).job} /\ Goto(w, "publish", "good")
    <3>1. \A v \in CvWorkers \ {w} : worker'[v] = worker[v]
      BY <1>1, <1>3, <2>3 DEF Goto, PullLoopTypeOK
    <3>2. worker'[w].slot = worker[w].slot
      BY <1>1, <2>3 DEF Goto, PullLoopTypeOK, Worker
    <3> QED
      BY <2>1, <2>3, <3>1, <3>2 DEF Stored, Held
  <2> QED
    BY <1>7, <2>2, <2>3 DEF CvPut
<1>8. CASE CvPublish(w)
  <2> DEFINE m == Message(Held(w).job, "rendered", worker[w].note)
  <2>1. PublishWithRetry(w, m) /\ UNCHANGED objects /\ worker[w].pc = "publish"
    BY <1>8 DEF CvPublish, PublishWithRetry
  <2>2. m.job \in objects /\ m \in Messages
    <3>1. Answer(w) = "rendered" /\ worker[w].note \in Bodies["rendered"] /\ Held(w).job \in Jobs
      BY <1>1, <2>1, HeldIsMessage, WorkersAssumption DEF Answer, WellPlaced, Holding
    <3> QED
      BY <2>1, <3>1, MessageType DEF Stored, Message, Events
  <2> HIDE DEF m
  <2>3. AppendsAtMost(m)
    BY <1>1, <2>1, <2>2, PublishEffect, PublishErrEffect DEF PublishWithRetry
  <2>4. \A v \in CvWorkers :
          worker'[v].pc = "publish" => worker[v].pc = "publish" /\ worker'[v].slot = worker[v].slot
    BY <1>1, <1>3, <2>1, QuietWorkers DEF PublishWithRetry, Finish
  <2>5. \A i \in Published' : stream'[i].event = "rendered" => stream'[i].job \in objects'
    BY <2>1, <2>2, <2>3 DEF AppendsAtMost, LogGrows, Stored
  <2>6. \A v \in CvWorkers : worker'[v].pc = "publish" => Held(v)'.job \in objects'
    <3>1. \A v \in CvWorkers : worker[v].pc = "publish" => worker[v].slot \in Published
      BY <1>3 DEF TypeInv, Placed, WorkersPlaced, WellPlaced, Holding
    <3> QED
      BY <1>2, <2>1, <2>4, <3>1 DEF Stored, Held, LogGrows
  <2> QED
    BY <2>1, <2>5, <2>6 DEF Stored
<1>9. CASE CvFail(w)
  <2> DEFINE m == Message(Held(w).job, "failed", worker[w].note)
  <2>1. ReportFailure(w, m) /\ UNCHANGED objects /\ worker[w].pc = "fail"
    BY <1>9 DEF CvFail, ReportFailure
  <2>2. m.event = "failed" /\ m \in Messages
    <3>1. worker[w].note \in Bodies["failed"] /\ Held(w).job \in Jobs
      BY <1>1, <2>1, HeldIsMessage DEF WellPlaced, Holding
    <3> QED
      BY <3>1, MessageType DEF Message, Events
  <2> HIDE DEF m
  <2>3. AppendsAtMost(m)
    BY <1>1, <2>1, <2>2, PublishEffect, PublishErrEffect DEF ReportFailure
  <2>4. \A v \in CvWorkers :
          worker'[v].pc = "publish" => worker[v].pc = "publish" /\ worker'[v].slot = worker[v].slot
    BY <1>1, <1>3, <2>1, QuietWorkers DEF ReportFailure, Finish
  <2> QED
    BY <1>2, <2>1, <2>2, <2>3, <2>4, StoredStays DEF AppendsAtMost
<1>10. CASE CvDispatch(w) \/ CvCrash(w)
  <2>1. stream' = stream /\ UNCHANGED objects /\ Abandon(w)
    BY <1>10 DEF CvDispatch, Dispatch, Settle, Requeue, CvCrash, Crash, streamVars
  <2> QED
    BY <1>4, <2>1
<1> QED
  BY <1>5, <1>6, <1>7, <1>8, <1>9, <1>10 DEF CvStep, CvHandler

\* Every step keeps what is announced stored.
LEMMA NextStores ==
  ASSUME TypeInv, Stored, [Next]_vars
  PROVE  Stored' /\ objects \subseteq objects'
<1>1. PullLoopTypeOK /\ EventStreamTypeOK /\ CvWorkers \subseteq Workers
  BY DEF TypeInv, PipelineTypeOK, Workers
<1>2. ASSUME LogGrows, objects' = objects,
             \A i \in Published' : i \in Published \/ stream'[i].event # "rendered",
             \A v \in CvWorkers : worker'[v] = worker[v]
      PROVE  Stored' /\ objects \subseteq objects'
  BY <1>2, StoredStays
<1>3. ASSUME NEW j \in Jobs, Submit(j)
      PROVE  Stored' /\ objects \subseteq objects'
  <2>1. LogGrows /\ OnlyAdds({"requested"})
    BY <1>3, SubmitKeeps DEF Submit, SubmitInv, TypeInv, PipelineTypeOK, Placed
  <2> QED
    BY <1>2, <1>3, <2>1 DEF Submit, OnlyAdds
<1>4. ASSUME NEW w \in AiWorkers, Process(w)
      PROVE  Stored' /\ objects \subseteq objects'
  <2>1. LogGrows /\ OnlyAdds({"structured", "failed"})
    BY <1>4, AiKeeps DEF Process, LoopInv, LoopKept, TypeInv, PipelineTypeOK, Placed
  <2> QED
    BY <1>1, <1>2, <1>4, <2>1, AiMovesItself DEF Process, OnlyAdds
<1>5. ASSUME NEW w \in CvWorkers, Render(w)
      PROVE  Stored' /\ objects \subseteq objects'
  BY <1>5, RenderStores DEF Render
<1>6. ASSUME stream' = stream, objects' = objects, worker' = worker
      PROVE  Stored' /\ objects \subseteq objects'
  BY <1>1, <1>2, <1>6, SameLog
<1>7. CASE \/ \E r \in Replicas : Project(r)
           \/ \E a \in advisories : Poison(a)
           \/ Sweep \/ \E j \in Jobs : Stall(j)
  <2>1. stream' = stream
    BY <1>7, ProjectKeeps, PoisonKeeps, TickKeeps
       DEF Project, Poison, Sweep, Stall, GatewayKept, GatewayInv, TypeInv, PipelineTypeOK, Placed
  <2>2. objects' = objects /\ worker' = worker
    BY <1>7 DEF Project, Poison, Sweep, Stall
  <2> QED
    BY <1>6, <2>1, <2>2
<1>8. CASE Clocks
  BY <1>6, <1>8, ClocksKeep
<1>9. CASE UNCHANGED vars
  BY <1>6, <1>9 DEF vars
<1> QED
  BY <1>3, <1>4, <1>5, <1>7, <1>8, <1>9 DEF Next

\* Only the gateway shows a job rendering or completed, and only on the event of
\* the log that says so.
LEMMA ShownByEvent ==
  ASSUME TypeInv, [Next]_vars, NEW j \in Jobs, rows'[j].status # rows[j].status
  PROVE  /\ rows'[j].status = "completed" => InStream(j, "rendered")
         /\ rows'[j].status = "rendering" => InStream(j, "structured")
<1> DEFINE Warranted == /\ rows'[j].status = "completed" => InStream(j, "rendered")
                        /\ rows'[j].status = "rendering" => InStream(j, "structured")
<1>1. StoreTypeOK /\ EventStreamTypeOK /\ ReplicasPlaced /\ AdvisoriesPlaced
  BY DEF TypeInv, PipelineTypeOK, Placed
<1>2. rows' # rows
  OBVIOUS
<1>3. ASSUME NEW i \in Jobs, NEW guard, NEW error, FailWhere(i, guard, error)
      PROVE  Warranted
  BY <1>1, <1>2, <1>3 DEF FailWhere, StoreTypeOK, Row
<1>4. ASSUME NEW r \in Replicas, Project(r)
      PROVE  Warranted
  <2>1. GwApply(r) /\ Apply(Event(r))
    BY <1>2, <1>4 DEF Project, GwStep, GwFetch, GwApply, GwSettle, GwCrash
  <2>2. Event(r) \in Messages /\ Event(r).job \in Jobs /\ Event(r).event \in Events
    BY <1>1, <2>1, EventIsMessage, MessageFields DEF GwApply
  <2>3. Event(r).job = j => InStream(j, Event(r).event)
    BY <1>1, <2>1 DEF ReplicasPlaced, GwApply, InStream, Event
  <2>4. CASE Event(r).event = "rendered"
    <3>1. MarkCompleted(Event(r).job)
      BY <2>1, <2>4 DEF Apply
    <3> QED
      BY <1>1, <1>2, <2>2, <2>3, <2>4, <3>1 DEF MarkCompleted, StoreTypeOK, Row
  <2>5. CASE Event(r).event = "structured"
    <3>1. MarkRendering(Event(r).job)
      BY <2>1, <2>5 DEF Apply
    <3> QED
      BY <1>1, <1>2, <2>2, <2>3, <2>5, <3>1 DEF MarkRendering, StoreTypeOK, Row
  <2>6. CASE Event(r).event = "failed"
    BY <1>3, <2>1, <2>2, <2>6 DEF Apply, MarkFailedProcessing, MarkFailed
  <2>7. CASE Event(r).event = "requested"
    BY <1>2, <2>1, <2>7 DEF Apply
  <2> QED
    BY <2>2, <2>4, <2>5, <2>6, <2>7 DEF Events
<1>5. ASSUME NEW a \in advisories, Poison(a)
      PROVE  Warranted
  <2>1. stream[a[2]].job \in Jobs
    BY <1>1, StreamFacts, MessageFields DEF AdvisoriesPlaced
  <2> QED
    BY <1>2, <1>3, <1>5, <2>1 DEF Poison, GwAdvisory, MarkFailed
<1>6. ASSUME NEW i \in Jobs, Submit(i)
      PROVE  Warranted
  <2>1. CASE SubmitCreate(i)
    BY <1>1, <1>2, <2>1 DEF SubmitCreate, CreateJob, StoreTypeOK, NoRow
  <2>2. CASE SubmitMarkFailed(i)
    BY <1>2, <1>3, <2>2 DEF SubmitMarkFailed, MarkFailed
  <2> QED
    BY <1>2, <1>6, <2>1, <2>2 DEF Submit, SubmitStep, SubmitCall, SubmitPutKey, SubmitPublish, SubmitCrash
<1>7. ASSUME NEW i \in Jobs, Stall(i)
      PROVE  Warranted
  BY <1>1, <1>2, <1>7 DEF Stall, GwAge, Age, StoreTypeOK, Row
<1>8. CASE Sweep
  BY <1>1, <1>8 DEF Sweep, GwSweep, SweepStuck, StoreTypeOK, Row
<1>9. CASE Clocks
  BY <1>2, <1>9, ClocksKeep
<1>10. CASE \/ \E w \in AiWorkers : Process(w)
            \/ \E w \in CvWorkers : Render(w)
            \/ UNCHANGED vars
  BY <1>2, <1>10 DEF Process, Render, vars
<1> QED
  BY <1>4, <1>5, <1>6, <1>7, <1>8, <1>9, <1>10 DEF Next

\* Nothing is announced at first, and nothing completed.
LEMMA InitStored ==
  ASSUME Init
  PROVE  Stored /\ CompletedHasPdf
<1>1. Published = {} /\ \A w \in CvWorkers : worker[w].pc = "idle"
  BY DEF Init, EventStreamInit, Published, PullLoopInit, Workers, Idle
<1>2. \A j \in Jobs : rows[j].status = "absent"
  <2>1. NoRow.status = "absent"
    BY DEF NoRow
  <2> QED
    BY <2>1 DEF Init, StoreInit
<1> QED
  BY <1>1, <1>2 DEF Stored, CompletedHasPdf

\* Every step keeps a completed job's PDF and its announcement.
LEMMA NextKeepsPdf ==
  ASSUME TypeInv, Stored, CompletedHasPdf, [Next]_vars
  PROVE  Stored' /\ CompletedHasPdf'
<1>1. Stored' /\ objects \subseteq objects' /\ LogGrows
  BY NextStores, NextKeeps, SameLog DEF TypeInv, PipelineTypeOK, vars
<1>2. ASSUME NEW j \in Jobs, rows'[j].status = "completed"
      PROVE  InStream(j, "rendered")
  BY <1>2, ShownByEvent DEF CompletedHasPdf
<1>3. \A j \in Jobs : InStream(j, "rendered") => j \in objects /\ InStream(j, "rendered")'
  BY <1>1 DEF InStream, Stored, LogGrows
<1> QED
  BY <1>1, <1>2, <1>3 DEF CompletedHasPdf

\* A completed job has its PDF in the bucket and its announcement in the log,
\* in every interleaving of workers, replicas, sweeps and mishaps.
THEOREM PipelineCompletedHasPdf == SafeSpec => []CompletedHasPdf
<1>1. Init => Stored /\ CompletedHasPdf
  BY InitStored
<1>2. TypeInv /\ Stored /\ CompletedHasPdf /\ [Next]_vars => Stored' /\ CompletedHasPdf'
  BY NextKeepsPdf
<1> QED
  BY <1>1, <1>2, TypeCorrect, PTL DEF SafeSpec

-----------------------------------------------------------------------------
(* A failure of the processing that arrives late. *)

\* Every end is explained in the whole pipeline as in the table alone.
LEMMA PipelineExplains == SafeSpec => []EndExplained
<1>1. Init => EndExplained
  <2>1. NoRow.status = "absent" /\ NoRow.error = "none" /\ NoRow.pdf = FALSE
    BY DEF NoRow
  <2> QED
    BY <2>1 DEF Init, StoreInit, EndExplained
<1>2. TypeInv /\ EndExplained /\ [Next]_vars => EndExplained'
  <2> SUFFICES ASSUME TypeInv, EndExplained, [Next]_vars
               PROVE  EndExplained'
    OBVIOUS
  <2>1. StoreTypeOK
    BY DEF TypeInv, PipelineTypeOK
  <2>2. CASE StoreStep
    BY <2>1, <2>2, StepKeepsInv DEF StoreInv
  <2>3. CASE rows' = rows
    BY <2>3 DEF EndExplained
  <2>4. StoreStep \/ rows' = rows
    BY <2>1, NextKeeps, RowsStepIsStep DEF RowsStep, vars
  <2> QED
    BY <2>2, <2>3, <2>4
<1> QED
  BY <1>1, <1>2, TypeCorrect, PTL DEF SafeSpec

\* Only a failure of the rendering fails a job that renders as its worker's.
LEMMA RenderingFailsByEvent ==
  ASSUME TypeInv, EndExplained, [Next]_vars, NEW j \in Jobs,
         rows[j].status = "rendering", rows'[j].error = "worker"
  PROVE  \E k \in Positions(j, "failed") : Stage(stream[k]) = "RENDERING"
<1>1. StoreTypeOK /\ EventStreamTypeOK /\ ReplicasPlaced /\ AdvisoriesPlaced
  BY DEF TypeInv, PipelineTypeOK, Placed
<1>2. rows[j].error = "none" /\ rows'[j].error # rows[j].error /\ rows' # rows
  BY DEF EndExplained
<1>3. ASSUME NEW i \in Jobs, NEW guard, NEW error, FailWhere(i, guard, error)
      PROVE  i = j /\ j \in guard /\ error = "worker"
  BY <1>1, <1>2, <1>3 DEF FailWhere, StoreTypeOK, Row
<1>4. ASSUME NEW r \in Replicas, Project(r)
      PROVE  \E k \in Positions(j, "failed") : Stage(stream[k]) = "RENDERING"
  <2>1. GwApply(r) /\ Apply(Event(r))
    BY <1>2, <1>4 DEF Project, GwStep, GwFetch, GwApply, GwSettle, GwCrash
  <2>2. Event(r) \in Messages /\ Event(r).job \in Jobs /\ Event(r).event \in Events
    BY <1>1, <2>1, EventIsMessage, MessageFields DEF GwApply
  <2>3. CASE Event(r).event = "rendered"
    <3>1. MarkCompleted(Event(r).job)
      BY <2>1, <2>3 DEF Apply
    <3> QED
      BY <1>1, <1>2, <2>2, <3>1 DEF MarkCompleted, StoreTypeOK, Row
  <2>4. CASE Event(r).event = "structured"
    <3>1. MarkRendering(Event(r).job)
      BY <2>1, <2>4 DEF Apply
    <3> QED
      BY <1>1, <1>2, <2>2, <3>1 DEF MarkRendering, StoreTypeOK, Row
  <2>5. CASE Event(r).event = "failed"
    <3>1. Stage(Event(r)) = "RENDERING"
      <4>1. j \notin Pending
        BY DEF Pending
      <4>2. ~MarkFailedProcessing(Event(r).job, "worker")
        BY <1>3, <2>2, <4>1 DEF MarkFailedProcessing
      <4> QED
        BY <2>1, <2>5, <4>2 DEF Apply, Stage
    <3>2. Event(r).job = j
      BY <1>3, <2>1, <2>2, <2>5 DEF Apply, MarkFailedProcessing, MarkFailed
    <3>3. replica[r].slot \in Published
      BY <1>1, <2>1 DEF ReplicasPlaced, GwApply
    <3> QED
      BY <2>5, <3>1, <3>2, <3>3 DEF Positions, Event
  <2>6. CASE Event(r).event = "requested"
    BY <1>2, <2>1, <2>6 DEF Apply
  <2> QED
    BY <2>2, <2>3, <2>4, <2>5, <2>6 DEF Events
<1>5. ASSUME NEW a \in advisories, Poison(a)
      PROVE  FALSE
  <2>1. stream[a[2]].job \in Jobs
    BY <1>1, StreamFacts, MessageFields DEF AdvisoriesPlaced
  <2> QED
    BY <1>2, <1>3, <1>5, <2>1 DEF Poison, GwAdvisory, MarkFailed
<1>6. ASSUME NEW i \in Jobs, Submit(i)
      PROVE  FALSE
  <2>1. CASE SubmitCreate(i)
    BY <1>1, <1>2, <2>1 DEF SubmitCreate, CreateJob, StoreTypeOK, NoRow
  <2>2. CASE SubmitMarkFailed(i)
    BY <1>2, <1>3, <2>2 DEF SubmitMarkFailed, MarkFailed
  <2> QED
    BY <1>2, <1>6, <2>1, <2>2 DEF Submit, SubmitStep, SubmitCall, SubmitPutKey, SubmitPublish, SubmitCrash
<1>7. ASSUME NEW i \in Jobs, Stall(i)
      PROVE  FALSE
  BY <1>1, <1>2, <1>7 DEF Stall, GwAge, Age, StoreTypeOK, Row
<1>8. CASE Sweep
  BY <1>1, <1>2, <1>8 DEF Sweep, GwSweep, SweepStuck, StoreTypeOK, Row
<1>9. CASE Clocks
  BY <1>2, <1>9, ClocksKeep
<1>10. CASE \/ \E w \in AiWorkers : Process(w)
            \/ \E w \in CvWorkers : Render(w)
            \/ UNCHANGED vars
  BY <1>2, <1>10 DEF Process, Render, vars
<1> QED
  BY <1>4, <1>5, <1>6, <1>7, <1>8, <1>9, <1>10 DEF Next

\* A stale failure of the processing leaves a job that renders alone, however
\* late it is published, redelivered or applied, and by whichever replica.
THEOREM PipelineKeepsRendering == SafeSpec => StaleFailureKeepsRendering
<1>1. TypeInv /\ EndExplained /\ [Next]_vars
        => [\A j \in Jobs :
              rows[j].status = "rendering" /\ rows'[j].error = "worker"
                => \E k \in Positions(j, "failed") : Stage(stream[k]) = "RENDERING"]_vars
  BY RenderingFailsByEvent
<1> QED
  BY <1>1, TypeCorrect, PipelineExplains, PTL DEF SafeSpec, StaleFailureKeepsRendering
-----------------------------------------------------------------------------
(* Who settles a message. *)

\* A message is settled by the replica or the worker that has it, at the ack
\* or term it was handled to: no lapse, exhaustion or redelivery settles one.
LEMMA DoneByItsHolder ==
  ASSUME TypeInv, [Next]_vars, NEW c \in Consumers, NEW i \in Slots,
         delivery[c][i].state # "done", delivery'[c][i].state = "done"
  PROVE  \/ /\ c = "GATEWAY_EVENTS"
            /\ \E r \in Replicas : replica[r].pc = "ack" /\ replica[r].slot = i
         \/ \E w \in Workers :
              /\ c = Durable(w) /\ worker[w].slot = i
              /\ worker[w].pc = "settle" /\ worker[w].note \in {"ack", "term"}
<1> DEFINE Goal ==
      \/ /\ c = "GATEWAY_EVENTS"
         /\ \E r \in Replicas : replica[r].pc = "ack" /\ replica[r].slot = i
      \/ \E w \in Workers :
           /\ c = Durable(w) /\ worker[w].slot = i
           /\ worker[w].pc = "settle" /\ worker[w].note \in {"ack", "term"}
<1>1. /\ delivery \in [Consumers -> [Slots -> [state : DeliveryStates, count : Nat]]]
      /\ delivery' # delivery
  BY DEF TypeInv, PipelineTypeOK, EventStreamTypeOK
<1>2. ASSUME NEW d \in Consumers, NEW k \in Slots,
             Deliver(d, k) \/ Exhaust(d, k) \/ Requeue(d, k)
      PROVE  FALSE
  <2>1. /\ delivery[d][k] \in [state : DeliveryStates, count : Nat]
        /\ delivery'[c][i].state # delivery[c][i].state
    BY <1>1
  <2>2. CASE Deliver(d, k)
    BY <1>1, <2>1, <2>2 DEF Deliver
  <2>3. CASE Exhaust(d, k)
    BY <1>1, <2>1, <2>3 DEF Exhaust
  <2>4. CASE Requeue(d, k)
    BY <1>1, <2>1, <2>4 DEF Requeue
  <2> QED
    BY <1>2, <2>2, <2>3, <2>4
<1>3. ASSUME NEW d \in Consumers, NEW k \in Slots, Settle(d, k)
      PROVE  d = c /\ k = i
  BY <1>1, <1>3 DEF Settle
<1>4. Published \subseteq Slots
  BY StreamFacts DEF TypeInv, PipelineTypeOK
<1>5. ASSUME NEW w \in Workers, worker[w].pc = "settle", Dispatch(w)
      PROVE  Goal
  <2>1. worker[w].slot \in Slots /\ Durable(w) \in Consumers
    BY <1>4, <1>5, DurableIsConsumer DEF TypeInv, Placed, WorkersPlaced, WellPlaced, Holding
  <2>2. worker[w].note \in {"ack", "term"} /\ Settle(Durable(w), worker[w].slot)
    BY <1>1, <1>2, <1>5, <2>1 DEF Dispatch, streamVars
  <2> QED
    BY <1>3, <1>5, <2>1, <2>2
<1>6. ASSUME NEW w \in Workers, NEW k \in Published, NEW pc, Fetch(w, k, pc)
      PROVE  FALSE
  BY <1>2, <1>4, <1>6, DurableIsConsumer DEF Fetch
<1>7. ASSUME NEW w \in AiWorkers, Process(w)
      PROVE  Goal
  <2>1. w \in Workers
    BY DEF Workers
  <2> QED
    BY <1>1, <1>5, <1>6, <1>7, <2>1
       DEF Process, AiStep, AiFetch, AiHandler, AiResolve, AiClaim, AiBuild, AiCall, AiPublish,
           PublishWithRetry, Publish, PublishErr, AiFail, ReportFailure, AiDispatch, Dispatch,
           AiCrash, Crash, streamVars
<1>8. ASSUME NEW w \in CvWorkers, Render(w)
      PROVE  Goal
  <2>1. w \in Workers
    BY DEF Workers
  <2> QED
    BY <1>1, <1>5, <1>6, <1>8, <2>1
       DEF Render, CvStep, CvFetch, CvHandler, CvConvert, CvRender, CvPut, CvPublish,
           PublishWithRetry, Publish, PublishErr, CvFail, ReportFailure, CvDispatch, Dispatch,
           CvCrash, Crash, streamVars
<1>9. ASSUME NEW r \in Replicas, Project(r)
      PROVE  Goal
  <2>1. GwSettle(r) \/ \E k \in Published : GwFetch(r, k)
    BY <1>1, <1>9 DEF Project, GwStep, GwApply, GwCrash, streamVars
  <2>2. "GATEWAY_EVENTS" \in Consumers
    BY DEF Consumers
  <2>3. GwSettle(r) /\ replica[r].slot \in Slots
    BY <1>2, <1>4, <2>1, <2>2 DEF GwFetch, GwSettle, TypeInv, Placed, ReplicasPlaced
  <2>4. replica[r].pc = "ack" /\ Settle("GATEWAY_EVENTS", replica[r].slot)
    BY <1>1, <1>2, <2>2, <2>3 DEF GwSettle, streamVars
  <2> QED
    BY <1>3, <2>2, <2>3, <2>4
<1>10. ASSUME NEW j \in Jobs, Submit(j)
       PROVE  FALSE
  BY <1>1, <1>10
     DEF Submit, SubmitStep, SubmitCreate, SubmitCall, SubmitPutKey, SubmitPublish, Publish,
         PublishErr, SubmitMarkFailed, SubmitCrash, streamVars
<1>11. CASE \/ \E a \in advisories : Poison(a)
            \/ Sweep \/ \E j \in Jobs : Stall(j)
            \/ UNCHANGED vars
  BY <1>1, <1>11 DEF Poison, GwAdvisory, TakeAdvisory, Sweep, GwSweep, Stall, GwAge, vars, streamVars
<1>12. CASE Clocks
  BY <1>1, <1>2, <1>4, <1>12, DurableIsConsumer
     DEF Clocks, WorkerLapse, AckWaitLapse, GatewayLapse, GwAckWaitLapse, GiveUp, ForgetId, Forget,
         KeyExpires, streamVars, Consumers
<1> QED
  BY <1>7, <1>8, <1>9, <1>10, <1>11, <1>12 DEF Next

\* What a worker adds to the log is its answer to the message it holds.
LEMMA WorkerAdds ==
  ASSUME TypeInv, NEW w \in Workers,
         (w \in AiWorkers /\ AiStep(w)) \/ (w \in CvWorkers /\ CvStep(w))
  PROVE  \A i \in Published' \ Published :
           /\ i = Len(stream) + 1 /\ Holding(w) /\ Held(w).job \in Jobs
           /\ \/ /\ worker[w].pc = "publish"
                 /\ stream'[i] = Message(Held(w).job, Answer(w), worker[w].note)
              \/ /\ worker[w].pc = "fail"
                 /\ stream'[i] = Message(Held(w).job, "failed", worker[w].note)
<1> DEFINE Adds(e) ==
      \A i \in Published' \ Published :
        /\ i = Len(stream) + 1 /\ Holding(w) /\ Held(w).job \in Jobs
        /\ stream'[i] = Message(Held(w).job, e, worker[w].note)
<1>1. EventStreamTypeOK /\ WellPlaced(w)
  BY DEF TypeInv, PipelineTypeOK, Placed, WorkersPlaced
<1>2. ASSUME NEW e \in Events, worker[w].note \in Bodies[e], Holding(w),
             \/ Publish(Message(Held(w).job, e, worker[w].note))
             \/ PublishErr(Message(Held(w).job, e, worker[w].note))
      PROVE  Adds(e)
  <2> DEFINE m == Message(Held(w).job, e, worker[w].note)
  <2>1. Held(w).job \in Jobs /\ m \in Messages
    BY <1>1, <1>2, HeldIsMessage, MessageType
  <2>2. Publish(m) \/ PublishErr(m)
    BY <1>2
  <2>3. \A i \in Published' \ Published : i = Len(stream) + 1 /\ stream'[i] = m
    <3> HIDE DEF m
    <3> QED
      BY <1>1, <2>1, <2>2, PublishEffect, PublishErrEffect DEF AppendsAtMost
  <2> QED
    BY <1>2, <2>1, <2>3
<1>3. ASSUME stream' = stream
      PROVE  Published' = Published
  BY <1>3 DEF Published
<1>4. {"structured", "rendered", "failed"} \subseteq Events
  BY DEF Events
<1>5. CASE w \in AiWorkers /\ AiPublish(w)
  <2>1. Answer(w) = "structured"
    BY <1>5 DEF Answer
  <2>2. worker[w].pc = "publish" /\ Adds("structured")
    BY <1>1, <1>2, <1>4, <1>5, <2>1 DEF AiPublish, PublishWithRetry, WellPlaced, Holding
  <2> QED
    BY <2>1, <2>2
<1>6. CASE w \in CvWorkers /\ CvPublish(w)
  <2>1. Answer(w) = "rendered"
    BY <1>6, WorkersAssumption DEF Answer
  <2>2. worker[w].pc = "publish" /\ Adds("rendered")
    BY <1>1, <1>2, <1>4, <1>6, <2>1 DEF CvPublish, PublishWithRetry, WellPlaced, Holding
  <2> QED
    BY <2>1, <2>2
<1>7. CASE AiFail(w) \/ CvFail(w)
  <2>1. worker[w].pc = "fail" /\ Adds("failed")
    BY <1>1, <1>2, <1>4, <1>7 DEF AiFail, CvFail, ReportFailure, WellPlaced, Holding
  <2> QED
    BY <2>1
<1>8. CASE \/ \E i \in Published : AiFetch(w, i) \/ CvFetch(w, i)
           \/ AiResolve(w) \/ AiClaim(w) \/ AiBuild(w) \/ AiCall(w) \/ AiDispatch(w) \/ AiCrash(w)
           \/ CvConvert(w) \/ CvRender(w) \/ CvPut(w) \/ CvDispatch(w) \/ CvCrash(w)
  BY <1>3, <1>8
     DEF AiFetch, CvFetch, Fetch, Deliver, AiResolve, AiClaim, AiBuild, AiCall, AiDispatch,
         CvDispatch, Dispatch, Settle, Requeue, AiCrash, CvCrash, Crash, CvConvert, CvRender,
         CvPut, streamVars
<1> QED
  BY <1>5, <1>6, <1>7, <1>8 DEF AiStep, AiHandler, CvStep, CvHandler

-----------------------------------------------------------------------------
(* What the gateway acked. *)

\* The row of a message's job is where the message puts it, or beyond.
Reflects(row, m) ==
  /\ row.status # "absent"
  /\ m.event = "structured" => row.status # "pending"
  /\ m.event = "rendered" => row.status \in Terminal
  /\ m.event = "failed" => IF Stage(m) = "PROCESSING" THEN row.status # "pending"
                                                      ELSE row.status \in Terminal

\* A job somebody speaks of has its row: handleJobCreate inserts it first.
JobsKnown ==
  /\ \A j \in Jobs : form[j].step # "none" => rows[j].status # "absent"
  /\ \A i \in Published : rows[stream[i].job].status # "absent"

\* A replica that is about to ack has applied the event, and so had the one
\* that acked it.
AckInv ==
  /\ JobsKnown
  /\ \A r \in Replicas : replica[r].pc = "ack" => Reflects(rows[Event(r).job], Event(r))
  /\ \A i \in Slots : delivery["GATEWAY_EVENTS"][i].state = "done" =>
       i \in Published /\ Reflects(rows[stream[i].job], stream[i])

\* No step takes a row back.
LEMMA ReflectsStays ==
  ASSUME TypeInv, [Next]_vars, NEW j \in Jobs
  PROVE  /\ rows[j].status # "absent" => rows'[j].status # "absent"
         /\ \A m \in Messages : Reflects(rows[j], m) => Reflects(rows'[j], m)
<1>1. StoreTypeOK /\ rows[j] \in Row
  BY DEF TypeInv, PipelineTypeOK, StoreTypeOK
<1>2. StoreStep \/ rows' = rows
  BY <1>1, NextKeeps, RowsStepIsStep DEF RowsStep, vars
<1>3. RowStep(rows[j], rows'[j]) \/ rows'[j] = rows[j]
  BY <1>1, <1>2, StepTouchesRows
<1> QED
  BY <1>1, <1>3 DEF RowStep, Reflects, Row, Statuses, Terminal

\* handleMsg leaves the row where its event puts it, whatever it was before.
LEMMA ApplyReflects ==
  ASSUME StoreTypeOK, NEW m \in Messages, rows[m.job].status # "absent", Apply(m)
  PROVE  Reflects(rows'[m.job], m)
<1>1. m.job \in Jobs /\ m.event \in Events /\ rows[m.job] \in Row
  BY MessageFields DEF StoreTypeOK
<1>2. CASE m.event = "requested"
  <2>1. rows' = rows
    BY <1>2 DEF Apply
  <2> QED
    BY <1>2, <2>1 DEF Reflects
<1>3. CASE m.event = "structured"
  <2>1. MarkRendering(m.job)
    BY <1>3 DEF Apply
  <2> QED
    BY <1>1, <1>3, <2>1 DEF Reflects, MarkRendering, Pending, StoreTypeOK, Row
<1>4. CASE m.event = "rendered"
  <2>1. MarkCompleted(m.job)
    BY <1>4 DEF Apply
  <2> QED
    BY <1>1, <1>4, <2>1 DEF Reflects, MarkCompleted, Live, StoreTypeOK, Row, Statuses, Terminal
<1>5. CASE m.event = "failed" /\ Stage(m) = "PROCESSING"
  <2>1. MarkFailedProcessing(m.job, "worker")
    BY <1>5 DEF Apply
  <2> QED
    BY <1>1, <1>5, <2>1 DEF Reflects, MarkFailedProcessing, FailWhere, Pending, StoreTypeOK, Row
<1>6. CASE m.event = "failed" /\ Stage(m) # "PROCESSING"
  <2>1. MarkFailed(m.job, "worker")
    BY <1>6 DEF Apply
  <2> QED
    BY <1>1, <1>6, <2>1
       DEF Reflects, MarkFailed, FailWhere, Live, StoreTypeOK, Row, Statuses, Terminal
<1> QED
  BY <1>1, <1>2, <1>3, <1>4, <1>5, <1>6 DEF Events

\* A replica comes to its ack by applying the event it holds.
LEMMA AckFollowsApply ==
  ASSUME TypeInv, [Next]_vars, NEW r \in Replicas, replica'[r].pc = "ack"
  PROVE  /\ replica'[r].slot = replica[r].slot
         /\ replica[r].pc = "ack" \/ (replica[r].pc = "apply" /\ Apply(Event(r)))
<1>1. replica \in [Replicas -> Replica]
  BY DEF TypeInv, PipelineTypeOK, GatewayTypeOK
<1>2. ASSUME NEW q \in Replicas, Project(q)
      PROVE  /\ replica'[r].slot = replica[r].slot
             /\ replica[r].pc = "ack" \/ (replica[r].pc = "apply" /\ Apply(Event(r)))
  <2>1. CASE \E i \in Published : GwFetch(q, i)
    BY <1>1, <2>1 DEF GwFetch
  <2>2. CASE GwApply(q)
    <3>1. CASE ReplicaGoto(q, "ack") /\ Apply(Event(q)) /\ replica[q].pc = "apply"
      BY <1>1, <3>1 DEF ReplicaGoto, Replica
    <3>2. CASE ReplicaGoto(q, "nak")
      BY <1>1, <3>2 DEF ReplicaGoto, Replica
    <3> QED
      BY <2>2, <3>1, <3>2 DEF GwApply
  <2>3. CASE GwSettle(q) \/ GwCrash(q)
    BY <1>1, <2>3 DEF GwSettle, GwCrash, Release, Free
  <2> QED
    BY <1>2, <2>1, <2>2, <2>3 DEF Project, GwStep
<1>3. CASE replica' = replica
  BY <1>3
<1>4. CASE \/ \E j \in Jobs : Submit(j) \/ Stall(j)
           \/ \E w \in AiWorkers : Process(w)
           \/ \E w \in CvWorkers : Render(w)
           \/ \E a \in advisories : Poison(a)
           \/ Sweep \/ UNCHANGED vars
  BY <1>3, <1>4 DEF Submit, Stall, Process, Render, Poison, GwAdvisory, Sweep, GwSweep, GwAge, vars
<1> QED
  BY <1>2, <1>3, <1>4, ClocksKeep DEF Next

\* The log speaks of jobs with a row only.
LEMMA NextKnows ==
  ASSUME TypeInv, JobsKnown, [Next]_vars
  PROVE  JobsKnown'
<1>1. \A j \in Jobs : rows[j].status # "absent" => rows'[j].status # "absent"
  BY ReflectsStays
<1>2. LogGrows /\ EventStreamTypeOK /\ (\A i \in Published : stream[i].job \in Jobs)
  BY NextKeeps, SameLog, StreamFacts, MessageFields DEF TypeInv, PipelineTypeOK, vars
<1>3. ASSUME form' = form,
             \A i \in Published' :
               i \in Published \/ \E k \in Published : stream'[i].job = stream[k].job
      PROVE  JobsKnown'
  BY <1>1, <1>2, <1>3 DEF JobsKnown, LogGrows
<1>4. ASSUME NEW j \in Jobs, Submit(j)
      PROVE  JobsKnown'
  <2>1. SubmitInv /\ SubmitStep(j)
    BY <1>4 DEF Submit, SubmitInv, TypeInv, PipelineTypeOK, Placed
  <2>2. rows'[j].status # "absent"
    <3>1. CASE SubmitCreate(j)
      BY <2>1, <3>1 DEF SubmitCreate, CreateJob, NoRow, SubmitInv, StoreTypeOK
    <3>2. CASE ~SubmitCreate(j)
      <4>1. form[j].step # "none"
        BY <2>1, <3>2 DEF SubmitStep, SubmitCall, SubmitPutKey, SubmitPublish, SubmitMarkFailed,
                          SubmitCrash, At
      <4> QED
        BY <1>1, <4>1 DEF JobsKnown
    <3> QED
      BY <3>1, <3>2
  <2>3. /\ \A i \in Jobs \ {j} : form'[i] = form[i]
        /\ \A i \in Published' : i \in Published \/ stream'[i].job = j
    BY <2>1, SubmitTouches
  <2> QED
    BY <1>1, <1>2, <2>2, <2>3 DEF JobsKnown, LogGrows
<1>5. ASSUME NEW w \in Workers, (w \in AiWorkers /\ AiStep(w)) \/ (w \in CvWorkers /\ CvStep(w)),
             form' = form
      PROVE  JobsKnown'
  <2>1. \A i \in Published' :
          i \in Published \/ (Holding(w) /\ stream'[i].job = stream[worker[w].slot].job)
    BY <1>5, WorkerAdds, MessageParts DEF Held
  <2>2. Holding(w) => worker[w].slot \in Published
    BY DEF TypeInv, Placed, WorkersPlaced, WellPlaced
  <2> QED
    BY <1>3, <1>5, <2>1, <2>2
<1>6. CASE \E w \in AiWorkers : Process(w)
  BY <1>5, <1>6 DEF Process, Workers
<1>7. CASE \E w \in CvWorkers : Render(w)
  BY <1>5, <1>7 DEF Render, Workers
<1>8. ASSUME stream' = stream, form' = form
      PROVE  JobsKnown'
  BY <1>3, <1>8 DEF Published
<1>9. CASE \/ \E r \in Replicas : Project(r)
           \/ \E a \in advisories : Poison(a)
           \/ Sweep \/ \E j \in Jobs : Stall(j)
  <2>1. stream' = stream
    BY <1>9, ProjectKeeps, PoisonKeeps, TickKeeps
       DEF Project, Poison, Sweep, Stall, GatewayKept, GatewayInv, TypeInv, PipelineTypeOK, Placed
  <2> QED
    BY <1>8, <1>9, <2>1 DEF Project, Poison, Sweep, Stall
<1>10. CASE Clocks
  BY <1>8, <1>10, ClocksKeep
<1>11. CASE UNCHANGED vars
  BY <1>8, <1>11 DEF vars
<1> QED
  BY <1>4, <1>6, <1>7, <1>9, <1>10, <1>11 DEF Next

\* What a replica acked stays applied.
LEMMA NextAcks ==
  ASSUME TypeInv, AckInv, [Next]_vars
  PROVE  AckInv'
<1>1. LogGrows /\ Published \subseteq Slots /\ \A i \in Published : stream[i] \in Messages
  BY NextKeeps, SameLog, StreamFacts DEF TypeInv, PipelineTypeOK, vars
<1>2. ASSUME NEW i \in Published, Reflects(rows[stream[i].job], stream[i])
      PROVE  i \in Published' /\ Reflects(rows'[stream'[i].job], stream'[i])
  <2>1. stream[i] \in Messages /\ stream[i].job \in Jobs /\ i \in Published' /\ stream'[i] = stream[i]
    BY <1>1, MessageFields DEF LogGrows
  <2> QED
    BY <1>2, <2>1, ReflectsStays
<1>3. ASSUME NEW r \in Replicas, replica'[r].pc = "ack"
      PROVE  Reflects(rows'[Event(r)'.job], Event(r)')
  <2>1. /\ replica'[r].slot = replica[r].slot
        /\ replica[r].pc = "ack" \/ (replica[r].pc = "apply" /\ Apply(Event(r)))
    BY <1>3, AckFollowsApply
  <2>2. replica[r].slot \in Published
    BY <2>1 DEF TypeInv, Placed, ReplicasPlaced
  <2>3. Event(r)' = Event(r) /\ Event(r) \in Messages /\ Event(r).job \in Jobs
    BY <1>1, <2>1, <2>2, MessageFields DEF Event, LogGrows
  <2>4. CASE replica[r].pc = "ack"
    BY <2>3, <2>4, ReflectsStays DEF AckInv
  <2>5. CASE Apply(Event(r))
    <3>1. StoreTypeOK /\ rows[Event(r).job].status # "absent"
      BY <2>2 DEF TypeInv, PipelineTypeOK, AckInv, JobsKnown, Event
    <3> QED
      BY <2>3, <2>5, <3>1, ApplyReflects
  <2> QED
    BY <2>1, <2>4, <2>5
<1>4. ASSUME NEW i \in Slots, delivery'["GATEWAY_EVENTS"][i].state = "done"
      PROVE  i \in Published' /\ Reflects(rows'[stream'[i].job], stream'[i])
  <2>1. CASE delivery["GATEWAY_EVENTS"][i].state = "done"
    BY <1>2, <2>1 DEF AckInv
  <2>2. CASE delivery["GATEWAY_EVENTS"][i].state # "done"
    <3>1. PICK r \in Replicas : replica[r].pc = "ack" /\ replica[r].slot = i
      BY <1>4, <2>2, DoneByItsHolder DEF Consumers, Durable
    <3>2. i \in Published
      BY <3>1 DEF TypeInv, Placed, ReplicasPlaced
    <3> QED
      BY <1>2, <3>1, <3>2 DEF AckInv, Event
  <2> QED
    BY <2>1, <2>2
<1> QED
  BY <1>3, <1>4, NextKnows DEF AckInv

\* Nothing is acked at first.
LEMMA InitAcks ==
  ASSUME Init
  PROVE  AckInv
<1>1. Published = {} /\ \A r \in Replicas : replica[r].pc = "idle"
  BY DEF Init, EventStreamInit, Published, GatewayInit, Free
<1>2. \A i \in Slots : delivery["GATEWAY_EVENTS"][i].state = "ready"
  BY DEF Init, EventStreamInit, Consumers
<1>3. \A j \in Jobs : form[j].step = "none"
  BY DEF Init, SubmissionInit
<1> QED
  BY <1>1, <1>2, <1>3 DEF AckInv, JobsKnown

\* An event the gateway acked is reflected by the table from then on, however
\* the replicas overtake one another and whatever moved the row meanwhile.
THEOREM PipelineAckedIsApplied == SafeSpec => []AckedIsApplied
<1>1. Init => AckInv
  BY InitAcks
<1>2. TypeInv /\ AckInv /\ [Next]_vars => AckInv'
  BY NextAcks
<1>3. TypeInv /\ AckInv => AckedIsApplied
  <2> SUFFICES ASSUME TypeInv, AckInv, NEW i \in Published,
                      delivery["GATEWAY_EVENTS"][i].state = "done"
               PROVE  LET row == rows[stream[i].job]
                      IN CASE stream[i].event = "requested"  -> row.status # "absent"
                           [] stream[i].event = "structured" -> row.status # "pending"
                           [] stream[i].event = "rendered"   -> row.status \in Terminal
                           [] stream[i].event = "failed"     -> IF Stage(stream[i]) = "PROCESSING"
                                                                THEN row.status # "pending"
                                                                ELSE row.status \in Terminal
    BY DEF AckedIsApplied
  <2> DEFINE m == stream[i]
  <2>1. Reflects(rows[m.job], m) /\ m.event \in Events
    BY StreamFacts, MessageFields DEF AckInv, TypeInv, PipelineTypeOK
  <2>2. CASE m.event = "requested"
    BY <2>1, <2>2 DEF Reflects
  <2>3. CASE m.event = "structured"
    BY <2>1, <2>3 DEF Reflects
  <2>4. CASE m.event = "rendered"
    BY <2>1, <2>4 DEF Reflects
  <2>5. CASE m.event = "failed"
    BY <2>1, <2>5 DEF Reflects
  <2> QED
    BY <2>1, <2>2, <2>3, <2>4, <2>5 DEF Events
<1> QED
  BY <1>1, <1>2, <1>3, TypeCorrect, PTL DEF SafeSpec

-----------------------------------------------------------------------------
(* What a settled message left behind. *)

\* An event stays in a log that grows.
LEMMA InStreamStays ==
  ASSUME LogGrows, NEW j, NEW e, InStream(j, e)
  PROVE  InStream(j, e)'
BY DEF LogGrows, InStream

\* A publish the server took leaves its event in the log: appended now, or
\* there before, which is why its id was in the window.
LEMMA PublishLeaves ==
  ASSUME EventStreamTypeOK, WindowInLog, NEW m \in Messages, Publish(m)
  PROVE  WindowInLog' /\ InStream(m.job, m.event)'
<1>1. LogGrows /\ Len(stream) \in Nat
  BY PublishEffect, StreamFacts DEF AppendsAtMost
<1>2. CASE MsgID(m) \in window /\ UNCHANGED <<stream, window>>
  <2>1. InStream(m.job, m.event)
    BY <1>2 DEF WindowInLog, MsgID
  <2> QED
    BY <1>1, <1>2, <2>1, InStreamStays DEF WindowInLog
<1>3. CASE stream' = Append(stream, m) /\ window' = window \cup {MsgID(m)}
  <2>1. /\ Len(stream) + 1 \in 1 .. (Len(stream) + 1)
        /\ Len(stream') = Len(stream) + 1 /\ stream'[Len(stream) + 1] = m
    BY <1>1, <1>3 DEF EventStreamTypeOK
  <2>2. InStream(m.job, m.event)'
    BY <2>1 DEF InStream, Published
  <2>3. ASSUME NEW id \in window'
        PROVE  InStream(id[1], id[2])'
    <3>1. CASE id \in window
      BY <1>1, <3>1, InStreamStays DEF WindowInLog
    <3>2. CASE id = MsgID(m)
      BY <2>2, <3>2 DEF MsgID
    <3> QED
      BY <1>3, <2>3, <3>1, <3>2
  <2> QED
    BY <2>2, <2>3 DEF WindowInLog
<1> QED
  BY <1>2, <1>3 DEF Publish

\* An error of the publish leaves the window honest.
LEMMA PublishErrLeaves ==
  ASSUME EventStreamTypeOK, WindowInLog, NEW m \in Messages, PublishErr(m)
  PROVE  WindowInLog'
<1>1. CASE UNCHANGED streamVars
  BY <1>1 DEF streamVars, WindowInLog, InStream, Published
<1> QED
  BY <1>1, PublishLeaves DEF PublishErr

\* How the steps of the loop move a worker; the others stay where they are.
LEMMA GotoMoves ==
  ASSUME PullLoopTypeOK, NEW w \in Workers, NEW pc, NEW note, Goto(w, pc, note)
  PROVE  /\ worker'[w].pc = pc /\ worker'[w].note = note
         /\ worker'[w].tries = 0 /\ worker'[w].slot = worker[w].slot
         /\ \A v \in Workers \ {w} : worker'[v] = worker[v]
BY DEF PullLoopTypeOK, Worker, Goto

\* A worker that lets its message go is idle.
LEMMA AbandonMoves ==
  ASSUME PullLoopTypeOK, NEW w \in Workers, Abandon(w)
  PROVE  /\ worker'[w].pc = "idle"
         /\ \A v \in Workers \ {w} : worker'[v] = worker[v]
BY DEF PullLoopTypeOK, Abandon, Idle

\* A fetch gives a worker its message.
LEMMA FetchMoves ==
  ASSUME PullLoopTypeOK, NEW w \in Workers, NEW i, NEW pc, Fetch(w, i, pc)
  PROVE  /\ worker'[w].pc = pc /\ worker'[w].slot = i
         /\ \A v \in Workers \ {w} : worker'[v] = worker[v]
BY DEF PullLoopTypeOK, Fetch, Idle

\* An attempt to publish is counted.
LEMMA RetryMoves ==
  ASSUME PullLoopTypeOK, NEW w \in Workers, worker' = [worker EXCEPT ![w].tries = @ + 1]
  PROVE  /\ worker'[w].pc = worker[w].pc /\ worker'[w].slot = worker[w].slot
         /\ worker'[w].note = worker[w].note /\ worker'[w].tries = worker[w].tries + 1
         /\ \A v \in Workers \ {w} : worker'[v] = worker[v]
<1>1. worker[w] \in Worker /\ worker'[w] = [worker[w] EXCEPT !.tries = worker[w].tries + 1]
  BY DEF PullLoopTypeOK
<1> QED
  BY <1>1 DEF PullLoopTypeOK, Worker

\* A job has the answer its consumer owes it.
Answered(j, e) == InStream(j, e) \/ InStream(j, "failed")

Replies == [AI_PROCESSOR |-> "structured", CV_GENERATOR |-> "rendered"]

\* A worker about to ack or term has published, and so had the one that did;
\* what the window remembers is in the log, so that a publish that was
\* swallowed as a duplicate counts too.
AnswerInv ==
  /\ WindowInLog
  /\ \A w \in Workers :
       worker[w].pc = "settle" /\ worker[w].note \in {"ack", "term"}
         => Answered(Held(w).job, Answer(w))
  /\ \A c \in {"AI_PROCESSOR", "CV_GENERATOR"}, i \in Slots :
       delivery[c][i].state = "done" => i \in Published /\ Answered(stream[i].job, Replies[c])

\* A handler returns, or raises TerminalError, only with its event in the log.
LEMMA AnswerBeforeSettle ==
  ASSUME TypeInv, WindowInLog, NEW w \in Workers,
         (w \in AiWorkers /\ AiStep(w)) \/ (w \in CvWorkers /\ CvStep(w))
  PROVE  /\ WindowInLog'
         /\ \A v \in Workers \ {w} : worker'[v] = worker[v]
         /\ worker'[w].pc = "settle" /\ worker'[w].note \in {"ack", "term"} =>
              /\ Holding(w) /\ worker'[w].slot = worker[w].slot
              /\ Answered(Held(w).job, Answer(w))'
<1> DEFINE Goal ==
      /\ WindowInLog'
      /\ \A v \in Workers \ {w} : worker'[v] = worker[v]
      /\ worker'[w].pc = "settle" /\ worker'[w].note \in {"ack", "term"} =>
           /\ Holding(w) /\ worker'[w].slot = worker[w].slot
           /\ Answered(Held(w).job, Answer(w))'
<1>1. EventStreamTypeOK /\ PullLoopTypeOK /\ WellPlaced(w)
  BY DEF TypeInv, PipelineTypeOK, Placed, WorkersPlaced
<1>2. ASSUME stream' = stream, window' = window,
             \/ \E pc, note : (pc # "settle" \/ note = "nak") /\ Goto(w, pc, note)
             \/ Abandon(w)
             \/ \E i, pc : pc # "settle" /\ Fetch(w, i, pc)
      PROVE  Goal
  <2>1. WindowInLog'
    BY <1>2 DEF WindowInLog, InStream, Published
  <2> QED
    BY <1>1, <1>2, <2>1, GotoMoves, AbandonMoves, FetchMoves
<1>3. Holding(w) => LogGrows /\ worker[w].slot \in Published
  BY NextKeeps, AiKeeps, CvKeeps
     DEF TypeInv, PipelineTypeOK, Placed, LoopInv, LoopKept, WorkersPlaced, WellPlaced
<1>4. ASSUME NEW e \in Events, worker[w].note \in Bodies[e], Holding(w),
             e \in {Answer(w), "failed"}, NEW outcome \in {"ack", "term"}, NEW m \in Messages,
             m = Message(Held(w).job, e, worker[w].note),
             \/ Publish(m) /\ Finish(w, outcome)
             \/ PublishErr(m) /\ Finish(w, "nak")
             \/ PublishErr(m) /\ worker[w].pc # "settle" /\ worker' = [worker EXCEPT ![w].tries = @ + 1]
      PROVE  Goal
  <2>1. CASE Publish(m) /\ Finish(w, outcome)
    <3>1. WindowInLog' /\ InStream(m.job, m.event)'
      BY <1>1, <2>1, PublishLeaves
    <3>2. worker'[w].slot = worker[w].slot /\ \A v \in Workers \ {w} : worker'[v] = worker[v]
      BY <1>1, <2>1, GotoMoves DEF Finish
    <3>3. m.job = Held(w).job /\ m.event = e
      BY <1>4 DEF Message
    <3>4. Held(w)' = Held(w)
      BY <1>3, <1>4, <3>2 DEF Held, LogGrows
    <3>5. Answered(Held(w).job, Answer(w))'
      BY <1>4, <3>1, <3>3, <3>4 DEF Answered
    <3> QED
      BY <1>4, <3>1, <3>2, <3>5
  <2>2. CASE PublishErr(m) /\ Finish(w, "nak")
    BY <1>1, <2>2, PublishErrLeaves, GotoMoves DEF Finish
  <2>3. CASE PublishErr(m) /\ worker[w].pc # "settle" /\ worker' = [worker EXCEPT ![w].tries = @ + 1]
    BY <1>1, <2>3, PublishErrLeaves, RetryMoves
  <2> QED
    BY <1>4, <2>1, <2>2, <2>3
<1>5. ASSUME NEW e \in Events, worker[w].note \in Bodies[e], Holding(w)
      PROVE  Message(Held(w).job, e, worker[w].note) \in Messages
  BY <1>1, <1>5, HeldIsMessage, MessageType
<1>6. {"structured", "rendered", "failed"} \subseteq Events
  BY DEF Events
<1>7. CASE w \in AiWorkers /\ AiPublish(w)
  <2>1. PublishWithRetry(w, Message(Held(w).job, "structured", worker[w].note))
    BY <1>7 DEF AiPublish
  <2>2. worker[w].note \in Bodies["structured"] /\ Holding(w) /\ worker[w].pc # "settle" /\ Answer(w) = "structured"
    BY <1>1, <1>7, <2>1 DEF PublishWithRetry, WellPlaced, Holding, Answer
  <2> QED
    BY <1>4, <1>5, <1>6, <2>1, <2>2 DEF PublishWithRetry
<1>8. CASE w \in CvWorkers /\ CvPublish(w)
  <2>1. PublishWithRetry(w, Message(Held(w).job, "rendered", worker[w].note))
    BY <1>8 DEF CvPublish
  <2>2. worker[w].note \in Bodies["rendered"] /\ Holding(w) /\ worker[w].pc # "settle" /\ Answer(w) = "rendered"
    BY <1>1, <1>8, <2>1, WorkersAssumption DEF PublishWithRetry, WellPlaced, Holding, Answer
  <2> QED
    BY <1>4, <1>5, <1>6, <2>1, <2>2 DEF PublishWithRetry
<1>9. CASE AiFail(w) \/ CvFail(w)
  <2>1. ReportFailure(w, Message(Held(w).job, "failed", worker[w].note))
    BY <1>9 DEF AiFail, CvFail
  <2>2. worker[w].note \in Bodies["failed"] /\ Holding(w)
    BY <1>1, <2>1 DEF ReportFailure, WellPlaced, Holding
  <2> QED
    BY <1>4, <1>5, <1>6, <2>1, <2>2 DEF ReportFailure
<1>10. CASE \E i \in Published : AiFetch(w, i) \/ CvFetch(w, i)
  <2>1. PICK i, pc : pc # "settle" /\ Fetch(w, i, pc)
    BY <1>10 DEF AiFetch, CvFetch
  <2>2. stream' = stream /\ window' = window
    BY <2>1 DEF Fetch, Deliver
  <2> QED
    BY <1>2, <2>1, <2>2
<1>11. CASE AiResolve(w) \/ AiClaim(w) \/ AiBuild(w) \/ AiCall(w) \/ CvConvert(w) \/ CvRender(w) \/ CvPut(w)
  <2>1. stream' = stream /\ window' = window
    BY <1>11 DEF AiResolve, AiClaim, AiBuild, AiCall, CvConvert, CvRender, CvPut, streamVars
  <2>2. \E pc, note : (pc # "settle" \/ note = "nak") /\ Goto(w, pc, note)
    BY <1>11 DEF AiResolve, AiClaim, AiBuild, AiCall, CvConvert, CvRender, CvPut, Finish
  <2> QED
    BY <1>2, <2>1, <2>2
<1>12. CASE AiDispatch(w) \/ CvDispatch(w) \/ AiCrash(w) \/ CvCrash(w)
  <2>1. stream' = stream /\ window' = window /\ Abandon(w)
    BY <1>12 DEF AiDispatch, CvDispatch, Dispatch, Settle, Requeue, AiCrash, CvCrash, Crash, streamVars
  <2> QED
    BY <1>2, <2>1
<1> QED
  BY <1>7, <1>8, <1>9, <1>10, <1>11, <1>12 DEF AiStep, AiHandler, CvStep, CvHandler

\* The other components leave the window honest: it forgets, or grows by what
\* a submission published.
LEMMA NextWindow ==
  ASSUME TypeInv, WindowInLog, [Next]_vars
  PROVE  WindowInLog'
<1>1. EventStreamTypeOK
  BY DEF TypeInv, PipelineTypeOK
<1>2. ASSUME stream' = stream, window' \subseteq window
      PROVE  WindowInLog'
  BY <1>2 DEF WindowInLog, InStream, Published
<1>3. ASSUME NEW j \in Jobs, Submit(j)
      PROVE  WindowInLog'
  <2>1. CASE SubmitPublish(j)
    <3> DEFINE m == Message(j, "requested", form[j].request)
    <3>1. m \in Messages
      BY <2>1, MessageType DEF SubmitPublish, At, TypeInv, Placed, FormsPlaced, Events
    <3>2. Publish(m) \/ PublishErr(m)
      BY <2>1 DEF SubmitPublish
    <3> QED
      BY <1>1, <3>1, <3>2, PublishLeaves, PublishErrLeaves
  <2> QED
    BY <1>2, <1>3, <2>1
       DEF Submit, SubmitStep, SubmitCreate, SubmitCall, SubmitPutKey, SubmitMarkFailed,
           SubmitCrash, streamVars
<1>4. CASE (\E w \in AiWorkers : Process(w)) \/ (\E w \in CvWorkers : Render(w))
  BY <1>4, AnswerBeforeSettle DEF Process, Render, Workers
<1>5. ASSUME NEW r \in Replicas, Project(r)
      PROVE  WindowInLog'
  BY <1>2, <1>5 DEF Project, GwStep, GwFetch, Deliver, GwApply, GwSettle, Settle, Requeue, GwCrash,
       streamVars
<1>6. CASE \/ \E a \in advisories : Poison(a)
           \/ Sweep \/ \E j \in Jobs : Stall(j)
           \/ UNCHANGED vars
  BY <1>2, <1>6 DEF Poison, GwAdvisory, TakeAdvisory, Sweep, GwSweep, Stall, GwAge, vars, streamVars
<1>7. CASE Clocks
  BY <1>2, <1>7 DEF Clocks, WorkerLapse, AckWaitLapse, GatewayLapse, GwAckWaitLapse, Requeue, GiveUp,
       Exhaust, ForgetId, Forget, KeyExpires, streamVars
<1> QED
  BY <1>3, <1>4, <1>5, <1>6, <1>7 DEF Next

\* No other component moves a worker.
LEMMA OthersLeaveWorkers ==
  ASSUME [Next]_vars,
         ~\E w \in AiWorkers : Process(w), ~\E w \in CvWorkers : Render(w)
  PROVE  worker' = worker
BY DEF Next, Submit, Stall, Project, Poison, Sweep, Clocks, WorkerLapse, AckWaitLapse, GatewayLapse,
       GiveUp, ForgetId, KeyExpires, vars

\* What a worker settled stays answered.
LEMMA NextAnswers ==
  ASSUME TypeInv, AnswerInv, [Next]_vars
  PROVE  AnswerInv'
<1>1. LogGrows
  BY NextKeeps, SameLog DEF TypeInv, PipelineTypeOK, vars
<1>2. ASSUME NEW j, NEW e, Answered(j, e)
      PROVE  Answered(j, e)'
  BY <1>1, <1>2, InStreamStays DEF Answered
<1>3. ASSUME NEW w \in Workers, worker'[w] = worker[w],
             worker[w].pc = "settle", worker[w].note \in {"ack", "term"}
      PROVE  Answered(Held(w).job, Answer(w))'
  <2>1. worker[w].slot \in Published
    BY <1>3 DEF TypeInv, Placed, WorkersPlaced, WellPlaced, Holding
  <2>2. Held(w)' = Held(w)
    BY <1>1, <1>3, <2>1 DEF Held, LogGrows
  <2> QED
    BY <1>2, <1>3, <2>2 DEF AnswerInv
<1>4. ASSUME NEW w \in Workers, worker'[w].pc = "settle", worker'[w].note \in {"ack", "term"}
      PROVE  Answered(Held(w).job, Answer(w))'
  <2>1. ASSUME NEW v \in Workers, (v \in AiWorkers /\ AiStep(v)) \/ (v \in CvWorkers /\ CvStep(v))
        PROVE  Answered(Held(w).job, Answer(w))'
    BY <1>3, <1>4, <2>1, AnswerBeforeSettle DEF AnswerInv
  <2>2. CASE \E v \in AiWorkers : Process(v)
    BY <2>1, <2>2 DEF Process, Workers
  <2>3. CASE \E v \in CvWorkers : Render(v)
    BY <2>1, <2>3 DEF Render, Workers
  <2> QED
    BY <1>3, <1>4, <2>2, <2>3, OthersLeaveWorkers
<1>5. ASSUME NEW c \in {"AI_PROCESSOR", "CV_GENERATOR"}, NEW i \in Slots,
             delivery'[c][i].state = "done"
      PROVE  i \in Published' /\ Answered(stream[i].job, Replies[c])'
  <2>1. i \in Published /\ Answered(stream[i].job, Replies[c])
    <3>1. CASE delivery[c][i].state = "done"
      BY <3>1 DEF AnswerInv
    <3>2. CASE delivery[c][i].state # "done"
      <4>1. PICK w \in Workers :
              /\ c = Durable(w) /\ worker[w].slot = i
              /\ worker[w].pc = "settle" /\ worker[w].note \in {"ack", "term"}
        BY <1>5, <3>2, DoneByItsHolder DEF Consumers
      <4>2. i \in Published
        BY <4>1 DEF TypeInv, Placed, WorkersPlaced, WellPlaced, Holding
      <4>3. Answer(w) = Replies[c]
        BY <4>1 DEF Answer, Durable, Replies
      <4> QED
        BY <4>1, <4>2, <4>3 DEF AnswerInv, Held
    <3> QED
      BY <3>1, <3>2
  <2>2. i \in Published' /\ stream'[i] = stream[i]
    BY <1>1, <2>1 DEF LogGrows
  <2> QED
    BY <1>2, <2>1, <2>2
<1> QED
  BY <1>4, <1>5, NextWindow DEF AnswerInv

\* No ack or term ever loses a job: a message its worker settled has its
\* answer in the log, whatever crashed, lapsed, was redelivered or was
\* swallowed as a duplicate on the way.
THEOREM PipelineSettledIsAnswered == SafeSpec => []SettledIsAnswered
<1>1. Init => AnswerInv
  <2> SUFFICES ASSUME Init PROVE AnswerInv
    OBVIOUS
  <2>1. \A w \in Workers : worker[w].pc = "idle"
    BY DEF Init, PullLoopInit, Idle
  <2>2. \A c \in Consumers, i \in Slots : delivery[c][i].state = "ready"
    BY DEF Init, EventStreamInit
  <2>3. window = {}
    BY DEF Init, EventStreamInit
  <2> QED
    BY <2>1, <2>2, <2>3 DEF AnswerInv, WindowInLog, Consumers
<1>2. TypeInv /\ AnswerInv /\ [Next]_vars => AnswerInv'
  BY NextAnswers
<1>3. TypeInv /\ AnswerInv => SettledIsAnswered
  BY StreamFacts DEF AnswerInv, SettledIsAnswered, Answered, Replies, TypeInv, PipelineTypeOK
<1> QED
  BY <1>1, <1>2, <1>3, TypeCorrect, PTL DEF SafeSpec
-----------------------------------------------------------------------------
(* The service: what JobService promises of rows, events and PDFs. *)

\* What a worker holds is what its consumer lets through.
LEMMA HeldEvent ==
  ASSUME TypeInv, NEW w \in Workers, Holding(w)
  PROVE  /\ worker[w].slot \in Published
         /\ w \in AiWorkers => Held(w).event = "requested" /\ Answer(w) = "structured"
         /\ w \in CvWorkers => Held(w).event = "structured" /\ Answer(w) = "rendered"
<1>1. WellPlaced(w)
  BY DEF TypeInv, Placed, WorkersPlaced
<1> QED
  BY <1>1, WorkersAssumption DEF WellPlaced, Durable, FilterSubjects, Answer

\* A log that is as it was has the events it had.
LEMMA MadeStays ==
  ASSUME stream' = stream
  PROVE  eventsMade' = eventsMade
BY DEF eventsMade, Published

\* What is new in the log, when it is one event of one job.
LEMMA MadeGrows ==
  ASSUME LogGrows, NEW j \in Jobs, NEW e,
         \A i \in Published' \ Published : stream'[i].job = j /\ stream'[i].event = e
  PROVE  eventsMade' = eventsMade \/ eventsMade' = [eventsMade EXCEPT ![j] = @ \cup {e}]
<1>1. \A i \in Published : i \in Published' /\ stream'[i] = stream[i]
  BY DEF LogGrows
<1>2. /\ eventsMade = [k \in Jobs |-> eventsMade[k]]
      /\ eventsMade' = [k \in Jobs |-> eventsMade'[k]]
  BY DEF eventsMade
<1>3. \A k \in Jobs : \A x :
        /\ x \in eventsMade[k] <=> \E i \in Published : stream[i].job = k /\ stream[i].event = x
        /\ x \in eventsMade'[k] <=> \E i \in Published' : stream'[i].job = k /\ stream'[i].event = x
  BY DEF eventsMade
<1>4. ASSUME NEW k \in Jobs, k # j \/ Published' \subseteq Published
      PROVE  eventsMade'[k] = eventsMade[k]
  <2>1. \A x : x \in eventsMade'[k] <=> x \in eventsMade[k]
    BY <1>1, <1>3, <1>4
  <2> QED
    BY <2>1
<1>5. CASE Published' \subseteq Published
  BY <1>2, <1>4, <1>5
<1>6. CASE ~(Published' \subseteq Published)
  <2>1. PICK i \in Published' : i \notin Published
    BY <1>6
  <2>2. \A x : x \in eventsMade'[j] <=> x \in eventsMade[j] \/ x = e
    BY <1>1, <1>3, <2>1
  <2>3. eventsMade'[j] = eventsMade[j] \cup {e}
    BY <2>2
  <2>4. \A k \in Jobs \ {j} : eventsMade'[k] = eventsMade[k]
    BY <1>4
  <2> QED
    BY <1>2, <2>3, <2>4
<1> QED
  BY <1>5, <1>6

\* An event is made when the log has it.
LEMMA MadeInStream ==
  ASSUME NEW j \in Jobs, NEW e
  PROVE  e \in eventsMade[j] <=> InStream(j, e)
BY DEF eventsMade, InStream

\* A step of the table is one of the service.
LEMMA RowsServe ==
  ASSUME TypeInv, [Next]_vars, stream' = stream, objects' = objects
  PROVE  [Service!Next]_(Service!vars)
<1>1. UNCHANGED <<eventsMade, objects>>
  BY MadeStays
<1>2. statusColumn = [j \in Jobs |-> rows[j].status] /\ statusColumn' = [j \in Jobs |-> rows'[j].status]
  BY DEF statusColumn
<1>3. ASSUME NEW j \in Jobs, Lifecycle!Create(j)
      PROVE  Service!Create(j)
  BY <1>1, <1>3 DEF Lifecycle!Create, Service!Create, Service!Show
<1>4. ASSUME NEW j \in Jobs, Lifecycle!Progress(j)
      PROVE  Service!Progress(j)
  <2>1. rows'[j].status = "rendering" /\ rows[j].status = "pending"
    BY <1>2, <1>4 DEF Lifecycle!Progress
  <2>2. "structured" \in eventsMade[j]
    BY <2>1, ShownByEvent, MadeInStream
  <2> QED
    BY <1>1, <1>4, <2>2 DEF Lifecycle!Progress, Service!Progress, Service!Show
<1>5. ASSUME NEW j \in Jobs, Lifecycle!End(j)
      PROVE  Service!Complete(j) \/ Service!Fail({j})
  <2>1. PICK p \in {"completed", "failed"} : statusColumn' = [statusColumn EXCEPT ![j] = p]
    BY <1>5 DEF Lifecycle!End
  <2>2. Service!Live(j)
    BY <1>5 DEF Lifecycle!End, Service!Live
  <2>3. CASE p = "completed"
    <3>1. rows'[j].status = "completed" /\ rows[j].status # "completed"
      BY <1>2, <2>1, <2>2, <2>3 DEF Service!Live
    <3>2. "rendered" \in eventsMade[j]
      BY <3>1, ShownByEvent, MadeInStream
    <3> QED
      BY <1>1, <2>1, <2>2, <2>3, <3>2 DEF Service!Complete, Service!Show
  <2>4. CASE p = "failed"
    <3>1. statusColumn' = [k \in Jobs |-> IF k \in {j} THEN "failed" ELSE statusColumn[k]]
      BY <1>2, <2>1, <2>4
    <3> QED
      BY <1>1, <2>2, <3>1 DEF Service!Fail
  <2> QED
    BY <2>3, <2>4
<1>6. ASSUME NEW S \in SUBSET Jobs, Lifecycle!FailAll(S)
      PROVE  Service!Fail(S)
  BY <1>1, <1>6 DEF Lifecycle!FailAll, Service!Fail, Service!Live
<1>7. CASE Lifecycle!Next
  <2>1. CASE \E j \in Jobs : Lifecycle!Create(j) \/ Lifecycle!Progress(j) \/ Lifecycle!End(j)
    <3>1. PICK j \in Jobs : Lifecycle!Create(j) \/ Lifecycle!Progress(j) \/ Lifecycle!End(j)
      BY <2>1
    <3>2. {j} \in SUBSET Jobs
      OBVIOUS
    <3> QED
      BY <1>3, <1>4, <1>5, <3>1, <3>2 DEF Service!Next
  <2>2. CASE \E S \in SUBSET Jobs : Lifecycle!FailAll(S)
    BY <1>6, <2>2 DEF Service!Next
  <2> QED
    BY <1>7, <2>1, <2>2 DEF Lifecycle!Next
<1>8. CASE statusColumn' = statusColumn
  BY <1>1, <1>8 DEF Service!vars
<1> QED
  BY <1>7, <1>8, TableSteps
\* A worker answers what it holds, and announces a PDF it stored.
LEMMA WorkerServes ==
  ASSUME TypeInv, Stored, NEW w \in Workers, UNCHANGED rows,
         \/ w \in AiWorkers /\ AiStep(w) /\ UNCHANGED objects
         \/ w \in CvWorkers /\ CvStep(w)
  PROVE  [Service!Next]_(Service!vars)
<1>1. EventStreamTypeOK /\ PullLoopTypeOK /\ WellPlaced(w) /\ LogGrows
  <2>1. w \in AiWorkers /\ AiStep(w) => LogGrows
    BY AiKeeps DEF LoopInv, LoopKept, TypeInv, PipelineTypeOK, Placed
  <2>2. w \in CvWorkers /\ CvStep(w) => LogGrows
    BY CvKeeps DEF LoopInv, LoopKept, TypeInv, PipelineTypeOK, Placed
  <2> QED
    BY <2>1, <2>2 DEF TypeInv, PipelineTypeOK, Placed, WorkersPlaced
<1>2. statusColumn' = statusColumn
  BY DEF statusColumn
<1>3. ASSUME Holding(w)
      PROVE  /\ Held(w).job \in Jobs
             /\ w \in AiWorkers => "requested" \in eventsMade[Held(w).job]
             /\ w \in CvWorkers => "structured" \in eventsMade[Held(w).job]
  <2>1. Held(w).job \in Jobs /\ InStream(Held(w).job, Held(w).event)
    BY <1>1, <1>3, HeldIsMessage, HeldEvent DEF InStream, Held
  <2> QED
    BY <1>3, <2>1, HeldEvent, MadeInStream
<1>4. CASE Published' \subseteq Published
  <2>1. eventsMade' = eventsMade
    <3>1. Published' = Published /\ \A i \in Published : stream'[i] = stream[i]
      BY <1>1, <1>4 DEF LogGrows
    <3> QED
      BY <3>1 DEF eventsMade
  <2>2. CASE objects' = objects
    BY <1>2, <2>1, <2>2 DEF Service!vars
  <2>3. CASE w \in CvWorkers /\ CvPut(w) /\ objects' = objects \cup {Held(w).job}
    <3>1. Holding(w)
      BY <2>3 DEF CvPut, Holding
    <3>2. Service!Store(Held(w).job)
      BY <1>2, <1>3, <2>1, <2>3, <3>1 DEF Service!Store
    <3> QED
      BY <1>3, <3>1, <3>2 DEF Service!Next
  <2> QED
    BY <2>2, <2>3 DEF CvStep, CvFetch, CvHandler, CvConvert, CvRender, CvPut, CvPublish, CvFail,
                      CvDispatch, CvCrash
<1>5. CASE ~(Published' \subseteq Published)
  <2> DEFINE j == Held(w).job
             e == IF worker[w].pc = "fail" THEN "failed" ELSE Answer(w)
  <2>1. /\ Holding(w) /\ worker[w].pc \in {"publish", "fail"}
        /\ \A i \in Published' \ Published : stream'[i].job = j /\ stream'[i].event = e
    BY <1>5, WorkerAdds, MessageParts
  <2>2. j \in Jobs /\ eventsMade[j] # {}
    BY <1>3, <2>1 DEF Workers
  <2>3. objects' = objects
    BY <2>1 DEF CvStep, CvFetch, Fetch, CvHandler, CvConvert, CvRender, CvPut, CvPublish, CvFail,
                CvDispatch, CvCrash, Holding
  <2>4. CASE eventsMade' = eventsMade
    BY <1>2, <2>3, <2>4 DEF Service!vars
  <2>5. CASE eventsMade' = [eventsMade EXCEPT ![j] = @ \cup {e}]
    <3>1. Service!Announce(j, e)
      BY <1>2, <2>3, <2>5 DEF Service!Announce
    <3>2. CASE worker[w].pc = "fail"
      <4>1. Service!Report(j)
        BY <2>2, <3>1, <3>2 DEF Service!Report
      <4> QED
        BY <2>2, <4>1 DEF Service!Next
    <3>3. CASE worker[w].pc = "publish" /\ w \in AiWorkers
      <4>1. Service!Structure(j)
        BY <1>3, <2>1, <3>1, <3>3, HeldEvent DEF Service!Structure
      <4> QED
        BY <2>2, <4>1 DEF Service!Next
    <3>4. CASE worker[w].pc = "publish" /\ w \in CvWorkers
      <4>1. j \in objects
        BY <3>4 DEF Stored
      <4>2. Service!AnnouncePdf(j)
        BY <1>3, <2>1, <3>1, <3>4, <4>1, HeldEvent DEF Service!AnnouncePdf
      <4> QED
        BY <2>2, <4>2 DEF Service!Next
    <3> QED
      BY <2>1, <3>2, <3>3, <3>4 DEF Workers
  <2> QED
    BY <1>1, <2>1, <2>2, <2>4, <2>5, MadeGrows
<1> QED
  BY <1>4, <1>5

\* A submission requests a job that has its row.
LEMMA PublishServes ==
  ASSUME TypeInv, JobsKnown, NEW j \in Jobs, SubmitPublish(j), UNCHANGED objects
  PROVE  [Service!Next]_(Service!vars)
<1> DEFINE m == Message(j, "requested", form[j].request)
<1>1. EventStreamTypeOK /\ m \in Messages /\ m.job = j /\ m.event = "requested"
  <2>1. form[j].request \in Bodies["requested"]
    BY DEF TypeInv, Placed, FormsPlaced, SubmitPublish, At
  <2> QED
    BY <2>1, MessageType, MessageParts DEF TypeInv, PipelineTypeOK, Events
<1>2. UNCHANGED <<statusColumn, objects>> /\ statusColumn[j] # "absent"
  BY DEF SubmitPublish, At, JobsKnown, statusColumn
<1>3. Publish(m) \/ PublishErr(m)
  BY DEF SubmitPublish
<1> HIDE DEF m
<1>4. eventsMade' = eventsMade \/ eventsMade' = [eventsMade EXCEPT ![j] = @ \cup {"requested"}]
  <2>1. AppendsAtMost(m)
    BY <1>1, <1>3, PublishEffect, PublishErrEffect
  <2> QED
    BY <1>1, <2>1, MadeGrows, SMTT(30) DEF AppendsAtMost
<1>5. CASE eventsMade' = eventsMade
  BY <1>2, <1>5 DEF Service!vars
<1>6. CASE eventsMade' = [eventsMade EXCEPT ![j] = @ \cup {"requested"}]
  <2>1. Service!Request(j)
    BY <1>2, <1>6 DEF Service!Request, Service!Announce
  <2> QED
    BY <2>1 DEF Service!Next
<1> QED
  BY <1>4, <1>5, <1>6

\* Every step of the pipeline is a step of the service, or none.
LEMMA NextServes ==
  ASSUME TypeInv, Stored, JobsKnown, [Next]_vars
  PROVE  [Service!Next]_(Service!vars)
<1>1. CASE \/ \E r \in Replicas : Project(r)
           \/ \E a \in advisories : Poison(a)
           \/ Sweep \/ \E j \in Jobs : Stall(j)
  <2>1. stream' = stream
    BY <1>1, ProjectKeeps, PoisonKeeps, TickKeeps
       DEF Project, Poison, Sweep, Stall, GatewayKept, GatewayInv, TypeInv, PipelineTypeOK, Placed
  <2>2. objects' = objects
    BY <1>1 DEF Project, Poison, Sweep, Stall
  <2> QED
    BY <2>1, <2>2, RowsServe
<1>2. CASE Clocks \/ UNCHANGED vars
  BY <1>2, ClocksKeep, RowsServe DEF vars
<1>3. ASSUME NEW j \in Jobs, Submit(j)
      PROVE  [Service!Next]_(Service!vars)
  <2>1. CASE SubmitPublish(j)
    BY <1>3, <2>1, PublishServes DEF Submit
  <2>2. CASE ~SubmitPublish(j)
    <3>1. stream' = stream /\ objects' = objects
      BY <1>3, <2>2 DEF Submit, SubmitStep, SubmitCreate, SubmitCall, SubmitPutKey, SubmitMarkFailed,
                        SubmitCrash, streamVars
    <3> QED
      BY <3>1, RowsServe
  <2> QED
    BY <2>1, <2>2
<1>4. CASE \E w \in AiWorkers : Process(w)
  BY <1>4, WorkerServes DEF Process, Workers
<1>5. CASE \E w \in CvWorkers : Render(w)
  BY <1>5, WorkerServes DEF Render, Workers
<1> QED
  BY <1>1, <1>2, <1>3, <1>4, <1>5 DEF Next

\* Streams, workers, keys, retries, crashes and sweeps together implement
\* JobService, for any number of jobs and processes.
THEOREM PipelineImplementsService == SafeSpec => ServiceSafe
<1>1. Init => Service!Init /\ Stored /\ AckInv
  <2> SUFFICES ASSUME Init PROVE Service!Init
    BY InitStored, InitAcks
  <2>1. Published = {}
    BY DEF Init, EventStreamInit, Published
  <2>2. eventsMade = [j \in Jobs |-> {}]
    BY <2>1 DEF eventsMade
  <2>3. statusColumn = [j \in Jobs |-> "absent"]
    BY DEF Init, StoreInit, statusColumn, NoRow
  <2> QED
    BY <2>2, <2>3 DEF Init, ObjectsInit, Service!Init
<1>2. TypeInv /\ Stored /\ [Next]_vars => Stored'
  BY NextStores
<1>3. TypeInv /\ AckInv /\ [Next]_vars => AckInv'
  BY NextAcks
<1>4. TypeInv /\ Stored /\ AckInv /\ [Next]_vars => [Service!Next]_(Service!vars)
  BY NextServes DEF AckInv
<1> QED
  BY <1>1, <1>2, <1>3, <1>4, TypeCorrect, PTL DEF SafeSpec, ServiceSafe, Service!SafeSpec
\* A step of the service keeps what stands behind each row.
LEMMA ServiceStepKeeps ==
  ASSUME Service!WorkBehind, [Service!Next]_(Service!vars)
  PROVE  Service!WorkBehind'
<1>1. /\ statusColumn = [j \in Jobs |-> statusColumn[j]] /\ statusColumn' = [j \in Jobs |-> statusColumn'[j]]
      /\ eventsMade = [j \in Jobs |-> eventsMade[j]] /\ eventsMade' = [j \in Jobs |-> eventsMade'[j]]
  BY DEF statusColumn, eventsMade
<1>2. ASSUME NEW j \in Jobs, NEW p, Service!Show(j, p), p # "absent",
             p = "rendering" => "structured" \in eventsMade[j],
             p = "completed" => "rendered" \in eventsMade[j]
      PROVE  Service!WorkBehind'
  BY <1>1, <1>2 DEF Service!Show, Service!WorkBehind
<1>3. ASSUME NEW j \in Jobs, NEW e, Service!Announce(j, e),
             statusColumn[j] # "absent",
             e = "requested" \/ "requested" \in eventsMade[j],
             e = "rendered" => "structured" \in eventsMade[j] /\ j \in objects
      PROVE  Service!WorkBehind'
  BY <1>1, <1>3 DEF Service!Announce, Service!WorkBehind
<1>4. ASSUME NEW j \in Jobs, Service!Create(j) \/ Service!Progress(j) \/ Service!Complete(j)
      PROVE  Service!WorkBehind'
  BY <1>2, <1>4 DEF Service!Create, Service!Progress, Service!Complete
<1>5. ASSUME NEW j \in Jobs,
             \/ Service!Request(j) \/ Service!Structure(j)
             \/ Service!AnnouncePdf(j) \/ Service!Report(j)
      PROVE  Service!WorkBehind'
  <2>1. eventsMade[j] # {} => statusColumn[j] # "absent" /\ "requested" \in eventsMade[j]
    BY DEF Service!WorkBehind
  <2> QED
    BY <1>3, <1>5, <2>1 DEF Service!Request, Service!Structure, Service!AnnouncePdf, Service!Report
<1>6. ASSUME NEW j \in Jobs, Service!Store(j)
      PROVE  Service!WorkBehind'
  BY <1>6 DEF Service!Store, Service!WorkBehind
<1>7. ASSUME NEW S \in SUBSET Jobs, Service!Fail(S)
      PROVE  Service!WorkBehind'
  BY <1>1, <1>7 DEF Service!Fail, Service!Live, Service!WorkBehind
<1>8. CASE UNCHANGED Service!vars
  BY <1>8 DEF Service!vars, Service!WorkBehind
<1> QED
  BY <1>4, <1>5, <1>6, <1>7, <1>8 DEF Service!Next

\* Behind every row of the pipeline stand the events and the PDF the row speaks
\* of: a consequence of JobService alone, carried over by the refinement.
THEOREM PipelineWorkBehind == SafeSpec => []Service!WorkBehind
<1>1. Service!Init => Service!WorkBehind
  BY DEF Service!Init, Service!WorkBehind
<1>2. Service!WorkBehind /\ [Service!Next]_(Service!vars) => Service!WorkBehind'
  BY ServiceStepKeeps
<1> QED
  BY <1>1, <1>2, PipelineImplementsService, PTL DEF ServiceSafe, Service!SafeSpec
=============================================================================
