----------------------------- MODULE SharedProofs ---------------------------
(***************************************************************************)
(* What the pipeline and the visitors' pages share, wherever it runs: the  *)
(* jobs table, the stream, and a submission.  The table implements         *)
(* JobLifecycle, with one lemma per statement, so that the modules that    *)
(* run the statements can cite it; the stream keeps its types and its log  *)
(* grows at its end; a submission works on its own job only and adds the   *)
(* request of that job to the log.                                         *)
(***************************************************************************)
EXTENDS JobSubmission, TLAPS

-----------------------------------------------------------------------------
(* The jobs table: its rows keep their shape, an end is explained, an end  *)
(* is final.                                                               *)


\* Every statement of the store changes at most rows it may change: a row that
\* has ended is left as it is, and the others stay rows that are explained.
Explained(row) ==
  /\ row.pdf <=> row.status = "completed"
  /\ row.error # "none" <=> row.status = "failed"

StoreInv == StoreTypeOK /\ EndExplained

\* What a statement may do to one row.
RowStep(row, next) ==
  /\ next \in Row
  /\ Explained(row) => Explained(next)
  /\ row.status \in Terminal => next = row
  /\ row.status = "absent" => next.status \in {"absent", "pending"}
  /\ row.status = "pending" => next.status \in Statuses
  /\ row.status = "rendering" => next.status \in {"rendering", "completed", "failed"}

\* A statement that touches at most row j.
TouchesOnly(j) ==
  /\ rows' \in [Jobs -> Row]
  /\ \A i \in Jobs \ {j} : rows'[i] = rows[i]
  /\ RowStep(rows[j], rows'[j])

\* Each statement touches one row, by a step a row may take.
LEMMA CreateJobTouches ==
  ASSUME StoreTypeOK, NEW j \in Jobs, CreateJob(j)
  PROVE  TouchesOnly(j)
BY DEF StoreTypeOK, CreateJob, TouchesOnly, RowStep, Explained, Row, NoRow, Statuses, Terminal,
       Errors

\* The structured event's statement.
LEMMA MarkRenderingTouches ==
  ASSUME StoreTypeOK, NEW j \in Jobs, MarkRendering(j)
  PROVE  TouchesOnly(j)
BY DEF StoreTypeOK, MarkRendering, Pending, TouchesOnly, RowStep, Explained, Row, Statuses,
       Terminal, Errors

\* The rendered event's statement.
LEMMA MarkCompletedTouches ==
  ASSUME StoreTypeOK, NEW j \in Jobs, MarkCompleted(j)
  PROVE  TouchesOnly(j)
BY DEF StoreTypeOK, MarkCompleted, Live, TouchesOnly, RowStep, Explained, Row, Statuses,
       Terminal, Errors

\* The failing statements, whatever part of the live rows they may touch.
LEMMA FailWhereTouches ==
  ASSUME StoreTypeOK, NEW j \in Jobs, NEW guard \in SUBSET Live,
         NEW error \in Errors \ {"none", "timeout"}, FailWhere(j, guard, error)
  PROVE  TouchesOnly(j)
BY DEF StoreTypeOK, FailWhere, Live, TouchesOnly, RowStep, Explained, Row, Statuses,
       Terminal, Errors

\* Time passes over one row.
LEMMA AgeTouches ==
  ASSUME StoreTypeOK, NEW j \in Jobs, Age(j)
  PROVE  TouchesOnly(j)
BY DEF StoreTypeOK, Age, Live, TouchesOnly, RowStep, Explained, Row, Statuses, Terminal, Errors

\* The sweep is one statement over many rows: each of them takes a step.
LEMMA SweepStuckRows ==
  ASSUME StoreTypeOK, SweepStuck
  PROVE  /\ rows' \in [Jobs -> Row]
         /\ \A j \in Jobs : RowStep(rows[j], rows'[j])
BY ZenonT(30) DEF StoreTypeOK, SweepStuck, Live, RowStep, Explained, Row, Statuses, Terminal, Errors

-----------------------------------------------------------------------------
(* What the lemmas say of a step. *)

\* Any step of the store, on rows of the right shape.
StoreStep ==
  \/ \E j \in Jobs : TouchesOnly(j)
  \/ SweepStuck

\* Every step of the table is of one of these kinds.
LEMMA StoreNextIsStep ==
  ASSUME StoreTypeOK, StoreNext
  PROVE  StoreStep
<1>1. CASE SweepStuck
  BY <1>1 DEF StoreStep
<1>2. ASSUME NEW j \in Jobs, CreateJob(j) \/ Age(j)
      PROVE  StoreStep
  BY <1>2, CreateJobTouches, AgeTouches DEF StoreStep
<1>3. ASSUME NEW j \in Jobs, MarkRendering(j) \/ MarkCompleted(j)
      PROVE  StoreStep
  BY <1>3, MarkRenderingTouches, MarkCompletedTouches DEF StoreStep
<1>4. ASSUME NEW j \in Jobs, MarkFailedProcessing(j, "worker")
      PROVE  StoreStep
  <2>1. Pending \in SUBSET Live /\ "worker" \in Errors \ {"none", "timeout"}
    BY DEF Pending, Live, Statuses, Terminal, Errors
  <2>2. FailWhere(j, Pending, "worker")
    BY <1>4 DEF MarkFailedProcessing
  <2> QED
    BY <2>1, <2>2, FailWhereTouches DEF StoreStep
<1>5. ASSUME NEW j \in Jobs, NEW e \in {"handoff", "enqueue", "worker", "poisoned"},
             MarkFailed(j, e)
      PROVE  StoreStep
  <2>1. Live \in SUBSET Live /\ e \in Errors \ {"none", "timeout"}
    BY DEF Errors
  <2>2. FailWhere(j, Live, e)
    BY <1>5 DEF MarkFailed
  <2> QED
    BY <2>1, <2>2, FailWhereTouches DEF StoreStep
<1> QED
  BY <1>1, <1>2, <1>3, <1>4, <1>5 DEF StoreNext

\* A component runs one statement of the store at a time, or none.
RowsStep == StoreNext \/ rows' = rows

\* So it changes the rows as a statement may, or not at all.
LEMMA RowsStepIsStep ==
  ASSUME StoreTypeOK, RowsStep
  PROVE  StoreStep \/ rows' = rows
BY StoreNextIsStep DEF RowsStep

\* Row by row, a step is one a row may take.
LEMMA StepTouchesRows ==
  ASSUME StoreTypeOK, StoreStep
  PROVE  /\ rows' \in [Jobs -> Row]
         /\ \A j \in Jobs : RowStep(rows[j], rows'[j]) \/ rows'[j] = rows[j]
<1>1. CASE SweepStuck
  BY <1>1, SweepStuckRows
<1>2. ASSUME NEW j \in Jobs, TouchesOnly(j)
      PROVE  /\ rows' \in [Jobs -> Row]
             /\ \A i \in Jobs : RowStep(rows[i], rows'[i]) \/ rows'[i] = rows[i]
  BY <1>2 DEF TouchesOnly
<1> QED
  BY <1>1, <1>2 DEF StoreStep

\* A step keeps the rows well-typed and explained.
LEMMA StepKeepsInv ==
  ASSUME StoreInv, StoreStep
  PROVE  StoreInv'
<1> USE DEF StoreInv
<1>1. StoreTypeOK
  OBVIOUS
<1>2. StoreTypeOK'
  BY <1>1, StepTouchesRows DEF StoreTypeOK
<1>3. \A j \in Jobs : Explained(rows[j])
  BY DEF EndExplained, Explained
<1>4. \A j \in Jobs : Explained(rows'[j])
  BY <1>1, <1>3, StepTouchesRows DEF RowStep
<1>5. EndExplained'
  BY <1>4 DEF EndExplained, Explained
<1> QED
  BY <1>2, <1>5

-----------------------------------------------------------------------------
(* The theorems. *)

\* The statements of store.go keep every row well-formed and every end
\* explained: completed with a PDF key and no error, failed with an error and
\* no PDF key.
THEOREM StoreEndExplained == StoreSpec => []StoreTypeOK /\ []EndExplained
<1>1. StoreInit => StoreInv
  BY DEF StoreInit, StoreInv, StoreTypeOK, EndExplained, NoRow, Row, Statuses, Errors
<1>2. StoreInv /\ [StoreNext]_rows => StoreInv'
  <2> SUFFICES ASSUME StoreInv, [StoreNext]_rows PROVE StoreInv'
    OBVIOUS
  <2>1. CASE StoreNext
    BY <2>1, StoreNextIsStep, StepKeepsInv DEF StoreInv
  <2>2. CASE UNCHANGED rows
    BY <2>2 DEF StoreInv, StoreTypeOK, EndExplained
  <2> QED
    BY <2>1, <2>2
<1>3. StoreInv => StoreTypeOK /\ EndExplained
  BY DEF StoreInv
<1> QED
  BY <1>1, <1>2, <1>3, PTL DEF StoreSpec, StoreSafe

\* Every row stays one the table's types and CHECKs allow.
THEOREM StoreTypeCorrect == StoreSpec => []StoreTypeOK
<1> QED
  BY StoreEndExplained, PTL

\* No statement touches a job that completed or failed, in whatever order the
\* events, advisories and ticks that run the statements come.
THEOREM StoreTerminalIsFinal == StoreSpec => TerminalIsFinal
<1>1. StoreTypeOK /\ [StoreNext]_rows
        => [\A j \in Jobs : rows[j].status \in Terminal => rows'[j] = rows[j]]_rows
  <2> SUFFICES ASSUME StoreTypeOK, StoreNext
               PROVE  \A j \in Jobs : rows[j].status \in Terminal => rows'[j] = rows[j]
    OBVIOUS
  <2>1. StoreStep
    BY StoreNextIsStep
  <2> QED
    BY <2>1, StepTouchesRows DEF RowStep
<1> QED
  BY <1>1, StoreEndExplained, PTL DEF StoreSpec, StoreSafe, TerminalIsFinal

\* One statement on one row is one step of the lifecycle, or none.
LEMMA TouchIsLifecycleStep ==
  ASSUME StoreTypeOK, NEW j \in Jobs, TouchesOnly(j)
  PROVE  [Lifecycle!Next]_statusColumn
<1>1. rows \in [Jobs -> Row] /\ rows' \in [Jobs -> Row]
  BY DEF StoreTypeOK, TouchesOnly
<1>2. statusColumn' = [statusColumn EXCEPT ![j] = rows'[j].status]
  BY DEF TouchesOnly, statusColumn
<1>3. rows[j].status \in Statuses \cup {"absent"}
  BY <1>1 DEF Row
<1>4. CASE rows'[j].status = rows[j].status
  <2>1. statusColumn' = statusColumn
    BY <1>2, <1>4 DEF statusColumn
  <2> QED
    BY <2>1
<1>5. CASE rows[j].status = "absent" /\ rows'[j].status = "pending"
  BY <1>2, <1>5 DEF statusColumn, Lifecycle!Next, Lifecycle!Create
<1>6. CASE rows[j].status = "pending" /\ rows'[j].status = "rendering"
  BY <1>2, <1>6 DEF statusColumn, Lifecycle!Next, Lifecycle!Progress
<1>7. CASE rows[j].status \in {"pending", "rendering"} /\ rows'[j].status \in {"completed", "failed"}
  BY <1>2, <1>7 DEF statusColumn, Lifecycle!Next, Lifecycle!End
<1> QED
  BY <1>3, <1>4, <1>5, <1>6, <1>7 DEF TouchesOnly, RowStep, Statuses, Terminal

\* A sweep is one FailAll of the lifecycle.
LEMMA SweepIsLifecycleStep ==
  ASSUME StoreTypeOK, SweepStuck
  PROVE  Lifecycle!Next
<1> DEFINE S == {j \in Live : rows[j].aged}
<1>1. S \in SUBSET Jobs
  BY DEF Live
<1>2. \A j \in S : statusColumn[j] \in {"pending", "rendering"}
  BY DEF statusColumn, Live, Statuses, Terminal
<1>3. statusColumn' = [j \in Jobs |-> IF j \in S THEN "failed" ELSE statusColumn[j]]
  <2>1. \A j \in Jobs : rows'[j].status = IF j \in S THEN "failed" ELSE rows[j].status
    BY DEF SweepStuck, StoreTypeOK, Row
  <2> QED
    BY <2>1 DEF statusColumn, Live
<1> HIDE DEF S
<1> QED
  BY <1>1, <1>2, <1>3 DEF Lifecycle!Next, Lifecycle!FailAll

\* Every step of the table is a step of the lifecycle or a stutter.
LEMMA StepIsLifecycleStep ==
  ASSUME StoreTypeOK, StoreStep
  PROVE  [Lifecycle!Next]_statusColumn
BY TouchIsLifecycleStep, SweepIsLifecycleStep DEF StoreStep

\* The table implements the safety part of JobLifecycle: created once, ended
\* once, every statement a step of the lifecycle or none.
THEOREM StoreImplementsLifecycle == StoreSpec => LifecycleSafe
<1>1. StoreInit => Lifecycle!Init
  BY DEF StoreInit, Lifecycle!Init, statusColumn, NoRow
<1>2. StoreTypeOK /\ [StoreNext]_rows => [Lifecycle!Next]_statusColumn
  <2> SUFFICES ASSUME StoreTypeOK, [StoreNext]_rows
               PROVE  [Lifecycle!Next]_statusColumn
    OBVIOUS
  <2>1. CASE StoreNext
    BY <2>1, StoreNextIsStep, StepIsLifecycleStep
  <2>2. CASE UNCHANGED rows
    BY <2>2 DEF statusColumn
  <2> QED
    BY <2>1, <2>2
<1> QED
  BY <1>1, <1>2, StoreEndExplained, PTL DEF StoreSpec, StoreSafe, LifecycleSafe, Lifecycle!SafeSpec

-----------------------------------------------------------------------------
(* The operations on the stream: they keep its types, the log only grows   *)
(* at its end, and what the window remembers is in the log.                *)

\* Message builds a message.
LEMMA MessageType ==
  ASSUME NEW j \in Jobs, NEW e \in Events, NEW b \in Bodies[e]
  PROVE  Message(j, e, b) \in Messages
BY DEF Message, Messages

\* Its parts are what it was built of.
LEMMA MessageParts ==
  ASSUME NEW j, NEW e, NEW b
  PROVE  Message(j, e, b).job = j /\ Message(j, e, b).event = e /\ Message(j, e, b).body = b
BY DEF Message

\* What a message of the log carries.
LEMMA MessageFields ==
  ASSUME NEW m \in Messages
  PROVE  /\ m.job \in Jobs
         /\ m.event \in Events
         /\ m.body \in Bodies[m.event]
<1>1. PICK e \in Events : m \in [job : Jobs, event : {e}, body : Bodies[e]]
  BY DEF Messages
<1> QED
  BY <1>1

\* What was published stays where it is.
LogGrows ==
  /\ Len(stream) <= Len(stream')
  /\ \A i \in Published : i \in Published' /\ stream'[i] = stream[i]

\* The log is as it was, or m is at its end.
AppendsAtMost(m) ==
  /\ LogGrows
  /\ \A i \in Published' : i \in Published \/ (i = Len(stream) + 1 /\ stream'[i] = m)

\* What a publisher may rely on once the server has taken its message.
WindowInLog == \A id \in window : InStream(id[1], id[2])

\* The log holds messages, at positions that are slots of the deliveries.
LEMMA StreamFacts ==
  ASSUME EventStreamTypeOK
  PROVE  /\ Len(stream) \in Nat
         /\ Published \subseteq Slots
         /\ \A i \in Published : stream[i] \in Messages
BY MaxStreamAssumption DEF EventStreamTypeOK, Published, Slots

\* The stream's type survives a step that leaves it alone.
LEMMA SameStream ==
  ASSUME EventStreamTypeOK, UNCHANGED streamVars
  PROVE  EventStreamTypeOK' /\ LogGrows /\ Published' = Published
BY StreamFacts DEF EventStreamTypeOK, streamVars, LogGrows, Published

\* A step that leaves the log alone trivially grows it.
LEMMA SameLog ==
  ASSUME EventStreamTypeOK, stream' = stream
  PROVE  LogGrows /\ Published' = Published
BY StreamFacts DEF LogGrows, Published

\* A publish appends one message or nothing, and keeps the stream's type.
LEMMA PublishEffect ==
  ASSUME EventStreamTypeOK, NEW m \in Messages, Publish(m)
  PROVE  /\ EventStreamTypeOK'
         /\ AppendsAtMost(m)
<1>1. Len(stream) \in Nat /\ Published = 1 .. Len(stream)
  BY StreamFacts DEF Published
<1>2. CASE MsgID(m) \in window /\ UNCHANGED <<stream, window>>
  BY <1>1, <1>2, SameLog DEF EventStreamTypeOK, Publish, AppendsAtMost, Published
<1>3. CASE /\ Len(stream) < MaxStream
           /\ stream' = Append(stream, m)
           /\ window' = window \cup {MsgID(m)}
  <2>1. stream \in Seq(Messages) /\ Len(stream') = Len(stream) + 1 /\ stream' \in Seq(Messages)
    BY <1>3 DEF EventStreamTypeOK
  <2>2. stream'[Len(stream) + 1] = m /\ \A i \in 1 .. Len(stream) : stream'[i] = stream[i]
    BY <1>3, <2>1
  <2>3. MsgID(m) \in Jobs \X Events
    BY MessageFields DEF MsgID
  <2>4. Published' = 1 .. (Len(stream) + 1)
    BY <2>1 DEF Published
  <2>5. Len(stream') <= MaxStream
    BY <1>1, <1>3, <2>1, MaxStreamAssumption
  <2>6. AppendsAtMost(m)
    BY <1>1, <2>1, <2>2, <2>4 DEF AppendsAtMost, LogGrows
  <2>7. window' \subseteq Jobs \X Events
    BY <1>3, <2>3 DEF EventStreamTypeOK
  <2>8. EventStreamTypeOK'
    BY <2>1, <2>5, <2>7 DEF EventStreamTypeOK, Publish
  <2> QED
    BY <2>6, <2>8
<1> QED
  BY <1>2, <1>3 DEF Publish

\* So does a publish that reports an error.
LEMMA PublishErrEffect ==
  ASSUME EventStreamTypeOK, NEW m \in Messages, PublishErr(m)
  PROVE  /\ EventStreamTypeOK'
         /\ AppendsAtMost(m)
<1>1. CASE UNCHANGED streamVars
  BY <1>1, SameStream DEF AppendsAtMost
<1> QED
  BY <1>1, PublishEffect DEF PublishErr

\* The operations that leave the log alone.
Bookkeeping ==
  \/ \E c \in Consumers, i \in Slots :
       Deliver(c, i) \/ Exhaust(c, i) \/ Settle(c, i) \/ Requeue(c, i)
  \/ \E a \in advisories : TakeAdvisory(a)
  \/ \E id \in window : Forget(id)
  \/ UNCHANGED streamVars

\* Delivery, acknowledgement and forgetting leave the log alone.
LEMMA BookkeepingEffect ==
  ASSUME EventStreamTypeOK, Bookkeeping
  PROVE  /\ EventStreamTypeOK'
         /\ stream' = stream
         /\ LogGrows
         /\ Published' = Published
<1>1. ASSUME NEW c \in Consumers, NEW i \in Slots,
             Deliver(c, i) \/ Exhaust(c, i) \/ Settle(c, i) \/ Requeue(c, i)
      PROVE  EventStreamTypeOK' /\ stream' = stream
  <2>1. delivery[c][i] \in [state : DeliveryStates, count : Nat]
    BY DEF EventStreamTypeOK
  <2>2. CASE Deliver(c, i)
    BY <2>1, <2>2 DEF EventStreamTypeOK, Deliver, DeliveryStates
  <2>3. CASE Exhaust(c, i)
    <3>1. delivery' \in [Consumers -> [Slots -> [state : DeliveryStates, count : Nat]]]
      BY <2>1, <2>3 DEF EventStreamTypeOK, Exhaust, DeliveryStates
    <3>2. <<c, i>> \in Consumers \X Slots
      OBVIOUS
    <3>3. advisories' \subseteq Consumers \X Slots
      BY <2>3, <3>2 DEF EventStreamTypeOK, Exhaust
    <3> QED
      BY <2>3, <3>1, <3>3 DEF EventStreamTypeOK, Exhaust
  <2>4. CASE Settle(c, i)
    BY <2>1, <2>4 DEF EventStreamTypeOK, Settle, DeliveryStates
  <2>5. CASE Requeue(c, i)
    BY <2>1, <2>5 DEF EventStreamTypeOK, Requeue, DeliveryStates
  <2> QED
    BY <1>1, <2>2, <2>3, <2>4, <2>5
<1>2. ASSUME NEW a \in advisories, TakeAdvisory(a)
      PROVE  EventStreamTypeOK' /\ stream' = stream
  BY <1>2 DEF EventStreamTypeOK, TakeAdvisory
<1>3. ASSUME NEW id \in window, Forget(id)
      PROVE  EventStreamTypeOK' /\ stream' = stream
  BY <1>3 DEF EventStreamTypeOK, Forget
<1>4. CASE UNCHANGED streamVars
  BY <1>4, SameStream DEF streamVars
<1>5. EventStreamTypeOK' /\ stream' = stream
  BY <1>1, <1>2, <1>3, <1>4 DEF Bookkeeping
<1> QED
  BY <1>5, SameLog

-----------------------------------------------------------------------------
(* A submission. *)

FormsPlaced == \A j \in Jobs : form[j].step # "none" => form[j].request \in Bodies["requested"]

\* The budget stays a number.
LEMMA FaultType ==
  ASSUME FaultsTypeOK, NoFault \/ \E k \in AllFaultKinds : Fault(k)
  PROVE  FaultsTypeOK'
BY DEF FaultsTypeOK, NoFault, Fault

OnlyAdds(E) == \A i \in Published' : i \in Published \/ stream'[i].event \in E

\* An unchanged log has no new event.
LEMMA SameLogAddsNothing ==
  ASSUME NEW E, stream' = stream
  PROVE  OnlyAdds(E)
BY DEF OnlyAdds, Published

\* A publish adds its own event only.
LEMMA AppendAdds ==
  ASSUME NEW m \in Messages, AppendsAtMost(m)
  PROVE  OnlyAdds({m.event})
BY DEF OnlyAdds, AppendsAtMost

\* A submission that goes on keeps its request.
LEMMA FormGoto ==
  ASSUME SubmissionTypeOK, FormsPlaced, NEW j \in Jobs, NEW step \in FormSteps,
         ~At(j, "none"), SubmitGoto(j, step)
  PROVE  SubmissionTypeOK' /\ FormsPlaced'
<1>1. form[j] \in [step : FormSteps, request : Bodies["requested"] \cup {"none"}]
  BY DEF SubmissionTypeOK
<1>2. form' = [form EXCEPT ![j] = [step |-> step, request |-> form[j].request]]
  <2>1. [form[j] EXCEPT !.step = step] = [step |-> step, request |-> form[j].request]
    BY <1>1
  <2> QED
    BY <2>1, Zenon DEF SubmitGoto
<1>3. form[j].request \in Bodies["requested"]
  BY DEF FormsPlaced, At
<1>4. SubmissionTypeOK'
  BY <1>2, <1>3 DEF SubmissionTypeOK
<1>5. FormsPlaced'
  BY <1>2, <1>3 DEF FormsPlaced, SubmissionTypeOK
<1> QED
  BY <1>4, <1>5

SubmitInv ==
  /\ EventStreamTypeOK /\ FaultsTypeOK
  /\ VaultTypeOK /\ StoreTypeOK /\ SubmissionTypeOK /\ FormsPlaced

\* A step of the table keeps its type.
LEMMA RowsStepType ==
  ASSUME StoreTypeOK, RowsStep
  PROVE  StoreTypeOK'
BY RowsStepIsStep, StepTouchesRows DEF StoreTypeOK

\* The statements of an answer are statements of the table.
LEMMA MarkFailedSteps ==
  ASSUME NEW j \in Jobs, NEW error \in {"handoff", "enqueue", "worker", "poisoned"},
         MarkFailed(j, error)
  PROVE  RowsStep
BY DEF RowsStep, StoreNext

\* Every step of a submission.
LEMMA SubmitKeeps ==
  ASSUME SubmitInv, NEW j \in Jobs, SubmitStep(j)
  PROVE  /\ SubmitInv'
         /\ LogGrows /\ advisories' = advisories
         /\ OnlyAdds({"requested"})
         /\ RowsStep
<1> USE DEF SubmitInv
<1> DEFINE Quiet == UNCHANGED streamVars
           Typed == SubmissionTypeOK' /\ FormsPlaced'
<1>1. ASSUME Quiet
      PROVE  /\ EventStreamTypeOK' /\ LogGrows /\ advisories' = advisories
             /\ OnlyAdds({"requested"})
  BY <1>1, SameStream, SameLogAddsNothing DEF streamVars
<1>2. CASE SubmitCreate(j)
  <2>1. PICK request \in Bodies["requested"], step \in {"put", "publish", "done"} :
          form' = [form EXCEPT ![j] = [step |-> step, request |-> request]]
    BY <1>2 DEF SubmitCreate
  <2>2. Typed
    BY <2>1 DEF SubmissionTypeOK, FormSteps, FormsPlaced
  <2>3. RowsStep
    BY <1>2 DEF SubmitCreate, RowsStep, StoreNext
  <2>4. Quiet /\ FaultsTypeOK' /\ VaultTypeOK'
    BY <1>2, FaultType DEF SubmitCreate, AllFaultKinds, VaultTypeOK
  <2> QED
    BY <1>1, <2>2, <2>3, <2>4, RowsStepType
<1>3. CASE SubmitPutKey(j)
  <2>1. ~At(j, "none") /\ \E step \in FormSteps : SubmitGoto(j, step)
    BY <1>3 DEF SubmitPutKey, At, FormSteps
  <2>2. Quiet /\ VaultTypeOK' /\ RowsStep
    BY <1>3 DEF SubmitPutKey, PutKey, VaultTypeOK, RowsStep
  <2>3. FaultsTypeOK'
    BY <1>3, FaultType DEF SubmitPutKey, AllFaultKinds
  <2> QED
    BY <1>1, <2>1, <2>2, <2>3, FormGoto, RowsStepType
<1>4. CASE SubmitPublish(j)
  <2> DEFINE m == Message(j, "requested", form[j].request)
  <2>1. ~At(j, "none") /\ \E step \in FormSteps : SubmitGoto(j, step)
    BY <1>4 DEF SubmitPublish, At, FormSteps
  <2>2. m \in Messages /\ m.event = "requested"
    BY <2>1, MessageType DEF Message, Events, FormsPlaced, At
  <2>3. FaultsTypeOK' /\ VaultTypeOK' /\ RowsStep
    BY <1>4, FaultType DEF SubmitPublish, AllFaultKinds, VaultTypeOK, RowsStep
  <2>4. Publish(m) \/ PublishErr(m)
    BY <1>4 DEF SubmitPublish
  <2> HIDE DEF m
  <2>5. EventStreamTypeOK' /\ AppendsAtMost(m)
    BY <2>2, <2>4, PublishEffect, PublishErrEffect
  <2>6. LogGrows /\ OnlyAdds({"requested"})
    BY <2>2, <2>5, AppendAdds DEF AppendsAtMost
  <2>7. advisories' = advisories
    BY <2>4 DEF Publish, PublishErr, streamVars
  <2> QED
    BY <2>1, <2>3, <2>5, <2>6, <2>7, FormGoto, RowsStepType
<1>5. CASE SubmitMarkFailed(j)
  <2>1. ~At(j, "none") /\ SubmitGoto(j, "done") /\ "done" \in FormSteps
    BY <1>5 DEF SubmitMarkFailed, At, FormSteps
  <2>2. Quiet /\ FaultsTypeOK' /\ VaultTypeOK'
    BY <1>5, FaultType DEF SubmitMarkFailed, AllFaultKinds, VaultTypeOK
  <2>3. RowsStep
    BY <1>5, MarkFailedSteps DEF SubmitMarkFailed, RowsStep
  <2> QED
    BY <1>1, <2>1, <2>2, <2>3, FormGoto, RowsStepType
<1>6. CASE SubmitCrash(j)
  <2>1. ~At(j, "none") /\ SubmitGoto(j, "done") /\ "done" \in FormSteps
    BY <1>6 DEF SubmitCrash, At, FormSteps
  <2>2. Quiet /\ FaultsTypeOK' /\ VaultTypeOK' /\ RowsStep
    BY <1>6, FaultType DEF SubmitCrash, AllFaultKinds, VaultTypeOK, RowsStep
  <2> QED
    BY <1>1, <2>1, <2>2, FormGoto, RowsStepType
<1> QED
  BY <1>2, <1>3, <1>4, <1>5, <1>6 DEF SubmitStep, SubmitCall

\* It touches the form and the log of its own job only.
LEMMA SubmitTouches ==
  ASSUME SubmitInv, NEW j \in Jobs, SubmitStep(j)
  PROVE  /\ \A i \in Jobs \ {j} : form'[i] = form[i]
         /\ form'[j].step # "none"
         /\ \A i \in Published' : i \in Published \/ stream'[i].job = j
<1> USE DEF SubmitInv
<1>1. ASSUME NEW step \in FormSteps, SubmitGoto(j, step)
      PROVE  (\A i \in Jobs \ {j} : form'[i] = form[i]) /\ form'[j].step = step
  <2>1. form[j] \in [step : FormSteps, request : Bodies["requested"] \cup {"none"}]
    BY DEF SubmissionTypeOK
  <2> QED
    BY <1>1, <2>1 DEF SubmitGoto, SubmissionTypeOK
<1>2. ASSUME stream' = stream
      PROVE  \A i \in Published' : i \in Published \/ stream'[i].job = j
  BY <1>2 DEF Published
<1>3. CASE SubmitCreate(j)
  <2>1. PICK request \in Bodies["requested"], step \in {"put", "publish", "done"} :
          form' = [form EXCEPT ![j] = [step |-> step, request |-> request]]
    BY <1>3 DEF SubmitCreate
  <2>2. stream' = stream
    BY <1>3 DEF SubmitCreate, streamVars
  <2> QED
    BY <1>2, <2>1, <2>2 DEF SubmissionTypeOK
<1>4. CASE SubmitPublish(j)
  <2> DEFINE m == Message(j, "requested", form[j].request)
  <2>1. \E step \in FormSteps : step # "none" /\ SubmitGoto(j, step)
    BY <1>4 DEF SubmitPublish, FormSteps
  <2>2. m \in Messages /\ m.job = j
    BY <1>4, MessageType DEF Message, Events, FormsPlaced, At, SubmitPublish
  <2>3. Publish(m) \/ PublishErr(m)
    BY <1>4 DEF SubmitPublish
  <2> HIDE DEF m
  <2>4. AppendsAtMost(m)
    BY <2>2, <2>3, PublishEffect, PublishErrEffect
  <2> QED
    BY <1>1, <2>1, <2>2, <2>4 DEF AppendsAtMost
<1>5. CASE SubmitPutKey(j) \/ SubmitMarkFailed(j) \/ SubmitCrash(j)
  <2>1. \E step \in FormSteps : step # "none" /\ SubmitGoto(j, step)
    BY <1>5 DEF SubmitPutKey, SubmitMarkFailed, SubmitCrash, FormSteps
  <2>2. stream' = stream
    BY <1>5 DEF SubmitPutKey, SubmitMarkFailed, SubmitCrash, streamVars
  <2> QED
    BY <1>1, <1>2, <2>1, <2>2
<1> QED
  BY <1>3, <1>4, <1>5 DEF SubmitStep, SubmitCall
=============================================================================
