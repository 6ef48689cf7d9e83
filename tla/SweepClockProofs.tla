-------------------------- MODULE SweepClockProofs --------------------------
(***************************************************************************)
(* A sweep takes exactly the jobs that stand still, for any set of jobs    *)
(* and any order of statements.  What updated_at says of a live row and    *)
(* what really happened to it agree (ClockInv): a statement that changes a *)
(* status starts the ten minutes again, and one that changes none leaves   *)
(* them alone.                                                             *)
(***************************************************************************)
EXTENDS SweepClock, SharedProofs

ClockInv ==
  /\ StoreInv
  /\ \A j \in Live : rows[j].aged <=> j \notin moved

\* A statement leaves a row alone, or changes its status and restarts its clock.
Restarts(row, next) ==
  \/ next = row
  \/ next.status # row.status /\ ~next.aged

\* Every statement but the passing of time does so to every row.
LEMMA StatementsRestart ==
  ASSUME StoreTypeOK, StoreNext, \A j \in Jobs : ~Age(j), NEW i \in Jobs
  PROVE  Restarts(rows[i], rows'[i])
<1> USE DEF StoreTypeOK, Row, Restarts
<1>1. rows[i] \in Row
  OBVIOUS
<1>2. CASE SweepStuck
  BY <1>1, <1>2 DEF SweepStuck, Live, Terminal
<1>3. ASSUME NEW j \in Jobs, CreateJob(j)
      PROVE  Restarts(rows[i], rows'[i])
  BY <1>3 DEF CreateJob, NoRow
<1>4. ASSUME NEW j \in Jobs, MarkRendering(j)
      PROVE  Restarts(rows[i], rows'[i])
  BY <1>4 DEF MarkRendering, Pending
<1>5. ASSUME NEW j \in Jobs, MarkCompleted(j)
      PROVE  Restarts(rows[i], rows'[i])
  BY <1>5 DEF MarkCompleted, Live, Terminal
<1>6. ASSUME NEW j \in Jobs, NEW guard \in {Pending, Live}, NEW e, FailWhere(j, guard, e)
      PROVE  Restarts(rows[i], rows'[i])
  BY <1>6 DEF FailWhere, Pending, Live, Terminal
<1> QED
  BY <1>2, <1>3, <1>4, <1>5, <1>6 DEF StoreNext, MarkFailedProcessing, MarkFailed

\* Time that passes over a row is all that ages it.
LEMMA AgeRows ==
  ASSUME StoreTypeOK, NEW j \in Jobs, Age(j)
  PROVE  /\ rows'[j].aged
         /\ \A i \in Jobs \ {j} : rows'[i] = rows[i] /\ ~Age(i)
         /\ statusColumn' = statusColumn
<1>1. rows'[j] = [rows[j] EXCEPT !.aged = TRUE] /\ rows[j] \in Row /\ ~rows[j].aged
  BY DEF Age, StoreTypeOK
<1>2. \A i \in Jobs \ {j} : rows'[i] = rows[i]
  BY DEF Age, StoreTypeOK
<1>3. rows'[j].aged /\ rows'[j].status = rows[j].status
  BY <1>1 DEF Row
<1>4. ASSUME NEW i \in Jobs \ {j}
      PROVE  ~Age(i)
  <2>1. SUFFICES ASSUME Age(i) PROVE FALSE
    OBVIOUS
  <2>2. rows'[j] = rows[j]
    BY <2>1, <1>4 DEF Age, StoreTypeOK
  <2> QED
    BY <1>1, <1>3, <2>2
<1>5. statusColumn' = statusColumn
  BY <1>2, <1>3 DEF statusColumn
<1> QED
  BY <1>2, <1>3, <1>4, <1>5

\* The row and the observer go on agreeing.
LEMMA ClockStep ==
  ASSUME ClockInv, ClockNext
  PROVE  ClockInv'
<1>1. StoreTypeOK /\ StoreNext /\ Watch
  BY DEF ClockInv, StoreInv, ClockNext
<1>2. StoreInv'
  BY <1>1, StoreNextIsStep, StepKeepsInv DEF ClockInv
<1>3. ASSUME NEW i \in Live'
      PROVE  rows'[i].aged <=> i \notin moved'
  <2>1. i \in Jobs /\ statusColumn[i] = rows[i].status /\ statusColumn'[i] = rows'[i].status
    BY <1>3 DEF Live, statusColumn
  <2>2. CASE \A j \in Jobs : ~Age(j)
    <3>1. Restarts(rows[i], rows'[i])
      BY <1>1, <2>1, <2>2, StatementsRestart
    <3>2. i \in moved' <=> statusColumn'[i] # statusColumn[i] \/ i \in moved
      BY <1>1, <2>1, <2>2 DEF Watch
    <3>3. CASE rows'[i] = rows[i]
      BY <1>3, <2>1, <3>2, <3>3 DEF ClockInv, Live
    <3>4. CASE rows'[i].status # rows[i].status /\ ~rows'[i].aged
      BY <2>1, <3>2, <3>4
    <3> QED
      BY <3>1, <3>3, <3>4 DEF Restarts
  <2>3. ASSUME NEW j \in Jobs, Age(j)
        PROVE  rows'[i].aged <=> i \notin moved'
    <3>1. i \in moved' <=> i \in moved /\ ~Age(i)
      BY <1>1, <2>1, <2>3, AgeRows DEF Watch
    <3>2. CASE i = j
      BY <1>1, <2>3, <3>1, <3>2, AgeRows
    <3>3. CASE i # j
      <4>1. rows'[i] = rows[i] /\ ~Age(i)
        BY <1>1, <2>1, <2>3, <3>3, AgeRows
      <4> QED
        BY <1>3, <2>1, <3>1, <4>1 DEF ClockInv, Live
    <3> QED
      BY <3>2, <3>3
  <2> QED
    BY <2>2, <2>3
<1> QED
  BY <1>2, <1>3 DEF ClockInv

\* The ten minutes a sweep counts are those since the job last moved: over any
\* statements, redelivered events and sweeps it fails every live job that stood
\* still that long, and none that did not.
THEOREM SweepsTakeTheStalled == ClockSafe => SweepTakesTheStalled
<1>1. ClockInit => ClockInv
  BY DEF ClockInit, ClockInv, StoreInit, StoreInv, StoreTypeOK, EndExplained, NoRow, Row, Statuses,
     Errors, Live
<1>2. ClockInv /\ [ClockNext]_clockVars => ClockInv'
  <2> SUFFICES ASSUME ClockInv, [ClockNext]_clockVars PROVE ClockInv'
    OBVIOUS
  <2>1. CASE ClockNext
    BY <2>1, ClockStep
  <2>2. CASE UNCHANGED clockVars
    BY <2>2 DEF clockVars, ClockInv, StoreInv, StoreTypeOK, EndExplained, Live
  <2> QED
    BY <2>1, <2>2
<1>3. ASSUME ClockInv, SweepStuck, NEW j \in Live
      PROVE  rows'[j].error = "timeout" <=> j \notin moved
  <2>1. rows \in [Jobs -> Row] /\ j \in Jobs /\ rows[j].error = "none"
    BY <1>3 DEF ClockInv, StoreInv, StoreTypeOK, EndExplained, Live, Terminal
  <2>2. rows'[j].error = "timeout" <=> rows[j].aged
    BY <1>3, <2>1 DEF SweepStuck, Row
  <2> QED
    BY <1>3, <2>2 DEF ClockInv
<1>4. ClockInv
        => [SweepStuck => \A j \in Live : rows'[j].error = "timeout" <=> j \notin moved]_clockVars
  BY <1>3
<1> QED
  BY <1>1, <1>2, <1>4, PTL DEF ClockSafe, SweepTakesTheStalled
=============================================================================
