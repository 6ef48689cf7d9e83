---------------------------- MODULE GatewayEvents ---------------------------
(***************************************************************************)
(* The Runner of gateway internal/jobs/jobs.go: each gateway replica feeds *)
(* the jobs table from the shared durable GATEWAY_EVENTS (handleMsg), the  *)
(* queue group takes MAX_DELIVERIES advisories (handleAdvisory), and every *)
(* replica sweeps.  cvgen.jobs.total is the tally.  Several messages may   *)
(* be out at once: a replica prefetches, and another has its own.          *)
(***************************************************************************)
EXTENDS EventStream, JobStore, Faults

CONSTANT Replicas

VARIABLES
  replica,      \* replica[r]: the message handleMsg is at, and its outcome
  tally         \* tally[j][s]: recordTerminal calls for job j with status s

gatewayVars == <<streamVars, rows, faults, replica, tally>>

Replica == [pc : {"idle", "apply", "ack", "nak"}, slot : 0 .. MaxStream]

Free == [pc |-> "idle", slot |-> 0]

GatewayTypeOK ==
  /\ replica \in [Replicas -> Replica]
  /\ tally \in [Jobs -> [Terminal -> Nat]]

GatewayInit ==
  /\ replica = [r \in Replicas |-> Free]
  /\ tally = [j \in Jobs |-> [s \in Terminal |-> 0]]

Event(r) == stream[replica[r].slot]

ReplicaGoto(r, pc) == replica' = [replica EXCEPT ![r].pc = pc]

Release(r) == replica' = [replica EXCEPT ![r] = Free]

\* recordTerminal, called when the statement reports that it applied.
CountIf(applied, j, s) ==
  tally' = IF applied THEN [tally EXCEPT ![j][s] = @ + 1] ELSE tally

GwFetch(r, i) ==
  /\ replica[r].pc = "idle"
  /\ Deliver("GATEWAY_EVENTS", i)
  /\ replica' = [replica EXCEPT ![r] = [pc |-> "apply", slot |-> i]]
  /\ UNCHANGED <<rows, faults, tally>>

\* The rows a failed event of this stage may touch.
FailGuard(m) == IF Stage(m) = "PROCESSING" THEN Pending ELSE Live

\* Mutant: a failure is a failure, whatever its stage.
ApplyAnyFailure(m) ==
  CASE m.event = "requested"  -> UNCHANGED rows
    [] m.event = "structured" -> MarkRendering(m.job)
    [] m.event = "rendered"   -> MarkCompleted(m.job)
    [] m.event = "failed"     -> MarkFailed(m.job, "worker")

\* Mutant: the requested event falls through to the structured one.
ApplyFallThrough(m) ==
  CASE m.event \in {"requested", "structured"} -> MarkRendering(m.job)
    [] m.event = "rendered" -> MarkCompleted(m.job)
    [] m.event = "failed"   -> IF Stage(m) = "PROCESSING"
                               THEN MarkFailedProcessing(m.job, "worker")
                               ELSE MarkFailed(m.job, "worker")

\* The statement handleMsg runs for message m.
Apply(m) ==
  CASE m.event = "requested"  -> UNCHANGED rows
    [] m.event = "structured" -> MarkRendering(m.job)
    [] m.event = "rendered"   -> MarkCompleted(m.job)
    [] m.event = "failed"     -> IF Stage(m) = "PROCESSING"
                                 THEN MarkFailedProcessing(m.job, "worker")
                                 ELSE MarkFailed(m.job, "worker")

\* Mutant: redeliveries are counted again.
CountAppliedAlways(m) ==
  CASE m.event = "rendered" -> CountIf(TRUE, m.job, "completed")
    [] m.event = "failed"   -> CountIf(TRUE, m.job, "failed")
    [] OTHER                -> UNCHANGED tally

CountApplied(m) ==
  CASE m.event = "rendered" -> CountIf(m.job \in Live, m.job, "completed")
    [] m.event = "failed"   -> CountIf(m.job \in FailGuard(m), m.job, "failed")
    [] OTHER                -> UNCHANGED tally

\* Mutant: a database error is logged and the message acked.
GwApplyAck(r) ==
  /\ replica[r].pc = "apply"
  /\ \/ /\ Apply(Event(r))
        /\ CountApplied(Event(r))
        /\ NoFault
     \/ /\ UNCHANGED <<rows, tally>>
        /\ Fault("db")
  /\ ReplicaGoto(r, "ack")
  /\ UNCHANGED streamVars

\* A database error naks; the statement may have committed all the same.
GwApply(r) ==
  /\ replica[r].pc = "apply"
  /\ \/ /\ Apply(Event(r))
        /\ CountApplied(Event(r))
        /\ ReplicaGoto(r, "ack")
        /\ NoFault
     \/ /\ Event(r).event # "requested"
        /\ Apply(Event(r)) \/ UNCHANGED rows
        /\ ReplicaGoto(r, "nak")
        /\ Fault("db")
        /\ UNCHANGED tally
  /\ UNCHANGED streamVars

\* Ack or nak; an error of either is at most logged.
GwSettle(r) ==
  /\ replica[r].pc \in {"ack", "nak"}
  /\ Release(r)
  /\ \/ replica[r].pc = "ack" /\ Settle("GATEWAY_EVENTS", replica[r].slot) /\ NoFault
     \/ replica[r].pc = "nak" /\ Requeue("GATEWAY_EVENTS", replica[r].slot) /\ NoFault
     \/ Fault("settle") /\ UNCHANGED streamVars
  /\ UNCHANGED <<rows, tally>>

GwCrash(r) ==
  /\ replica[r].pc # "idle"
  /\ Release(r)
  /\ Fault("crash")
  /\ UNCHANGED <<streamVars, rows, tally>>

GwAckWaitLapse(i) ==
  /\ delivery["GATEWAY_EVENTS"][i].state = "out"
  /\ Requeue("GATEWAY_EVENTS", i)
  /\ IF \E r \in Replicas : replica[r].pc # "idle" /\ replica[r].slot = i
     THEN Fault("lapse") ELSE NoFault
  /\ UNCHANGED <<rows, replica, tally>>

\* handleAdvisory: the job of the exhausted message fails, whichever consumer
\* gave it up and whatever became of the job since; an error loses the advisory.
GwAdvisory(a) ==
  /\ TakeAdvisory(a)
  /\ LET j == stream[a[2]].job
     IN \/ /\ MarkFailed(j, "poisoned")
           /\ CountIf(j \in Live, j, "failed")
           /\ NoFault
        \/ /\ MarkFailed(j, "poisoned") \/ UNCHANGED rows
           /\ Fault("db")
           /\ UNCHANGED tally
        \/ Fault("advisory") /\ UNCHANGED <<rows, tally>>
  /\ UNCHANGED replica

\* One tick of a sweeper that finds something; swept jobs are not counted in
\* cvgen.jobs.total.  An error waits for the next tick.
GwSweep ==
  /\ \E j \in Live : rows[j].aged
  /\ SweepStuck
  /\ UNCHANGED <<streamVars, faults, replica, tally>>

GwAge(j) ==
  /\ Age(j)
  /\ UNCHANGED <<streamVars, faults, replica, tally>>

GwStep(r) ==
  \/ \E i \in Published : GwFetch(r, i)
  \/ GwApply(r) \/ GwSettle(r)
  \/ GwCrash(r)
=============================================================================
