------------------------------ MODULE JobStore ------------------------------
(***************************************************************************)
(* The jobs table and the statements of store.go that write it.  Each      *)
(* statement is one guarded UPDATE, atomic in Postgres, so each is one     *)
(* action; a statement whose guard fails changes nothing and reports that  *)
(* it did not apply.  updated_at is kept as the one thing SweepStuck asks  *)
(* of it: whether ten minutes have passed since the last transition.       *)
(***************************************************************************)
EXTENDS Contract

VARIABLE rows

Errors == {"none", "handoff", "enqueue", "worker", "poisoned", "timeout"}

Row == [status : Statuses \cup {"absent"}, pdf : BOOLEAN, error : Errors, aged : BOOLEAN]

NoRow == [status |-> "absent", pdf |-> FALSE, error |-> "none", aged |-> FALSE]

StoreTypeOK == rows \in [Jobs -> Row]

StoreInit == rows = [j \in Jobs |-> NoRow]

Pending == {j \in Jobs : rows[j].status = "pending"}

Live == {j \in Jobs : rows[j].status \in Statuses \ Terminal}

CreateJob(j) ==
  /\ rows[j].status = "absent"
  /\ rows' = [rows EXCEPT ![j] = [NoRow EXCEPT !.status = "pending"]]

\* Mutant: no guard on the status.
MarkRenderingUnguarded(j) ==
  rows' = [rows EXCEPT ![j] = [@ EXCEPT !.status = "rendering", !.aged = FALSE]]

\* Mutant: updated_at is left as it is.
MarkRenderingKeepsClock(j) ==
  rows' = IF j \in Pending
          THEN [rows EXCEPT ![j] = [@ EXCEPT !.status = "rendering"]]
          ELSE rows

MarkRendering(j) ==
  rows' = IF j \in Pending
          THEN [rows EXCEPT ![j] = [@ EXCEPT !.status = "rendering", !.aged = FALSE]]
          ELSE rows

\* Mutant: no guard on the status.
MarkCompletedUnguarded(j) ==
  rows' = [rows EXCEPT ![j] = [@ EXCEPT !.status = "completed", !.pdf = TRUE, !.aged = FALSE]]

\* Mutant: the guard of MarkRendering.
MarkCompletedPending(j) ==
  rows' = IF j \in Pending
          THEN [rows EXCEPT ![j] = [@ EXCEPT !.status = "completed", !.pdf = TRUE, !.aged = FALSE]]
          ELSE rows

MarkCompleted(j) ==
  rows' = IF j \in Live
          THEN [rows EXCEPT ![j] = [@ EXCEPT !.status = "completed", !.pdf = TRUE, !.aged = FALSE]]
          ELSE rows

\* markFailedWhere: the guard is the set of rows the caller lets it touch.
FailWhere(j, guard, error) ==
  rows' = IF j \in guard
          THEN [rows EXCEPT ![j] = [@ EXCEPT !.status = "failed", !.error = error, !.aged = FALSE]]
          ELSE rows

MarkFailedProcessing(j, error) == FailWhere(j, Pending, error)

MarkFailed(j, error) == FailWhere(j, Live, error)

\* now() - updated_at passes ten minutes.
Age(j) ==
  /\ j \in Live
  /\ ~rows[j].aged
  /\ rows' = [rows EXCEPT ![j].aged = TRUE]

\* Mutant: a status the table's CHECK does not know.
SweepStuckStatus ==
  rows' = [j \in Jobs |->
             IF j \in Live /\ rows[j].aged
             THEN [rows[j] EXCEPT !.status = "timeout", !.aged = FALSE]
             ELSE rows[j]]

\* Mutant: jobs that are rendering are passed over.
SweepStuckPending ==
  rows' = [j \in Jobs |->
             IF j \in Pending /\ rows[j].aged
             THEN [rows[j] EXCEPT !.status = "failed", !.error = "timeout", !.aged = FALSE]
             ELSE rows[j]]

SweepStuck ==
  rows' = [j \in Jobs |->
             IF j \in Live /\ rows[j].aged
             THEN [rows[j] EXCEPT !.status = "failed", !.error = "timeout", !.aged = FALSE]
             ELSE rows[j]]

\* The statements another connection may run next, in any order.
StoreNext ==
  \/ \E j \in Jobs :
       \/ CreateJob(j)
       \/ MarkRendering(j)
       \/ MarkCompleted(j)
       \/ MarkFailedProcessing(j, "worker")
       \/ \E e \in {"handoff", "enqueue", "worker", "poisoned"} : MarkFailed(j, e)
       \/ Age(j)
  \/ SweepStuck

\* The clock runs and a gateway replica keeps sweeping every minute.
StoreFairness == WF_rows(SweepStuck) /\ \A j \in Jobs : WF_rows(Age(j))

\* Nothing but the statements ever writes the table: what a component may rely
\* on that shares it with others.
StoreSafe == StoreInit /\ [][StoreNext]_rows

StoreSpec == StoreSafe /\ StoreFairness

-----------------------------------------------------------------------------
(* Properties. *)

\* A job carries an error exactly when it failed, and a PDF key exactly when
\* it completed: no interleaving of the statements leaves a job with both.
EndExplained ==
  \A j \in Jobs :
    /\ rows[j].pdf <=> rows[j].status = "completed"
    /\ rows[j].error # "none" <=> rows[j].status = "failed"

\* No statement, in whatever order events are delivered, touches a job that
\* completed or failed (store.go: "can never resurrect a terminal job").
TerminalIsFinal ==
  [][\A j \in Jobs : rows[j].status \in Terminal => rows'[j] = rows[j]]_rows

\* The status column, which is what JobLifecycle calls the phase of a job.
statusColumn == [j \in Jobs |-> rows[j].status]

Lifecycle == INSTANCE JobLifecycle WITH phase <- statusColumn

\* The table keeps the promise of JobLifecycle: created once, ended once, and
\* every statement in between one step of the lifecycle, whatever the order of
\* events, advisories and ticks (store.go's package comment).
LifecycleSafe == Lifecycle!SafeSpec

\* Every job that has a row ends: what the sweeper is for (jobs.go, sweep).
LifecycleLive == Lifecycle!Live
=============================================================================
