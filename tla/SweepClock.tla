----------------------------- MODULE SweepClock -----------------------------
(***************************************************************************)
(* The jobs table beside an observer of its status column.  The table      *)
(* knows of the ten minutes only what its statements write to updated_at;  *)
(* the observer counts them from what really happened to a job, so that    *)
(* the two can disagree.                                                   *)
(***************************************************************************)
EXTENDS JobStore

VARIABLE moved    \* history: the jobs whose status changed in the last ten minutes

clockVars == <<rows, moved>>

ClockInit == StoreInit /\ moved = {}

\* A job has just moved when its status changes, and no longer once ten minutes
\* went by without a change.
Watch ==
  moved' = {j \in Jobs : statusColumn'[j] # statusColumn[j]} \cup {j \in moved : ~Age(j)}

ClockNext == StoreNext /\ Watch

ClockSafe == ClockInit /\ [][ClockNext]_clockVars

ClockSpec == ClockSafe /\ StoreFairness

-----------------------------------------------------------------------------
(* Properties. *)

\* store.go, SweepStuck: "fails every non-terminal job that has not progressed
\* for olderThan", and no other.  It spares a job that has just moved, since every
\* transition starts the ten minutes again, and an event that is redelivered and
\* moves nothing does not put it off.
SweepTakesTheStalled ==
  [][SweepStuck => \A j \in Live : rows'[j].error = "timeout" <=> j \notin moved]_clockVars
=============================================================================
