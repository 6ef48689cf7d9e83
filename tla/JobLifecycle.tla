---------------------------- MODULE JobLifecycle ----------------------------
(***************************************************************************)
(* What the jobs table promises a visitor, whatever the event stream does  *)
(* (store.go's package comment): a job is created once, may be seen        *)
(* rendering, ends once, in one of two ways, and never leaves that end;    *)
(* every job that was created ends.                                        *)
(***************************************************************************)
CONSTANT Jobs

VARIABLE phase      \* phase[j]: what a visitor can tell of job j

Init == phase = [j \in Jobs |-> "absent"]

Create(j) ==
  /\ phase[j] = "absent"
  /\ phase' = [phase EXCEPT ![j] = "pending"]

Progress(j) ==
  /\ phase[j] = "pending"
  /\ phase' = [phase EXCEPT ![j] = "rendering"]

End(j) ==
  /\ phase[j] \in {"pending", "rendering"}
  /\ \E p \in {"completed", "failed"} : phase' = [phase EXCEPT ![j] = p]

\* The sweeper ends every job of a set in one statement.
FailAll(S) ==
  /\ \A j \in S : phase[j] \in {"pending", "rendering"}
  /\ phase' = [j \in Jobs |-> IF j \in S THEN "failed" ELSE phase[j]]

Next ==
  \/ \E j \in Jobs : Create(j) \/ Progress(j) \/ End(j)
  \/ \E S \in SUBSET Jobs : FailAll(S)

SafeSpec == Init /\ [][Next]_phase

\* Every job that was created ends.
Live == \A j \in Jobs : (phase[j] = "pending") ~> (phase[j] \in {"completed", "failed"})

Spec == SafeSpec /\ Live
=============================================================================
