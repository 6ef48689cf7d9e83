----------------------------- MODULE MCRollout ------------------------------
(***************************************************************************)
(* Instances of Rollout for TLC: a revision, its successor that retires    *)
(* one model and adds another, and one whose file names a key twice.       *)
(***************************************************************************)
EXTENDS Rollout

CONSTANTS kept, retired, added

Entry(k) == [key |-> k, valid |-> TRUE]

MCYaml ==
  [old |-> <<Entry(kept), Entry(retired)>>,
   new |-> <<Entry(added), Entry(kept)>>,
   broken |-> <<Entry(added), Entry(added)>>]
=============================================================================
