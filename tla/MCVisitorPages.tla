--------------------------- MODULE MCVisitorPages ---------------------------
(***************************************************************************)
(* Instances of VisitorPages for TLC.  The limits are scaled down: a short *)
(* text fits everywhere, a long one fits the body of a request but neither *)
(* field of a job.                                                         *)
(***************************************************************************)
EXTENDS VisitorForms

CONSTANTS short, long, none    \* none is the empty text

MCBytes == [x \in Texts |-> IF x = none THEN 0 ELSE IF x = long THEN 3 ELSE 2]

MCWire == [x \in Texts |-> IF x = none THEN 0 ELSE IF x = long THEN 4 ELSE 2]

MCMaxDeliver == [c \in Consumers |-> 1]

MCSymmetry == Permutations(Jobs) \cup Permutations(Ids) \cup Permutations(Tabs) \cup Permutations(Browsers)
=============================================================================
