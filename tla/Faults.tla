------------------------------- MODULE Faults -------------------------------
(***************************************************************************)
(* A budget shared by everything that may go wrong around the code, so     *)
(* that a run explores every combination of at most MaxFaults mishaps of   *)
(* the kinds it names.  The theorems hold for any budget; those about what *)
(* a mishap costs compare with what was spent of it.                       *)
(***************************************************************************)
EXTENDS Naturals

CONSTANTS FaultKinds,   \* the kinds of mishap a run considers
          MaxFaults     \* how many of them may happen in one behaviour

AllFaultKinds ==
  {"crash",      \* a process dies, or its drain budget ends in a cancel
   "lapse",      \* ack_wait passes although the holder is alive
   "window",     \* two minutes pass: a de-duplication id is forgotten
   "publish",    \* a publish reports an error, stored or not
   "settle",     \* an ack, term or nak is lost or raises
   "db",         \* a statement reports an error, committed or not
   "vault",      \* a Valkey command reports an error, executed or not
   "kv",         \* a catalog bucket read reports an error
   "s3",         \* a PUT reports an error, stored or not
   "ttl",        \* 900 seconds pass: an unclaimed key is gone
   "advisory",   \* a core-NATS advisory reaches nobody
   "retention",  \* thirty days pass: a rendered PDF is gone
   "rotate",     \* the gateway's session secret is replaced
   "drop",       \* the connection of a status page ends early
   "internal"}   \* an exception no handler clause names

ASSUME FaultsAssumption == FaultKinds \subseteq AllFaultKinds /\ MaxFaults \in Nat

VARIABLE faults

FaultsTypeOK == faults \in Nat

FaultsInit == faults = 0

\* One mishap of kind k.
Fault(k) == k \in FaultKinds /\ faults < MaxFaults /\ faults' = faults + 1

NoFault == UNCHANGED faults
=============================================================================
