--------------------------- MODULE DeliveryProofs ---------------------------
(***************************************************************************)
(* What the deliveries of a message have cost and who still owes it an     *)
(* answer, for every instance.  Four inductive invariants on top of        *)
(* TypeCorrect: AllAccounted (each delivery but the first was paid by a    *)
(* mishap), CvAnswers (which of its two events a settled CV has in the     *)
(* log), AdvisoriesOwed (a message given up is told of, or the telling met *)
(* a mishap of its own) and, while nothing makes two workers or two        *)
(* attempts handle one message, AnswersOnce (a request has one answer).    *)
(***************************************************************************)
EXTENDS KeyCustodyProofs

-----------------------------------------------------------------------------
(* The books of one message and one consumer.  A delivery is charged when  *)
(* it is made; it is paid by the mishap that sent the one before it back:  *)
(* at once by a crash or a lapse, in advance by a handler that decided to  *)
(* nak.                                                                    *)

Delivery == [state : DeliveryStates, count : Nat]

\* One more delivery of d is paid for: d was sent back, given up, or dropped
\* by everybody who was handed it (H is who holds it).
Prepaid(d, H) ==
  \/ d.state \in {"ready", "exhausted"} /\ d.count > 0
  \/ d.state = "out" /\ H = {}

\* After f mishaps delivery d is in order, with n handlers about to nak it.
Balanced(d, n, H, f, max) ==
  /\ H # {} => d.count > 0
  /\ d.state = "exhausted" => d.count >= max
  /\ d.count + n + (IF Prepaid(d, H) THEN 1 ELSE 0) <= f + 1

\* What a step does to a delivery, the handlers about to nak it, who holds
\* it, and the mishaps:
Passed(d, n, H, f, e, m, K, g) ==      \* nothing
  e = d /\ m = n /\ K = H /\ g \in {f, f + 1}

Decided(d, n, H, f, e, m, K, g) ==     \* an error makes a handler nak it
  e = d /\ m <= n + 1 /\ K = H /\ g = f + 1

Dropped(d, n, H, f, e, m, K, g) ==     \* a mishap takes it from a handler
  e = d /\ m <= n /\ K \subseteq H /\ g = f + 1

Handed(d, n, H, f, e, m, K, g) ==      \* it is delivered
  d.state = "ready" /\ e = [state |-> "out", count |-> d.count + 1] /\ m = n /\ K # {} /\ g = f

Returned(d, n, H, f, e, m, K, g) ==    \* a nak reaches the server
  /\ e.count = d.count /\ e.state = (IF d.state = "out" THEN "ready" ELSE d.state)
  /\ m + 1 = n /\ K \subseteq H /\ H # {} /\ g = f

Settled(d, n, H, f, e, m, K, g) ==     \* an ack or a term does
  /\ e.count = d.count /\ e.state = (IF d.state = "exhausted" THEN d.state ELSE "done")
  /\ m = n /\ K \subseteq H /\ g = f

Lapsed(d, n, H, f, e, m, K, g) ==      \* ack_wait passes
  /\ d.state = "out" /\ e = [state |-> "ready", count |-> d.count]
  /\ m = n /\ K = H /\ g = (IF H # {} THEN f + 1 ELSE f)

GivenUp(d, n, H, f, e, m, K, g, max) ==  \* MaxDeliver is reached
  /\ d.state = "ready" /\ d.count >= max
  /\ e = [state |-> "exhausted", count |-> d.count]
  /\ m = n /\ K = H /\ g = f

Charged(d, n, H, f, e, m, K, g, max) ==
  \/ Passed(d, n, H, f, e, m, K, g)
  \/ Decided(d, n, H, f, e, m, K, g)
  \/ Dropped(d, n, H, f, e, m, K, g)
  \/ Handed(d, n, H, f, e, m, K, g)
  \/ Returned(d, n, H, f, e, m, K, g)
  \/ Settled(d, n, H, f, e, m, K, g)
  \/ Lapsed(d, n, H, f, e, m, K, g)
  \/ GivenUp(d, n, H, f, e, m, K, g, max)

\* None of these unbalances a delivery.
LEMMA StaysBalanced ==
  ASSUME NEW d \in Delivery, NEW e \in Delivery, NEW n \in Nat, NEW m \in Nat,
         NEW f \in Nat, NEW g \in Nat, NEW max \in Nat \ {0}, NEW H, NEW K,
         Balanced(d, n, H, f, max), n > 0 => H # {},
         Charged(d, n, H, f, e, m, K, g, max)
  PROVE  Balanced(e, m, K, g, max)
<1>1. /\ d.count \in Nat /\ e.count \in Nat
      /\ d.state \in DeliveryStates /\ e.state \in DeliveryStates
  BY DEF Delivery
<1>2. CASE Passed(d, n, H, f, e, m, K, g)
  BY <1>1, <1>2 DEF Passed, Balanced, Prepaid
<1>3. CASE Decided(d, n, H, f, e, m, K, g)
  BY <1>1, <1>3 DEF Decided, Balanced, Prepaid
<1>4. CASE Dropped(d, n, H, f, e, m, K, g)
  BY <1>1, <1>4 DEF Dropped, Balanced, Prepaid
<1>5. CASE Handed(d, n, H, f, e, m, K, g)
  BY <1>1, <1>5 DEF Handed, Balanced, Prepaid
<1>6. CASE Returned(d, n, H, f, e, m, K, g)
  BY <1>1, <1>6 DEF Returned, Balanced, Prepaid, DeliveryStates
<1>7. CASE Settled(d, n, H, f, e, m, K, g)
  BY <1>1, <1>7 DEF Settled, Balanced, Prepaid, DeliveryStates
<1>8. CASE Lapsed(d, n, H, f, e, m, K, g)
  BY <1>1, <1>8 DEF Lapsed, Balanced, Prepaid
<1>9. CASE GivenUp(d, n, H, f, e, m, K, g, max)
  BY <1>1, <1>9 DEF GivenUp, Balanced, Prepaid
<1> QED
  BY <1>2, <1>3, <1>4, <1>5, <1>6, <1>7, <1>8, <1>9 DEF Charged

-----------------------------------------------------------------------------
(* Whose hands a message is in. *)

\* The workers, or the replicas, that will nak message i for consumer c.
Nakers(c, i) ==
  IF c = "GATEWAY_EVENTS"
  THEN {r \in Replicas : replica[r].pc = "nak" /\ replica[r].slot = i}
  ELSE {w \in Workers : Durable(w) = c /\ worker[w].slot = i
                        /\ worker[w].pc = "settle" /\ worker[w].note = "nak"}

\* Whoever handles message i for consumer c.
Handlers(c, i) ==
  IF c = "GATEWAY_EVENTS"
  THEN {r \in Replicas : replica[r].pc # "idle" /\ replica[r].slot = i}
  ELSE {w \in Workers : Durable(w) = c /\ Holding(w) /\ worker[w].slot = i}

Accounted(c, i) ==
  /\ IsFiniteSet(Nakers(c, i))
  /\ Balanced(delivery[c][i], Cardinality(Nakers(c, i)), Handlers(c, i), faults, MaxDeliver[c])

AllAccounted == \A c \in Consumers, i \in Slots : Accounted(c, i)

\* The step is one of those above for message i and consumer c.
Charges(c, i) ==
  /\ IsFiniteSet(Nakers(c, i)')
  /\ Charged(delivery[c][i], Cardinality(Nakers(c, i)), Handlers(c, i), faults,
             delivery'[c][i], Cardinality(Nakers(c, i)'), Handlers(c, i)', faults',
             MaxDeliver[c])

LEMMA NakersHandle == \A c \in Consumers, i \in Slots : Nakers(c, i) # {} => Handlers(c, i) # {}
BY DEF Nakers, Handlers, Holding

\* A charged step keeps the books.
LEMMA ChargesBalance ==
  ASSUME EventStreamTypeOK, EventStreamTypeOK', FaultsTypeOK, FaultsTypeOK',
         NEW c \in Consumers, NEW i \in Slots, Accounted(c, i), Charges(c, i)
  PROVE  Accounted(c, i)'
<1> DEFINE n == Cardinality(Nakers(c, i))
           m == Cardinality(Nakers(c, i)')
<1>1. /\ delivery[c][i] \in Delivery /\ delivery'[c][i] \in Delivery
      /\ faults \in Nat /\ faults' \in Nat /\ MaxDeliver[c] \in Nat \ {0}
  BY MaxDeliverAssumption DEF EventStreamTypeOK, FaultsTypeOK, Delivery
<1>2. n \in Nat /\ m \in Nat
  BY FS_CardinalityType DEF Accounted, Charges
<1>3. n > 0 => Handlers(c, i) # {}
  BY <1>2, NakersHandle, FS_EmptySet
<1>4. Balanced(delivery[c][i], n, Handlers(c, i), faults, MaxDeliver[c])
  BY DEF Accounted
<1>5. Balanced(delivery'[c][i], m, Handlers(c, i)', faults', MaxDeliver[c])
  BY <1>1, <1>2, <1>3, <1>4, StaysBalanced DEF Charges
<1> QED
  BY <1>5 DEF Accounted, Charges

\* One handler more or less about to nak.
LEMMA OneHandler ==
  ASSUME NEW S, IsFiniteSet(S), NEW p
  PROVE  /\ IsFiniteSet(S \cup {p}) /\ IsFiniteSet(S \ {p})
         /\ Cardinality(S) \in Nat
         /\ Cardinality(S \cup {p}) <= Cardinality(S) + 1
         /\ Cardinality(S \ {p}) <= Cardinality(S)
         /\ p \in S => Cardinality(S \ {p}) + 1 = Cardinality(S)
<1>1. /\ IsFiniteSet(S \cup {p}) /\ IsFiniteSet(S \ {p}) /\ Cardinality(S) \in Nat
      /\ Cardinality(S \cup {p}) \in {Cardinality(S), Cardinality(S) + 1}
      /\ Cardinality(S \ {p}) \in {Cardinality(S), Cardinality(S) - 1}
      /\ p \in S => Cardinality(S \ {p}) = Cardinality(S) - 1
  BY FS_AddElement, FS_RemoveElement, FS_CardinalityType
<1> QED
  BY <1>1

-----------------------------------------------------------------------------
(* Every step is charged, to every message and consumer. *)

\* The server moves one delivery at a time,
LEMMA OneDelivery ==
  ASSUME EventStreamTypeOK, NEW c \in Consumers, NEW i \in Slots,
         Deliver(c, i) \/ Exhaust(c, i) \/ Settle(c, i) \/ Requeue(c, i),
         NEW b \in Consumers, NEW k \in Slots, b # c \/ k # i
  PROVE  delivery'[b][k] = delivery[b][k]
<1>1. delivery \in [Consumers -> [Slots -> Delivery]]
  BY DEF EventStreamTypeOK, Delivery
<1>2. \A x : delivery' = [delivery EXCEPT ![c][i] = x] => delivery'[b][k] = delivery[b][k]
  BY <1>1
<1>3. delivery' = delivery \/ \E x : delivery' = [delivery EXCEPT ![c][i] = x]
  BY <1>1 DEF Deliver, Exhaust, Settle, Requeue
<1> QED
  BY <1>2, <1>3

\* and moves it like this.
LEMMA DeliveryMoves ==
  ASSUME EventStreamTypeOK, NEW c \in Consumers, NEW i \in Slots
  PROVE  /\ Deliver(c, i) =>
              /\ delivery[c][i].state = "ready"
              /\ delivery'[c][i] = [state |-> "out", count |-> delivery[c][i].count + 1]
         /\ Exhaust(c, i) =>
              /\ delivery[c][i].state = "ready" /\ delivery[c][i].count >= MaxDeliver[c]
              /\ delivery'[c][i] = [state |-> "exhausted", count |-> delivery[c][i].count]
         /\ Settle(c, i) =>
              /\ delivery'[c][i].count = delivery[c][i].count
              /\ delivery'[c][i].state = IF delivery[c][i].state = "exhausted"
                                         THEN "exhausted" ELSE "done"
         /\ Requeue(c, i) =>
              /\ delivery'[c][i].count = delivery[c][i].count
              /\ delivery'[c][i].state = IF delivery[c][i].state = "out"
                                         THEN "ready" ELSE delivery[c][i].state
<1>1. /\ delivery \in [Consumers -> [Slots -> Delivery]]
      /\ delivery[c] \in [Slots -> Delivery] /\ delivery[c][i] \in Delivery
  BY DEF EventStreamTypeOK, Delivery
<1>2. Deliver(c, i) =>
        /\ delivery[c][i].state = "ready"
        /\ delivery'[c][i] = [state |-> "out", count |-> delivery[c][i].count + 1]
  BY <1>1 DEF Deliver, Deliverable
<1>3. Exhaust(c, i) =>
        /\ delivery[c][i].state = "ready" /\ delivery[c][i].count >= MaxDeliver[c]
        /\ delivery'[c][i] = [state |-> "exhausted", count |-> delivery[c][i].count]
  BY <1>1 DEF Exhaust, Deliverable, Delivery
<1>4. Settle(c, i) =>
        /\ delivery'[c][i].count = delivery[c][i].count
        /\ delivery'[c][i].state = IF delivery[c][i].state = "exhausted"
                                   THEN "exhausted" ELSE "done"
  BY <1>1 DEF Settle, Delivery
<1>5. Requeue(c, i) =>
        /\ delivery'[c][i].count = delivery[c][i].count
        /\ delivery'[c][i].state = IF delivery[c][i].state = "out"
                                   THEN "ready" ELSE delivery[c][i].state
  BY <1>1 DEF Requeue, Delivery
<1> QED
  BY <1>2, <1>3, <1>4, <1>5

\* Nobody takes or lets go of a message.
LEMMA NobodyCharged ==
  ASSUME UNCHANGED <<worker, replica>>, NEW c \in Consumers, NEW i \in Slots,
         delivery'[c][i] = delivery[c][i], faults' \in {faults, faults + 1}, Accounted(c, i)
  PROVE  Charges(c, i)
<1>1. Nakers(c, i)' = Nakers(c, i) /\ Handlers(c, i)' = Handlers(c, i)
  BY DEF Nakers, Handlers, Holding
<1> QED
  BY <1>1 DEF Charges, Charged, Passed, Accounted

\* A step of one worker concerns the handlers of what it held and what it holds.
LEMMA WorkerHands ==
  ASSUME NEW w \in Workers, replica' = replica,
         \A v \in Workers \ {w} : worker'[v] = worker[v],
         NEW c \in Consumers, NEW i \in Slots
  PROVE  /\ \/ c # Durable(w)
            \/ /\ ~(Holding(w) /\ worker[w].slot = i)
               /\ ~(worker'[w].pc # "idle" /\ worker'[w].slot = i)
            => Nakers(c, i)' = Nakers(c, i) /\ Handlers(c, i)' = Handlers(c, i)
         /\ c = Durable(w) =>
              /\ Nakers(c, i)' = IF /\ worker'[w].pc = "settle" /\ worker'[w].note = "nak"
                                    /\ worker'[w].slot = i
                                 THEN Nakers(c, i) \cup {w} ELSE Nakers(c, i) \ {w}
              /\ Handlers(c, i)' = IF worker'[w].pc # "idle" /\ worker'[w].slot = i
                                   THEN Handlers(c, i) \cup {w} ELSE Handlers(c, i) \ {w}
<1>1. Durable(w) # "GATEWAY_EVENTS" /\ Holding(w)' = (worker'[w].pc # "idle")
  BY DEF Durable, Holding
<1>2. CASE c = "GATEWAY_EVENTS"
  BY <1>1, <1>2 DEF Nakers, Handlers
<1>3. CASE c # "GATEWAY_EVENTS"
  <2>1. \A v \in Workers \ {w} :
          (v \in Nakers(c, i)' <=> v \in Nakers(c, i)) /\ (v \in Handlers(c, i)' <=> v \in Handlers(c, i))
    BY <1>3 DEF Nakers, Handlers, Holding
  <2>2. /\ w \in Nakers(c, i)' <=> /\ c = Durable(w) /\ worker'[w].slot = i
                                   /\ worker'[w].pc = "settle" /\ worker'[w].note = "nak"
        /\ w \in Handlers(c, i)' <=> c = Durable(w) /\ worker'[w].pc # "idle" /\ worker'[w].slot = i
        /\ w \in Nakers(c, i) <=> /\ c = Durable(w) /\ worker[w].slot = i
                                  /\ worker[w].pc = "settle" /\ worker[w].note = "nak"
        /\ w \in Handlers(c, i) <=> c = Durable(w) /\ Holding(w) /\ worker[w].slot = i
    BY <1>3 DEF Nakers, Handlers, Holding
  <2>3. /\ Nakers(c, i) \subseteq Workers /\ Nakers(c, i)' \subseteq Workers
        /\ Handlers(c, i) \subseteq Workers /\ Handlers(c, i)' \subseteq Workers
    BY <1>3 DEF Nakers, Handlers
  <2>4. c # Durable(w) => Nakers(c, i)' = Nakers(c, i) /\ Handlers(c, i)' = Handlers(c, i)
    BY <2>1, <2>2, <2>3
  <2>5. /\ ~(Holding(w) /\ worker[w].slot = i)
        /\ ~(worker'[w].pc # "idle" /\ worker'[w].slot = i)
        => Nakers(c, i)' = Nakers(c, i) /\ Handlers(c, i)' = Handlers(c, i)
    BY <2>1, <2>2, <2>3 DEF Holding
  <2>6. ASSUME c = Durable(w)
        PROVE  /\ Nakers(c, i)' = IF /\ worker'[w].pc = "settle" /\ worker'[w].note = "nak"
                                     /\ worker'[w].slot = i
                                  THEN Nakers(c, i) \cup {w} ELSE Nakers(c, i) \ {w}
               /\ Handlers(c, i)' = IF worker'[w].pc # "idle" /\ worker'[w].slot = i
                                    THEN Handlers(c, i) \cup {w} ELSE Handlers(c, i) \ {w}
    BY <2>1, <2>2, <2>3, <2>6
  <2> QED
    BY <2>4, <2>5, <2>6
<1> QED
  BY <1>2, <1>3

\* The handler of worker w goes on with what it holds; only a mishap makes it nak.
GoesOn(w) ==
  /\ Holding(w) /\ worker[w].pc # "settle"
  /\ delivery' = delivery
  /\ faults' \in {faults, faults + 1}
  /\ worker'[w].pc # "idle" /\ worker'[w].slot = worker[w].slot
  /\ worker'[w].pc = "settle" /\ worker'[w].note = "nak" => faults' = faults + 1
  /\ \A v \in Workers \ {w} : worker'[v] = worker[v]

LEMMA GoingOnCharged ==
  ASSUME NEW w \in Workers, GoesOn(w), replica' = replica,
         NEW c \in Consumers, NEW i \in Slots, Accounted(c, i)
  PROVE  Charges(c, i)
<1>1. /\ IsFiniteSet(Nakers(c, i)) /\ delivery'[c][i] = delivery[c][i]
      /\ \A v \in Workers \ {w} : worker'[v] = worker[v]
  BY DEF Accounted, GoesOn
<1>2. CASE c # Durable(w) \/ worker[w].slot # i
  <2>1. Nakers(c, i)' = Nakers(c, i) /\ Handlers(c, i)' = Handlers(c, i)
    BY <1>1, <1>2, WorkerHands DEF GoesOn
  <2> QED
    BY <1>1, <2>1 DEF Charges, Charged, Passed, GoesOn
<1>3. CASE c = Durable(w) /\ worker[w].slot = i
  <2>1. w \in Handlers(c, i) /\ w \notin Nakers(c, i)
    BY <1>3 DEF GoesOn, Handlers, Nakers, Durable
  <2>2. Handlers(c, i)' = Handlers(c, i)
    BY <1>1, <1>3, <2>1, WorkerHands DEF GoesOn
  <2>3. CASE worker'[w].pc = "settle" /\ worker'[w].note = "nak"
    <3>1. Nakers(c, i)' = Nakers(c, i) \cup {w} /\ faults' = faults + 1
      BY <1>1, <1>3, <2>3, WorkerHands DEF GoesOn
    <3> QED
      BY <1>1, <2>2, <3>1, OneHandler DEF Charges, Charged, Decided
  <2>4. CASE ~(worker'[w].pc = "settle" /\ worker'[w].note = "nak")
    <3>1. Nakers(c, i)' = Nakers(c, i) \ {w}
      BY <1>1, <1>3, <2>4, WorkerHands
    <3>2. Nakers(c, i)' = Nakers(c, i)
      BY <2>1, <3>1
    <3> QED
      BY <1>1, <2>2, <3>2 DEF Charges, Charged, Passed, GoesOn
  <2> QED
    BY <2>3, <2>4
<1> QED
  BY <1>2, <1>3

LEMMA FetchCharged ==
  ASSUME TypeInv, NEW w \in Workers, NEW k \in Published, NEW pc,
         pc \notin {"idle", "settle"}, Fetch(w, k, pc), replica' = replica,
         NEW c \in Consumers, NEW i \in Slots, Accounted(c, i)
  PROVE  Charges(c, i)
<1>1. /\ PullLoopTypeOK /\ EventStreamTypeOK /\ Durable(w) \in Consumers /\ k \in Slots
      /\ IsFiniteSet(Nakers(c, i)) /\ faults' = faults
      /\ Deliver(Durable(w), k) /\ worker[w].pc = "idle"
  BY DurableIsConsumer, StreamFacts DEF TypeInv, PipelineTypeOK, Fetch, NoFault, Holding, Accounted
<1>2. /\ worker'[w].pc = pc /\ worker'[w].slot = k
      /\ \A v \in Workers \ {w} : worker'[v] = worker[v]
  BY <1>1, FetchMoves
<1>3. CASE c # Durable(w) \/ i # k
  <2>1. delivery'[c][i] = delivery[c][i]
    BY <1>1, <1>3, OneDelivery
  <2>2. Nakers(c, i)' = Nakers(c, i) /\ Handlers(c, i)' = Handlers(c, i)
    BY <1>1, <1>2, <1>3, WorkerHands DEF Holding
  <2> QED
    BY <1>1, <2>1, <2>2 DEF Charges, Charged, Passed
<1>4. CASE c = Durable(w) /\ i = k
  <2>1. /\ delivery[c][i].state = "ready"
        /\ delivery'[c][i] = [state |-> "out", count |-> delivery[c][i].count + 1]
    BY <1>1, <1>4, DeliveryMoves
  <2>2. w \notin Nakers(c, i)
    BY <1>1, <1>4 DEF Nakers, Durable
  <2>3. /\ Nakers(c, i)' = Nakers(c, i) \ {w}
        /\ Handlers(c, i)' = Handlers(c, i) \cup {w}
    BY <1>2, <1>4, WorkerHands
  <2>4. Nakers(c, i)' = Nakers(c, i) /\ Handlers(c, i)' # {}
    BY <2>2, <2>3
  <2> QED
    BY <1>1, <2>1, <2>4 DEF Charges, Charged, Handed
<1> QED
  BY <1>3, <1>4

\* A worker that lets its message go: its handler ended, or it died.
LEMMA LettingGoCharged ==
  ASSUME TypeInv, NEW w \in Workers, Dispatch(w) \/ Crash(w), replica' = replica,
         NEW c \in Consumers, NEW i \in Slots, Accounted(c, i)
  PROVE  Charges(c, i)
<1> DEFINE k == worker[w].slot
           b == Durable(w)
<1>1. Abandon(w) /\ Holding(w)
  BY DEF Dispatch, Crash, Holding
<1>2. /\ PullLoopTypeOK /\ EventStreamTypeOK /\ b \in Consumers /\ k \in Slots
      /\ IsFiniteSet(Nakers(c, i))
  BY <1>1, DurableIsConsumer, StreamFacts, HeldEvent DEF TypeInv, PipelineTypeOK, Accounted
<1>3. worker'[w].pc = "idle" /\ \A v \in Workers \ {w} : worker'[v] = worker[v]
  BY <1>1, <1>2, AbandonMoves
<1>4. \/ worker[w].pc = "settle" /\ worker[w].note = "nak" /\ Requeue(b, k) /\ faults' = faults
      \/ worker[w].pc = "settle" /\ worker[w].note # "nak" /\ Settle(b, k) /\ faults' = faults
      \/ delivery' = delivery /\ faults' = faults + 1
  BY DEF Dispatch, Crash, NoFault, Fault, streamVars
<1>5. CASE c # b \/ i # k
  <2>1. delivery'[c][i] = delivery[c][i] /\ faults' \in {faults, faults + 1}
    BY <1>2, <1>4, <1>5, OneDelivery
  <2>2. Nakers(c, i)' = Nakers(c, i) /\ Handlers(c, i)' = Handlers(c, i)
    BY <1>3, <1>5, WorkerHands
  <2> QED
    BY <1>2, <2>1, <2>2 DEF Charges, Charged, Passed
<1>6. CASE c = b /\ i = k
  <2>1. /\ Nakers(c, i)' = Nakers(c, i) \ {w}
        /\ Handlers(c, i)' = Handlers(c, i) \ {w}
    BY <1>3, <1>6, WorkerHands
  <2>2. w \in Handlers(c, i)
    BY <1>1, <1>6 DEF Handlers, Durable
  <2>3. /\ IsFiniteSet(Nakers(c, i)')
        /\ Cardinality(Nakers(c, i)') <= Cardinality(Nakers(c, i))
        /\ w \in Nakers(c, i) => Cardinality(Nakers(c, i)') + 1 = Cardinality(Nakers(c, i))
        /\ w \notin Nakers(c, i) => Cardinality(Nakers(c, i)') = Cardinality(Nakers(c, i))
        /\ Handlers(c, i)' \subseteq Handlers(c, i) /\ Handlers(c, i) # {}
    <3>1. w \notin Nakers(c, i) => Nakers(c, i)' = Nakers(c, i)
      BY <2>1
    <3> QED
      BY <1>2, <2>1, <2>2, <3>1, OneHandler, ZenonT(30)
  <2>4. CASE worker[w].pc = "settle" /\ worker[w].note = "nak" /\ Requeue(b, k) /\ faults' = faults
    <3>1. w \in Nakers(c, i)
      BY <1>6, <2>4 DEF Nakers, Durable
    <3>2. Requeue(c, i)
      BY <1>6, <2>4
    <3>3. /\ delivery'[c][i].count = delivery[c][i].count
          /\ delivery'[c][i].state = IF delivery[c][i].state = "out"
                                     THEN "ready" ELSE delivery[c][i].state
      BY <1>2, <3>2, DeliveryMoves
    <3> QED
      BY <2>3, <2>4, <3>1, <3>3 DEF Charges, Charged, Returned
  <2>5. CASE worker[w].pc = "settle" /\ worker[w].note # "nak" /\ Settle(b, k) /\ faults' = faults
    <3>1. w \notin Nakers(c, i)
      BY <1>6, <2>5 DEF Nakers, Durable
    <3>2. Settle(c, i)
      BY <1>6, <2>5
    <3>3. /\ delivery'[c][i].count = delivery[c][i].count
          /\ delivery'[c][i].state = IF delivery[c][i].state = "exhausted"
                                     THEN "exhausted" ELSE "done"
      BY <1>2, <3>2, DeliveryMoves
    <3> QED
      BY <2>3, <2>5, <3>1, <3>3 DEF Charges, Charged, Settled
  <2>6. CASE delivery' = delivery /\ faults' = faults + 1
    BY <2>3, <2>6 DEF Charges, Charged, Dropped
  <2> QED
    BY <1>4, <2>4, <2>5, <2>6
<1> QED
  BY <1>5, <1>6

\* A worker fetches, goes on with what it holds, or lets it go.
LEMMA WorkerKinds ==
  ASSUME TypeInv, NEW w \in Workers,
         (w \in AiWorkers /\ AiStep(w)) \/ (w \in CvWorkers /\ CvStep(w))
  PROVE  \/ \E i \in Published : \E pc : pc \notin {"idle", "settle"} /\ Fetch(w, i, pc)
         \/ GoesOn(w)
         \/ Dispatch(w) \/ Crash(w)
<1>1. PullLoopTypeOK
  BY DEF TypeInv, PipelineTypeOK
<1>2. ASSUME NEW pc, NEW note, Goto(w, pc, note), pc # "idle", Holding(w), worker[w].pc # "settle",
             delivery' = delivery, faults' \in {faults, faults + 1},
             pc = "settle" /\ note = "nak" => faults' = faults + 1
      PROVE  GoesOn(w)
  BY <1>1, <1>2, GotoMoves DEF GoesOn
<1>3. ASSUME worker' = [worker EXCEPT ![w].tries = @ + 1], worker[w].pc = "publish",
             delivery' = delivery, faults' = faults + 1
      PROVE  GoesOn(w)
  BY <1>1, <1>3, RetryMoves DEF GoesOn, Holding
<1>4. ASSUME NEW m, Publish(m) \/ PublishErr(m)
      PROVE  delivery' = delivery
  BY <1>4 DEF Publish, PublishErr, streamVars
<1>5. ASSUME NEW m, PublishWithRetry(w, m)
      PROVE  GoesOn(w)
  <2>1. worker[w].pc = "publish" /\ Holding(w) /\ delivery' = delivery
    BY <1>4, <1>5 DEF PublishWithRetry, Holding
  <2>2. \/ Goto(w, "settle", "ack") /\ faults' = faults
        \/ worker' = [worker EXCEPT ![w].tries = @ + 1] /\ faults' = faults + 1
        \/ Goto(w, "settle", "nak") /\ faults' = faults + 1
    BY <1>5 DEF PublishWithRetry, Finish, NoFault, Fault
  <2> QED
    BY <1>2, <1>3, <2>1, <2>2
<1>6. ASSUME NEW m, ReportFailure(w, m)
      PROVE  GoesOn(w)
  <2>1. worker[w].pc = "fail" /\ Holding(w) /\ delivery' = delivery
    BY <1>4, <1>6 DEF ReportFailure, Holding
  <2>2. \/ Goto(w, "settle", "term") /\ faults' = faults
        \/ Goto(w, "settle", "nak") /\ faults' = faults + 1
    BY <1>6 DEF ReportFailure, Finish, NoFault, Fault
  <2> QED
    BY <1>2, <2>1, <2>2
<1>7. CASE w \in AiWorkers /\ AiStep(w)
  <2>1. CASE AiResolve(w) \/ AiClaim(w) \/ AiBuild(w) \/ AiCall(w)
    <3>1. delivery' = delivery /\ Holding(w) /\ worker[w].pc # "settle"
      BY <2>1 DEF AiResolve, AiClaim, AiBuild, AiCall, streamVars, Holding
    <3>2. \/ Goto(w, "settle", "nak") /\ faults' = faults + 1
          \/ \E pc \in {"fail", "build", "claim", "call", "publish", "render", "put"} :
               \E note : Goto(w, pc, note) /\ faults' = faults
      <4>1. CASE AiResolve(w)
        BY <4>1 DEF AiResolve, Finish, NoFault, Fault
      <4>2. CASE AiClaim(w)
        BY <4>2 DEF AiClaim, Finish, NoFault, Fault
      <4>3. CASE AiBuild(w)
        BY <4>3 DEF AiBuild, Finish, NoFault, Fault
      <4>4. CASE AiCall(w)
        BY <4>4 DEF AiCall, Finish, NoFault, Fault
      <4> QED
        BY <2>1, <4>1, <4>2, <4>3, <4>4
    <3> QED
      BY <1>2, <3>1, <3>2
  <2>2. CASE AiPublish(w) \/ AiFail(w)
    BY <1>5, <1>6, <2>2 DEF AiPublish, AiFail
  <2>3. CASE \E i \in Published : AiFetch(w, i)
    BY <2>3 DEF AiFetch
  <2> QED
    BY <1>7, <2>1, <2>2, <2>3 DEF AiStep, AiHandler, AiDispatch, AiCrash
<1>8. CASE w \in CvWorkers /\ CvStep(w)
  <2>1. CASE CvConvert(w) \/ CvRender(w) \/ CvPut(w)
    <3>1. delivery' = delivery /\ Holding(w) /\ worker[w].pc # "settle"
      BY <2>1 DEF CvConvert, CvRender, CvPut, streamVars, Holding
    <3>2. \/ Goto(w, "settle", "nak") /\ faults' = faults + 1
          \/ \E pc \in {"fail", "build", "claim", "call", "publish", "render", "put"} :
               \E note : Goto(w, pc, note) /\ faults' = faults
      <4>1. CASE CvConvert(w)
        BY <4>1 DEF CvConvert, Finish, NoFault, Fault
      <4>2. CASE CvRender(w)
        BY <4>2 DEF CvRender, Finish, NoFault, Fault
      <4>3. CASE CvPut(w)
        BY <4>3 DEF CvPut, Finish, NoFault, Fault
      <4> QED
        BY <2>1, <4>1, <4>2, <4>3
    <3> QED
      BY <1>2, <3>1, <3>2
  <2>2. CASE CvPublish(w) \/ CvFail(w)
    BY <1>5, <1>6, <2>2 DEF CvPublish, CvFail
  <2>3. CASE \E i \in Published : CvFetch(w, i)
    BY <2>3 DEF CvFetch
  <2> QED
    BY <1>8, <2>1, <2>2, <2>3 DEF CvStep, CvHandler, CvDispatch, CvCrash
<1> QED
  BY <1>7, <1>8

\* A step of one replica concerns the handlers of what it held and what it holds.
LEMMA ReplicaHands ==
  ASSUME NEW r \in Replicas, worker' = worker,
         \A q \in Replicas \ {r} : replica'[q] = replica[q],
         NEW c \in Consumers, NEW i \in Slots
  PROVE  /\ \/ c # "GATEWAY_EVENTS"
            \/ /\ ~(replica[r].pc # "idle" /\ replica[r].slot = i)
               /\ ~(replica'[r].pc # "idle" /\ replica'[r].slot = i)
            => Nakers(c, i)' = Nakers(c, i) /\ Handlers(c, i)' = Handlers(c, i)
         /\ c = "GATEWAY_EVENTS" =>
              /\ Nakers(c, i)' = IF replica'[r].pc = "nak" /\ replica'[r].slot = i
                                 THEN Nakers(c, i) \cup {r} ELSE Nakers(c, i) \ {r}
              /\ Handlers(c, i)' = IF replica'[r].pc # "idle" /\ replica'[r].slot = i
                                   THEN Handlers(c, i) \cup {r} ELSE Handlers(c, i) \ {r}
<1>1. CASE c # "GATEWAY_EVENTS"
  BY <1>1 DEF Nakers, Handlers, Holding
<1>2. CASE c = "GATEWAY_EVENTS"
  <2>1. \A q \in Replicas \ {r} :
          (q \in Nakers(c, i)' <=> q \in Nakers(c, i)) /\ (q \in Handlers(c, i)' <=> q \in Handlers(c, i))
    BY <1>2 DEF Nakers, Handlers
  <2>2. /\ r \in Nakers(c, i)' <=> replica'[r].pc = "nak" /\ replica'[r].slot = i
        /\ r \in Handlers(c, i)' <=> replica'[r].pc # "idle" /\ replica'[r].slot = i
        /\ r \in Nakers(c, i) <=> replica[r].pc = "nak" /\ replica[r].slot = i
        /\ r \in Handlers(c, i) <=> replica[r].pc # "idle" /\ replica[r].slot = i
    BY <1>2 DEF Nakers, Handlers
  <2>3. /\ Nakers(c, i) \subseteq Replicas /\ Nakers(c, i)' \subseteq Replicas
        /\ Handlers(c, i) \subseteq Replicas /\ Handlers(c, i)' \subseteq Replicas
    BY <1>2 DEF Nakers, Handlers
  <2>4. /\ ~(replica[r].pc # "idle" /\ replica[r].slot = i)
        /\ ~(replica'[r].pc # "idle" /\ replica'[r].slot = i)
        => Nakers(c, i)' = Nakers(c, i) /\ Handlers(c, i)' = Handlers(c, i)
    BY <2>1, <2>2, <2>3
  <2>5. /\ Nakers(c, i)' = IF replica'[r].pc = "nak" /\ replica'[r].slot = i
                           THEN Nakers(c, i) \cup {r} ELSE Nakers(c, i) \ {r}
        /\ Handlers(c, i)' = IF replica'[r].pc # "idle" /\ replica'[r].slot = i
                             THEN Handlers(c, i) \cup {r} ELSE Handlers(c, i) \ {r}
    BY <2>1, <2>2, <2>3
  <2> QED
    BY <1>2, <2>4, <2>5
<1> QED
  BY <1>1, <1>2

\* A replica fetches, ...
LEMMA GwFetchCharged ==
  ASSUME TypeInv, NEW r \in Replicas, NEW p \in Published, GwFetch(r, p), worker' = worker,
         NEW c \in Consumers, NEW i \in Slots, Accounted(c, i)
  PROVE  Charges(c, i)
<1>1. /\ EventStreamTypeOK /\ "GATEWAY_EVENTS" \in Consumers /\ p \in Slots
      /\ replica \in [Replicas -> Replica] /\ IsFiniteSet(Nakers(c, i))
      /\ Deliver("GATEWAY_EVENTS", p) /\ replica[r].pc = "idle" /\ faults' = faults
  BY StreamFacts DEF TypeInv, PipelineTypeOK, GatewayTypeOK, Consumers, GwFetch, Accounted
<1>2. /\ replica'[r].pc = "apply" /\ replica'[r].slot = p
      /\ \A q \in Replicas \ {r} : replica'[q] = replica[q]
  BY <1>1 DEF GwFetch
<1>3. CASE c # "GATEWAY_EVENTS" \/ i # p
  <2>1. delivery'[c][i] = delivery[c][i]
    BY <1>1, <1>3, OneDelivery
  <2>2. Nakers(c, i)' = Nakers(c, i) /\ Handlers(c, i)' = Handlers(c, i)
    BY <1>1, <1>2, <1>3, ReplicaHands
  <2> QED
    BY <1>1, <2>1, <2>2 DEF Charges, Charged, Passed
<1>4. CASE c = "GATEWAY_EVENTS" /\ i = p
  <2>1. /\ delivery[c][i].state = "ready"
        /\ delivery'[c][i] = [state |-> "out", count |-> delivery[c][i].count + 1]
    BY <1>1, <1>4, DeliveryMoves
  <2>2. r \notin Nakers(c, i)
    BY <1>1, <1>4 DEF Nakers
  <2>3. /\ Nakers(c, i)' = Nakers(c, i) \ {r}
        /\ Handlers(c, i)' = Handlers(c, i) \cup {r}
    BY <1>2, <1>4, ReplicaHands
  <2>4. Nakers(c, i)' = Nakers(c, i) /\ Handlers(c, i)' # {}
    BY <2>2, <2>3
  <2> QED
    BY <1>1, <2>1, <2>4 DEF Charges, Charged, Handed
<1> QED
  BY <1>3, <1>4

\* applies, ...
LEMMA GwApplyCharged ==
  ASSUME TypeInv, NEW r \in Replicas, GwApply(r), worker' = worker,
         NEW c \in Consumers, NEW i \in Slots, Accounted(c, i)
  PROVE  Charges(c, i)
<1>1. /\ replica \in [Replicas -> Replica] /\ IsFiniteSet(Nakers(c, i))
      /\ delivery'[c][i] = delivery[c][i] /\ replica[r].pc = "apply"
      /\ \/ ReplicaGoto(r, "ack") /\ faults' = faults
         \/ ReplicaGoto(r, "nak") /\ faults' = faults + 1
  BY DEF TypeInv, PipelineTypeOK, GatewayTypeOK, GwApply, Accounted, NoFault, Fault, streamVars
<1>2. /\ replica'[r].slot = replica[r].slot
      /\ \/ replica'[r].pc = "ack" /\ faults' = faults
         \/ replica'[r].pc = "nak" /\ faults' = faults + 1
      /\ \A q \in Replicas \ {r} : replica'[q] = replica[q]
  BY <1>1 DEF ReplicaGoto, Replica
<1>3. CASE c # "GATEWAY_EVENTS" \/ i # replica[r].slot
  <2>1. Nakers(c, i)' = Nakers(c, i) /\ Handlers(c, i)' = Handlers(c, i)
    BY <1>2, <1>3, ReplicaHands
  <2> QED
    BY <1>1, <1>2, <2>1 DEF Charges, Charged, Passed
<1>4. CASE c = "GATEWAY_EVENTS" /\ i = replica[r].slot
  <2>1. r \in Handlers(c, i) /\ r \notin Nakers(c, i)
    BY <1>1, <1>4 DEF Handlers, Nakers
  <2>2. Handlers(c, i)' = Handlers(c, i)
    <3>1. Handlers(c, i)' = Handlers(c, i) \cup {r}
      BY <1>2, <1>4, ReplicaHands
    <3> QED
      BY <2>1, <3>1
  <2>3. CASE replica'[r].pc = "nak" /\ faults' = faults + 1
    <3>1. Nakers(c, i)' = Nakers(c, i) \cup {r}
      BY <1>2, <1>4, <2>3, ReplicaHands
    <3> QED
      BY <1>1, <2>2, <2>3, <3>1, OneHandler DEF Charges, Charged, Decided
  <2>4. CASE replica'[r].pc = "ack" /\ faults' = faults
    <3>1. Nakers(c, i)' = Nakers(c, i) \ {r}
      BY <1>2, <1>4, <2>4, ReplicaHands
    <3>2. Nakers(c, i)' = Nakers(c, i)
      BY <2>1, <3>1
    <3> QED
      BY <1>1, <2>2, <2>4, <3>2 DEF Charges, Charged, Passed
  <2> QED
    BY <1>2, <2>3, <2>4
<1> QED
  BY <1>3, <1>4

\* and lets go.
LEMMA GwReleaseCharged ==
  ASSUME TypeInv, NEW r \in Replicas, GwSettle(r) \/ GwCrash(r), worker' = worker,
         NEW c \in Consumers, NEW i \in Slots, Accounted(c, i)
  PROVE  Charges(c, i)
<1> DEFINE k == replica[r].slot
           b == "GATEWAY_EVENTS"
<1>1. Release(r) /\ replica[r].pc # "idle"
  BY DEF GwSettle, GwCrash
<1>2. /\ EventStreamTypeOK /\ b \in Consumers /\ k \in Slots
      /\ replica \in [Replicas -> Replica] /\ IsFiniteSet(Nakers(c, i))
  BY <1>1, EventIsMessage DEF TypeInv, Placed, PipelineTypeOK, GatewayTypeOK, Accounted, Consumers
<1>3. replica'[r].pc = "idle" /\ \A q \in Replicas \ {r} : replica'[q] = replica[q]
  BY <1>1, <1>2 DEF Release, Free
<1>4. \/ replica[r].pc = "nak" /\ Requeue(b, k) /\ faults' = faults
      \/ replica[r].pc # "nak" /\ Settle(b, k) /\ faults' = faults
      \/ delivery' = delivery /\ faults' = faults + 1
  BY DEF GwSettle, GwCrash, NoFault, Fault, streamVars
<1>5. CASE c # b \/ i # k
  <2>1. delivery'[c][i] = delivery[c][i] /\ faults' \in {faults, faults + 1}
    BY <1>2, <1>4, <1>5, OneDelivery
  <2>2. Nakers(c, i)' = Nakers(c, i) /\ Handlers(c, i)' = Handlers(c, i)
    BY <1>3, <1>5, ReplicaHands
  <2> QED
    BY <1>2, <2>1, <2>2 DEF Charges, Charged, Passed
<1>6. CASE c = b /\ i = k
  <2>1. /\ Nakers(c, i)' = Nakers(c, i) \ {r}
        /\ Handlers(c, i)' = Handlers(c, i) \ {r}
    BY <1>3, <1>6, ReplicaHands
  <2>2. r \in Handlers(c, i)
    BY <1>1, <1>6 DEF Handlers
  <2>3. /\ IsFiniteSet(Nakers(c, i)')
        /\ Cardinality(Nakers(c, i)') <= Cardinality(Nakers(c, i))
        /\ r \in Nakers(c, i) => Cardinality(Nakers(c, i)') + 1 = Cardinality(Nakers(c, i))
        /\ r \notin Nakers(c, i) => Cardinality(Nakers(c, i)') = Cardinality(Nakers(c, i))
        /\ Handlers(c, i)' \subseteq Handlers(c, i) /\ Handlers(c, i) # {}
    <3>1. r \notin Nakers(c, i) => Nakers(c, i)' = Nakers(c, i)
      BY <2>1
    <3>2. /\ IsFiniteSet(Nakers(c, i) \ {r})
          /\ Cardinality(Nakers(c, i) \ {r}) <= Cardinality(Nakers(c, i))
          /\ r \in Nakers(c, i) => Cardinality(Nakers(c, i) \ {r}) + 1 = Cardinality(Nakers(c, i))
      BY <1>2, OneHandler
    <3> QED
      BY <2>1, <2>2, <3>1, <3>2
  <2>4. CASE replica[r].pc = "nak" /\ Requeue(b, k) /\ faults' = faults
    <3>1. r \in Nakers(c, i)
      BY <1>6, <2>4 DEF Nakers
    <3>2. Requeue(c, i)
      BY <1>6, <2>4
    <3>3. /\ delivery'[c][i].count = delivery[c][i].count
          /\ delivery'[c][i].state = IF delivery[c][i].state = "out"
                                     THEN "ready" ELSE delivery[c][i].state
      BY <1>2, <3>2, DeliveryMoves
    <3> QED
      BY <2>3, <2>4, <3>1, <3>3 DEF Charges, Charged, Returned
  <2>5. CASE replica[r].pc # "nak" /\ Settle(b, k) /\ faults' = faults
    <3>1. r \notin Nakers(c, i)
      BY <1>6, <2>5 DEF Nakers
    <3>2. Settle(c, i)
      BY <1>6, <2>5
    <3>3. /\ delivery'[c][i].count = delivery[c][i].count
          /\ delivery'[c][i].state = IF delivery[c][i].state = "exhausted"
                                     THEN "exhausted" ELSE "done"
      BY <1>2, <3>2, DeliveryMoves, ZenonT(30)
    <3> QED
      BY <2>3, <2>5, <3>1, <3>3 DEF Charges, Charged, Settled
  <2>6. CASE delivery' = delivery /\ faults' = faults + 1
    BY <2>3, <2>6 DEF Charges, Charged, Dropped
  <2> QED
    BY <1>4, <2>4, <2>5, <2>6
<1> QED
  BY <1>5, <1>6

\* ack_wait passes: a mishap if, and only if, somebody holds the message.
LEMMA LapseCharged ==
  ASSUME TypeInv, UNCHANGED <<worker, replica>>, NEW b \in Consumers, NEW k \in Slots,
         delivery[b][k].state = "out", Requeue(b, k),
         faults' = (IF Handlers(b, k) # {} THEN faults + 1 ELSE faults),
         NEW c \in Consumers, NEW i \in Slots, Accounted(c, i)
  PROVE  Charges(c, i)
<1>1. EventStreamTypeOK /\ IsFiniteSet(Nakers(c, i))
  BY DEF TypeInv, PipelineTypeOK, Accounted
<1>2. Nakers(c, i)' = Nakers(c, i) /\ Handlers(c, i)' = Handlers(c, i)
  BY DEF Nakers, Handlers, Holding
<1>3. CASE c # b \/ i # k
  <2>1. delivery'[c][i] = delivery[c][i]
    BY <1>1, <1>3, OneDelivery
  <2> QED
    BY <1>1, <1>2, <2>1 DEF Charges, Charged, Passed
<1>4. CASE c = b /\ i = k
  <2>1. delivery \in [Consumers -> [Slots -> Delivery]]
    BY <1>1 DEF EventStreamTypeOK, Delivery
  <2>2. delivery'[c][i] = [state |-> "ready", count |-> delivery[c][i].count]
    BY <1>4, <2>1 DEF Requeue, Delivery
  <2> QED
    BY <1>1, <1>2, <1>4, <2>2 DEF Charges, Charged, Lapsed
<1> QED
  BY <1>3, <1>4

\* A submission, a sweep, an advisory or a forgotten id hands over no message.
LEMMA OthersDeliverNothing ==
  ASSUME \/ \E j \in Jobs : Submit(j) \/ Stall(j)
         \/ \E a \in advisories : Poison(a)
         \/ Sweep
         \/ \E id \in window : ForgetId(id)
         \/ \E j \in vault : KeyExpires(j)
         \/ UNCHANGED vars
  PROVE  UNCHANGED <<worker, replica, delivery>> /\ faults' \in {faults, faults + 1}
<1>1. CASE \E j \in Jobs : Submit(j)
  <2>1. PICK j \in Jobs : SubmitStep(j) /\ UNCHANGED <<worker, replica>>
    BY <1>1 DEF Submit
  <2> QED
    BY <2>1 DEF SubmitStep, SubmitCall, SubmitCreate, SubmitPutKey, SubmitPublish, SubmitMarkFailed,
                SubmitCrash, Publish, PublishErr, NoFault, Fault, streamVars
<1>2. CASE \/ \E j \in Jobs : Stall(j)
           \/ \E a \in advisories : Poison(a)
           \/ Sweep
  BY <1>2 DEF Stall, GwAge, Poison, GwAdvisory, TakeAdvisory, Sweep, GwSweep, NoFault, Fault, streamVars
<1>3. CASE (\E id \in window : ForgetId(id)) \/ \E j \in vault : KeyExpires(j)
  BY <1>3 DEF ForgetId, Forget, KeyExpires, Fault, streamVars
<1>4. CASE UNCHANGED vars
  BY <1>4 DEF vars
<1> QED
  BY <1>1, <1>2, <1>3, <1>4

LEMMA NextCharges ==
  ASSUME TypeInv, [Next]_vars, NEW c \in Consumers, NEW i \in Slots, Accounted(c, i)
  PROVE  Charges(c, i)
<1>1. EventStreamTypeOK /\ Published \subseteq Slots /\ "GATEWAY_EVENTS" \in Consumers
  BY StreamFacts DEF TypeInv, PipelineTypeOK, Consumers
<1>2. CASE \/ \E w \in AiWorkers : Process(w)
           \/ \E w \in CvWorkers : Render(w)
  <2>1. PICK w \in Workers : /\ (w \in AiWorkers /\ AiStep(w)) \/ (w \in CvWorkers /\ CvStep(w))
                             /\ replica' = replica
    BY <1>2 DEF Process, Render, Workers
  <2> QED
    BY <2>1, WorkerKinds, FetchCharged, GoingOnCharged, LettingGoCharged
<1>3. CASE \E r \in Replicas : Project(r)
  <2>1. PICK r \in Replicas : GwStep(r) /\ worker' = worker
    BY <1>3 DEF Project
  <2> QED
    BY <2>1, GwFetchCharged, GwApplyCharged, GwReleaseCharged DEF GwStep
<1>4. CASE \E w \in Workers, k \in Published : WorkerLapse(w, k)
  <2>1. PICK w \in Workers, k \in Published : WorkerLapse(w, k)
    BY <1>4
  <2>2. Handlers(Durable(w), k) =
          {v \in Workers : Durable(v) = Durable(w) /\ Holding(v) /\ worker[v].slot = k}
    BY DEF Handlers, Durable
  <2>3. faults' = (IF Handlers(Durable(w), k) # {} THEN faults + 1 ELSE faults)
    BY <2>1, <2>2 DEF WorkerLapse, AckWaitLapse, Fault, NoFault
  <2> QED
    BY <1>1, <2>1, <2>3, LapseCharged, DurableIsConsumer DEF WorkerLapse, AckWaitLapse
<1>5. CASE \E k \in Published : GatewayLapse(k)
  <2>1. PICK k \in Published : GatewayLapse(k)
    BY <1>5
  <2>2. faults' = (IF Handlers("GATEWAY_EVENTS", k) # {} THEN faults + 1 ELSE faults)
    BY <2>1 DEF GatewayLapse, GwAckWaitLapse, Fault, NoFault, Handlers
  <2> QED
    BY <1>1, <2>1, <2>2, LapseCharged DEF GatewayLapse, GwAckWaitLapse
<1>6. CASE \E b \in Consumers, k \in Published : GiveUp(b, k)
  <2>1. PICK b \in Consumers, k \in Published : GiveUp(b, k)
    BY <1>6
  <2>2. /\ Nakers(c, i)' = Nakers(c, i) /\ Handlers(c, i)' = Handlers(c, i)
        /\ faults' = faults /\ IsFiniteSet(Nakers(c, i))
    BY <2>1 DEF GiveUp, Nakers, Handlers, Holding, Accounted
  <2>3. CASE c # b \/ i # k
    <3>1. delivery'[c][i] = delivery[c][i]
      BY <1>1, <2>1, <2>3, OneDelivery DEF GiveUp
    <3> QED
      BY <2>2, <3>1 DEF Charges, Charged, Passed
  <2>4. CASE c = b /\ i = k
    <3>1. Exhaust(c, i)
      BY <2>1, <2>4 DEF GiveUp
    <3>2. /\ delivery[c][i].state = "ready" /\ delivery[c][i].count >= MaxDeliver[c]
          /\ delivery'[c][i] = [state |-> "exhausted", count |-> delivery[c][i].count]
      BY <1>1, <3>1, DeliveryMoves, ZenonT(30)
    <3> QED
      BY <2>2, <3>2 DEF Charges, Charged, GivenUp
  <2> QED
    BY <2>3, <2>4
<1>7. CASE \/ \E j \in Jobs : Submit(j) \/ Stall(j)
           \/ \E a \in advisories : Poison(a)
           \/ Sweep
           \/ \E id \in window : ForgetId(id)
           \/ \E j \in vault : KeyExpires(j)
           \/ UNCHANGED vars
  BY <1>7, OthersDeliverNothing, NobodyCharged
<1> QED
  BY <1>2, <1>3, <1>4, <1>5, <1>6, <1>7 DEF Next, Clocks

LEMMA NextAccounts ==
  ASSUME TypeInv, TypeInv', [Next]_vars, AllAccounted
  PROVE  AllAccounted'
<1>1. /\ EventStreamTypeOK /\ EventStreamTypeOK' /\ FaultsTypeOK /\ FaultsTypeOK'
  BY DEF TypeInv, PipelineTypeOK
<1>2. ASSUME NEW c \in Consumers, NEW i \in Slots
      PROVE  Accounted(c, i)'
  BY <1>1, NextCharges, ChargesBalance DEF AllAccounted
<1> QED
  BY <1>2 DEF AllAccounted

\* The books of every delivery are in order, whatever happens to the processes.
LEMMA DeliveriesAccounted == SafeSpec => []AllAccounted
<1>1. Init => AllAccounted
  <2> SUFFICES ASSUME Init, NEW c \in Consumers, NEW i \in Slots
               PROVE  Accounted(c, i)
    BY DEF AllAccounted
  <2>1. delivery[c][i] = [state |-> "ready", count |-> 0] /\ faults = 0
    BY DEF Init, EventStreamInit, FaultsInit
  <2>2. Nakers(c, i) = {} /\ Handlers(c, i) = {}
    BY DEF Nakers, Handlers, Holding, Init, PullLoopInit, GatewayInit, Idle, Free
  <2>3. IsFiniteSet(Nakers(c, i)) /\ Cardinality(Nakers(c, i)) = 0
    BY <2>2, FS_EmptySet
  <2> QED
    BY <2>1, <2>2, <2>3 DEF Accounted, Balanced, Prepaid
<1>2. TypeInv /\ TypeInv' /\ AllAccounted /\ [Next]_vars => AllAccounted'
  BY NextAccounts
<1> QED
  BY <1>1, <1>2, TypeCorrect, PTL DEF SafeSpec

\* A consumer gives a message up only after as many mishaps as it allows
\* deliveries: nothing that merely overtakes, repeats or refuses work uses them up.
THEOREM PipelineExhaustionTakesMishaps == SafeSpec => []ExhaustionTakesMishaps
<1>1. TypeInv /\ AllAccounted => ExhaustionTakesMishaps
  <2> SUFFICES ASSUME TypeInv, AllAccounted, NEW c \in Consumers, NEW i \in Published,
                      delivery[c][i].state = "exhausted"
               PROVE  faults >= MaxDeliver[c]
    BY DEF ExhaustionTakesMishaps
  <2>1. i \in Slots /\ MaxDeliver[c] \in Nat \ {0} /\ delivery[c][i].count \in Nat /\ faults \in Nat
    BY StreamFacts, MaxDeliverAssumption DEF TypeInv, PipelineTypeOK, EventStreamTypeOK, FaultsTypeOK
  <2>2. /\ IsFiniteSet(Nakers(c, i))
        /\ Balanced(delivery[c][i], Cardinality(Nakers(c, i)), Handlers(c, i), faults, MaxDeliver[c])
    BY <2>1 DEF AllAccounted, Accounted
  <2>3. Cardinality(Nakers(c, i)) \in Nat
    BY <2>2, FS_CardinalityType
  <2>4. delivery[c][i].count >= MaxDeliver[c] /\ delivery[c][i].count + 1 <= faults + 1
    BY <2>1, <2>2, <2>3 DEF Balanced, Prepaid
  <2> QED
    BY <2>1, <2>4
<1> QED
  BY <1>1, DeliveriesAccounted, TypeCorrect, PTL

-----------------------------------------------------------------------------
(* What the cv-generator knows when it settles a CV.  SettledIsAnswered    *)
(* says rendered or failed; here: which of the two, by the CV's kind.      *)

CvSettled(i) ==
  \/ stream[i].body = "good" /\ InStream(stream[i].job, "rendered")
  \/ stream[i].body = "bad" /\ InStream(stream[i].job, "failed")

CvKnows(w) ==
  /\ worker[w].pc \in {"put", "publish"} => Held(w).body = "good"
  /\ worker[w].pc = "fail" => Held(w).body = "bad"
  /\ worker[w].pc = "settle" /\ worker[w].note \in {"ack", "term"} => CvSettled(worker[w].slot)

CvAnswers ==
  /\ \A w \in CvWorkers : CvKnows(w)
  /\ \A i \in Slots :
       delivery["CV_GENERATOR"][i].state = "done" => i \in Published /\ CvSettled(i)

\* What was answered stays so, and a worker left alone knows what it knew.
LEMMA CvSettledStays ==
  ASSUME LogGrows, NEW i \in Published, CvSettled(i)
  PROVE  i \in Published' /\ CvSettled(i)'
<1>1. i \in Published' /\ stream'[i] = stream[i]
  BY DEF LogGrows
<1>2. \A j, e : InStream(j, e) => InStream(j, e)'
  BY InStreamStays
<1> QED
  BY <1>1, <1>2 DEF CvSettled

LEMMA CvKnowsStays ==
  ASSUME TypeInv, LogGrows, NEW w \in CvWorkers, CvKnows(w), worker'[w] = worker[w]
  PROVE  CvKnows(w)'
<1>1. CASE Holding(w)
  <2>1. worker[w].slot \in Published
    BY <1>1, HeldEvent DEF Workers
  <2>2. stream'[worker[w].slot] = stream[worker[w].slot]
    BY <2>1 DEF LogGrows
  <2>3. Held(w)' = Held(w)
    BY <2>2 DEF Held
  <2>4. CvSettled(worker[w].slot) => CvSettled(worker[w].slot)'
    <3> DEFINE i == worker[w].slot
    <3>1. \A j, e : InStream(j, e) => InStream(j, e)'
      BY InStreamStays
    <3> QED
      BY <2>2, <3>1 DEF CvSettled
  <2> QED
    BY <2>3, <2>4 DEF CvKnows
<1>2. CASE ~Holding(w)
  BY <1>2 DEF Holding, CvKnows
<1> QED
  BY <1>1, <1>2

\* The handler decides by the CV's kind, publishes, and only then settles.
LEMMA CvStepKnows ==
  ASSUME TypeInv, WindowInLog, NEW w \in CvWorkers, CvStep(w), CvKnows(w)
  PROVE  CvKnows(w)' /\ \A v \in Workers \ {w} : worker'[v] = worker[v]
<1> DEFINE Goal == CvKnows(w)' /\ \A v \in Workers \ {w} : worker'[v] = worker[v]
<1>1. w \in Workers /\ PullLoopTypeOK /\ EventStreamTypeOK /\ WellPlaced(w) /\ LogGrows
  BY CvKeeps DEF Workers, TypeInv, PipelineTypeOK, Placed, WorkersPlaced, LoopInv, LoopKept
<1>2. ASSUME NEW pc, NEW note, Goto(w, pc, note), Holding(w),
             pc \in {"put", "publish"} => Held(w).body = "good",
             pc = "fail" => Held(w).body = "bad",
             pc = "settle" /\ note \in {"ack", "term"} => CvSettled(worker[w].slot)'
      PROVE  Goal
  <2>1. /\ worker'[w].pc = pc /\ worker'[w].note = note /\ worker'[w].slot = worker[w].slot
        /\ \A v \in Workers \ {w} : worker'[v] = worker[v]
    BY <1>1, <1>2, GotoMoves
  <2>2. worker[w].slot \in Published
    BY <1>1, <1>2 DEF WellPlaced
  <2>3. Held(w)' = Held(w)
    BY <1>1, <2>1, <2>2 DEF Held, LogGrows
  <2> QED
    BY <1>2, <2>1, <2>3 DEF CvKnows, CvSettled
<1>3. ASSUME NEW e \in Events, worker[w].note \in Bodies[e], Holding(w), NEW note,
             Publish(Message(Held(w).job, e, worker[w].note)), Goto(w, "settle", note)
      PROVE  InStream(stream[worker[w].slot].job, e)' /\ Held(w)' = Held(w)
  <2>1. PICK m \in Messages : m = Message(Held(w).job, e, worker[w].note)
    BY <1>1, <1>3, HeldIsMessage, MessageType
  <2>2. InStream(m.job, m.event)'
    BY <1>1, <1>3, <2>1, PublishLeaves
  <2>3. m.job = Held(w).job /\ m.event = e
    BY <2>1 DEF Message
  <2>4. worker[w].slot \in Published /\ worker'[w].slot = worker[w].slot
    BY <1>1, <1>3, GotoMoves DEF WellPlaced
  <2>5. stream'[worker'[w].slot] = Held(w)
    BY <1>1, <2>4 DEF Held, LogGrows
  <2> QED
    BY <2>2, <2>3, <2>5 DEF Held
<1>4. CASE \E i \in Published : CvFetch(w, i)
  <2>1. PICK i : Fetch(w, i, "convert")
    BY <1>4 DEF CvFetch
  <2> QED
    BY <1>1, <2>1, FetchMoves DEF CvKnows
<1>5. CASE CvConvert(w) \/ CvRender(w) \/ CvPut(w)
  <2>1. Holding(w)
    BY <1>5 DEF CvConvert, CvRender, CvPut, Holding
  <2>2. \/ Held(w).body = "bad" /\ Goto(w, "fail", "rendering")
        \/ Goto(w, "render", "none")
        \/ Held(w).body = "good" /\ Goto(w, "put", "none")
        \/ Held(w).body = "good" /\ Goto(w, "publish", "good")
        \/ Goto(w, "settle", "nak")
    BY <1>5 DEF CvConvert, CvRender, CvPut, CvKnows, Finish
  <2> QED
    BY <1>2, <2>1, <2>2
<1>6. CASE CvPublish(w)
  <2>1. PublishWithRetry(w, Message(Held(w).job, "rendered", worker[w].note))
    BY <1>6 DEF CvPublish
  <2>2. /\ worker[w].pc = "publish" /\ Holding(w) /\ Held(w).body = "good"
        /\ worker[w].note \in Bodies["rendered"] /\ "rendered" \in Events
    BY <1>1, <2>1, WorkersAssumption
       DEF PublishWithRetry, WellPlaced, Holding, Answer, CvKnows, Events
  <2>3. CASE Publish(Message(Held(w).job, "rendered", worker[w].note)) /\ Goto(w, "settle", "ack")
    <3>1. CvSettled(worker[w].slot)'
      <4>1. InStream(stream[worker[w].slot].job, "rendered")' /\ Held(w)' = Held(w)
        BY <1>3, <2>2, <2>3
      <4> QED
        BY <2>2, <4>1 DEF CvSettled, Held
    <3> QED
      BY <1>2, <2>2, <2>3, <3>1
  <2>4. CASE worker' = [worker EXCEPT ![w].tries = @ + 1]
    <3>1. /\ worker'[w].pc = "publish" /\ worker'[w].slot = worker[w].slot
          /\ \A v \in Workers \ {w} : worker'[v] = worker[v]
      BY <1>1, <2>2, <2>4, RetryMoves
    <3>2. worker[w].slot \in Published
      BY <1>1, <2>2 DEF WellPlaced
    <3>3. Held(w)' = Held(w)
      BY <1>1, <3>1, <3>2 DEF Held, LogGrows
    <3> QED
      BY <2>2, <3>1, <3>3 DEF CvKnows
  <2>5. CASE Goto(w, "settle", "nak")
    BY <1>2, <2>2, <2>5
  <2> QED
    BY <2>1, <2>3, <2>4, <2>5 DEF PublishWithRetry, Finish
<1>7. CASE CvFail(w)
  <2>1. ReportFailure(w, Message(Held(w).job, "failed", worker[w].note))
    BY <1>7 DEF CvFail
  <2>2. /\ Holding(w) /\ Held(w).body = "bad"
        /\ worker[w].note \in Bodies["failed"] /\ "failed" \in Events
    BY <1>1, <2>1 DEF ReportFailure, WellPlaced, Holding, CvKnows, Events
  <2>3. CASE Publish(Message(Held(w).job, "failed", worker[w].note)) /\ Goto(w, "settle", "term")
    <3>1. InStream(stream[worker[w].slot].job, "failed")' /\ Held(w)' = Held(w)
      BY <1>3, <2>2, <2>3
    <3>2. CvSettled(worker[w].slot)'
      BY <2>2, <3>1 DEF CvSettled, Held
    <3> QED
      BY <1>2, <2>2, <2>3, <3>2
  <2>4. CASE Goto(w, "settle", "nak")
    BY <1>2, <2>2, <2>4
  <2> QED
    BY <2>1, <2>3, <2>4 DEF ReportFailure, Finish
<1>8. CASE CvDispatch(w) \/ CvCrash(w)
  <2>1. Abandon(w)
    BY <1>8 DEF CvDispatch, Dispatch, CvCrash, Crash
  <2> QED
    BY <1>1, <2>1, AbandonMoves DEF CvKnows
<1> QED
  BY <1>4, <1>5, <1>6, <1>7, <1>8 DEF CvStep, CvHandler

LEMMA NextCvAnswers ==
  ASSUME TypeInv, AnswerInv, CvAnswers, [Next]_vars
  PROVE  CvAnswers'
<1>1. LogGrows
  BY NextKeeps, SameLog DEF TypeInv, PipelineTypeOK, vars
<1>2. ASSUME NEW w \in CvWorkers
      PROVE  CvKnows(w)'
  <2>1. CvKnows(w)
    BY DEF CvAnswers
  <2>2. CASE worker'[w] = worker[w]
    BY <1>1, <2>1, <2>2, CvKnowsStays
  <2>3. CASE \E v \in AiWorkers : Process(v)
    BY <2>2, <2>3, AiMovesItself DEF Process, TypeInv, PipelineTypeOK
  <2>4. ASSUME NEW v \in CvWorkers, Render(v)
        PROVE  CvKnows(w)'
    <3>1. CvKnows(v) /\ CvStep(v) /\ WindowInLog
      BY <2>4 DEF CvAnswers, Render, AnswerInv
    <3>2. CvKnows(v)' /\ \A u \in Workers \ {v} : worker'[u] = worker[u]
      BY <3>1, CvStepKnows
    <3> QED
      BY <2>2, <3>2 DEF Workers
  <2> QED
    BY <2>2, <2>3, <2>4, OthersLeaveWorkers
<1>3. ASSUME NEW i \in Slots, delivery'["CV_GENERATOR"][i].state = "done"
      PROVE  i \in Published' /\ CvSettled(i)'
  <2>1. i \in Published /\ CvSettled(i)
    <3>1. CASE delivery["CV_GENERATOR"][i].state = "done"
      BY <3>1 DEF CvAnswers
    <3>2. CASE delivery["CV_GENERATOR"][i].state # "done"
      <4>1. PICK w \in Workers :
              /\ "CV_GENERATOR" = Durable(w) /\ worker[w].slot = i
              /\ worker[w].pc = "settle" /\ worker[w].note \in {"ack", "term"}
        BY <1>3, <3>2, DoneByItsHolder DEF Consumers
      <4>2. w \in CvWorkers
        BY <4>1 DEF Durable, Workers
      <4>3. i \in Published
        BY <4>1, HeldEvent DEF Holding
      <4> QED
        BY <4>1, <4>2, <4>3 DEF CvAnswers, CvKnows
    <3> QED
      BY <3>1, <3>2
  <2> QED
    BY <1>1, <2>1, CvSettledStays
<1> QED
  BY <1>2, <1>3 DEF CvAnswers

-----------------------------------------------------------------------------
(* Who hears of a message that was given up. *)

AdvisoryOwed(c, i) ==
  /\ i \in Published
  /\ <<c, i>> \in advisories \/ stream[i].job \notin Live \/ faults > MaxDeliver[c]

AdvisoriesOwed ==
  \A c \in Consumers, i \in Slots : delivery[c][i].state = "exhausted" => AdvisoryOwed(c, i)

\* Only the server, at the limit, gives a message up.
LEMMA ExhaustedByServer ==
  ASSUME TypeInv, [Next]_vars, NEW c \in Consumers, NEW i \in Slots,
         delivery[c][i].state # "exhausted", delivery'[c][i].state = "exhausted"
  PROVE  i \in Published /\ GiveUp(c, i)
<1>1. /\ EventStreamTypeOK /\ delivery' # delivery /\ Published \subseteq Slots
      /\ "GATEWAY_EVENTS" \in Consumers
  BY StreamFacts DEF TypeInv, PipelineTypeOK, Consumers
<1>2. ASSUME NEW b \in Consumers, NEW k \in Slots,
             Deliver(b, k) \/ Settle(b, k) \/ Requeue(b, k)
      PROVE  FALSE
  <2>1. b = c /\ k = i
    BY <1>1, <1>2, OneDelivery
  <2>2. Deliver(c, i) \/ Settle(c, i) \/ Requeue(c, i)
    BY <1>2, <2>1
  <2>3. CASE Deliver(c, i)
    <3>1. delivery'[c][i] = [state |-> "out", count |-> delivery[c][i].count + 1]
      BY <1>1, <2>3, DeliveryMoves
    <3> QED
      BY <3>1
  <2>4. CASE Settle(c, i)
    BY <1>1, <2>4, DeliveryMoves
  <2>5. CASE Requeue(c, i)
    BY <1>1, <2>5, DeliveryMoves
  <2> QED
    BY <2>2, <2>3, <2>4, <2>5
<1>3. ASSUME NEW w \in Workers, (w \in AiWorkers /\ AiStep(w)) \/ (w \in CvWorkers /\ CvStep(w))
      PROVE  FALSE
  <2>1. Dispatch(w) \/ \E k \in Published : \E pc : Fetch(w, k, pc)
    <3>1. ~Crash(w) /\ ~GoesOn(w)
      BY <1>1 DEF GoesOn, Crash, streamVars
    <3> QED
      BY <1>3, <3>1, WorkerKinds
  <2>2. CASE Dispatch(w)
    <3>1. Durable(w) \in Consumers /\ worker[w].slot \in Slots
      BY <1>1, <2>2, DurableIsConsumer, HeldEvent DEF Dispatch, Holding
    <3> QED
      BY <1>1, <1>2, <2>2, <3>1 DEF Dispatch, streamVars
  <2>3. CASE \E k \in Published : \E pc : Fetch(w, k, pc)
    BY <1>1, <1>2, <2>3, DurableIsConsumer DEF Fetch
  <2> QED
    BY <2>1, <2>2, <2>3
<1>4. CASE (\E w \in AiWorkers : Process(w)) \/ (\E w \in CvWorkers : Render(w))
  BY <1>3, <1>4 DEF Process, Render, Workers
<1>5. CASE \E r \in Replicas : Project(r)
  <2>1. PICK r \in Replicas : GwStep(r)
    BY <1>5 DEF Project
  <2>2. CASE GwSettle(r)
    <3>1. replica[r].slot \in Slots
      BY <1>1, <2>2 DEF GwSettle, TypeInv, Placed, ReplicasPlaced
    <3> QED
      BY <1>1, <1>2, <2>2, <3>1 DEF GwSettle, streamVars
  <2> QED
    BY <1>1, <1>2, <2>1, <2>2 DEF GwStep, GwFetch, GwApply, GwCrash, streamVars
<1>6. CASE \/ \E w \in Workers, k \in Published : WorkerLapse(w, k)
           \/ \E k \in Published : GatewayLapse(k)
  BY <1>1, <1>2, <1>6, DurableIsConsumer
     DEF WorkerLapse, AckWaitLapse, GatewayLapse, GwAckWaitLapse
<1>7. CASE \/ \E j \in Jobs : Submit(j) \/ Stall(j)
           \/ \E a \in advisories : Poison(a)
           \/ Sweep
           \/ \E id \in window : ForgetId(id)
           \/ \E j \in vault : KeyExpires(j)
           \/ UNCHANGED vars
  BY <1>1, <1>7, OthersDeliverNothing
<1>8. CASE \E b \in Consumers, k \in Published : GiveUp(b, k)
  <2>1. PICK b \in Consumers, k \in Published : GiveUp(b, k)
    BY <1>8
  <2>2. b = c /\ k = i
    BY <1>1, <2>1, OneDelivery DEF GiveUp
  <2> QED
    BY <2>1, <2>2
<1> QED
  BY <1>4, <1>5, <1>6, <1>7, <1>8 DEF Next, Clocks

\* An advisory goes only to handleAdvisory, or nowhere.
LEMMA AdvisoryTaken ==
  ASSUME [Next]_vars, NEW a \in advisories, a \notin advisories'
  PROVE  Poison(a)
<1>1. ASSUME NEW b \in advisories, Poison(b)
      PROVE  b = a
  BY <1>1 DEF Poison, GwAdvisory, TakeAdvisory
<1>2. ASSUME NEW m, Publish(m) \/ PublishErr(m)
      PROVE  FALSE
  BY <1>2 DEF Publish, PublishErr, streamVars
<1>3. CASE \E j \in Jobs : Submit(j)
  BY <1>2, <1>3
     DEF Submit, SubmitStep, SubmitCreate, SubmitCall, SubmitPutKey, SubmitPublish,
         SubmitMarkFailed, SubmitCrash, streamVars
<1>4. CASE \E w \in AiWorkers : Process(w)
  BY <1>2, <1>4
     DEF Process, AiStep, AiFetch, Fetch, Deliver, AiHandler, AiResolve, AiClaim, AiBuild, AiCall,
         AiPublish, PublishWithRetry, AiFail, ReportFailure, AiDispatch, Dispatch, Settle, Requeue,
         AiCrash, Crash, streamVars
<1>5. CASE \E w \in CvWorkers : Render(w)
  BY <1>2, <1>5
     DEF Render, CvStep, CvFetch, Fetch, Deliver, CvHandler, CvConvert, CvRender, CvPut, CvPublish,
         PublishWithRetry, CvFail, ReportFailure, CvDispatch, Dispatch, Settle, Requeue,
         CvCrash, Crash, streamVars
<1>6. CASE \E r \in Replicas : Project(r)
  BY <1>6 DEF Project, GwStep, GwFetch, Deliver, GwApply, GwSettle, Settle, Requeue, GwCrash, streamVars
<1>7. CASE (\E j \in Jobs : Stall(j)) \/ Sweep \/ UNCHANGED vars
  BY <1>7 DEF Stall, GwAge, Sweep, GwSweep, vars, streamVars
<1>8. CASE Clocks
  BY <1>8 DEF Clocks, WorkerLapse, AckWaitLapse, GatewayLapse, GwAckWaitLapse, Requeue, GiveUp,
       Exhaust, ForgetId, Forget, KeyExpires, streamVars
<1> QED
  BY <1>1, <1>3, <1>4, <1>5, <1>6, <1>7, <1>8 DEF Next

\* A job that has a row and is not live stays so.
LEMMA EndedStaysEnded ==
  ASSUME TypeInv, [Next]_vars, NEW j \in Jobs, j \notin Live, rows[j].status # "absent"
  PROVE  j \notin Live'
<1>1. rows[j].status \in Terminal
  BY DEF TypeInv, PipelineTypeOK, StoreTypeOK, Row, Live
<1> QED
  BY <1>1, TableSteps DEF Live

\* An advisory that is taken fails the job, or the mishap that keeps it from
\* doing so is one more than it took to exhaust the message.
LEMMA NextOwesAdvisories ==
  ASSUME TypeInv, JobsKnown, AllAccounted, AdvisoriesOwed, [Next]_vars
  PROVE  AdvisoriesOwed'
<1> SUFFICES ASSUME NEW c \in Consumers, NEW i \in Slots, delivery'[c][i].state = "exhausted"
             PROVE  AdvisoryOwed(c, i)'
  BY DEF AdvisoriesOwed
<1>1. LogGrows
  BY NextKeeps, SameLog DEF TypeInv, PipelineTypeOK, vars
<1>2. CASE delivery[c][i].state # "exhausted"
  <2>1. i \in Published /\ GiveUp(c, i)
    BY <1>2, ExhaustedByServer
  <2> QED
    BY <1>1, <2>1 DEF GiveUp, Exhaust, AdvisoryOwed, LogGrows
<1>3. CASE delivery[c][i].state = "exhausted"
  <2>1. AdvisoryOwed(c, i)
    BY <1>3 DEF AdvisoriesOwed
  <2>2. /\ i \in Published /\ i \in Published' /\ stream'[i] = stream[i]
        /\ stream[i].job \in Jobs /\ rows[stream[i].job].status # "absent"
    BY <1>1, <2>1, StreamFacts, MessageFields
       DEF AdvisoryOwed, LogGrows, JobsKnown, TypeInv, PipelineTypeOK
  <2>3. /\ faults \in Nat /\ MaxDeliver[c] \in Nat \ {0} /\ faults' \in Nat
        /\ faults' >= faults /\ faults >= MaxDeliver[c]
    <3>1. faults \in Nat /\ MaxDeliver[c] \in Nat \ {0} /\ delivery[c][i].count \in Nat
      BY MaxDeliverAssumption DEF TypeInv, PipelineTypeOK, EventStreamTypeOK, FaultsTypeOK
    <3>2. /\ IsFiniteSet(Nakers(c, i))
          /\ Balanced(delivery[c][i], Cardinality(Nakers(c, i)), Handlers(c, i), faults, MaxDeliver[c])
      BY DEF AllAccounted, Accounted
    <3>3. Cardinality(Nakers(c, i)) \in Nat
      BY <3>2, FS_CardinalityType
    <3>4. faults >= MaxDeliver[c]
      BY <1>3, <3>1, <3>2, <3>3 DEF Balanced, Prepaid
    <3>5. Charges(c, i)
      BY NextCharges DEF AllAccounted
    <3>6. faults' \in {faults, faults + 1}
      BY <3>5 DEF Charges, Charged, Passed, Decided, Dropped, Handed, Returned, Settled, Lapsed, GivenUp
    <3> QED
      BY <3>1, <3>4, <3>6
  <2>4. CASE faults > MaxDeliver[c]
    BY <2>2, <2>3, <2>4 DEF AdvisoryOwed
  <2>5. CASE stream[i].job \notin Live
    BY <2>2, <2>5, EndedStaysEnded DEF AdvisoryOwed
  <2>6. CASE <<c, i>> \in advisories /\ <<c, i>> \in advisories'
    BY <2>2, <2>6 DEF AdvisoryOwed
  <2>7. CASE <<c, i>> \in advisories /\ <<c, i>> \notin advisories'
    <3>1. Poison(<<c, i>>)
      BY <2>7, AdvisoryTaken
    <3>2. \/ MarkFailed(stream[i].job, "poisoned") /\ faults' = faults
          \/ faults' = faults + 1
      BY <3>1 DEF Poison, GwAdvisory, NoFault, Fault
    <3>3. CASE MarkFailed(stream[i].job, "poisoned")
      <4> DEFINE j == stream[i].job
      <4>1. rows' = IF j \in Live
                    THEN [rows EXCEPT ![j] = [@ EXCEPT !.status = "failed", !.error = "poisoned", !.aged = FALSE]]
                    ELSE rows
        BY <3>3 DEF MarkFailed, FailWhere
      <4>2. j \in Jobs /\ rows \in [Jobs -> Row]
        BY <2>2 DEF TypeInv, PipelineTypeOK, StoreTypeOK
      <4>3. rows'[j].status \notin Statuses \ Terminal
        BY <4>1, <4>2 DEF Live, Statuses, Terminal, Row
      <4>4. stream[i].job \notin Live'
        BY <4>3 DEF Live
      <4> QED
        BY <2>2, <4>4 DEF AdvisoryOwed
    <3>4. CASE faults' = faults + 1
      BY <2>2, <2>3, <3>4 DEF AdvisoryOwed
    <3> QED
      BY <3>2, <3>3, <3>4
  <2> QED
    BY <2>1, <2>4, <2>5, <2>6, <2>7 DEF AdvisoryOwed
<1> QED
  BY <1>2, <1>3

-----------------------------------------------------------------------------
(* Nobody is forgotten. *)

\* A message of a live job that its consumer has not settled is expected.
LEMMA UnsettledIsExpected ==
  ASSUME TypeInv, AdvisoriesOwed, NEW c \in Consumers, NEW i \in Published,
         stream[i].job \in Live, delivery[c][i].state # "done"
  PROVE  Expected(c, i)
<1>1. i \in Slots /\ delivery[c][i].state \in DeliveryStates
  BY StreamFacts DEF TypeInv, PipelineTypeOK, EventStreamTypeOK
<1>2. CASE delivery[c][i].state = "exhausted"
  BY <1>1, <1>2 DEF AdvisoriesOwed, AdvisoryOwed, Expected
<1> QED
  BY <1>1, <1>2 DEF DeliveryStates, Expected

\* Follow the job from its request: each message of it is expected, or settled,
\* and then its answer is in the log, down to the event that ends the row.
LEMMA LiveIsOwed ==
  ASSUME TypeInv, AckInv, AnswerInv, CvAnswers, AdvisoriesOwed, Service!WorkBehind,
         NEW j \in Live, InStream(j, "requested")
  PROVE  \/ \E c \in Consumers, i \in Published :
              stream[i].job = j /\ TakesOn(c, i) /\ Expected(c, i)
         \/ /\ rows[j].status = "rendering" /\ Positions(j, "failed") # {}
            /\ \E i \in Positions(j, "structured") : Swallowed(i)
<1> DEFINE Awaited == \E c \in Consumers, i \in Published :
                        stream[i].job = j /\ TakesOn(c, i) /\ Expected(c, i)
<1>1. /\ Published \subseteq Slots
      /\ {"AI_PROCESSOR", "CV_GENERATOR", "GATEWAY_EVENTS"} \subseteq Consumers
      /\ j \in Jobs /\ rows[j].status \in {"pending", "rendering"}
  BY StreamFacts DEF TypeInv, PipelineTypeOK, Consumers, Live, Statuses, Terminal
<1>2. ASSUME NEW c \in Consumers, NEW i \in Published, stream[i].job = j, TakesOn(c, i),
             delivery[c][i].state # "done"
      PROVE  Awaited
  BY <1>2, UnsettledIsExpected
<1>3. ASSUME NEW i \in Published, delivery["GATEWAY_EVENTS"][i].state = "done", stream[i].job = j
      PROVE  Reflects(rows[j], stream[i])
  BY <1>1, <1>3 DEF AckInv
<1>4. ASSUME NEW i \in Published, stream[i].job = j, stream[i].event = "failed",
             Stage(stream[i]) = "RENDERING" \/ rows[j].status = "pending"
      PROVE  Awaited
  <2>1. TakesOn("GATEWAY_EVENTS", i)
    BY <1>1, <1>4 DEF TakesOn, FailGuard, Pending, Live
  <2>2. delivery["GATEWAY_EVENTS"][i].state # "done"
    BY <1>1, <1>3, <1>4 DEF Reflects, Terminal
  <2> QED
    BY <1>1, <1>2, <1>4, <2>1, <2>2
<1>5. PICK r \in Published : stream[r].job = j /\ stream[r].event = "requested"
  BY DEF InStream
<1>6. CASE delivery["AI_PROCESSOR"][r].state # "done"
  <2>1. TakesOn("AI_PROCESSOR", r)
    BY <1>5 DEF TakesOn, FilterSubjects
  <2> QED
    BY <1>1, <1>2, <1>5, <1>6, <2>1
<1>7. CASE InStream(j, "structured")
  <2>1. PICK i \in Published : stream[i].job = j /\ stream[i].event = "structured"
    BY <1>7 DEF InStream
  <2>2. CASE delivery["CV_GENERATOR"][i].state # "done"
    <3>1. TakesOn("CV_GENERATOR", i)
      BY <2>1 DEF TakesOn, FilterSubjects
    <3> QED
      BY <1>1, <1>2, <2>1, <2>2, <3>1
  <2>3. CASE InStream(j, "rendered")
    <3>1. PICK k \in Published : stream[k].job = j /\ stream[k].event = "rendered"
      BY <2>3 DEF InStream
    <3>2. TakesOn("GATEWAY_EVENTS", k)
      BY <3>1 DEF TakesOn
    <3>3. delivery["GATEWAY_EVENTS"][k].state # "done"
      BY <1>1, <1>3, <3>1 DEF Reflects, Terminal
    <3> QED
      BY <1>1, <1>2, <3>1, <3>2, <3>3
  <2>4. CASE /\ delivery["CV_GENERATOR"][i].state = "done"
             /\ stream[i].body = "bad" /\ InStream(j, "failed")
    <3>1. PICK k \in Published : stream[k].job = j /\ stream[k].event = "failed"
      BY <2>4 DEF InStream
    <3>2. CASE rows[j].status = "pending"
      BY <1>4, <3>1, <3>2
    <3>3. CASE \E f \in Positions(j, "failed") : Stage(stream[f]) = "RENDERING"
      BY <1>4, <3>3 DEF Positions
    <3>4. CASE /\ rows[j].status = "rendering"
               /\ \A f \in Positions(j, "failed") : Stage(stream[f]) # "RENDERING"
      <4>1. Swallowed(i) /\ i \in Positions(j, "structured") /\ k \in Positions(j, "failed")
        BY <2>1, <2>4, <3>1, <3>4 DEF Swallowed, Positions
      <4> QED
        BY <3>4, <4>1
    <3> QED
      BY <1>1, <3>2, <3>3, <3>4
  <2> QED
    BY <1>1, <2>1, <2>2, <2>3, <2>4 DEF CvAnswers, CvSettled
<1>8. CASE delivery["AI_PROCESSOR"][r].state = "done" /\ ~InStream(j, "structured")
  <2>1. InStream(j, "failed")
    BY <1>1, <1>5, <1>8 DEF AnswerInv, Answered, Replies
  <2>2. PICK k \in Published : stream[k].job = j /\ stream[k].event = "failed"
    BY <2>1 DEF InStream
  <2>3. rows[j].status = "pending"
    BY <1>1, <1>8, MadeInStream DEF Service!WorkBehind, statusColumn
  <2> QED
    BY <1>4, <2>2, <2>3
<1> QED
  BY <1>6, <1>7, <1>8

\* No requested job is forgotten by the streams, the workers and the gateway,
\* whatever crashes, lapses, is overtaken or delivered twice: while its row is
\* live, some message or advisory is due that takes the job on, except when the
\* window swallowed a rendering failure, and but for an advisory that a mishap
\* beyond those of the exhaustion itself has cost.
THEOREM PipelineUnfinishedIsOwed == SafeSpec => []UnfinishedIsOwed
<1>1. Init => CvAnswers /\ AnswerInv /\ AdvisoriesOwed
  <2> SUFFICES ASSUME Init PROVE CvAnswers /\ AnswerInv /\ AdvisoriesOwed
    OBVIOUS
  <2>1. /\ \A w \in Workers : worker[w].pc = "idle"
        /\ \A c \in Consumers, i \in Slots : delivery[c][i].state = "ready"
        /\ window = {}
    BY DEF Init, PullLoopInit, Idle, EventStreamInit
  <2>2. CvAnswers
    BY <2>1 DEF CvAnswers, CvKnows, Consumers, Workers
  <2>3. AnswerInv
    BY <2>1 DEF AnswerInv, WindowInLog, Consumers
  <2> QED
    BY <2>1, <2>2, <2>3 DEF AdvisoriesOwed
<1>2. Init => AckInv
  BY InitAcks
<1>3. TypeInv /\ AckInv /\ [Next]_vars => AckInv'
  BY NextAcks
<1>4. TypeInv /\ AnswerInv /\ [Next]_vars => AnswerInv'
  BY NextAnswers
<1>5. TypeInv /\ AnswerInv /\ CvAnswers /\ [Next]_vars => CvAnswers'
  BY NextCvAnswers
<1>6. TypeInv /\ AckInv /\ AllAccounted /\ AdvisoriesOwed /\ [Next]_vars => AdvisoriesOwed'
  BY NextOwesAdvisories DEF AckInv
<1>7. TypeInv /\ AckInv /\ AnswerInv /\ CvAnswers /\ AdvisoriesOwed /\ Service!WorkBehind
        => UnfinishedIsOwed
  BY LiveIsOwed DEF UnfinishedIsOwed
<1> QED
  BY <1>1, <1>2, <1>3, <1>4, <1>5, <1>6, <1>7, TypeCorrect, DeliveriesAccounted,
     PipelineWorkBehind, PTL DEF SafeSpec
-----------------------------------------------------------------------------
(* What it takes to swallow a rendering failure: two answers to one        *)
(* request, a CV and then a failure.  The ai-processor gives the second    *)
(* one only if the first delivery was disturbed after it answered.         *)

Undisturbed == FaultKinds \cap {"crash", "lapse", "publish", "settle"} = {}

\* Message k is the ai-processor's answer to its job.
Verdict(k) ==
  \/ stream[k].event = "structured"
  \/ stream[k].event = "failed" /\ Stage(stream[k]) = "PROCESSING"

\* The handler of worker w has answered, and its message will not come back.
Closing(w) == worker[w].pc = "settle" /\ worker[w].note \in {"ack", "term"}

Concluded(i) ==
  \/ delivery["AI_PROCESSOR"][i].state = "done"
  \/ \E w \in AiWorkers : Closing(w) /\ worker[w].slot = i

\* A request is in one hand, and out with it.
SoleHolders ==
  /\ \A w \in AiWorkers : Holding(w) => delivery["AI_PROCESSOR"][worker[w].slot].state = "out"
  /\ \A v, w \in AiWorkers :
       Holding(v) /\ Holding(w) /\ worker[v].slot = worker[w].slot => v = w

\* It is answered once, when it is concluded.
OneVerdict ==
  /\ \A k \in Published : Verdict(k) =>
       \E i \in Published :
         stream[i].event = "requested" /\ stream[i].job = stream[k].job /\ Concluded(i)
  /\ \A k, l \in Published :
       Verdict(k) /\ Verdict(l) /\ stream[k].job = stream[l].job => k = l

\* Who fails a job gives the stage it was at.
StagesTold ==
  \A w \in Workers : worker[w].pc = "fail" => (worker[w].note = "rendering" <=> w \in CvWorkers)

\* A result goes back to a CV of its kind.
ResultsGrounded ==
  \A k \in Published :
    /\ stream[k].event = "rendered" =>
         \E i \in Positions(stream[k].job, "structured") : stream[i].body = "good"
    /\ stream[k].event = "failed" /\ Stage(stream[k]) = "RENDERING" =>
         \E i \in Positions(stream[k].job, "structured") : stream[i].body = "bad"

AnswersOnce ==
  Grounded /\ AnswerInv /\ CvAnswers /\ SoleHolders /\ StagesTold /\ ResultsGrounded /\ OneVerdict

\* Nobody but an ai-processor touches a request that one of them holds.
LEMMA RequestsRest ==
  ASSUME Undisturbed, TypeInv, [Next]_vars, ~\E w \in AiWorkers : Process(w), NEW i \in Slots
  PROVE  \/ delivery'["AI_PROCESSOR"][i] = delivery["AI_PROCESSOR"][i]
         \/ delivery["AI_PROCESSOR"][i].state = "ready"
         \/ /\ delivery["AI_PROCESSOR"][i].state = "out"
            /\ \A w \in AiWorkers : Holding(w) => worker[w].slot # i
<1> DEFINE c == "AI_PROCESSOR"
           Goal == \/ delivery'[c][i] = delivery[c][i]
                   \/ delivery[c][i].state = "ready"
                   \/ /\ delivery[c][i].state = "out"
                      /\ \A w \in AiWorkers : Holding(w) => worker[w].slot # i
<1>1. /\ EventStreamTypeOK /\ Published \subseteq Slots
      /\ {"AI_PROCESSOR", "CV_GENERATOR", "GATEWAY_EVENTS"} \subseteq Consumers
  BY StreamFacts DEF TypeInv, PipelineTypeOK, Consumers
<1>2. ASSUME NEW b \in Consumers, NEW k \in Slots, b # c \/ k # i,
             Deliver(b, k) \/ Exhaust(b, k) \/ Settle(b, k) \/ Requeue(b, k)
      PROVE  Goal
  BY <1>1, <1>2, OneDelivery
<1>3. CASE \E w \in CvWorkers : Render(w)
  <2>1. PICK w \in CvWorkers : CvStep(w)
    BY <1>3 DEF Render
  <2>2. w \in Workers /\ Durable(w) = "CV_GENERATOR"
    BY WorkersAssumption DEF Workers, Durable
  <2>3. CASE Dispatch(w)
    <3>1. worker[w].slot \in Slots
      BY <1>1, <2>2, <2>3, HeldEvent DEF Dispatch, Holding
    <3> QED
      BY <1>1, <1>2, <2>2, <2>3, <3>1 DEF Dispatch, streamVars
  <2>4. CASE \E k \in Published : \E pc : Fetch(w, k, pc)
    BY <1>1, <1>2, <2>2, <2>4 DEF Fetch
  <2>5. CASE GoesOn(w) \/ Crash(w)
    BY <2>5 DEF GoesOn, Crash, streamVars
  <2> QED
    BY <2>1, <2>2, <2>3, <2>4, <2>5, WorkerKinds
<1>4. CASE \E r \in Replicas : Project(r)
  <2>1. PICK r \in Replicas : GwStep(r)
    BY <1>4 DEF Project
  <2>2. CASE GwSettle(r)
    <3>1. replica[r].slot \in Slots
      BY <1>1, <2>2 DEF GwSettle, TypeInv, Placed, ReplicasPlaced
    <3> QED
      BY <1>1, <1>2, <2>2, <3>1 DEF GwSettle, streamVars
  <2> QED
    BY <1>1, <1>2, <2>1, <2>2 DEF GwStep, GwFetch, GwApply, GwCrash, streamVars
<1>5. CASE \E w \in Workers, k \in Published : WorkerLapse(w, k)
  <2>1. PICK w \in Workers, k \in Published : AckWaitLapse(w, k)
    BY <1>5 DEF WorkerLapse
  <2>2. CASE Durable(w) = c /\ k = i
    <3>1. delivery[c][i].state = "out"
      BY <2>1, <2>2 DEF AckWaitLapse
    <3>2. ~Fault("lapse")
      BY DEF Undisturbed, Fault
    <3>3. \A v \in Workers : ~(Durable(v) = c /\ Holding(v) /\ worker[v].slot = i)
      BY <2>1, <2>2, <3>2 DEF AckWaitLapse
    <3> QED
      BY <3>1, <3>3 DEF Workers, Durable
  <2>3. CASE Durable(w) # c \/ k # i
    BY <1>1, <1>2, <2>1, <2>3, DurableIsConsumer DEF AckWaitLapse
  <2> QED
    BY <2>2, <2>3
<1>6. CASE \E k \in Published : GatewayLapse(k)
  BY <1>1, <1>2, <1>6 DEF GatewayLapse, GwAckWaitLapse
<1>7. CASE \E b \in Consumers, k \in Published : GiveUp(b, k)
  <2>1. PICK b \in Consumers, k \in Published : Exhaust(b, k)
    BY <1>7 DEF GiveUp
  <2> QED
    BY <1>1, <1>2, <2>1 DEF Exhaust, Deliverable
<1>8. CASE \/ \E j \in Jobs : Submit(j) \/ Stall(j)
           \/ \E a \in advisories : Poison(a)
           \/ Sweep
           \/ \E id \in window : ForgetId(id)
           \/ \E j \in vault : KeyExpires(j)
           \/ UNCHANGED vars
  BY <1>8, OthersDeliverNothing
<1> QED
  BY <1>3, <1>4, <1>5, <1>6, <1>7, <1>8 DEF Next, Clocks
\* An ai-processor takes a request that is ready, goes on with the one it holds,
\* or lets it go, for good if it has answered.
LEMMA RequestHandled ==
  ASSUME Undisturbed, TypeInv, NEW w \in AiWorkers, AiStep(w)
  PROVE  \/ \E i \in Published :
              /\ ~Holding(w) /\ worker'[w].pc # "settle" /\ worker'[w].slot = i
              /\ delivery["AI_PROCESSOR"][i].state = "ready"
              /\ delivery'["AI_PROCESSOR"][i].state = "out"
              /\ \A k \in Slots \ {i} :
                   delivery'["AI_PROCESSOR"][k] = delivery["AI_PROCESSOR"][k]
         \/ GoesOn(w)
         \/ /\ Holding(w) /\ worker'[w].pc = "idle"
            /\ \A k \in Slots \ {worker[w].slot} :
                 delivery'["AI_PROCESSOR"][k] = delivery["AI_PROCESSOR"][k]
            /\ delivery["AI_PROCESSOR"][worker[w].slot].state = "out" /\ Closing(w) =>
                 delivery'["AI_PROCESSOR"][worker[w].slot].state = "done"
            /\ delivery["AI_PROCESSOR"][worker[w].slot].state = "done" =>
                 delivery'["AI_PROCESSOR"][worker[w].slot].state = "done"
<1>1. /\ EventStreamTypeOK /\ PullLoopTypeOK /\ Published \subseteq Slots
      /\ w \in Workers /\ Durable(w) = "AI_PROCESSOR" /\ "AI_PROCESSOR" \in Consumers
  BY StreamFacts DEF TypeInv, PipelineTypeOK, Consumers, Workers, Durable
<1>2. ~Crash(w) /\ ~Fault("settle")
  BY DEF Crash, Undisturbed, Fault
<1>3. CASE \E i \in Published : \E pc : pc \notin {"idle", "settle"} /\ Fetch(w, i, pc)
  <2>1. PICK i \in Published : \E pc : pc \notin {"idle", "settle"} /\ Fetch(w, i, pc)
    BY <1>3
  <2>2. ~Holding(w) /\ worker'[w].pc # "settle" /\ worker'[w].slot = i
    BY <1>1, <2>1, FetchMoves DEF Fetch
  <2>3. Deliver("AI_PROCESSOR", i) /\ i \in Slots
    BY <1>1, <2>1 DEF Fetch
  <2>4. /\ delivery["AI_PROCESSOR"][i].state = "ready"
        /\ delivery'["AI_PROCESSOR"][i] =
             [state |-> "out", count |-> delivery["AI_PROCESSOR"][i].count + 1]
    BY <1>1, <2>3, DeliveryMoves
  <2>5. \A k \in Slots \ {i} : delivery'["AI_PROCESSOR"][k] = delivery["AI_PROCESSOR"][k]
    BY <1>1, <2>3, OneDelivery
  <2> QED
    BY <2>2, <2>4, <2>5
<1>4. CASE Dispatch(w)
  <2>1. Holding(w) /\ worker'[w].pc = "idle" /\ worker[w].slot \in Slots
    BY <1>1, <1>4, AbandonMoves, HeldEvent DEF Dispatch, Holding
  <2>2. \/ Requeue("AI_PROCESSOR", worker[w].slot) /\ worker[w].note = "nak"
        \/ Settle("AI_PROCESSOR", worker[w].slot)
    BY <1>1, <1>2, <1>4 DEF Dispatch
  <2>3. \A k \in Slots \ {worker[w].slot} :
          delivery'["AI_PROCESSOR"][k] = delivery["AI_PROCESSOR"][k]
    BY <1>1, <2>1, <2>2, OneDelivery
  <2>4. /\ delivery["AI_PROCESSOR"][worker[w].slot].state = "out" /\ Closing(w) =>
             delivery'["AI_PROCESSOR"][worker[w].slot].state = "done"
        /\ delivery["AI_PROCESSOR"][worker[w].slot].state = "done" =>
             delivery'["AI_PROCESSOR"][worker[w].slot].state = "done"
    BY <1>1, <2>1, <2>2, DeliveryMoves DEF Closing
  <2> QED
    BY <2>1, <2>3, <2>4
<1> QED
  BY <1>1, <1>2, <1>3, <1>4, WorkerKinds

\* So a request stays in one hand, and what was concluded stays concluded.
LEMMA NextConcludes ==
  ASSUME Undisturbed, TypeInv, TypeInv', SoleHolders, [Next]_vars
  PROVE  SoleHolders' /\ \A i \in Published : Concluded(i) => Concluded(i)'
<1> DEFINE state(i) == delivery["AI_PROCESSOR"][i].state
           next(i) == delivery'["AI_PROCESSOR"][i].state
           Sole(w) == worker'[w].pc # "idle" => next(worker'[w].slot) = "out"
           Apart(v, w) == worker'[v].pc # "idle" /\ worker'[w].pc # "idle"
                            /\ worker'[v].slot = worker'[w].slot => v = w
           Stays(i) == Concluded(i) => Concluded(i)'
<1>1. /\ EventStreamTypeOK /\ Published \subseteq Slots /\ AiWorkers \subseteq Workers
      /\ \A w \in AiWorkers : Holding(w) => worker[w].slot \in Slots
  BY StreamFacts, HeldEvent DEF TypeInv, PipelineTypeOK, Workers
<1>2. /\ \A w \in AiWorkers : Holding(w) => state(worker[w].slot) = "out"
      /\ \A v, w \in AiWorkers :
           Holding(v) /\ Holding(w) /\ worker[v].slot = worker[w].slot => v = w
  BY DEF SoleHolders
<1>3. /\ (\A w \in AiWorkers : Sole(w)) /\ (\A v, w \in AiWorkers : Apart(v, w))
      /\ \A i \in Published : Stays(i)
  <2>1. CASE ~\E w \in AiWorkers : Process(w)
    <3>1. ASSUME NEW w \in AiWorkers
          PROVE  worker'[w] = worker[w]
      <4>1. CASE \E v \in CvWorkers : Render(v)
        <5>1. PICK v \in CvWorkers : CvStep(v)
          BY <4>1 DEF Render
        <5> QED
          BY <1>1, <5>1, OneWorkerMoves, WorkersAssumption DEF Workers
      <4> QED
        BY <2>1, <4>1, OthersLeaveWorkers
    <3>2. ASSUME NEW w \in AiWorkers
          PROVE  Sole(w)
      <4> SUFFICES ASSUME Holding(w) PROVE next(worker[w].slot) = "out"
        BY <3>1 DEF Holding
      <4>1. worker[w].slot \in Slots /\ state(worker[w].slot) = "out"
        BY <1>1, <1>2
      <4> QED
        BY <2>1, <4>1, RequestsRest
    <3>3. \A v, w \in AiWorkers : Apart(v, w)
      BY <1>2, <3>1 DEF Holding
    <3>4. ASSUME NEW i \in Published, Concluded(i)
          PROVE  Concluded(i)'
      <4>1. CASE state(i) = "done"
        BY <1>1, <2>1, <4>1, RequestsRest DEF Concluded
      <4>2. CASE \E w \in AiWorkers : Closing(w) /\ worker[w].slot = i
        BY <3>1, <4>2 DEF Concluded, Closing
      <4> QED
        BY <3>4, <4>1, <4>2 DEF Concluded
    <3> QED
      BY <3>2, <3>3, <3>4
  <2>2. ASSUME NEW w \in AiWorkers, Process(w)
        PROVE  /\ (\A u \in AiWorkers : Sole(u)) /\ (\A u, v \in AiWorkers : Apart(u, v))
               /\ \A i \in Published : Stays(i)
    <3>1. AiStep(w) /\ \A v \in AiWorkers \ {w} : worker'[v] = worker[v]
      BY <1>1, <2>2, OneWorkerMoves DEF Process
    <3>2. CASE \E i \in Published :
                 /\ ~Holding(w) /\ worker'[w].pc # "settle" /\ worker'[w].slot = i
                 /\ state(i) = "ready" /\ next(i) = "out"
                 /\ \A k \in Slots \ {i} :
                      delivery'["AI_PROCESSOR"][k] = delivery["AI_PROCESSOR"][k]
      <4>1. PICK i \in Published :
              /\ ~Holding(w) /\ worker'[w].slot = i /\ state(i) = "ready" /\ next(i) = "out"
              /\ \A k \in Slots \ {i} : next(k) = state(k)
        BY <3>2
      <4>2. \A v \in AiWorkers : Holding(v) => worker[v].slot # i
        BY <1>2, <4>1
      <4>3. \A u \in AiWorkers : Sole(u)
        BY <1>1, <1>2, <3>1, <4>1, <4>2 DEF Holding
      <4>4. \A u, v \in AiWorkers : Apart(u, v)
        BY <1>2, <3>1, <4>1, <4>2 DEF Holding
      <4>5. ASSUME NEW k \in Published, Concluded(k)
            PROVE  Concluded(k)'
        <5>1. CASE state(k) = "done"
          BY <1>1, <4>1, <5>1 DEF Concluded
        <5>2. ASSUME NEW v \in AiWorkers, Closing(v), worker[v].slot = k
              PROVE  Concluded(k)'
          BY <3>1, <4>1, <5>2 DEF Concluded, Closing, Holding
        <5> QED
          BY <4>5, <5>1, <5>2 DEF Concluded
      <4> QED
        BY <4>3, <4>4, <4>5
    <3>3. CASE GoesOn(w)
      <4>1. /\ Holding(w) /\ worker[w].pc # "settle" /\ delivery' = delivery
            /\ worker'[w].pc # "idle" /\ worker'[w].slot = worker[w].slot
        BY <3>3 DEF GoesOn
      <4>2. \A u \in AiWorkers : Sole(u)
        BY <1>2, <3>1, <4>1 DEF Holding
      <4>3. \A u, v \in AiWorkers : Apart(u, v)
        BY <1>2, <3>1, <4>1 DEF Holding
      <4>4. \A k \in Published : Stays(k)
        BY <3>1, <4>1 DEF Concluded, Closing
      <4> QED
        BY <4>2, <4>3, <4>4
    <3>4. CASE /\ Holding(w) /\ worker'[w].pc = "idle"
               /\ \A k \in Slots \ {worker[w].slot} :
                    delivery'["AI_PROCESSOR"][k] = delivery["AI_PROCESSOR"][k]
               /\ state(worker[w].slot) = "out" /\ Closing(w) => next(worker[w].slot) = "done"
               /\ state(worker[w].slot) = "done" => next(worker[w].slot) = "done"
      <4>1. \A v \in AiWorkers \ {w} : Holding(v) => worker[v].slot # worker[w].slot
        BY <1>2, <3>4
      <4>2. \A u \in AiWorkers : Sole(u)
        BY <1>1, <1>2, <3>1, <3>4, <4>1 DEF Holding
      <4>3. \A u, v \in AiWorkers : Apart(u, v)
        BY <1>2, <3>1, <3>4 DEF Holding
      <4>4. ASSUME NEW k \in Published, Concluded(k)
            PROVE  Concluded(k)'
        <5>1. CASE state(k) = "done"
          BY <1>1, <3>4, <5>1 DEF Concluded
        <5>2. ASSUME NEW v \in AiWorkers, Closing(v), worker[v].slot = k
              PROVE  Concluded(k)'
          BY <1>2, <3>1, <3>4, <5>2 DEF Concluded, Closing
        <5> QED
          BY <4>4, <5>1, <5>2 DEF Concluded
      <4> QED
        BY <4>2, <4>3, <4>4
    <3> QED
      BY <3>1, <3>2, <3>3, <3>4, RequestHandled
  <2> QED
    BY <2>1, <2>2
<1> QED
  BY <1>3 DEF SoleHolders, Holding
\* An ai-processor that adds to the log has answered.
LEMMA VerdictCloses ==
  ASSUME Undisturbed, TypeInv, NEW w \in AiWorkers, AiStep(w), NEW k \in Published' \ Published
  PROVE  /\ Holding(w) /\ worker[w].pc # "settle"
         /\ k = Len(stream) + 1 /\ stream'[k].job = Held(w).job
         /\ worker'[w].slot = worker[w].slot
         /\ worker'[w].pc = "settle" /\ worker'[w].note \in {"ack", "term"}
<1>1. PullLoopTypeOK /\ w \in Workers
  BY DEF TypeInv, PipelineTypeOK, Workers
<1>2. /\ k = Len(stream) + 1 /\ Holding(w) /\ stream'[k].job = Held(w).job
      /\ worker[w].pc \in {"publish", "fail"}
  BY <1>1, WorkerAdds, MessageParts
<1>3. ~Fault("publish") /\ stream' # stream
  BY DEF Undisturbed, Fault, Published
<1>4. CASE AiPublish(w) \/ AiFail(w)
  <2>1. \E outcome \in {"ack", "term"} : Goto(w, "settle", outcome)
    BY <1>3, <1>4 DEF AiPublish, PublishWithRetry, AiFail, ReportFailure, Finish
  <2> QED
    BY <1>1, <1>2, <2>1, GotoMoves
<1>5. CASE \/ \E i \in Published : AiFetch(w, i)
           \/ AiResolve(w) \/ AiClaim(w) \/ AiBuild(w) \/ AiCall(w) \/ AiDispatch(w) \/ AiCrash(w)
  BY <1>3, <1>5
     DEF AiFetch, Fetch, Deliver, AiResolve, AiClaim, AiBuild, AiCall, AiDispatch, Dispatch,
         Settle, Requeue, AiCrash, Crash, streamVars
<1> QED
  BY <1>4, <1>5 DEF AiStep, AiHandler

\* Nobody else adds an answer to a request.
LEMMA VerdictByAi ==
  ASSUME TypeInv, StagesTold, [Next]_vars, NEW k \in Published' \ Published, Verdict(k)'
  PROVE  \E w \in AiWorkers : AiStep(w)
<1>1. CASE \E j \in Jobs : SubmitStep(j)
  <2>1. SubmitInv
    BY DEF TypeInv, PipelineTypeOK, SubmitInv, Placed
  <2>2. stream'[k].event = "requested"
    BY <1>1, <2>1, SubmitMoves, MessageParts
  <2> QED
    BY <2>2 DEF Verdict
<1>2. CASE \E w \in CvWorkers : CvStep(w)
  <2>1. PICK w \in CvWorkers : CvStep(w)
    BY <1>2
  <2>2. /\ w \in Workers /\ w \notin AiWorkers
        /\ worker[w].pc = "fail" => worker[w].note = "rendering"
    BY <2>1, WorkersAssumption DEF Workers, StagesTold
  <2>3. \/ stream'[k].event = "rendered"
        \/ stream'[k].event = "failed" /\ stream'[k].body = "rendering"
    BY <2>1, <2>2, WorkerAdds, MessageParts DEF Answer
  <2> QED
    BY <2>3 DEF Verdict, Stage
<1>3. CASE Elsewhere
  BY <1>3 DEF Elsewhere, Published
<1> QED
  BY <1>1, <1>2, <1>3, StepKinds

LEMMA NextOneVerdict ==
  ASSUME Undisturbed, TypeInv, TypeInv', Grounded, SoleHolders, StagesTold, OneVerdict, [Next]_vars
  PROVE  OneVerdict'
<1>1. LogGrows /\ EventStreamTypeOK
  BY NextKeeps, SameLog DEF TypeInv, PipelineTypeOK, vars
<1>2. \A i \in Published : Concluded(i) => Concluded(i)'
  BY NextConcludes
<1>3. \A k \in Published : k \in Published' /\ stream'[k] = stream[k] /\ (Verdict(k)' <=> Verdict(k))
  BY <1>1 DEF LogGrows, Verdict
\* A new answer is the first, and its request is concluded with it.
<1>4. ASSUME NEW k \in Published' \ Published, Verdict(k)'
      PROVE  /\ k = Len(stream) + 1
             /\ \A l \in Published : Verdict(l) => stream[l].job # stream'[k].job
             /\ \E i \in Published :
                  stream[i].event = "requested" /\ stream[i].job = stream'[k].job /\ Concluded(i)'
  <2>1. PICK w \in AiWorkers : AiStep(w)
    BY <1>4, VerdictByAi
  <2>2. /\ Holding(w) /\ worker[w].pc # "settle"
        /\ k = Len(stream) + 1 /\ stream'[k].job = Held(w).job
        /\ worker'[w].slot = worker[w].slot
        /\ worker'[w].pc = "settle" /\ worker'[w].note \in {"ack", "term"}
    BY <2>1, VerdictCloses
  <2> DEFINE h == worker[w].slot
  <2>3. h \in Published /\ stream[h].event = "requested" /\ stream[h].job = stream'[k].job
    BY <2>2, HeldEvent DEF Held, Workers
  <2>4. Concluded(h)'
    BY <2>2 DEF Concluded, Closing
  <2>5. ~Concluded(h)
    <3>1. delivery["AI_PROCESSOR"][h].state = "out"
      BY <2>2 DEF SoleHolders
    <3>2. ASSUME NEW v \in AiWorkers, Closing(v), worker[v].slot = h
          PROVE  FALSE
      BY <2>2, <3>2 DEF SoleHolders, Closing, Holding
    <3> QED
      BY <3>1, <3>2 DEF Concluded
  <2>6. ASSUME NEW l \in Published, Verdict(l), stream[l].job = stream'[k].job
        PROVE  FALSE
    <3>1. PICK i \in Published :
            stream[i].event = "requested" /\ stream[i].job = stream[l].job /\ Concluded(i)
      BY <2>6 DEF OneVerdict
    <3>2. i = h
      BY <2>3, <2>6, <3>1 DEF Grounded, MessagesGrounded
    <3> QED
      BY <2>5, <3>1, <3>2
  <2> QED
    BY <2>2, <2>3, <2>4, <2>6
<1>5. ASSUME NEW k \in Published', Verdict(k)'
      PROVE  \E i \in Published' :
               stream'[i].event = "requested" /\ stream'[i].job = stream'[k].job /\ Concluded(i)'
  <2>1. CASE k \in Published
    <3>1. PICK i \in Published :
            stream[i].event = "requested" /\ stream[i].job = stream[k].job /\ Concluded(i)
      BY <1>3, <1>5, <2>1 DEF OneVerdict
    <3> QED
      BY <1>2, <1>3, <2>1, <3>1
  <2>2. CASE k \notin Published
    <3>1. PICK i \in Published :
            stream[i].event = "requested" /\ stream[i].job = stream'[k].job /\ Concluded(i)'
      BY <1>4, <1>5, <2>2
    <3> QED
      BY <1>3, <3>1
  <2> QED
    BY <2>1, <2>2
<1>6. ASSUME NEW k \in Published', NEW l \in Published', Verdict(k)', Verdict(l)',
             stream'[k].job = stream'[l].job
      PROVE  k = l
  <2>1. CASE k \in Published /\ l \in Published
    BY <1>3, <1>6, <2>1 DEF OneVerdict
  <2>2. CASE k \notin Published \/ l \notin Published
    BY <1>3, <1>4, <1>6, <2>2
  <2> QED
    BY <2>1, <2>2
<1> QED
  BY <1>5, <1>6 DEF OneVerdict

\* A failure carries the stage of the worker that met it.
LEMMA NextStagesTold ==
  ASSUME TypeInv, StagesTold, [Next]_vars
  PROVE  StagesTold'
<1>1. PullLoopTypeOK /\ AiWorkers \subseteq Workers /\ CvWorkers \subseteq Workers
  BY DEF TypeInv, PipelineTypeOK, Workers
<1>2. ASSUME NEW w \in CvWorkers, Render(w)
      PROVE  StagesTold'
  <2>1. worker'[w].pc = "fail" => worker'[w].note = "rendering"
    BY <1>2, CvLeavesDeliveries DEF Render
  <2>2. \A v \in Workers \ {w} : worker'[v] = worker[v]
    BY <1>1, <1>2, OneWorkerMoves DEF Render
  <2> QED
    BY <2>1, <2>2 DEF StagesTold
<1>3. ASSUME NEW w \in AiWorkers, Process(w)
      PROVE  StagesTold'
  <2>1. AiStep(w) /\ w \in Workers /\ w \notin CvWorkers
    BY <1>3, WorkersAssumption DEF Process, Workers
  <2>2. worker'[w].pc = "fail" => worker'[w].note # "rendering"
    <3>1. CASE \/ \E pc, note : (pc # "fail" \/ note # "rendering") /\ Goto(w, pc, note)
               \/ Abandon(w)
               \/ \E i : Fetch(w, i, "resolve")
      BY <1>1, <2>1, <3>1, GotoMoves, AbandonMoves, FetchMoves
    <3>2. CASE worker[w].pc = "publish" /\ worker' = [worker EXCEPT ![w].tries = @ + 1]
      BY <1>1, <2>1, <3>2, RetryMoves
    <3>3. CASE \/ \E i \in Published : AiFetch(w, i)
               \/ AiDispatch(w) \/ AiCrash(w)
      BY <3>1, <3>3 DEF AiFetch, AiDispatch, Dispatch, AiCrash, Crash
    <3>4. CASE AiResolve(w) \/ AiClaim(w) \/ AiBuild(w) \/ AiCall(w)
      BY <3>1, <3>4 DEF AiResolve, AiClaim, AiBuild, AiCall, Finish
    <3>5. CASE AiPublish(w) \/ AiFail(w)
      BY <3>1, <3>2, <3>5 DEF AiPublish, PublishWithRetry, AiFail, ReportFailure, Finish
    <3> QED
      BY <2>1, <3>3, <3>4, <3>5 DEF AiStep, AiHandler
  <2>3. \A v \in Workers \ {w} : worker'[v] = worker[v]
    BY <1>1, <2>1, OneWorkerMoves
  <2> QED
    BY <2>1, <2>2, <2>3 DEF StagesTold
<1>4. CASE worker' = worker
  BY <1>4 DEF StagesTold
<1> QED
  BY <1>2, <1>3, <1>4, OthersLeaveWorkers

\* A result is published by a worker that has the CV in hand.
LEMMA NextResultsGrounded ==
  ASSUME TypeInv, StagesTold, CvAnswers, ResultsGrounded, [Next]_vars
  PROVE  ResultsGrounded'
<1>1. LogGrows /\ EventStreamTypeOK
  BY NextKeeps, SameLog DEF TypeInv, PipelineTypeOK, vars
<1>2. ASSUME NEW j, NEW i \in Positions(j, "structured")
      PROVE  i \in Positions(j, "structured")' /\ stream'[i].body = stream[i].body
  BY <1>1, <1>2 DEF LogGrows, Positions
<1> DEFINE Rests(k, body) ==
      \E i \in Positions(stream'[k].job, "structured") : stream[i].body = body
<1>3. ASSUME NEW k \in Published'
      PROVE  /\ stream'[k].event = "rendered" => Rests(k, "good")
             /\ stream'[k].event = "failed" /\ Stage(stream'[k]) = "RENDERING" => Rests(k, "bad")
  <2>1. CASE k \in Published
    <3>1. stream'[k] = stream[k]
      BY <1>1, <2>1 DEF LogGrows
    <3> QED
      BY <2>1, <3>1 DEF ResultsGrounded
  <2>2. CASE k \notin Published
    <3>1. CASE \E j \in Jobs : SubmitStep(j)
      <4>1. SubmitInv
        BY DEF TypeInv, PipelineTypeOK, SubmitInv, Placed
      <4>2. stream'[k].event = "requested"
        BY <2>2, <3>1, <4>1, SubmitMoves, MessageParts
      <4> QED
        BY <4>2
    <3>2. CASE \E w \in AiWorkers : AiStep(w)
      <4>1. PICK w \in AiWorkers : AiStep(w)
        BY <3>2
      <4>2. /\ w \in Workers /\ Answer(w) = "structured"
            /\ worker[w].pc = "fail" => worker[w].note # "rendering"
        BY WorkersAssumption DEF Workers, Answer, StagesTold
      <4>3. \/ stream'[k].event = "structured"
            \/ stream'[k].event = "failed" /\ stream'[k].body # "rendering"
        BY <2>2, <4>1, <4>2, WorkerAdds, MessageParts
      <4> QED
        BY <4>3 DEF Stage
    <3>3. CASE \E w \in CvWorkers : CvStep(w)
      <4>1. PICK w \in CvWorkers : CvStep(w)
        BY <3>3
      <4>2. w \in Workers /\ Answer(w) = "rendered"
        BY WorkersAssumption DEF Workers, Answer
      <4>3. /\ Holding(w) /\ stream'[k].job = Held(w).job
            /\ \/ worker[w].pc = "publish" /\ stream'[k].event = "rendered"
               \/ worker[w].pc = "fail" /\ stream'[k].event = "failed"
        BY <2>2, <4>1, <4>2, WorkerAdds, MessageParts
      <4>4. worker[w].slot \in Positions(stream'[k].job, "structured")
        BY <4>2, <4>3, HeldEvent DEF Held, Positions
      <4>5. /\ worker[w].pc = "publish" => Held(w).body = "good"
            /\ worker[w].pc = "fail" => Held(w).body = "bad"
        BY DEF CvAnswers, CvKnows
      <4> QED
        BY <4>3, <4>4, <4>5 DEF Held
    <3>4. CASE Elsewhere
      BY <2>2, <3>4 DEF Elsewhere, Published
    <3> QED
      BY <3>1, <3>2, <3>3, <3>4, StepKinds
  <2> QED
    BY <2>1, <2>2
<1> QED
  BY <1>2, <1>3 DEF ResultsGrounded

LEMMA InitAnswersOnce ==
  ASSUME Init
  PROVE  AnswersOnce
<1>1. /\ \A w \in Workers : worker[w].pc = "idle"
      /\ \A c \in Consumers, i \in Slots : delivery[c][i].state = "ready"
      /\ window = {} /\ Published = {}
  BY DEF Init, PullLoopInit, Idle, EventStreamInit, Published
<1>2. SoleHolders /\ OneVerdict /\ StagesTold /\ ResultsGrounded
  BY <1>1 DEF SoleHolders, OneVerdict, StagesTold, ResultsGrounded, Holding, Workers
<1>3. CvAnswers
  BY <1>1 DEF CvAnswers, CvKnows, Consumers, Workers
<1>4. AnswerInv
  BY <1>1 DEF AnswerInv, WindowInLog, Consumers
<1>5. Grounded
  BY <1>1 DEF Grounded, MessagesGrounded, HandlersGrounded, Workers
<1> QED
  BY <1>2, <1>3, <1>4, <1>5 DEF AnswersOnce

LEMMA NextAnswersOnce ==
  ASSUME Undisturbed, TypeInv, TypeInv', AnswersOnce, [Next]_vars
  PROVE  AnswersOnce'
BY NextGrounds, NextAnswers, NextCvAnswers, NextConcludes, NextStagesTold, NextResultsGrounded,
   NextOneVerdict DEF AnswersOnce

\* Then no job has two results.
LEMMA OneResult ==
  ASSUME AnswersOnce, NEW k \in Published, NEW l \in Published,
         stream[k].event = "failed", stream[l].event = "rendered"
  PROVE  stream[k].job # stream[l].job
<1> SUFFICES ASSUME stream[k].job = stream[l].job PROVE FALSE
  OBVIOUS
<1>1. PICK i \in Published :
        stream[i].job = stream[l].job /\ stream[i].event = "structured" /\ stream[i].body = "good"
  BY DEF AnswersOnce, ResultsGrounded, Positions
<1>2. CASE Stage(stream[k]) = "RENDERING"
  <2>1. PICK h \in Published :
          stream[h].job = stream[k].job /\ stream[h].event = "structured" /\ stream[h].body = "bad"
    BY <1>2 DEF AnswersOnce, ResultsGrounded, Positions
  <2>2. i = h
    BY <1>1, <2>1 DEF AnswersOnce, OneVerdict, Verdict
  <2> QED
    BY <1>1, <2>1, <2>2
<1>3. CASE Stage(stream[k]) = "PROCESSING"
  <2>1. i = k
    BY <1>1, <1>3 DEF AnswersOnce, OneVerdict, Verdict
  <2> QED
    BY <1>1, <2>1
<1> QED
  BY <1>2, <1>3 DEF Stage

\* Only a crash, a lapse of ack_wait, a failing publish or a lost ack can make the
\* window swallow a rendering failure: nothing that happens to the databases, the
\* vault, the bucket, the window or the advisories does, nor any order of events.
THEOREM PipelineRenderFailureReported ==
  FaultKinds \cap {"crash", "lapse", "publish", "settle"} = {}
    => (SafeSpec => []RenderFailureReported)
<1> SUFFICES ASSUME Undisturbed
             PROVE  SafeSpec => []RenderFailureReported
  BY DEF Undisturbed
<1>1. Init => AnswersOnce
  BY InitAnswersOnce
<1>2. TypeInv /\ TypeInv' /\ AnswersOnce /\ [Next]_vars => AnswersOnce'
  BY NextAnswersOnce
<1>3. TypeInv /\ AnswersOnce => RenderFailureReported
  <2> SUFFICES ASSUME TypeInv, AnswersOnce, NEW i \in Published, Swallowed(i)
               PROVE  FALSE
    BY DEF RenderFailureReported
  <2>1. i \in Slots /\ CvSettled(i) /\ stream[i].event = "structured" /\ stream[i].body = "bad"
    BY StreamFacts DEF TypeInv, PipelineTypeOK, Swallowed, AnswersOnce, CvAnswers
  <2>2. PICK k \in Published : stream[k].job = stream[i].job /\ stream[k].event = "failed"
    BY <2>1 DEF CvSettled, InStream
  <2>3. Verdict(i) /\ Verdict(k)
    BY <2>1, <2>2 DEF Verdict, Swallowed, Positions, Stage
  <2> QED
    BY <2>1, <2>2, <2>3 DEF AnswersOnce, OneVerdict
<1> QED
  BY <1>1, <1>2, <1>3, TypeCorrect, PTL DEF SafeSpec
=============================================================================
