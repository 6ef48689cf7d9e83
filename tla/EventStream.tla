---------------------------- MODULE EventStream -----------------------------
(***************************************************************************)
(* The JetStream stream CV_EVENTS and its three durable consumers, as the  *)
(* gateway provisions them: an append-only log whose publishes are         *)
(* de-duplicated by Nats-Msg-Id inside a window, explicit acknowledgement  *)
(* with redelivery, at most MaxDeliver deliveries of a message, and an     *)
(* advisory (core NATS, at most once) when a redelivery would exceed them. *)
(* The server is external; it is modelled from the configuration the       *)
(* gateway sends and from how the services use it.                         *)
(***************************************************************************)
EXTENDS Contract

CONSTANTS MaxStream,    \* bound on the length of the log
          MaxDeliver    \* deliveries a consumer allows for one message

ASSUME MaxStreamAssumption  == MaxStream \in Nat
ASSUME MaxDeliverAssumption == MaxDeliver \in [Consumers -> Nat \ {0}]

VARIABLES
  stream,       \* the log, oldest message first
  window,       \* the ids of the de-duplication window
  delivery,     \* delivery[c][i]: what consumer c did with message i
  advisories    \* MAX_DELIVERIES advisories on their way: <<consumer, i>>

streamVars == <<stream, window, delivery, advisories>>

Slots == 1 .. MaxStream

DeliveryStates == {"ready", "out", "done", "exhausted"}

EventStreamTypeOK ==
  /\ stream \in Seq(Messages)
  /\ Len(stream) <= MaxStream
  /\ window \subseteq Jobs \X Events
  /\ delivery \in [Consumers -> [Slots -> [state : DeliveryStates, count : Nat]]]
  /\ advisories \subseteq Consumers \X Slots

EventStreamInit ==
  /\ stream = <<>>
  /\ window = {}
  /\ delivery = [c \in Consumers |-> [i \in Slots |-> [state |-> "ready", count |-> 0]]]
  /\ advisories = {}

Published == 1 .. Len(stream)

\* A publish the server takes: appended, or swallowed as a duplicate.
Publish(m) ==
  /\ \/ /\ MsgID(m) \in window
        /\ UNCHANGED <<stream, window>>
     \/ /\ MsgID(m) \notin window
        /\ Len(stream) < MaxStream
        /\ stream' = Append(stream, m)
        /\ window' = window \cup {MsgID(m)}
  /\ UNCHANGED <<delivery, advisories>>

\* The publisher sees an error: the message is lost or was taken all the same.
PublishErr(m) == Publish(m) \/ UNCHANGED streamVars

\* The window forgets an id.
Forget(id) ==
  /\ id \in window
  /\ window' = window \ {id}
  /\ UNCHANGED <<stream, delivery, advisories>>

Wants(c, i) == i \in Published /\ stream[i].event \in FilterSubjects[c]

\* First deliveries follow the log; redeliveries come at any time.
Deliverable(c, i) ==
  /\ Wants(c, i)
  /\ delivery[c][i].state = "ready"
  /\ delivery[c][i].count = 0 =>
       \A k \in 1 .. (i - 1) : Wants(c, k) => delivery[c][k].count > 0

Deliver(c, i) ==
  /\ Deliverable(c, i)
  /\ delivery[c][i].count < MaxDeliver[c]
  /\ delivery' = [delivery EXCEPT ![c][i] = [state |-> "out", count |-> @.count + 1]]
  /\ UNCHANGED <<stream, window, advisories>>

\* A redelivery would exceed MaxDeliver: the message is given up.
Exhaust(c, i) ==
  /\ Deliverable(c, i)
  /\ delivery[c][i].count >= MaxDeliver[c]
  /\ delivery' = [delivery EXCEPT ![c][i].state = "exhausted"]
  /\ advisories' = advisories \cup {<<c, i>>}
  /\ UNCHANGED <<stream, window>>

\* Ack and term: any delivery, late ones too, settles a pending message.
Settle(c, i) ==
  /\ delivery' = IF delivery[c][i].state = "exhausted" THEN delivery
                 ELSE [delivery EXCEPT ![c][i].state = "done"]
  /\ UNCHANGED <<stream, window, advisories>>

\* Nak, and the lapse of ack_wait: the message is due for redelivery.
Requeue(c, i) ==
  /\ delivery' = IF delivery[c][i].state = "out"
                 THEN [delivery EXCEPT ![c][i].state = "ready"]
                 ELSE delivery
  /\ UNCHANGED <<stream, window, advisories>>

\* A subscriber takes an advisory, or it is lost.
TakeAdvisory(a) ==
  /\ a \in advisories
  /\ advisories' = advisories \ {a}
  /\ UNCHANGED <<stream, window, delivery>>

\* Some event e of job j is in the log.
InStream(j, e) == \E i \in Published : stream[i].job = j /\ stream[i].event = e
=============================================================================
