---------------------------- MODULE StatusStream ----------------------------
(***************************************************************************)
(* The status page of a job: handleJobEvents (gateway internal/web/sse.go) *)
(* beside the pipeline, and the EventSource of job.js at the other end.  A *)
(* connection sends the job's row first, then replays the job's events     *)
(* from the start of the log and follows it, sending only what moves the   *)
(* visitor forward.                                                        *)
(*   pc   : "away" (no connection), "read" (row sent, no consumer yet),    *)
(*          "open" (following the log), "over" (a terminal state was sent, *)
(*          and job.js closed the EventSource)                             *)
(*   job  : the job of the page                                            *)
(*   pos  : the last position of the log the ordered consumer has passed   *)
(*   shown: the last status sent, lastRank's source and what the page shows*)
(***************************************************************************)
EXTENDS Pipeline

CONSTANT Clients

VARIABLE client

watchVars == <<vars, client>>

Client == [pc : {"away", "read", "open", "over"}, job : Jobs \cup {"none"},
           pos : 0 .. MaxStream, shown : Statuses \cup {"none"}]

WatchTypeOK == client \in [Clients -> Client]

WatchInit ==
  client = [c \in Clients |-> [pc |-> "away", job |-> "none", pos |-> 0, shown |-> "none"]]

\* statusRank: both ends share the top rank.
Rank == [pending |-> 0, rendering |-> 1, completed |-> 2, failed |-> 2]

\* Mutant: the last result but one is taken for the result.
MapEventEarly(m) ==
  CASE m.event = "requested"  -> "pending"
    [] m.event = "structured" -> "completed"
    [] m.event = "rendered"   -> "completed"
    [] m.event = "failed"     -> "failed"

\* MapEvent: the stage of a failure plays no part.
MapEvent(m) ==
  [requested |-> "pending", structured |-> "rendering",
   rendered |-> "completed", failed |-> "failed"][m.event]

\* Mutant: a job that has no row gets a stream.
WatchOpenMissing(c, j) ==
  /\ client[c].pc = "away"
  /\ client[c].job \in {"none", j}
  /\ client' = [client EXCEPT ![c] =
                  [pc |-> "read", job |-> j, pos |-> 0, shown |-> rows[j].status]]

\* visitorJob, StatusFromJob and the first write; a page stays on its job.
WatchOpen(c, j) ==
  /\ client[c].pc = "away"
  /\ client[c].job \in {"none", j}
  /\ rows[j].status \in Statuses
  /\ client' = [client EXCEPT ![c] =
                  [pc    |-> IF rows[j].status \in Terminal THEN "over" ELSE "read",
                   job   |-> j,
                   pos   |-> 0,
                   shown |-> rows[j].status]]

\* Mutant: DeliverNew, only what comes after the subscription.
WatchSubscribeNew(c) ==
  /\ client[c].pc = "read"
  /\ client' = [client EXCEPT ![c].pc = "open", ![c].pos = Len(stream)]

\* OrderedJobConsumer with DeliverAll: the log from its start.
WatchSubscribe(c) ==
  /\ client[c].pc = "read"
  /\ client' = [client EXCEPT ![c].pc = "open"]

\* Mutant: every event is sent.
WatchNextAll(c) ==
  /\ client[c].pc = "open"
  /\ \E i \in (client[c].pos + 1) .. Len(stream) :
       /\ stream[i].job = client[c].job
       /\ \A k \in (client[c].pos + 1) .. (i - 1) : stream[k].job # client[c].job
       /\ LET status == MapEvent(stream[i])
          IN client' = [client EXCEPT ![c].pos = i, ![c].shown = status,
                                      ![c].pc = IF status \in Terminal THEN "over" ELSE @]

\* The next event of the job, in log order; what does not move the client
\* forward is skipped.
WatchNext(c) ==
  /\ client[c].pc = "open"
  /\ \E i \in (client[c].pos + 1) .. Len(stream) :
       /\ stream[i].job = client[c].job
       /\ \A k \in (client[c].pos + 1) .. (i - 1) : stream[k].job # client[c].job
       /\ LET status == MapEvent(stream[i])
          IN client' =
               IF Rank[status] <= Rank[client[c].shown]
               THEN [client EXCEPT ![c].pos = i]
               ELSE [client EXCEPT ![c].pos = i, ![c].shown = status,
                                   ![c].pc = IF status \in Terminal THEN "over" ELSE @]

\* The connection ends early: a failed write or consumer, the visitor's network,
\* the gateway's shutdown.  EventSource connects again.
WatchDrop(c) ==
  /\ client[c].pc \in {"read", "open"}
  /\ Fault("drop")
  /\ client' = [client EXCEPT ![c].pc = "away"]

Watch(c) ==
  \/ /\ \/ \E j \in Jobs : WatchOpen(c, j)
        \/ WatchSubscribe(c)
        \/ WatchNext(c)
     /\ UNCHANGED vars
  \/ /\ WatchDrop(c)
     /\ UNCHANGED <<stream, window, delivery, advisories, worker, vault, objects,
                    rows, form, replica, tally>>

WatchedNext ==
  \/ Next /\ UNCHANGED client
  \/ \E c \in Clients : Watch(c)

WatchedSafeSpec == Init /\ WatchInit /\ [][WatchedNext]_watchVars

\* The select loop of an open connection takes what the consumer delivers.
WatchFair ==
  \A c \in Clients :
    WF_watchVars((WatchSubscribe(c) \/ WatchNext(c)) /\ UNCHANGED vars)

\* The clock and the sweeper of a gateway replica run as well ...
WatchedSpec == WatchedSafeSpec /\ WatchFair /\ SweepFair

\* ... and so does everything else.
WatchedWorkSpec == WatchedSpec /\ HandlersFair /\ ServerFair /\ SubmitFair

-----------------------------------------------------------------------------
(* Properties. *)

\* What a page calls completed can be downloaded from the bucket, even while
\* the table lags behind the log.
ShownCompletedHasPdf ==
  \A c \in Clients : client[c].shown = "completed" => client[c].job \in objects

\* An open connection has shown, or is ahead of, every event of its job that it
\* passed in the log, and no end is among them: the replay starts before what
\* happened between the read of the row and the consumer (sse.go:171).
PassedIsShown ==
  \A c \in Clients : client[c].pc = "open" =>
    /\ client[c].shown \notin Terminal
    /\ \A i \in 1 .. client[c].pos :
         stream[i].job = client[c].job => Rank[MapEvent(stream[i])] <= Rank[client[c].shown]

\* A connection never moves its visitor backwards, over replays and
\* redeliveries; only a new connection starts again, from the row.
ShownMovesForward ==
  [][\A c \in Clients :
       client[c].pc \in {"read", "open"} /\ client'[c].pc \in {"open", "over"}
         => Rank[client'[c].shown] >= Rank[client[c].shown]]_watchVars

\* No event falls between the read of the row and the start of the consumer:
\* a connection to a job whose end is in the log ends (DeliverAllPolicy).
EndInLogIsShown ==
  \A c \in Clients, j \in Jobs :
    (client[c].pc \in {"read", "open"} /\ client[c].job = j
       /\ (InStream(j, "rendered") \/ InStream(j, "failed")))
      ~> client[c].pc \in {"away", "over"}

(* Stated by the code's comments, and not so. *)

\* sse.go:27 "Terminal reports whether no further updates can follow": a page
\* that was told a job failed is not contradicted by the table later.
ToldFailedStaysFailed ==
  \A c \in Clients :
    client[c].shown = "failed" => rows[client[c].job].status # "completed"

\* sse.go:85 "streams live updates until a terminal state": a connection to a
\* job that ended in the table comes to an end.
EndedJobEndsStream ==
  \A c \in Clients, j \in Jobs :
    (client[c].pc = "open" /\ client[c].job = j /\ rows[j].status \in Terminal)
      ~> client[c].pc # "open"
=============================================================================
