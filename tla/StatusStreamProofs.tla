-------------------------- MODULE StatusStreamProofs ------------------------
(***************************************************************************)
(* The status page, for every instance: it calls completed only what can   *)
(* be downloaded, has shown what it passed in the log, and moves forward.  *)
(* The pipeline goes on below it as if nobody watched: a dropped           *)
(* connection costs it one mishap and nothing else.  While no message is   *)
(* handled twice, what a page is told of a failure is final.               *)
(***************************************************************************)
EXTENDS StatusStream, DeliveryProofs

-----------------------------------------------------------------------------
(* The pipeline below the page. *)

\* A mishap that befalls a connection.
Mishap ==
  /\ Fault("drop")
  /\ UNCHANGED <<stream, window, delivery, advisories, worker, vault, objects,
                 rows, form, replica, tally>>

PipelineInv == TypeInv /\ Stored /\ CompletedHasPdf

\* The page leaves the pipeline to itself.
LEMMA PipelineMoves ==
  ASSUME [WatchedNext]_watchVars
  PROVE  [Next]_vars \/ Mishap
<1>1. CASE WatchedNext
  <2>1. CASE Next
    BY <2>1
  <2>2. CASE \E c \in Clients : Watch(c)
    BY <2>2 DEF Watch, WatchDrop, Mishap
  <2> QED
    BY <1>1, <2>1, <2>2 DEF WatchedNext
<1>2. CASE UNCHANGED watchVars
  BY <1>2 DEF watchVars
<1> QED
  BY <1>1, <1>2

\* What the pipeline guarantees, it guarantees to the page.
LEMMA PipelineInvKept ==
  ASSUME PipelineInv, [Next]_vars \/ Mishap
  PROVE  PipelineInv' /\ LogGrows /\ objects \subseteq objects'
<1>1. CASE [Next]_vars
  BY <1>1, NextKeeps, StutterKeeps, SameLog, NextStores, NextKeepsPdf
     DEF PipelineInv, TypeInv, PipelineTypeOK, vars
<1>2. CASE Mishap
  <2> USE <1>2 DEF Mishap, PipelineInv
  <2>1. FaultsTypeOK'
    BY FaultType DEF TypeInv, PipelineTypeOK, AllFaultKinds
  <2>2. LogGrows /\ Published' = Published
    BY SameLog DEF TypeInv, PipelineTypeOK
  <2>3. EventStreamTypeOK' /\ PullLoopTypeOK' /\ VaultTypeOK' /\ ObjectsTypeOK' /\ StoreTypeOK'
        /\ SubmissionTypeOK' /\ GatewayTypeOK'
    BY <2>2 DEF TypeInv, PipelineTypeOK, EventStreamTypeOK, PullLoopTypeOK, VaultTypeOK,
         ObjectsTypeOK, StoreTypeOK, SubmissionTypeOK, GatewayTypeOK
  <2>4. WorkersPlaced' /\ ReplicasPlaced' /\ AdvisoriesPlaced' /\ FormsPlaced'
    BY <2>2, WorkersStayPlaced, ReplicasStayPlaced, AdvisoriesStayPlaced
       DEF TypeInv, PipelineTypeOK, Placed, FormsPlaced
  <2>5. TypeInv'
    BY <2>1, <2>3, <2>4 DEF TypeInv, PipelineTypeOK, Placed
  <2>6. Stored' /\ CompletedHasPdf'
    BY <2>2 DEF Stored, CompletedHasPdf, Held, InStream
  <2> QED
    BY <2>2, <2>5, <2>6
<1> QED
  BY <1>1, <1>2

-----------------------------------------------------------------------------
(* The connections. *)

\* A connection is at a status of the lifecycle, and inside the log; one that
\* goes on was not told an end.
ClientPlaced(c) ==
  /\ client[c].pc # "away" => client[c].job \in Jobs /\ client[c].shown \in Statuses
  /\ client[c].pc \in {"read", "open"} => client[c].shown \notin Terminal
  /\ client[c].pc = "read" => client[c].pos = 0
  /\ client[c].pos <= Len(stream)

WatchInv ==
  /\ WatchTypeOK
  /\ \A c \in Clients : ClientPlaced(c)
  /\ ShownCompletedHasPdf
  /\ PassedIsShown

\* The status an event stands for, and its rank.
LEMMA MapEventFacts ==
  ASSUME NEW m \in Messages
  PROVE  /\ MapEvent(m) \in Statuses
         /\ MapEvent(m) = "completed" <=> m.event = "rendered"
<1>1. m.event \in {"requested", "structured", "rendered", "failed"}
  BY MessageFields DEF Events
<1> QED
  BY <1>1 DEF MapEvent, Statuses

LEMMA RankFacts ==
  ASSUME NEW s \in Statuses
  PROVE  Rank[s] \in 0 .. 2
BY DEF Rank, Statuses

\* A connection that does not move, over a pipeline that does.
LEMMA ClientStays ==
  ASSUME PipelineInv, PipelineInv', LogGrows, objects \subseteq objects', WatchInv,
         NEW c \in Clients, client'[c] = client[c]
  PROVE  /\ ClientPlaced(c)'
         /\ client'[c].shown = "completed" => client'[c].job \in objects'
         /\ client'[c].pc = "open" =>
              /\ client'[c].shown \notin Terminal
              /\ \A i \in 1 .. client'[c].pos : stream'[i].job = client'[c].job =>
                   Rank[MapEvent(stream'[i])] <= Rank[client'[c].shown]
<1>1. client[c] \in Client /\ client[c].pos \in Nat
  BY MaxStreamAssumption DEF WatchInv, WatchTypeOK, Client
<1>2. Len(stream) \in Nat /\ Len(stream') \in Nat /\ Len(stream) <= Len(stream')
  BY DEF PipelineInv, TypeInv, PipelineTypeOK, EventStreamTypeOK, LogGrows
<1>3. \A i \in 1 .. client[c].pos : stream'[i] = stream[i]
  BY <1>1, <1>2 DEF WatchInv, ClientPlaced, LogGrows, Published
<1>4. ClientPlaced(c)'
  BY <1>1, <1>2 DEF WatchInv, ClientPlaced
<1>5. client'[c].shown = "completed" => client'[c].job \in objects'
  BY DEF WatchInv, ShownCompletedHasPdf
<1>6. client'[c].pc = "open" =>
              /\ client'[c].shown \notin Terminal
              /\ \A i \in 1 .. client'[c].pos : stream'[i].job = client'[c].job =>
                   Rank[MapEvent(stream'[i])] <= Rank[client'[c].shown]
  BY <1>3 DEF WatchInv, PassedIsShown, MapEvent
<1> QED
  BY <1>4, <1>5, <1>6
\* What must be known of a connection after a step.
After(c) ==
  /\ client'[c] \in Client
  /\ ClientPlaced(c)'
  /\ client'[c].shown = "completed" => client'[c].job \in objects'
  /\ client'[c].pc = "open" =>
       /\ client'[c].shown \notin Terminal
       /\ \A i \in 1 .. client'[c].pos : stream'[i].job = client'[c].job =>
            Rank[MapEvent(stream'[i])] <= Rank[client'[c].shown]

\* The row a connection starts from.
LEMMA OpenKeeps ==
  ASSUME PipelineInv, WatchInv, NEW c \in Clients, NEW j \in Jobs, WatchOpen(c, j), UNCHANGED vars
  PROVE  After(c)
<1> DEFINE pc == IF rows[j].status \in Terminal THEN "over" ELSE "read"
<1>1. client'[c] = [pc |-> pc, job |-> j, pos |-> 0, shown |-> rows[j].status]
  BY DEF WatchOpen, WatchInv, WatchTypeOK
<1>2. rows[j].status \in Statuses /\ UNCHANGED <<rows, stream, objects>>
  BY DEF WatchOpen, vars
<1>3. Len(stream) \in Nat /\ 0 \in 0 .. MaxStream
  BY MaxStreamAssumption DEF PipelineInv, TypeInv, PipelineTypeOK, EventStreamTypeOK
<1>4. pc \in {"over", "read"} /\ (pc = "read" => rows[j].status \notin Terminal)
  OBVIOUS
<1> HIDE DEF pc
<1>5. client'[c] \in Client /\ ClientPlaced(c)'
  BY <1>1, <1>2, <1>3, <1>4 DEF Client, ClientPlaced
<1>6. rows[j].status = "completed" => j \in objects
  BY DEF PipelineInv, CompletedHasPdf
<1> QED
  BY <1>1, <1>2, <1>4, <1>5, <1>6 DEF After

\* The consumer starts at the start of the log.
LEMMA SubscribeKeeps ==
  ASSUME PipelineInv, WatchInv, NEW c \in Clients, WatchSubscribe(c), UNCHANGED vars
  PROVE  After(c) /\ client'[c].shown = client[c].shown
<1>1. client[c] \in Client /\ client[c].pc = "read" /\ client[c].pos = 0
  BY DEF WatchInv, WatchTypeOK, ClientPlaced, WatchSubscribe
<1>2. client'[c] = [client[c] EXCEPT !.pc = "open"]
  BY DEF WatchSubscribe, WatchInv, WatchTypeOK
<1>3. /\ client'[c] \in Client /\ client'[c].pc = "open" /\ client'[c].job = client[c].job
      /\ client'[c].shown = client[c].shown /\ client'[c].pos = 0
  BY <1>1, <1>2 DEF Client
<1>4. UNCHANGED <<stream, objects>>
  BY DEF vars
<1> QED
  BY <1>1, <1>3, <1>4 DEF After, ClientPlaced, WatchInv, ShownCompletedHasPdf

\* An event of the job is sent if it is ahead of what was, and passed either way.
LEMMA NextEventKeeps ==
  ASSUME PipelineInv, WatchInv, NEW c \in Clients, WatchNext(c), UNCHANGED vars
  PROVE  After(c) /\ Rank[client'[c].shown] >= Rank[client[c].shown]
<1>1. /\ client[c] \in Client /\ client[c].pc = "open" /\ client[c].job \in Jobs
      /\ client[c].shown \in Statuses \ Terminal /\ client[c].pos \in Nat
  BY MaxStreamAssumption DEF WatchInv, WatchTypeOK, ClientPlaced, WatchNext, Client
<1>2. PICK i \in (client[c].pos + 1) .. Len(stream) :
        /\ stream[i].job = client[c].job
        /\ \A k \in (client[c].pos + 1) .. (i - 1) : stream[k].job # client[c].job
        /\ client' =
             IF Rank[MapEvent(stream[i])] <= Rank[client[c].shown]
             THEN [client EXCEPT ![c].pos = i]
             ELSE [client EXCEPT ![c].pos = i, ![c].shown = MapEvent(stream[i]),
                                 ![c].pc = IF MapEvent(stream[i]) \in Terminal THEN "over" ELSE @]
  BY DEF WatchNext
<1> DEFINE status == MapEvent(stream[i])
<1>3. /\ Len(stream) \in Nat /\ Len(stream) <= MaxStream /\ i \in Published
      /\ i \in 0 .. MaxStream /\ stream[i] \in Messages
  <2>1. EventStreamTypeOK
    BY DEF PipelineInv, TypeInv, PipelineTypeOK
  <2>2. Len(stream) \in Nat /\ Len(stream) <= MaxStream
    BY <2>1 DEF EventStreamTypeOK
  <2>3. i \in Published /\ i \in 0 .. MaxStream
    BY <1>1, <1>2, <2>2, MaxStreamAssumption DEF Published
  <2> QED
    BY <2>1, <2>2, <2>3, StreamFacts
<1>4. status \in Statuses /\ (status = "completed" => client[c].job \in objects)
  BY <1>2, <1>3, MapEventFacts DEF PipelineInv, Stored
<1>5. UNCHANGED <<stream, objects>>
  BY DEF vars
<1>6. Rank[status] \in 0 .. 2 /\ Rank[client[c].shown] \in 0 .. 2
  BY <1>1, <1>4, RankFacts
<1>7. \A k \in 1 .. i : stream[k].job = client[c].job =>
        Rank[MapEvent(stream[k])] <= Rank[client[c].shown] \/ k = i
  BY <1>1, <1>2 DEF WatchInv, PassedIsShown
<1> HIDE DEF status
<1>8. CASE Rank[status] <= Rank[client[c].shown]
  <2>1. client' = [client EXCEPT ![c].pos = i]
    BY <1>2, <1>8 DEF status
  <2>2. /\ client'[c] \in Client /\ client'[c].pc = "open" /\ client'[c].job = client[c].job
        /\ client'[c].shown = client[c].shown /\ client'[c].pos = i
    BY <1>1, <1>3, <2>1 DEF WatchInv, WatchTypeOK, Client
  <2>3. \A k \in 1 .. client'[c].pos : stream'[k].job = client'[c].job =>
          Rank[MapEvent(stream'[k])] <= Rank[client'[c].shown]
    BY <1>5, <1>7, <1>8, <2>2 DEF status
  <2>4. client[c].shown # "completed"
    BY <1>1 DEF Terminal
  <2>5. ClientPlaced(c)'
    BY <1>1, <1>2, <1>3, <1>5, <2>2 DEF ClientPlaced
  <2> QED
    BY <1>1, <1>6, <2>2, <2>3, <2>4, <2>5 DEF After
<1>9. CASE ~(Rank[status] <= Rank[client[c].shown])
  <2> DEFINE pc == IF status \in Terminal THEN "over" ELSE "open"
  <2>1. client' = [client EXCEPT ![c] = [@ EXCEPT !.pos = i, !.shown = status, !.pc = pc]]
    BY <1>1, <1>2, <1>9 DEF status, WatchInv, WatchTypeOK
  <2>2. pc \in {"over", "open"} /\ (pc = "open" => status \notin Terminal)
    OBVIOUS
  <2> HIDE DEF pc
  <2>3. /\ client'[c] \in Client /\ client'[c].pc = pc /\ client'[c].job = client[c].job
        /\ client'[c].shown = status /\ client'[c].pos = i
    BY <1>1, <1>3, <1>4, <2>1, <2>2 DEF WatchInv, WatchTypeOK, Client
  <2>4. ASSUME NEW k \in 1 .. i, stream[k].job = client[c].job
        PROVE  Rank[MapEvent(stream[k])] <= Rank[status]
    <3>1. CASE k = i
      BY <1>6, <3>1 DEF status
    <3>2. CASE k # i
      <4>1. Rank[MapEvent(stream[k])] <= Rank[client[c].shown]
        BY <1>7, <2>4, <3>2
      <4>2. MapEvent(stream[k]) \in Statuses
        <5>1. k \in Published
          BY <1>2, <1>3, <2>4 DEF Published
        <5> QED
          BY <5>1, MapEventFacts, StreamFacts DEF PipelineInv, TypeInv, PipelineTypeOK
      <4> QED
        BY <1>6, <1>9, <4>1, <4>2, RankFacts
    <3> QED
      BY <3>1, <3>2
  <2>5. \A k \in 1 .. client'[c].pos : stream'[k].job = client'[c].job =>
          Rank[MapEvent(stream'[k])] <= Rank[client'[c].shown]
    BY <1>5, <2>3, <2>4 DEF MapEvent
  <2>6. ClientPlaced(c)'
    BY <1>1, <1>2, <1>3, <1>4, <1>5, <2>2, <2>3 DEF ClientPlaced
  <2> QED
    BY <1>4, <1>5, <1>6, <1>9, <2>2, <2>3, <2>5, <2>6 DEF After
<1> QED
  BY <1>8, <1>9

\* A dropped connection knows what it was told.
LEMMA DropKeeps ==
  ASSUME PipelineInv, WatchInv, NEW c \in Clients, WatchDrop(c), UNCHANGED <<stream, objects>>
  PROVE  After(c) /\ client'[c].pc = "away"
<1>1. /\ client[c] \in Client /\ ClientPlaced(c) /\ client[c].pc \in {"read", "open"}
  BY DEF WatchInv, WatchTypeOK, WatchDrop
<1>2. client' = [client EXCEPT ![c].pc = "away"]
  BY DEF WatchDrop
<1>3. /\ client'[c] \in Client /\ client'[c].pc = "away" /\ client'[c].job = client[c].job
      /\ client'[c].shown = client[c].shown /\ client'[c].pos = client[c].pos
  BY <1>1, <1>2 DEF WatchInv, WatchTypeOK, Client
<1> QED
  BY <1>1, <1>3 DEF After, ClientPlaced, WatchInv, ShownCompletedHasPdf

\* Every step of the page or of the pipeline.
LEMMA WatchKeeps ==
  ASSUME PipelineInv, WatchInv, [WatchedNext]_watchVars
  PROVE  /\ PipelineInv' /\ WatchInv'
         /\ \A c \in Clients :
              client[c].pc \in {"read", "open"} /\ client'[c].pc \in {"open", "over"}
                => Rank[client'[c].shown] >= Rank[client[c].shown]
<1>1. PipelineInv' /\ LogGrows /\ objects \subseteq objects'
  BY PipelineMoves, PipelineInvKept
<1>2. ASSUME NEW c \in Clients, client'[c] = client[c]
      PROVE  /\ After(c)
             /\ client[c].pc \in {"read", "open"} => Rank[client'[c].shown] >= Rank[client[c].shown]
  <2>1. client[c] \in Client
    BY DEF WatchInv, WatchTypeOK
  <2>2. client[c].pc \in {"read", "open"} => Rank[client[c].shown] \in 0 .. 2
    BY RankFacts DEF WatchInv, ClientPlaced
  <2> QED
    BY <1>1, <1>2, <2>1, <2>2, ClientStays DEF After
<1>3. ASSUME NEW c \in Clients, Watch(c)
      PROVE  /\ After(c)
             /\ client[c].pc \in {"read", "open"} /\ client'[c].pc \in {"open", "over"}
                  => Rank[client'[c].shown] >= Rank[client[c].shown]
             /\ \A d \in Clients \ {c} : client'[d] = client[d]
  <2>1. CASE \E j \in Jobs : WatchOpen(c, j) /\ UNCHANGED vars
    BY <2>1, OpenKeeps DEF WatchOpen, WatchInv, WatchTypeOK
  <2>2. CASE WatchSubscribe(c) /\ UNCHANGED vars
    <3>1. client[c].shown \in Statuses
      BY <2>2 DEF WatchSubscribe, WatchInv, ClientPlaced
    <3>2. Rank[client[c].shown] \in 0 .. 2
      BY <3>1, RankFacts
    <3>3. After(c) /\ client'[c].shown = client[c].shown
      BY <2>2, SubscribeKeeps
    <3>4. \A d \in Clients \ {c} : client'[d] = client[d]
      BY <2>2 DEF WatchSubscribe, WatchInv, WatchTypeOK
    <3> QED
      BY <3>2, <3>3, <3>4
  <2>3. CASE WatchNext(c) /\ UNCHANGED vars
    BY <2>3, NextEventKeeps DEF WatchNext, WatchInv, WatchTypeOK
  <2>4. CASE WatchDrop(c) /\ UNCHANGED <<stream, objects>>
    BY <2>4, DropKeeps DEF WatchDrop, WatchInv, WatchTypeOK
  <2> QED
    BY <1>3, <2>1, <2>2, <2>3, <2>4 DEF Watch
<1>4. /\ \A c \in Clients : After(c)
      /\ \A c \in Clients :
           client[c].pc \in {"read", "open"} /\ client'[c].pc \in {"open", "over"}
             => Rank[client'[c].shown] >= Rank[client[c].shown]
  <2>1. CASE client' = client
    BY <1>2, <2>1
  <2>2. CASE \E c \in Clients : Watch(c)
    BY <1>2, <1>3, <2>2
  <2> QED
    BY <2>1, <2>2 DEF WatchedNext, watchVars
<1>5. client' \in [Clients -> Client]
  <2>1. client' = [c \in Clients |-> client'[c]]
    <3>1. CASE client' = client
      BY <3>1 DEF WatchInv, WatchTypeOK
    <3>2. CASE \E c \in Clients : Watch(c)
      <4>1. PICK c \in Clients : Watch(c)
        BY <3>2
      <4>2. client = [d \in Clients |-> client[d]]
        BY DEF WatchInv, WatchTypeOK
      <4>3. \/ \E j \in Jobs : WatchOpen(c, j)
            \/ WatchSubscribe(c) \/ WatchDrop(c) \/ WatchNext(c)
        BY <4>1 DEF Watch
      <4>4. CASE (\E j \in Jobs : WatchOpen(c, j)) \/ WatchSubscribe(c) \/ WatchDrop(c)
        BY <4>2, <4>4 DEF WatchOpen, WatchSubscribe, WatchDrop
      <4>5. CASE WatchNext(c)
        BY <4>2, <4>5 DEF WatchNext
      <4> QED
        BY <4>3, <4>4, <4>5
    <3> QED
      BY <3>1, <3>2 DEF WatchedNext, watchVars
  <2>2. \A c \in Clients : client'[c] \in Client
    BY <1>4 DEF After
  <2> QED
    BY <2>1, <2>2
<1> QED
  BY <1>1, <1>4, <1>5 DEF WatchInv, WatchTypeOK, After, ShownCompletedHasPdf, PassedIsShown
-----------------------------------------------------------------------------
(* The theorems. *)

\* In every reachable state.
LEMMA WatchedInvariant == WatchedSafeSpec => [](PipelineInv /\ WatchInv)
<1>1. Init /\ WatchInit => PipelineInv /\ WatchInv
  <2> SUFFICES ASSUME Init, WatchInit PROVE PipelineInv /\ WatchInv
    OBVIOUS
  <2>1. PipelineInv
    BY InitTyped, InitStored DEF PipelineInv
  <2>2. Len(stream) \in Nat /\ 0 \in 0 .. MaxStream
    BY <2>1, MaxStreamAssumption DEF PipelineInv, TypeInv, PipelineTypeOK, EventStreamTypeOK
  <2>3. WatchInv
    BY <2>2 DEF WatchInit, WatchInv, WatchTypeOK, Client, ClientPlaced, ShownCompletedHasPdf,
                PassedIsShown
  <2> QED
    BY <2>1, <2>3
<1>2. (PipelineInv /\ WatchInv) /\ [WatchedNext]_watchVars => (PipelineInv /\ WatchInv)'
  BY WatchKeeps
<1> QED
  BY <1>1, <1>2, PTL DEF WatchedSafeSpec

\* The types of the connections.
THEOREM WatchTypeCorrect == WatchedSafeSpec => []WatchTypeOK
<1>1. WatchInv => WatchTypeOK
  BY DEF WatchInv
<1> QED
  BY <1>1, WatchedInvariant, PTL

\* What a page calls completed is in the bucket, whether it was told by the
\* row or by the log.
THEOREM WatchedCompletedHasPdf == WatchedSafeSpec => []ShownCompletedHasPdf
<1>1. WatchInv => ShownCompletedHasPdf
  BY DEF WatchInv
<1> QED
  BY <1>1, WatchedInvariant, PTL

\* Nothing of its job falls between the row and the replay: an open connection
\* has shown or outrun all it passed, and passed no end.
THEOREM WatchedPassedIsShown == WatchedSafeSpec => []PassedIsShown
<1>1. WatchInv => PassedIsShown
  BY DEF WatchInv
<1> QED
  BY <1>1, WatchedInvariant, PTL

\* No connection moves its visitor backwards.
THEOREM WatchedMovesForward == WatchedSafeSpec => ShownMovesForward
<1>1. PipelineInv /\ WatchInv /\ [WatchedNext]_watchVars =>
        [\A c \in Clients :
           client[c].pc \in {"read", "open"} /\ client'[c].pc \in {"open", "over"}
             => Rank[client'[c].shown] >= Rank[client[c].shown]]_watchVars
  BY WatchKeeps
<1> QED
  BY <1>1, WatchedInvariant, PTL DEF WatchedSafeSpec, ShownMovesForward
-----------------------------------------------------------------------------
(* A page that is told "failed" of a job that completes takes the same     *)
(* mishaps as a swallowed failure: two answers to one request.             *)

\* Who told the page of connection c that its job failed.
ToldByRowOrLog(c) ==
  client[c].shown = "failed" =>
    /\ client[c].job \in Jobs
    /\ rows[client[c].job].status = "failed" \/ InStream(client[c].job, "failed")

\* A page is told of an end by its row or by its log.
LEMMA WatchTells ==
  ASSUME PipelineInv, WatchInv, NEW c \in Clients, Watch(c), ToldByRowOrLog(c)
  PROVE  ToldByRowOrLog(c)'
<1>1. /\ client[c] \in Client /\ client \in [Clients -> Client]
      /\ UNCHANGED <<rows, stream>>
  BY DEF WatchInv, WatchTypeOK, Watch, vars
<1>2. \A j, e : InStream(j, e)' <=> InStream(j, e)
  BY <1>1 DEF InStream, Published
<1>3. ASSUME NEW j \in Jobs, WatchOpen(c, j)
      PROVE  ToldByRowOrLog(c)'
  <2>1. client'[c].job = j /\ client'[c].shown = rows[j].status
    BY <1>1, <1>3 DEF WatchOpen
  <2> QED
    BY <1>1, <2>1 DEF ToldByRowOrLog
<1>4. CASE WatchSubscribe(c) \/ WatchDrop(c)
  <2>1. client'[c].job = client[c].job /\ client'[c].shown = client[c].shown
    BY <1>1, <1>4 DEF WatchSubscribe, WatchDrop, Client
  <2> QED
    BY <1>1, <1>2, <2>1 DEF ToldByRowOrLog
<1>5. CASE WatchNext(c)
  <2>1. PICK i \in (client[c].pos + 1) .. Len(stream) :
          /\ client[c].pc = "open" /\ stream[i].job = client[c].job
          /\ client'[c].job = client[c].job
          /\ client'[c].shown \in {client[c].shown, MapEvent(stream[i])}
    BY <1>1, <1>5 DEF WatchNext, Client
  <2>2. i \in Published /\ stream[i] \in Messages /\ client[c].job \in Jobs
    <3>1. client[c].pos \in Nat /\ EventStreamTypeOK /\ client[c].job \in Jobs
      BY <1>1, <2>1, MaxStreamAssumption
         DEF Client, PipelineInv, TypeInv, PipelineTypeOK, WatchInv, ClientPlaced
    <3>2. i \in Published
      BY <3>1, StreamFacts DEF Published
    <3> QED
      BY <3>1, <3>2, StreamFacts
  <2>3. MapEvent(stream[i]) = "failed" => stream[i].event = "failed"
    <3>1. stream[i].event \in {"requested", "structured", "rendered", "failed"}
      BY <2>2, MessageFields DEF Events
    <3> QED
      BY <3>1 DEF MapEvent
  <2>4. CASE client'[c].shown = client[c].shown
    BY <1>1, <1>2, <2>1, <2>4 DEF ToldByRowOrLog
  <2>5. CASE client'[c].shown = MapEvent(stream[i])
    <3>1. stream[i].event = "failed" => InStream(client[c].job, "failed")
      BY <2>1, <2>2 DEF InStream
    <3> QED
      BY <1>2, <2>1, <2>2, <2>3, <2>5, <3>1 DEF ToldByRowOrLog
  <2> QED
    BY <2>1, <2>4, <2>5
<1> QED
  BY <1>3, <1>4, <1>5 DEF Watch

LEMMA NextTells ==
  ASSUME PipelineInv, WatchInv, [WatchedNext]_watchVars, NEW c \in Clients, ToldByRowOrLog(c)
  PROVE  ToldByRowOrLog(c)'
<1>1. /\ LogGrows
      /\ \A j \in Jobs : rows[j].status = "failed" => rows'[j].status = "failed"
  <2>1. LogGrows
    BY PipelineMoves, PipelineInvKept
  <2>2. CASE [Next]_vars
    BY <2>1, <2>2, TableSteps DEF PipelineInv, Terminal
  <2>3. CASE Mishap
    BY <2>1, <2>3 DEF Mishap
  <2> QED
    BY <2>2, <2>3, PipelineMoves
<1>2. CASE client'[c] = client[c]
  BY <1>1, <1>2, InStreamStays DEF ToldByRowOrLog
<1>3. CASE client'[c] # client[c]
  <2>1. PICK d \in Clients : Watch(d)
    BY <1>3 DEF WatchedNext, watchVars
  <2>2. d = c
    BY <1>3, <2>1 DEF Watch, WatchOpen, WatchSubscribe, WatchNext, WatchDrop, WatchInv, WatchTypeOK
  <2> QED
    BY <2>1, <2>2, WatchTells
<1> QED
  BY <1>2, <1>3

\* A dropped connection concerns no answer.
LEMMA WatchAnswersOnce ==
  ASSUME Undisturbed, PipelineInv, PipelineInv', AnswersOnce, [WatchedNext]_watchVars
  PROVE  AnswersOnce'
<1>1. CASE [Next]_vars
  BY <1>1, NextAnswersOnce DEF PipelineInv
<1>2. CASE Mishap
  BY <1>2 DEF Mishap, AnswersOnce, Grounded, MessagesGrounded, HandlersGrounded, AnswerInv, WindowInLog,
              Answered, CvAnswers, CvKnows, CvSettled, SoleHolders, StagesTold, ResultsGrounded,
              OneVerdict, Verdict, Concluded, Closing, Positions, InStream, Published, Held, Holding
<1> QED
  BY <1>1, <1>2, PipelineMoves

\* "Terminal reports whether no further updates can follow" (sse.go:27) holds of
\* every page, over drops and reconnections, sweeps and submissions that fail,
\* as long as none of the four mishaps meets the pipeline itself.
THEOREM WatchedToldFailedStays ==
  FaultKinds \cap {"crash", "lapse", "publish", "settle"} = {}
    => (WatchedSafeSpec => []ToldFailedStaysFailed)
<1> SUFFICES ASSUME Undisturbed
             PROVE  WatchedSafeSpec => []ToldFailedStaysFailed
  BY DEF Undisturbed
<1> DEFINE Told == \A c \in Clients : ToldByRowOrLog(c)
<1>1. Init /\ WatchInit => AnswersOnce /\ Told
  BY InitAnswersOnce DEF WatchInit, ToldByRowOrLog
<1>2. /\ PipelineInv /\ WatchInv /\ PipelineInv' /\ AnswersOnce /\ Told /\ [WatchedNext]_watchVars
      => AnswersOnce' /\ Told'
  BY WatchAnswersOnce, NextTells
<1>3. PipelineInv /\ AnswersOnce /\ Told => ToldFailedStaysFailed
  <2> SUFFICES ASSUME PipelineInv, AnswersOnce, Told, NEW c \in Clients,
                      client[c].shown = "failed", rows[client[c].job].status = "completed"
               PROVE  FALSE
    BY DEF ToldFailedStaysFailed
  <2> DEFINE j == client[c].job
  <2>1. j \in Jobs /\ InStream(j, "failed")
    BY DEF ToldByRowOrLog
  <2>2. InStream(j, "rendered")
    BY <2>1 DEF PipelineInv, CompletedHasPdf
  <2> QED
    BY <2>1, <2>2, OneResult DEF InStream
<1> QED
  BY <1>1, <1>2, <1>3, WatchedInvariant, PTL DEF WatchedSafeSpec
=============================================================================
