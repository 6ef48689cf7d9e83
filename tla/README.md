# A TLA+ verification of cvgen

cvgen turns a career history and a job description into a PDF. A visitor
submits a job to the **gateway** (Go); the **ai-processor** (Python) asks a
language model, with the visitor's own API key, for a structured CV; the
**cv-generator** (Python) typesets it and stores the PDF; the gateway follows
all of it on an event stream and shows it to the visitor. Nothing ties the
steps together but a JetStream stream, a Postgres table, a Valkey key and an S3
object. The modules here say what that arrangement guarantees, TLC checks it on
small instances, and TLAPS proves the core of it for every instance.

Contents: [inventory](#inventory), [modules](#modules-and-the-code),
[abstractions](#what-is-abstracted), [runs](#runs),
[fairness](#fairness), [proofs](#proofs),
[where code and documentation disagree](#where-the-code-and-its-documentation-disagree),
[what is not modelled](#not-modelled), [plan](#plan).

## Inventory

### Components, their state and their operations

| component | code | state | operations |
|---|---|---|---|
| event contract | `internal/jetstream`, `cv_shared/natsx.py`, `proto/cvgen/events` | none | names, filters, ids `{job}:{event}` |
| event stream | configured by `jetstream.Provision` | log, de-duplication window (2 min), per-consumer deliveries, advisories | publish, deliver, ack/term/nak, ack_wait, MaxDeliver |
| key vault | `internal/apikeys`, `_claim_api_key` | keys with a 900 s expiry | SET EX, GETDEL |
| jobs table | `internal/store`, `migrations` | one row per job | CreateJob, MarkRendering, MarkCompleted, MarkFailed(Processing), SweepStuck |
| visitors | `internal/session` | one signed cookie per browser, the gateways' secret | admit, sign, verify |
| profiles and limits | `internal/store`, `web/limits.go` | one row per visitor | upsert, read, cap the body, cap the fields |
| visitor pages | `web/web.go`, `web/handlers.go` | the request being handled | save, submit, list, show, download |
| PDF bucket | `internal/s3`, `cv_generator/storage.py`, `infra/opentofu` | the objects | put, get, expire after thirty days |
| job submission | `web/handlers.go` handleJobCreate | the request being handled | insert, put key, publish, MarkFailed |
| event projection | `internal/jobs` | message in hand per replica, counters | handleMsg, handleAdvisory, sweep |
| pull loop | `cv_shared/consumer.py`, `natsx.py` | message in hand per worker | fetch, heartbeat, ack/term/nak, publish with retry |
| ai-processor | `ai_processor/handler.py` | the claimed key, in memory | resolve, claim, build, call, publish, fail |
| cv-generator | `cv_generator/handler.py` | none; writes the bucket | convert, render, put, publish, fail |
| status stream | `web/sse.go`, `static/job.js` | one cursor and rank per connection | send row, replay log, follow, close |
| model catalog | `internal/catalog` | KV bucket, and each gateway's own copy | load, seed (put all, list, delete the rest), get, search |
| gateway process | `cmd/gateway/main.go` | phase of boot, revision, requests in flight | connect, provision, load, seed, serve, drain |
| worker process | `main.py` of both workers, `natsx.bind_*` | phase, bind attempts left, stop event | bind, consume, drain |
| readiness probes, telemetry, conversion, agent, typesetting | see PROJECT.json | none shared | request/response or pure |

### How they interact

```
 visitor --POST--> gateway: row (Postgres) -> key (Valkey) -> requested (stream)
 requested  --> ai-processor: GETDEL key, provider call --> structured | failed
 structured --> cv-generator: render, PUT object        --> rendered   | failed
 all four   --> gateway replicas: guarded UPDATEs of the row, counter
 advisory   --> one gateway replica: MarkFailed
 clock      --> every gateway replica: SweepStuck once a minute
 row + log  --> SSE connection --> page
 cookie     --> visitor --> that visitor's profile, jobs and PDFs only
```

### What is hard, and the properties that answer it

* **No transaction spans two stores.** A submission can stop between row, key
  and event; a worker between GETDEL, publish and ack. Every created job must
  end (`LifecycleLive`), no settled message may be unanswered
  (`SettledIsAnswered`), a completed job must have its PDF (`CompletedHasPdf`),
  and no step of the chain may run ahead of the one it rests on (`ServiceSafe`).
  Nor may a requested job be forgotten: while its row is live, something that takes
  it on is still due (`UnfinishedIsOwed`).
* **A clock kept in a column.** The sweeper knows of the ten minutes what every
  statement writes to `updated_at`: a sweep must take the jobs that stand still, and
  neither one that has just moved nor be put off by events that move nothing
  (`SweepTakesTheStalled`).
* **At-least-once delivery, in any order on redelivery, to several processes.**
  The row must move along its lifecycle whatever arrives (`LifecycleSafe`,
  `TerminalIsFinal`), an acked event must be reflected (`AckedIsApplied`), a job
  must be counted once (`CountedOnce`). A message is given up as poisoned only when
  that many things went wrong, never because healthy deliveries overtook each
  other (`ExhaustionTakesMishaps`).
* **A one-shot key.** It is handed over before the event
  (`KeyBeforeEvent`), is in one place at a time (`KeyInOneHand`) and pays for one
  structured CV however often the request is delivered
  (`KeyedJobStructuredOnce`); "key missing" is never reported of a first delivery
  (`MissingKeyNeedsRedelivery`), and none is left when its job has completed
  (`CompletedSpentItsKey`).
* **Failures that come too late.** What the processing reports after the render
  has begun does not end the job (`StaleFailureKeepsRendering`).
* **A de-duplication window that forgets, with an id that names neither stage
  nor payload.** See the findings.
* **A page fed from two sources,** the row and the log, that disagree in time
  (`ShownCompletedHasPdf`, `ShownMovesForward`, `EndInLogIsShown`).
* **Anonymous visitors.** A browser is whoever its cookie says, two requests sent
  at once may be told different things, and a secret is rotated while replicas
  with the old one serve. A browser settles (`SettledStaysSettled`) and sees
  only what was submitted from it (`OwnJobsOnly`).
* **A form between two tabs.** A profile is saved while another tab submits: the
  job carries one save, whole, checked, and as new as the visitor knows of
  (`JobUsesASavedProfile`, `PipelineInputBounded`), and the redirect leads to a
  job that is going somewhere (`RedirectedJobIsOnItsWay`).
* **Free text, parsed on the way in and shown by the inverse** (`LinksSurviveAForm`).
* **A row that outlives its PDF** (`FetchFindsPdf`, and finding 2).
* **Processes that come and go while sharing what they boot into.** Gateways of
  two revisions seed one bucket (`LastSeederWins`, `UnknownOnlyOverRollout`), may
  die anywhere in boot and must all come up (`EverybodyComesUp`), and are
  replaced without losing work (`OrderlyStopsAreFree`).

PROJECT.json lists every hazard at its line, with the properties that cover it.

## Modules and the code

| module | models | state and actions |
|---|---|---|
| `Contract` | names shared by all services | `Messages`, `FilterSubjects`, `MsgID`, `Stage` |
| `Faults` | nothing in the code: a budget of mishaps | `Fault(k)`, `NoFault` |
| `EventStream` | the JetStream server as configured | `stream`, `window`, `delivery`, `advisories`; `Publish`, `Deliver`, `Settle`, `Requeue`, `Exhaust`, `Forget` |
| `PullLoop` | `run_pull_loop`, `publish_event`, `publish_with_retry`, `_fail` | `worker`; `Fetch`, `Dispatch`, `PublishWithRetry`, `ReportFailure`, `Crash`, `AckWaitLapse` |
| `KeyVault` | keys in Valkey | `vault`; `PutKey`, `ClaimKey`, `ExpireKey` |
| `AiProcessor` | `JobHandler.__call__` of the ai-processor | one action between two awaits |
| `CvGenerator` | `JobHandler.__call__` of the cv-generator | `objects`; one action between two awaits |
| `JobLifecycle` | abstract: what the table promises a visitor | `phase` |
| `JobService` | abstract: what the whole pipeline promises, each step resting on the one before | `phase`, `made`, `pdfs` |
| `JobStore` | the statements of `store.go` | `rows`; one action per UPDATE, whose guard is its WHERE |
| `SweepClock` | nothing in the code: an observer of the status column | `moved`, the jobs that moved in the last ten minutes |
| `JobSubmission` | `handleJobCreate` from CreateJob on | `form`; one action per call, one for the MarkFailed that answers an error |
| `GatewayEvents` | `Runner` of `jobs.go` | `replica`, `tally`; fetch, apply, settle, advisory, sweep |
| `Pipeline` | the whole system | composition, clocks, fairness |
| `PipelineProperties` | | its properties |
| `StatusStream` | `handleJobEvents` beside the pipeline, and `job.js` | `client`; open, subscribe, next, drop |
| `ModelCatalog` | `catalog.go` and the `model-catalog` bucket | `bucket`; `Loads`, `Stale`, `Seeded` and the two writes |
| `Deployment` | what processes share while they come and go | `provisioned`, `job`, `orders` |
| `GatewayProcess` | `main.go`, `Provision` and `Seed` in time | `gateway`, `image`; one action per call to another system |
| `WorkerProcess` | `main.py`, `bind_pull_consumer`, `bind_kv`, the stop event | `worker`; start, bind, fetch, handle, settle, stop, kill |
| `Rollout` | a deployment of such processes | composition, fairness, properties |
| `Visitors` | `session.go` | `jar`, `issued`, `serving`; `Admissions`, `Receive`, rotation |
| `Profiles` | the profiles table, `limits.go` | `profiles`, `saves`; `UpsertProfile`, `ValidateJobSizes`, `BodyFits` |
| `PdfBucket` | `s3.go`, the retention rule and the grants | `objects`; put, get, expire |
| `VisitorPages` | the routes of `web.go` and their handlers | `tab`, `ticket`, `told`; arrive, one action per call, respond, lose |
| `FormText` | `parseLinks`, `profileToForm`, `Search`, `isSubsequence` | pure functions on texts, compared with what they promise |
| `VisitorForms` | where the pages use them | properties |
| `MCPipeline`, `MCStatusStream`, `MCRollout`, `MCVisitorPages` | | instances for TLC |
| `SharedProofs`, `SweepClockProofs`, `PipelineProofs`, `KeyCustodyProofs`, `StatusStreamProofs`, `DeliveryProofs`, `RolloutProofs`, `VisitorProofs` | | theorems |

`SweepClock` adds a history variable to `JobStore` and no behaviour: what the table's
statements write to `aged` (`updated_at` against the ten minutes) can be compared with what
happened to the job. `FormText` stands alone: no other module looks at the characters
of a text.

There are three compositions, which share `Faults`. `Pipeline` and `Rollout` meet at two seams.
`Pipeline` follows a job through processes that are up and treats what happens
to a process as a crash. `Rollout` follows the processes through their lives and
reduces a job to where it is and in whose hands: its `Settle` is all that
`Pipeline` has between a handler's answer and the end of the delivery. In
`AiProcessor` the catalog read may always find nothing (an `unknown` answer);
`Rollout` says when it does.

`VisitorPages` is the side of the visitor: all of `handleJobCreate`, with
`JobSubmission` for its second half, and every other handler that reads or
writes a row. It runs beside an abstract pipeline, `Work`, which moves the row
of a requested job by the statements of `JobStore` and puts a PDF in the bucket
before a row is completed; that the detailed pipeline does so is
`CompletedHasPdf`. Sweeps are left to `Pipeline`: a row they end is to a visitor
one more failed job.

Correspondence worth knowing before reading:

* A Python handler is cut at its awaits, so the interpreter may run nothing
  else inside an action. A Go handler is cut at its calls to another system.
* A statement of `store.go` is one guarded UPDATE, atomic in Postgres: one
  action. "Applied" is whether the guard held; `recordTerminal` sits in the same
  action because nothing can change the outcome of the statement in between,
  except the death of the process, which `GwApply`'s error disjunct covers
  (committed, not counted).
* **Every call to another system may fail in two ways**: not done, or done and
  reported as failed. `PublishErr`, the "vault", "s3" and "db" disjuncts have
  both. `SubmitCreate` has a committed INSERT that reports an error.
* `worker[w].note` is what the coming publish carries, or how the handler ended;
  the pc tells which.
* A crash and a cancelled drain are the same step for everybody else: what was
  in memory, the key included, is gone and the message stays un-acked.

## What is abstracted

* **Payloads** are what the handlers branch on: a request for a real provider,
  the fake one, or one that breaks the contract; a CV that renders or does not; a
  failure for a missing key, for any other processing reason, or in rendering.
  Each decides once, per message, as the code would on every redelivery.
* **The provider call** with its in-delivery retries is one step with two
  outcomes. Nothing else can see the attempts.
* **Time** is a set of events: ack_wait lapses, the window forgets an id
  (`ForgetId`), a key expires, a job has seen no transition for ten minutes
  (`Age`). They may come at any moment, with three orders kept that the code's
  own numbers give: an id is not forgotten between two attempts of one
  `publish_with_retry` (at most 4 s of sleep against 2 min); ack_wait of a message
  whose holder is alive lapses only as a mishap, since heartbeats extend it;
  a key expires only as a mishap.
* **A text** is a model value with two sizes, its bytes and its bytes in a
  urlencoded body; the properties tell no more apart. Where the characters matter
  (links, search) a text is a sequence over a small alphabet. In the links field it has two letters, blank and tab (what
  `LastIndexAny` looks for), newline (what `Split` looks for) and `return`, which stands for
  the white space that `TrimSpace` removes and neither of the two others looks for: a carriage return, a form
  feed, a no-break space. Every one may be anywhere in a text. The line ends of a browser's post are CRLF
  (`Encode`), whatever was typed; any other client's post is as it is. In the search it has
  two letters, one of them in both cases, and a blank; characters outside ASCII and the lower case of
  some of them are left out.
* **A visitor's uuid** is fresh by construction (`Ids \ issued`), a signature is
  the secret it was made with, and the two columns of a profile are one text, so
  that `personal_info` and `career_text` of different saves can be told apart
  and a legal pair cannot.
* **`limit 20`** of the home page is left out: no run has twenty jobs.
* **The stream's 24-hour MaxAge** is left out: jobs end within minutes.
* **In `Rollout`** the three connections of boot are part of starting, and a
  connection, a put or a bind that fails is `Die` or `Kill`, since an error at any
  step of boot ends the process and the platform starts it again. What was executed but
  reported as failed is the same call followed by `Die`. An entry of the YAML
  file is its key and whether it passes the checks on one entry; the order of entries and
  duplicates are kept. `alone` and `seeding` are history variables: no guard reads them.
  `Redeploy` gives a pod any revision: rollout, canary, promotion and rollback
  are the same action with other arguments.
* **Malformed payloads and unknown subjects** of `handleMsg` are left out: all
  publishers of the stream are in the model and none sends one.
* The 16-message channel of an SSE connection and the client library's
  prefetching are the freedom of `WatchNext` and `GwFetch` to come late.

## Runs

Bounds: `MaxStream` is the log's length. It cuts nothing: one job's log never
exceeds five events in these runs (its three events and what failures and lost
acks add), and the runs that pass have the same states with a shorter bound.
`MaxDeliver` is 2 in place of 3, 3 and 5 so that exhaustion is reached inside the
fault budget; `PublishAttempts` is 2 in place of 3 (one retry and its end).
`MaxFaults` bounds how many mishaps one behaviour has, `FaultKinds` which;
retries and duplicated work appear with one, misreported failures and late
answers with two. Symmetry is declared over workers and replicas, and only in
runs whose properties have no liveness. One job is enough for TLC because jobs share
nothing but the processes; that they do not disturb each other is part of the
theorems, which hold for any set of jobs, and `JobStore` runs three.

In `Visitors`, two browsers and two tabs cover a browser with two tabs and two
browsers with one; two visitor ids are one for each browser or both for one; three
texts are one that is empty, one that fits everywhere and one that fits a body but
neither field; two saves per run let one tab save between another's lookup and insert. Two things never bite in this run: the body
cap, since the longest text has just its size (`MaxBody` is 4), and the condition `faults < 2` of
`RedirectedJobIsOnItsWay`, since `MaxFaults` is 1 (two mishaps may leave a redirect to a dead row, which only the
sweeper ends). The theorems `InputsBounded` and `RedirectsLeadSomewhere` hold for every size and budget.

The text of a form is no part of a state: `LinksSurviveAForm` and `SearchFindsSubsequences` are formulas over every
text up to a length (`LinksAreKept`, `SearchIsExact`), and the states they name are those in which
a text is stored or shown. Five characters (`MaxText`) of a links field are three words with gaps, two lines, or
two words and white space of another kind anywhere. Names of four characters and queries of three give a
greedy match every way to go wrong: a first letter taken too early, a letter used twice, an order turned round.

In `Rollout`, `BindAttempts` is 2 in place of 90, so that a worker exhausts its attempts
before a gateway has provisioned; `MaxOrders` is 1, and one stop or
replacement at any moment together with one crash at any moment covers an old
revision that restarts during a rollout, a rollback that dies while it seeds,
and a drain that is killed. The revisions are one, its successor (which keeps a model,
retires one and adds one) and one whose file has a duplicate key.

| run | instance | checks | shows |
|---|---|---|---|
| `JobStore` | 3 jobs, any statement at any time | `EndExplained`, `TerminalIsFinal`, `SweepTakesTheStalled`, `LifecycleSafe`, `LifecycleLive` under `ClockSpec` | the guards alone make the table implement `JobLifecycle`; its clock is right |
| `Mishaps` | 1 job, 2 ai-processors, any 2 mishaps of 12 kinds, sweeps | `PipelineTypeOK`, `CompletedHasPdf`, `KeyedJobStructuredOnce`, `SettledIsAnswered`, `AckedIsApplied`, `UnfinishedIsOwed`, `ExhaustionTakesMishaps`, `CompletedSpentItsKey`, `ServiceSafe`, `StaleFailureKeepsRendering` | the pipeline's promises under failure, and that it implements `JobService` |
| `Replicas` | 1 job, 2 of every process, 1 mishap | `KeyInOneHand`, `KeyBeforeEvent`, `MissingKeyNeedsRedelivery`, `CountedOnce` | a rolling update under any mishap but the expiry of a key, which the two key-order properties and their theorems exclude |
| `Work` | 1 job, 2 failing calls, no sweeps | `EnqueuedJobEnds` under `WorkSpec` | redelivery and advisories end every enqueued job without the sweeper |
| `StatusPage` | 1 job, 1 page, 1 crash, lapse or dropped connection, sweeps | `WatchTypeOK`, `ShownCompletedHasPdf`, `PassedIsShown`, `ShownMovesForward`, `EndInLogIsShown`, `LifecycleLive` under `WatchedSpec` | what a page may show, and that the job it shows ends |
| `Visitors` | 2 browsers, 2 tabs, 1 job, 2 saves, 2 secrets, 1 mishap | `VisitorPagesTypeOK`, `OwnJobsOnly`, `JobUsesASavedProfile`, `PipelineInputBounded`, `RedirectedJobIsOnItsWay`, `FetchFindsPdf`, `LinksSurviveAForm`, `SearchFindsSubsequences`, `SettledStaysSettled` | who sees what, what a job is made from, where a submission leads |
| `Rollout` | 2 gateways, 1 worker of each kind, 1 job, 3 revisions, 1 crash, 1 order | `RolloutTypeOK`, `UnknownOnlyOverRollout`, `LastSeederWins`, `OrderlyStopsAreFree`, `EverybodyComesUp` | boot, seeding, draining and restarting |
| `RenderFailureSwallowed`, `ExpiredPdf`, `CanaryEvicts`, `ToldFailed`, `StreamNeverEnds` | 1 job | one property each, violated | the findings below |

The pipeline's runs say `CHECK_DEADLOCK FALSE`: the pipeline really
stops when every job has ended and nothing is left to deliver or to sweep.

Every property of a passing run has a mutant in PROJECT.json: an operator
beside the mapped definition, commented `Mutant`, with a plausible slip of that
code (GET for GETDEL, the key handed over last, an ack after a database error,
an announced PDF that was not stored, a guard missing from an UPDATE). The run
refutes the property under it.

`KeyInOneHand` does not limit how many providers see a key over time, only that
a key is never both claimable and held or held twice; `SettledIsAnswered`
accepts any answer, the stale one of the first finding included, which is what
holds; `AckedIsApplied` speaks of the table's order of statuses, because a late
event is rightly ignored; `UnknownOnlyOverRollout` does not say that a rollout loses
no job, which is refuted, only that nothing but a revision without the model does.

## Fairness

Weak fairness only, and of each process on its own.

* `SweepFair`: time passes over a stalled job and some replica's ticker fires
  (`sweep` loops until the process ends, and Kubernetes restarts the process).
  `LifecycleLive` needs nothing else: `WatchedSpec`, under which it is checked, adds only
  what the page needs, and workers, server and visitors may all be dead.
* `HandlersFair`: an event loop goes on with the handler it runs and fetches
  when idle. The fair actions are conjoined with `NoFault`: a mishap is never owed,
  nor does one discharge the obligation to go on.
* `ServerFair`: JetStream redelivers what ack_wait released, gives up what
  exhausted its deliveries, and delivers an advisory that is not lost.
* `SubmitFair`: an HTTP handler that started goes on.
* `ProcessesFair`: the platform starts what is down (the Deployments' restart
  policy), a process goes on with its boot, its loop and its drain, and a
  handler publishes. Deaths, orders and submissions are owed by nobody, and the
  budgets end them, so `EverybodyComesUp` speaks of what follows the last one.
* `WatchFair`: the select loop takes what its consumer delivers. Opening a page or
  reconnecting is owed by nobody.

## Proofs

All theorems hold for every value of the constants: any set of jobs, any
numbers of workers and replicas, any `MaxDeliver`, stream bound and fault
budget, and any fault kinds but where a theorem names those it excludes: the expiry of a key in two
(`KeyCustodyProofs`), and the four ways to handle a message twice in two others (`DeliveryProofs`,
`StatusStreamProofs`), each refuted by TLC with a kind it excludes. No theorem limits the budget; those on exhaustion,
orderly stops and redirects compare with the mishaps spent so far. The assumptions are those the modules name:
`MaxStreamAssumption`, `MaxDeliverAssumption`, `WorkersAssumption` (the two kinds
of worker are distinct processes), `PublishAttemptsAssumption`,
`FaultsAssumption`, `StallsAssumption`, and for the rollout `YamlAssumption`,
`NoEntryAssumption`, `ProcessesAssumption`, `MaxOrdersAssumption`, `FirstAssumption`,
`BindAttemptsAssumption`, for the visitors `SecretsAssumption`, `IdsAssumption`,
`SizesAssumption` (a text is no shorter on the wire), `LimitsAssumption`,
`MayListAssumption` and `KeysAssumption`; TLC evaluates them in every run.

* `SharedProofs`, for the two compositions that run submissions. The stream: lemmas on what
  each server operation does to the log, the window and the deliveries; in particular the
  log is append-only. The table: each statement either leaves a row or moves it one step of
  the lifecycle (`RowStep`, `TouchesOnly`). From it `StoreTypeCorrect`, `StoreEndExplained`,
  `StoreTerminalIsFinal`, and `StoreImplementsLifecycle`: the table
  refines `JobLifecycle` through `statusColumn`. A submission: what each of its steps keeps
  (`SubmitKeeps`) and touches (`SubmitTouches`).
* `SweepClockProofs`: `SweepsTakeTheStalled` from `ClockInv`, that the row of a live job and the observer
  agree about the ten minutes. It is inductive because a statement either leaves a row alone, its clock
  included, or changes its status and restarts the clock (`StatementsRestart`).
* `PipelineProofs`: `TypeCorrect`. `PipelineTypeOK` is not inductive as it stands: a handler
  reads `stream[worker[w].slot]`, which is a message only if a busy worker's slot is
  in the log, and what it publishes is a message only if its note belongs to the
  step it is at. `TypeInv` adds exactly that (`Placed`): busy workers and replicas and
  advisories point into the log, notes match steps, a submission under way has a
  request. There is one lemma per
  component (`AiKeeps`, `CvKeeps`, `SubmitKeeps`, `ProjectKeeps`, `PoisonKeeps`,
  `TickKeeps`, `ClocksKeep`), each with one step per action. Each also says that the step runs one statement
  of the table or none (`RowsStep`), which is `PipelineRunsStatements`: what is proved of any order of
  statements holds in the pipeline. `PipelineImplementsLifecycle` and
  `PipelineTerminalIsFinal` follow from it and the table's lemmas. `PipelineCountedOnce` is inductive over `TypeInv`: the tally
  moves only with a row that leaves `Live`, and such a row never moves again.
  `PipelineCompletedHasPdf` needs the strengthening `Stored`: a cv-generator past its put
  has its object in the bucket, and so has every job with a `rendered` in the
  log. Objects are never deleted and the log only grows, so a row completed from a
  `rendered` event keeps both. `PipelineKeepsRendering` rests on `PipelineExplains`
  (`EndExplained` for the whole pipeline, so a rendering row has no error yet): of
  all steps only `handleMsg` writes a worker's error, and the narrower guard of
  `MarkFailedProcessing` leaves a rendering row to failures of the rendering.
  `PipelineAckedIsApplied` from `AckInv`: a replica that is about to ack has applied its event,
  and what a row reflects (`Reflects`) it reflects for ever, since rows only move forward.
  `PipelineSettledIsAnswered` from `AnswerInv`: a worker about to ack or term has its answer in the log
  (`AnswerBeforeSettle`); the only publish that adds nothing and reports success is one the window
  swallows, and what the window remembers is in the log.
  `PipelineImplementsService`: under the mapping that reads the status column, the events of each job in the
  log (`eventsMade`) and the bucket, every step is one of `JobService` or a stutter. A step of the table is one of
  the lifecycle (`TableSteps`) and shows only what the log has (`ShownByEvent`); a worker adds only the answer to
  what it holds (`WorkerAdds`), and a PDF's announcement only once stored (`Stored`); a request has its row
  (`JobsKnown`). `PipelineWorkBehind` then needs nothing of the pipeline: `JobService` implies it (`ServiceStepKeeps`).
* `DeliveryProofs`: what deliveries cost, and who still owes an answer. The books of a message and a
  consumer (`Balanced`) are an inequality: its deliveries, the handlers about to nak it and a
  delivery already paid for are at most the mishaps so far and one. It is inductive only with the last two
  terms, because a nak pays when a handler decides on it and the server charges when it delivers again, which
  may be many steps and a late ack apart. Each step of the pipeline does one of eight things to the books
  (`Passed`, `Decided`, `Dropped`, `Handed`, ...), each of which keeps them; `AllAccounted` follows, and from it
  `PipelineExhaustionTakesMishaps`. `PipelineUnfinishedIsOwed` combines most of what is proved of the
  pipeline. The job's request is due, or it is exhausted, or its worker is done with it. If it is exhausted, the
  advisory is on its way, was lost to a mishap that its own exhaustion did not pay (`AdvisoriesOwed`, which needs
  the books), or has ended the row. If it is done, the log has an answer (`AnswerInv`), and that answer is due at
  the gateway or was applied (`AckInv`), in which case the row is rendering and the same argument starts over at
  the CV. There `CvAnswers` is needed: a settled CV left a PDF's announcement if it renders and a failure
  if it does not, and that this may be the earlier failure of the processing is the exception the theorem
  states. That a pending row can be owed nothing but these comes from `PipelineWorkBehind`.
  `PipelineRenderFailureReported` says what it takes to get to the first finding. Its hypothesis is that
  `FaultKinds` has none of crash, lapse, publish and settle; every other mishap may happen, any number of times.
  Under it a request is in one hand at a time (`SoleHolders`), and the handler that concludes it
  leaves the only answer there will be (`OneVerdict`); a failure carries the stage of the worker that
  made it (`StagesTold`), and a result goes back to a CV of its kind (`ResultsGrounded`). Together with
  `Grounded`, `AnswerInv` and `CvAnswers` they are inductive (`AnswersOnce`). A processing failure and a structured CV are
  then never answers to one request, so the id a rendering failure publishes under is free or its own, and no
  job has two results (`OneResult`).
* `KeyCustodyProofs`. A key moves by three processes that share no lock, so none of its properties is
  inductive alone. `Grounded` ties the log to the submissions: each message goes back to a
  submission that got to its publish, which happens once, and a handler past the contract check
  holds a request that passed it. `Custody` then says where a key can be: in the vault, with nothing
  structured and nobody paid; or with one handler that `Paid` and may still publish; and what that
  handler published is in the window, so that its retry is swallowed (this is where the numbers
  behind `ForgetId` are needed). `PipelineKeyInOneHand`, `PipelineKeyedJobStructuredOnce` and
  `PipelineCompletedSpentItsKey` follow for every set of fault kinds. `PipelineKeyBeforeEvent` and
  `PipelineMissingKeyNeedsRedelivery` have the hypothesis `"ttl" \notin FaultKinds`, keys do not expire: with
  an expiry both are false, and no other mishap makes them so. They rest on `FirstDelivery`:
  the handler of a first delivery will find the key, because deliveries count the handlers that
  hold a message (`HoldersDelivered`), and only one with the message can claim.
* `StatusStreamProofs`. A connection beside the pipeline: the pipeline takes its own steps or loses one
  mishap to a dropped connection (`PipelineMoves`), so `TypeInv`, `Stored` and `CompletedHasPdf` are
  kept. `WatchInv` adds that a connection that goes on was not told an end, and is inside the log.
  From it `WatchTypeCorrect`, `WatchedCompletedHasPdf` (the row and the log each warrant the PDF),
  `WatchedPassedIsShown`, the safe half of `EndInLogIsShown`, and `WatchedMovesForward`.
  `WatchedToldFailedStays` has the hypothesis of `PipelineRenderFailureReported`, because it follows from
  `OneResult`: who was told of a failure was told by the row or by the log (`ToldByRowOrLog`), a row that failed
  stays so, and a failure in the log leaves no PDF for the row to complete with. A dropped connection is a kind of
  its own (`drop`), so the theorem is about pages that reconnect as often as they like.
* `RolloutProofs`: `RolloutTypeCorrect` from `RolloutTypeInv`, which adds that
  a loop of boot or of a bind has something left (`LoopsGoOn`).
  `RolloutLastSeederWins` and `RolloutUnknownOnlyOverRollout` from `RolloutInv`, which
  says what a gateway knows of the bucket while it seeds and ever after
  (`SeedKnows`): its own keys as far as it has put them, under its own revision while no
  other has written since; that it deletes only keys its file lacks; that after
  listing, what is listed and not its own is still to be deleted. A key that every
  seeding revision has (`Safe`) is therefore never deleted once put (`Kept`),
  whoever else seeds; a serving gateway has put all of its keys; so an
  accepted job's model is listed as long as it is safe (`JobKnows`). A worker has
  one message in hand (`OneInHand`), which ties its answer to the job.
  `RolloutOrderlyStopsAreFree` from `OrderlyInv`: deliveries are the stages a job has behind it and at most
  one more for each mishap (`Accounted`), and who has the job in hand is at the stage the job is at.
* `VisitorProofs`. `PagesTypeCorrect` from `TypeInv`, which adds what a tab has in hand
  at each step (`TabsPlaced`: a job at a job's page, a visitor wherever one is needed).
  `VisitorsStaySettled`: the only cookie a settled browser can be sent
  is none. `OthersJobsHidden` from `OwnInv`: a visitor id is *had* by a
  browser through its jar, its tabs or its jobs (`Has`), an id that is had was issued, and no two browsers have
  the same one; a step gives a browser at most one id, and a fresh one (`HasStep`).
  `JobsUseSavedProfiles` and `InputsBounded` from `ProfileInv`: a row is the last of its
  visitor's saves, the history only grows, and a request past its lookup carries what was
  checked (`Checked`), so a ticket is `Sound` for ever. `DownloadsFindPdfs` from `FetchInv` (an object or its
  end for every completed row). `RedirectsLeadSomewhere` from `RedirectInv`: what the window swallows is in the
  log, a job under submission is live or requested, and a handler that answers an error has met a mishap, so
  that dropping that answer's own error takes a second one. Every step of the pages is a
  submission's, the pipeline's or `Elsewhere` (`StepKinds`), so its rows change by a statement of the
  table or not at all: `PagesImplementLifecycle` and `PagesKeepEnds`, the promise of `JobLifecycle` as
  visitors with many tabs have it.

Model-checked only: liveness (`LifecycleLive`, `EnqueuedJobEnds`,
`EndInLogIsShown`, `EverybodyComesUp`), which is out of the prover's reach, and `LinksSurviveAForm` and
`SearchFindsSubsequences`, whose recursion over a text is an induction over data. Every other
property of a passing run is a theorem.

## Where the code and its documentation disagree

1. **A rendering failure can be swallowed** (`RenderFailureSwallowed`). Both
   workers publish failures under the id `{job}:failed`. After a lost ack of a
   keyed request, its redelivery finds no key and publishes a processing failure;
   a rendering failure within two minutes is then taken for a duplicate, although
   the cv-generator terminates its message as reported. `UnfinishedIsOwed` and its proof show that
   this and an advisory that is lost are the only ways in which a requested job is left to the sweeper, and
   `PipelineRenderFailureReported` that only a crash, a lapse of ack_wait, a failing publish or a lost ack gets there.
2. **An expired PDF is an internal error** (`ExpiredPdf`). The bucket drops a PDF after
   thirty days and its row stays completed. `iam.tf` says the gateway maps NoSuchKey to a
   404; under the very grants that file gives, S3 answers AccessDenied for a missing key (incident
   0012 found so for the readiness probe, and fixed only that), and the download ends as a 500.
   `FetchFindsPdf` shows that retention is the only way there.
3. **A canary takes models away from the primary** (`CanaryEvicts`). Seeding deletes
   from the one bucket whatever the booting revision's file lacks; a primary keeps
   offering a retired model from its own copy, and jobs it accepts end as "unknown
   model", against ADR 0012's "safe by construction" (its caveat that
   "provisioning-config changes should not rely on canary gating" is about what a canary can test, and a
   catalog comes with the image). The bucket stays that way
   after a rollback until a primary restarts. `UnknownOnlyOverRollout` and its proof
   show that this is the only way.
4. **A page can be told "failed" of a job that completes** (`ToldFailed`): the stream
   maps a stale processing failure, which the table ignores, to a terminal status.
   `WatchedToldFailedStays` shows that it takes one of the same four mishaps, and that
   no order of row, log and reconnections does it alone.
5. **A connection can outlive its job** (`StreamNeverEnds`): a job that the sweeper, an
   advisory or its submission fails publishes no event.

More, too direct to need a run:

* **Seeding is not upsert-only.** ADR 0016 (accepted, lines 52-54) says "Seeding is upsert-only, so entries removed from
  the YAML currently linger in the KV bucket until evicted by hand. Automatic eviction of retired keys is being addressed
  separately". It has been: Seed deletes at every boot what its file lacks (`catalog.go:116-135`, and its own
  comment). `LastSeederWins` says of the code what that ADR denies, that no ghost stays, and finding 3 what it costs.
* **The page does not render the bucket.** ADR 0007 says "the UI renders keys from the bucket"; the gateway renders, and
  accepts, the keys of its own copy (`catalog.go`, All and Get), which is what finding 3 rests on.
* **A link's URL may be a whole line.** "The URL is the last whitespace-separated token" (`handlers.go:119-120`), but
  `parseLinks` separates at a blank or a tab only (line 128), while it trims all white space: a line whose words are
  separated by a no-break space, as a pasted text has it, or by a lone carriage return, is stored whole, as its
  label and as its URL. `LinksSurviveAForm` is about gaps, blanks and tabs, and holds for such lines too.
* **Characters or bytes.** The limits on the fields are announced in characters ("limit 20,000 characters",
  handlers.go:220) and compared with bytes, so a description in Cyrillic is refused at half of it; and with the
  default body cap of 262144 bytes (`MAX_BODY_BYTES`) a urlencoded career history of 50,000 two-byte
  characters, within the cap in bytes, is refused with a 413 before any field is looked at.
* **A stale failure can still be first.** A stale processing failure overrides the render when it is applied before the
  structured event that precedes it in the log, by a second replica or after a nak: the guard
  jobs.go:227-233 promises is on the row's status, not on the log's order. `StaleFailureKeepsRendering` is what does hold.
* **Not every end is counted.** `recordTerminal` is not called for jobs that the sweeper or a failed submission
  ends, although ADR 0010 says job metrics are recorded once per job. `CountedOnce` is what does hold.

## Not modelled

* The probes behind the gateway's `/readyz`, which gate traffic. One of them writes: `HeadBucket` puts and reads back
  an object of its own, `cvs/.readyz-probe` (s3.go:54-78), which nothing else reads.
  The contract conversion (`proto_convert.py`), which in the pipeline is the choice between a
  good and a bad message.
* The HTML of the pages, the template of the model search, static files, security headers and request logs.
* The agent, providers and prompts, the typesetting and HTTP clients: outcomes
  of a call.
* Telemetry, logging, configuration, Kubernetes and OpenTofu manifests.

## Plan

Written first, because it is the system's core: contract, stream, pull loop, the
two workers, table, projection, submission, their composition, and the
page; then the processes around it: catalog, boot, binding, draining, and their
composition; then the visitors: sessions, profiles, limits, forms, downloads. Still to come, in this order:

1. A timed refinement of key expiry against the ten-minute sweep and the delivery
   budget, and the 24-hour MaxAge.
2. The remaining pure algorithm, the round trip of `proto_convert.py`, as functions
   against a reference definition.
3. A mapping of the visitors' composition to `JobService` as well. `Work` renders and completes in one step and
   a PDF expires, so `JobService` would first need a coarser step and the retention; `JobLifecycle`, which it
   implements, is proved (`PagesImplementLifecycle`).
4. Readiness: the probe of the object store against the grants, and traffic that
   follows `/readyz` in `Rollout`.
