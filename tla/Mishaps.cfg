\* One job, two ai-processors, any two mishaps of any kind, with sweeps.
\* Symmetric workers.  The job ends and the system may stop.
CONSTANTS
  Jobs = {j1}
  AiWorkers = {a1, a2}
  CvWorkers = {c1}
  Replicas = {r1}
  MaxStream = 6
  MaxDeliver <- MCMaxDeliver
  AiDeliveries = 2
  CvDeliveries = 2
  GwDeliveries = 2
  PublishAttempts = 2
  FaultKinds = {"crash", "lapse", "window", "publish", "settle", "db", "vault", "kv", "s3", "ttl", "advisory", "internal"}
  MaxFaults = 2
  Stalls = TRUE
SYMMETRY MCSymmetry
SPECIFICATION SafeSpec
CHECK_DEADLOCK FALSE
INVARIANT PipelineTypeOK
INVARIANT CompletedHasPdf
INVARIANT KeyedJobStructuredOnce
INVARIANT SettledIsAnswered
INVARIANT AckedIsApplied
INVARIANT UnfinishedIsOwed
INVARIANT ExhaustionTakesMishaps
INVARIANT CompletedSpentItsKey
PROPERTY ServiceSafe
PROPERTY StaleFailureKeepsRendering
