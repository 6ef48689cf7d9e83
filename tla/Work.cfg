\* No sweeps: the pipeline ends every enqueued job.
CONSTANTS
  Jobs = {j1}
  AiWorkers = {a1}
  CvWorkers = {c1}
  Replicas = {r1}
  MaxStream = 5
  MaxDeliver <- MCMaxDeliver
  AiDeliveries = 2
  CvDeliveries = 2
  GwDeliveries = 2
  PublishAttempts = 2
  FaultKinds = {"db", "vault", "kv", "s3", "internal"}
  MaxFaults = 2
  Stalls = FALSE
SPECIFICATION WorkSpec
CHECK_DEADLOCK FALSE
PROPERTY EnqueuedJobEnds
