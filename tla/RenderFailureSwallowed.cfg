\* One lost ack: a stale failure takes the id of the real one.
CONSTANTS
  Jobs = {j1}
  AiWorkers = {a1}
  CvWorkers = {c1}
  Replicas = {r1}
  MaxStream = 5
  MaxDeliver <- MCMaxDeliver
  AiDeliveries = 2
  CvDeliveries = 2
  GwDeliveries = 2
  PublishAttempts = 2
  FaultKinds = {"settle"}
  MaxFaults = 1
  Stalls = FALSE
SPECIFICATION SafeSpec
CHECK_DEADLOCK FALSE
INVARIANT RenderFailureReported
