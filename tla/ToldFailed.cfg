\* A page and one lost ack.
CONSTANTS
  Jobs = {j1}
  AiWorkers = {a1}
  CvWorkers = {c1}
  Replicas = {r1}
  Clients = {v1}
  MaxStream = 5
  MaxDeliver <- MCMaxDeliver
  AiDeliveries = 2
  CvDeliveries = 2
  GwDeliveries = 2
  PublishAttempts = 2
  FaultKinds = {"settle"}
  MaxFaults = 1
  Stalls = FALSE
SPECIFICATION WatchedSafeSpec
CHECK_DEADLOCK FALSE
INVARIANT ToldFailedStaysFailed
