\* A page of a job whose submission died, and everything fair.
CONSTANTS
  Jobs = {j1}
  AiWorkers = {a1}
  CvWorkers = {c1}
  Replicas = {r1}
  Clients = {v1}
  MaxStream = 4
  MaxDeliver <- MCMaxDeliver
  AiDeliveries = 2
  CvDeliveries = 2
  GwDeliveries = 2
  PublishAttempts = 2
  FaultKinds = {"crash"}
  MaxFaults = 1
  Stalls = TRUE
SPECIFICATION WatchedWorkSpec
CHECK_DEADLOCK FALSE
PROPERTY EndedJobEndsStream
