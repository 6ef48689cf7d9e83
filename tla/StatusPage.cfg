\* A visitor follows the job.
CONSTANTS
  Jobs = {j1}
  AiWorkers = {a1}
  CvWorkers = {c1}
  Replicas = {r1}
  Clients = {v1}
  MaxStream = 5
  MaxDeliver <- MCMaxDeliver
  AiDeliveries = 2
  CvDeliveries = 2
  GwDeliveries = 2
  PublishAttempts = 2
  FaultKinds = {"crash", "lapse", "drop"}
  MaxFaults = 1
  Stalls = TRUE
SPECIFICATION WatchedSpec
CHECK_DEADLOCK FALSE
INVARIANT WatchTypeOK
INVARIANT ShownCompletedHasPdf
INVARIANT PassedIsShown
PROPERTY ShownMovesForward
PROPERTY EndInLogIsShown
PROPERTY LifecycleLive
