\* One job, two processes of every kind, as in a rolling update, and one mishap of
\* any kind but the expiry of a key.  The job ends and the system may stop.
CONSTANTS
  Jobs = {j1}
  AiWorkers = {a1, a2}
  CvWorkers = {c1, c2}
  Replicas = {r1, r2}
  MaxStream = 5
  MaxDeliver <- MCMaxDeliver
  AiDeliveries = 2
  CvDeliveries = 2
  GwDeliveries = 2
  PublishAttempts = 2
  FaultKinds = {"crash", "lapse", "window", "publish", "settle", "db", "vault", "kv", "s3", "advisory", "internal"}
  MaxFaults = 1
  Stalls = FALSE
SYMMETRY MCSymmetry
SPECIFICATION SafeSpec
CHECK_DEADLOCK FALSE
INVARIANT KeyInOneHand
INVARIANT KeyBeforeEvent
INVARIANT MissingKeyNeedsRedelivery
INVARIANT CountedOnce
