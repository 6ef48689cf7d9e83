\* A canary beside a primary, one worker of each kind, one job.
CONSTANTS
  kept = kept
  retired = retired
  added = added
  Models = {kept, retired, added}
  Revisions = {"old", "new", "broken"}
  Yaml <- MCYaml
  First = "old"
  Jobs = {j1}
  Gateways = {g1, g2}
  AiWorkers = {a1}
  CvWorkers = {c1}
  BindAttempts = 2
  MaxOrders = 1
  FaultKinds = {"crash"}
  MaxFaults = 1
SPECIFICATION RolloutSpec
INVARIANT RolloutTypeOK
INVARIANT UnknownOnlyOverRollout
INVARIANT LastSeederWins
INVARIANT OrderlyStopsAreFree
PROPERTY EverybodyComesUp
