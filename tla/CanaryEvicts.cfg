\* A canary of the new revision beside a primary of the old one.
CONSTANTS
  kept = kept
  retired = retired
  added = added
  Models = {kept, retired, added}
  Revisions = {"old", "new", "broken"}
  Yaml <- MCYaml
  First = "old"
  Jobs = {j1}
  Gateways = {g1, g2}
  AiWorkers = {a1}
  CvWorkers = {}
  BindAttempts = 2
  MaxOrders = 1
  FaultKinds = {}
  MaxFaults = 0
SPECIFICATION RolloutSpec
INVARIANT AcceptedIsExecutable
