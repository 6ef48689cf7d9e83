\* Two browsers that start without a cookie, with two tabs between them, one job,
\* and one mishap, which may be the rotation of the secret or the end of a retention.
CONSTANTS
  Jobs = {j1}
  MaxStream = 2
  MaxDeliver <- MCMaxDeliver
  FaultKinds = {"db", "publish", "crash", "rotate", "retention"}
  MaxFaults = 1
  Browsers = {b1, b2}
  Tabs = {t1, t2}
  Ids = {v1, v2}
  Secrets = {"old", "new"}
  FirstSecret = "old"
  none = none
  short = short
  long = long
  Texts = {none, short, long}
  Bytes <- MCBytes
  Wire <- MCWire
  MaxCareerText = 2
  MaxJobDescription = 2
  MaxBody = 4
  MaxSaves = 2
  Keys = {j1}
  MayList = FALSE
  MaxText = 5
SPECIFICATION PagesSpec
SYMMETRY MCSymmetry
CHECK_DEADLOCK FALSE
INVARIANT VisitorPagesTypeOK
INVARIANT OwnJobsOnly
INVARIANT JobUsesASavedProfile
INVARIANT PipelineInputBounded
INVARIANT RedirectedJobIsOnItsWay
INVARIANT FetchFindsPdf
INVARIANT LinksSurviveAForm
INVARIANT SearchFindsSubsequences
PROPERTY SettledStaysSettled
