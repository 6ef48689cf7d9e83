\* A visitor comes back for a PDF whose thirty days are over; the credentials
\* are those of infra/opentofu/iam.tf, without s3:ListBucket.
CONSTANTS
  Jobs = {j1}
  MaxStream = 2
  MaxDeliver <- MCMaxDeliver
  FaultKinds = {"retention"}
  MaxFaults = 1
  Browsers = {b1}
  Tabs = {t1}
  Ids = {v1}
  Secrets = {"old"}
  FirstSecret = "old"
  none = none
  short = short
  long = long
  Texts = {short}
  Bytes <- MCBytes
  Wire <- MCWire
  MaxCareerText = 2
  MaxJobDescription = 2
  MaxBody = 4
  MaxSaves = 1
  Keys = {j1}
  MayList = FALSE
  MaxText = 0
SPECIFICATION PagesSpec
CHECK_DEADLOCK FALSE
INVARIANT ExpiredPdfIsNotFound
