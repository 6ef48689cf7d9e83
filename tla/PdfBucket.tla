----------------------------- MODULE PdfBucket ------------------------------
(***************************************************************************)
(* The bucket of rendered CVs: the gateway's client (gateway internal/s3/  *)
(* s3.go), the retention rule and the grants (infra/opentofu/s3.tf,        *)
(* iam.tf).  Without the grant to list the bucket, S3 answers a read of a  *)
(* missing key with AccessDenied (docs/incidents/0012).                    *)
(***************************************************************************)
CONSTANTS Keys,        \* object keys
          MayList      \* whether the credentials are granted s3:ListBucket

ASSUME MayListAssumption == MayList \in BOOLEAN

VARIABLE objects       \* the keys that exist

ObjectsTypeOK == objects \subseteq Keys

ObjectsInit == objects = {}

PutObject(k) == objects' = objects \cup {k}

\* Get's outcome: the object, ErrNotFound, or some other error.
GetObject(k) ==
  CASE k \in objects              -> "found"
    [] k \notin objects /\ MayList  -> "notFound"
    [] k \notin objects /\ ~MayList -> "denied"

\* The thirty days of the retention rule pass over an object.
ExpireObject(k) ==
  /\ k \in objects
  /\ objects' = objects \ {k}
=============================================================================
