---------------------------- MODULE ModelCatalog ----------------------------
(***************************************************************************)
(* The model catalog (gateway internal/catalog/catalog.go).  A gateway     *)
(* image carries one revision of the YAML file; every gateway that boots   *)
(* writes its revision into the one model-catalog bucket, from which the   *)
(* ai-processors read, and answers visitors from its own copy.             *)
(***************************************************************************)
EXTENDS Naturals, Sequences

CONSTANTS Models,      \* catalog keys
          Revisions,   \* revisions of the gateway image
          Yaml         \* Yaml[r]: the entries of revision r's file, in its order

\* An entry is its key and whether it passes the checks on a single entry.
ASSUME YamlAssumption == Yaml \in [Revisions -> Seq([key : Models, valid : BOOLEAN])]

ASSUME NoEntryAssumption == "absent" \notin Revisions

VARIABLE bucket        \* bucket[k]: the revision whose entry is listed under k

CatalogTypeOK == bucket \in [Models -> Revisions \cup {"absent"}]

CatalogInit == bucket = [k \in Models |-> "absent"]

\* Get is nil for every other key.
KeysOf(r) == {Yaml[r][i].key : i \in DOMAIN Yaml[r]}

\* No duplicate key, and no entry with a missing field, an unknown provider
\* or a rune outside the bucket's charset.
Loads(r) ==
  /\ Yaml[r] # << >>
  /\ \A i \in DOMAIN Yaml[r] : Yaml[r][i].valid
  /\ \A i, h \in DOMAIN Yaml[r] : Yaml[r][i].key = Yaml[r][h].key => i = h

Listed == {k \in Models : bucket[k] # "absent"}

\* The keys Seed deletes, of those it finds in the bucket.
Stale(r) == Listed \ KeysOf(r)

\* The bucket as a Seed that nobody disturbs leaves it.
Seeded(r) == [k \in Models |-> IF k \in KeysOf(r) THEN r ELSE "absent"]

PutEntry(r, k) == bucket' = [bucket EXCEPT ![k] = r]

DeleteEntry(k) == bucket' = [bucket EXCEPT ![k] = "absent"]
=============================================================================
