------------------------------ MODULE Visitors ------------------------------
(***************************************************************************)
(* Anonymous sessions (gateway internal/session/session.go).  A browser is *)
(* known by one cookie, a visitor id signed with the gateway's secret; a   *)
(* request without a cookie that verifies is given a fresh visitor, and    *)
(* the browser keeps whatever cookie the last response set.  While a       *)
(* secret is rotated, replicas with the old and with the new one serve     *)
(* side by side.                                                           *)
(***************************************************************************)
EXTENDS Naturals, FiniteSets

CONSTANTS Browsers,
          Ids,         \* the uuids NewString may return
          Secrets,     \* values of SESSION_SECRET
          FirstSecret

ASSUME SecretsAssumption == FirstSecret \in Secrets

VARIABLES
  jar,        \* jar[b]: the cookie browser b holds
  issued,     \* history: the visitor ids given out
  serving     \* the secrets of the replicas that serve

sessionVars == <<jar, issued, serving>>

NoCookie == [visitor |-> "nobody", secret |-> "none"]

Cookies == [visitor : Ids, secret : Secrets]

ASSUME IdsAssumption == "nobody" \notin Ids

VisitorsTypeOK ==
  /\ jar \in [Browsers -> Cookies \cup {NoCookie}]
  /\ issued \subseteq Ids
  /\ serving \subseteq Secrets /\ serving # {}

VisitorsInit ==
  /\ jar = [b \in Browsers |-> NoCookie]
  /\ issued = {}
  /\ serving = {FirstSecret}

\* Mutant: the arguments change places.
SignSwapped(v, s) == [visitor |-> s, secret |-> v]

Sign(v, s) == [visitor |-> v, secret |-> s]

\* No cookie, a malformed one and one signed with another secret are alike.
Verify(cookie, s) == cookie \in Cookies /\ cookie.secret = s

\* Mutant: every request is given a fresh visitor.
AdmissionsAfresh(cookie, s) == {[visitor |-> v, sets |-> Sign(v, s)] : v \in Ids \ issued}

\* Middleware on a replica whose secret is s: the visitor a request may be given
\* and the cookie its response sets.
Admissions(cookie, s) ==
  IF Verify(cookie, s) THEN {[visitor |-> cookie.visitor, sets |-> NoCookie]}
  ELSE {[visitor |-> v, sets |-> Sign(v, s)] : v \in Ids \ issued}

\* The response reaches the browser.
Receive(b, sets) ==
  jar' = IF sets = NoCookie THEN jar ELSE [jar EXCEPT ![b] = sets]

\* SESSION_SECRET is rotated: replicas with another secret join, then the
\* others leave.
JoinSecret(s) ==
  /\ Cardinality(serving) = 1
  /\ s \in Secrets \ (serving \cup {FirstSecret})
  /\ serving' = serving \cup {s}
  /\ UNCHANGED <<jar, issued>>

LeaveSecret(s) ==
  /\ Cardinality(serving) > 1
  /\ s \in serving
  /\ serving' = serving \ {s}
  /\ UNCHANGED <<jar, issued>>
=============================================================================
