------------------------------ MODULE Profiles ------------------------------
(***************************************************************************)
(* The profiles table (gateway internal/store/store.go) and the limits on  *)
(* what a form may carry (internal/web/limits.go).  A text is a model      *)
(* value with two sizes: its bytes, which are what the limits called       *)
(* characters are compared with, and its bytes in a urlencoded body.  The  *)
(* two columns a save writes, career_text and personal_info, are both      *)
(* identified with the career text of that save.                           *)
(***************************************************************************)
EXTENDS Visitors, Sequences

CONSTANTS Texts,
          Bytes, Wire,                  \* the sizes of a text
          MaxCareerText, MaxJobDescription, MaxBody,
          MaxSaves                      \* bound on the saves of one visitor

ASSUME SizesAssumption ==
  /\ Bytes \in [Texts -> Nat] /\ Wire \in [Texts -> Nat]
  /\ \A t \in Texts : Bytes[t] <= Wire[t]

ASSUME LimitsAssumption ==
  MaxCareerText \in Nat /\ MaxJobDescription \in Nat /\ MaxBody \in Nat /\ MaxSaves \in Nat

VARIABLES
  profiles,   \* profiles[v]: the row of visitor v
  saves       \* history: saves[v], the texts v saved, in the order of their commits

Profile == [career : Texts, info : Texts, version : Nat]

NoProfile == [career |-> "none", info |-> "none", version |-> 0]

ProfilesTypeOK ==
  /\ profiles \in [Ids -> Profile \cup {NoProfile}]
  /\ saves \in [Ids -> Seq(Texts)]

ProfilesInit ==
  /\ profiles = [v \in Ids |-> NoProfile]
  /\ saves = [v \in Ids |-> << >>]

Empty(text) == Bytes[text] = 0

\* limitRequestBody: a body over the cap never reaches a handler.
BodyFits(text) == Wire[text] <= MaxBody

\* Mutant: the career history of the profile is not looked at.
ValidateDescriptionOnly(description, career) == Bytes[description] <= MaxJobDescription

\* validateJobSizes: the limits called characters are compared with bytes.
ValidateJobSizes(description, career) ==
  /\ Bytes[description] <= MaxJobDescription
  /\ Bytes[career] <= MaxCareerText

\* Mutant: personal_info keeps its value over a conflict.
UpsertCareer(v, text) ==
  /\ profiles' = [profiles EXCEPT ![v] =
       [career |-> text, info |-> IF @ = NoProfile THEN text ELSE @.info, version |-> @.version + 1]]
  /\ saves' = [saves EXCEPT ![v] = Append(@, text)]

\* INSERT ... ON CONFLICT (visitor_id) DO UPDATE, one statement.
UpsertProfile(v, text) ==
  /\ profiles' = [profiles EXCEPT ![v] =
       [career |-> text, info |-> text, version |-> @.version + 1]]
  /\ saves' = [saves EXCEPT ![v] = Append(@, text)]
=============================================================================
