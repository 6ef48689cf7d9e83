------------------------------ MODULE KeyVault ------------------------------
(***************************************************************************)
(* The provider API keys in Valkey: SET with an expiry by the gateway      *)
(* (apikeys.go), one atomic GETDEL by the ai-processor (handler.py).  A    *)
(* key is identified with the job it was handed over for.                  *)
(***************************************************************************)
EXTENDS Contract

VARIABLE vault      \* the jobs whose key can still be claimed

VaultTypeOK == vault \subseteq Jobs

VaultInit == vault = {}

\* SET cv:apikey:{job} EX 900.
PutKey(j) == vault' = vault \cup {j}

\* Mutant: GET instead of GETDEL.
ClaimKeyGet(j, found) ==
  /\ found = (j \in vault)
  /\ UNCHANGED vault

\* GETDEL: the reply tells whether the key was there.
ClaimKey(j, found) ==
  /\ found = (j \in vault)
  /\ vault' = vault \ {j}

\* The expiry passes.
ExpireKey(j) ==
  /\ j \in vault
  /\ vault' = vault \ {j}
=============================================================================
