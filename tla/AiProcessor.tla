----------------------------- MODULE AiProcessor ----------------------------
(***************************************************************************)
(* The ai-processor (ai_processor/handler.py): JobHandler.__call__ on a    *)
(* requested message, one action between two awaits.                       *)
(*   resolve: parse, check personal_info, read the catalog bucket          *)
(*   claim  : GETDEL the API key, unless the provider is the fake one      *)
(*   build  : build_model refuses a provider it does not know              *)
(*   call   : the provider call, its retries of transient errors included  *)
(*   publish: the structured event, with retry                             *)
(*   fail   : _fail, the processing-stage failed event, then TerminalError *)
(***************************************************************************)
EXTENDS PullLoop, KeyVault

aiVars == <<loopVars, vault>>

\* The handler has the key of job j in memory.
HoldsKey(w, j) ==
  /\ w \in AiWorkers
  /\ worker[w].pc \in {"build", "call"}
  /\ Held(w).job = j
  /\ Held(w).body = "real"

AiFetch(w, i) ==
  /\ Fetch(w, i, "resolve")
  /\ UNCHANGED vault

\* The guarded block up to the claim: a request that breaks the contract and
\* a model the bucket does not list are reported before the key is touched.
AiResolve(w) ==
  /\ worker[w].pc = "resolve"
  /\ UNCHANGED <<streamVars, vault>>
  /\ \/ /\ Held(w).body = "bad"
        /\ Goto(w, "fail", "processing")
        /\ NoFault
     \/ /\ Held(w).body # "bad"
        /\ \/ Goto(w, "fail", "processing") /\ NoFault
           \/ Finish(w, "nak") /\ Fault("kv")
           \/ Held(w).body = "fake" /\ Goto(w, "build", "none") /\ NoFault
           \/ Held(w).body = "real" /\ Goto(w, "claim", "none") /\ NoFault

\* GETDEL; an error of the command is not caught and may come after the delete.
AiClaim(w) ==
  /\ worker[w].pc = "claim"
  /\ UNCHANGED streamVars
  /\ \/ /\ ClaimKey(Held(w).job, TRUE)
        /\ Goto(w, "build", "none")
        /\ NoFault
     \/ /\ ClaimKey(Held(w).job, FALSE)
        /\ Goto(w, "fail", "keyMissing")
        /\ NoFault
     \/ /\ \E found \in BOOLEAN : ClaimKey(Held(w).job, found) \/ UNCHANGED vault
        /\ Finish(w, "nak")
        /\ Fault("vault")

\* Only an unsupported provider is caught here; the key is already spent.
AiBuild(w) ==
  /\ worker[w].pc = "build"
  /\ UNCHANGED <<streamVars, vault>>
  /\ \/ Goto(w, "call", "none") /\ NoFault
     \/ Goto(w, "fail", "processing") /\ NoFault
     \/ Finish(w, "nak") /\ Fault("internal")

\* _structure: a CV, or a failure with its own reason.  Whatever the provider
\* raises is reported, never nak'd: the key is already spent.
AiCall(w) ==
  /\ worker[w].pc = "call"
  /\ UNCHANGED <<streamVars, vault, faults>>
  /\ \/ \E cv \in Bodies["structured"] : Goto(w, "publish", cv)
     \/ Goto(w, "fail", "processing")

AiPublish(w) ==
  /\ PublishWithRetry(w, Message(Held(w).job, "structured", worker[w].note))
  /\ UNCHANGED vault

AiFail(w) ==
  /\ ReportFailure(w, Message(Held(w).job, "failed", worker[w].note))
  /\ UNCHANGED vault

AiDispatch(w) == Dispatch(w) /\ UNCHANGED vault

AiCrash(w) == Crash(w) /\ UNCHANGED vault

AiHandler(w) ==
  \/ AiResolve(w) \/ AiClaim(w) \/ AiBuild(w) \/ AiCall(w)
  \/ AiPublish(w) \/ AiFail(w) \/ AiDispatch(w)

AiStep(w) ==
  \/ \E i \in Published : AiFetch(w, i)
  \/ AiHandler(w)
  \/ AiCrash(w)
=============================================================================
