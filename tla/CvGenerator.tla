----------------------------- MODULE CvGenerator ----------------------------
(***************************************************************************)
(* The cv-generator (cv_generator/handler.py): RenderHandler.__call__ on a *)
(* structured message, one action between two awaits.                      *)
(*   convert: parse and contract conversion                                *)
(*   render : compile in a thread, then the page limit                     *)
(*   put    : overwrite the object cvs/{job}.pdf                             *)
(*   publish: the rendered event, with retry                               *)
(*   fail   : _fail, the rendering-stage failed event, then TerminalError  *)
(***************************************************************************)
EXTENDS PullLoop

VARIABLE objects    \* the jobs whose PDF is in the bucket

cvVars == <<loopVars, objects>>

ObjectsTypeOK == objects \subseteq Jobs

ObjectsInit == objects = {}

CvFetch(w, i) ==
  /\ Fetch(w, i, "convert")
  /\ UNCHANGED objects

\* A "bad" CV is refused here or by the compile: it never gets past render.
CvConvert(w) ==
  /\ worker[w].pc = "convert"
  /\ UNCHANGED <<streamVars, objects, faults>>
  /\ \/ Held(w).body = "bad" /\ Goto(w, "fail", "rendering")
     \/ Goto(w, "render", "none")

\* The compile and the page limit; what they do to one CV is always the same,
\* except that any other exception naks.
CvRender(w) ==
  /\ worker[w].pc = "render"
  /\ UNCHANGED <<streamVars, objects>>
  /\ \/ Held(w).body = "bad" /\ Goto(w, "fail", "rendering") /\ NoFault
     \/ Held(w).body = "good" /\ Goto(w, "put", "none") /\ NoFault
     \/ Finish(w, "nak") /\ Fault("internal")

\* Mutant: a storage error is logged and the result announced all the same.
CvPutBestEffort(w) ==
  /\ worker[w].pc = "put"
  /\ UNCHANGED streamVars
  /\ Goto(w, "publish", "good")
  /\ \/ objects' = objects \cup {Held(w).job} /\ NoFault
     \/ UNCHANGED objects /\ Fault("s3")

\* Mutant: the object key is not the one of the message's job.
CvPutFirst(w) ==
  /\ worker[w].pc = "put"
  /\ UNCHANGED streamVars
  /\ objects' = objects \cup {stream[1].job}
  /\ Goto(w, "publish", "good")
  /\ NoFault

\* put_pdf; a storage error is not caught and may come after the overwrite.
CvPut(w) ==
  /\ worker[w].pc = "put"
  /\ UNCHANGED streamVars
  /\ \/ /\ objects' = objects \cup {Held(w).job}
        /\ Goto(w, "publish", "good")
        /\ NoFault
     \/ /\ objects' \in {objects, objects \cup {Held(w).job}}
        /\ Finish(w, "nak")
        /\ Fault("s3")

CvPublish(w) ==
  /\ PublishWithRetry(w, Message(Held(w).job, "rendered", worker[w].note))
  /\ UNCHANGED objects

CvFail(w) ==
  /\ ReportFailure(w, Message(Held(w).job, "failed", worker[w].note))
  /\ UNCHANGED objects

CvDispatch(w) == Dispatch(w) /\ UNCHANGED objects

CvCrash(w) == Crash(w) /\ UNCHANGED objects

CvHandler(w) ==
  \/ CvConvert(w) \/ CvRender(w) \/ CvPut(w)
  \/ CvPublish(w) \/ CvFail(w) \/ CvDispatch(w)

CvStep(w) ==
  \/ \E i \in Published : CvFetch(w, i)
  \/ CvHandler(w)
  \/ CvCrash(w)
=============================================================================
