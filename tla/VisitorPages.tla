---------------------------- MODULE VisitorPages ----------------------------
(***************************************************************************)
(* The requests of visitors (gateway internal/web): the session            *)
(* middleware, the profile form, the job form up to and with JobSubmission,*)
(* the home page, a job's page and its download.  One action per call to   *)
(* another system; what precedes the first call is part of the arrival.    *)
(* tab[t] is the request tab t of a browser waits for:                     *)
(*   pc     : the next call, or "reply" once the response is on its way    *)
(*   visitor, sets: what the session middleware decided                    *)
(*   posted : what the form carried                                        *)
(*   profile, jobs, job: what the handler read, listed or works on         *)
(*   floor  : history, what a late answer may not fall behind              *)
(* The rest of the pipeline only moves the rows of enqueued jobs.          *)
(***************************************************************************)
EXTENDS JobSubmission, Profiles, PdfBucket

CONSTANT Tabs

ASSUME KeysAssumption == Jobs \subseteq Keys

VARIABLES
  browserOf,  \* whose tab it is
  tab,
  ticket,     \* ticket[j]: the columns and the payload job j was created with
  told,       \* history: told[v], the last version a browser was told is saved
  expired,    \* history: the PDFs whose retention ended
  sent        \* bounds the profile forms sent

pagesVars == <<browserOf, tab, ticket, told, expired, sent>>

vars == <<submissionVars, sessionVars, profiles, saves, objects, pagesVars>>

\* Providers of the models on offer; "unknown" is a model that is not.
Catalog == {"real", "fake"}

Models == Catalog \cup {"unknown"}

Forms == [text : Texts \cup {"none"}, model : Models \cup {"none"}, key : BOOLEAN]

NoForm == [text |-> "none", model |-> "none", key |-> FALSE]

\* "refused" stands for 413, 400 and every flash message: nothing was done;
\* "error" and, for an object that could not be read, "unreadable" for 500.
Replies == {"none", "home", "page", "saved", "redirect", "pdf", "refused", "not_found", "error",
            "unreadable"}

Tab == [pc : {"idle", "upsert", "list", "lookup", "insert", "submit", "page", "download",
              "fetch", "reply"},
        visitor : Ids \cup {"nobody"}, sets : Cookies \cup {NoCookie}, posted : Forms,
        profile : Profile \cup {NoProfile}, jobs : SUBSET Jobs, job : Jobs \cup {"none"},
        floor : Nat, reply : Replies]

Idle == [pc |-> "idle", visitor |-> "nobody", sets |-> NoCookie, posted |-> NoForm,
         profile |-> NoProfile, jobs |-> {}, job |-> "none", floor |-> 0, reply |-> "none"]

Ticket == [visitor : Ids, browser : Browsers, profile : Profile, description : Texts,
           floor : Nat]

NoTicket == [visitor |-> "nobody", browser |-> "nobody", profile |-> NoProfile,
             description |-> "none", floor |-> 0]

VisitorPagesTypeOK ==
  /\ EventStreamTypeOK /\ VaultTypeOK /\ StoreTypeOK /\ FaultsTypeOK /\ SubmissionTypeOK
  /\ VisitorsTypeOK /\ ProfilesTypeOK /\ ObjectsTypeOK
  /\ browserOf \in [Tabs -> Browsers]
  /\ tab \in [Tabs -> Tab]
  /\ ticket \in [Jobs -> Ticket \cup {NoTicket}]
  /\ told \in [Ids -> Nat]
  /\ expired \subseteq Jobs
  /\ sent \in Nat

Init ==
  /\ EventStreamInit /\ VaultInit /\ StoreInit /\ FaultsInit /\ SubmissionInit
  /\ VisitorsInit /\ ProfilesInit /\ ObjectsInit
  /\ browserOf \in [Tabs -> Browsers]
  /\ tab = [t \in Tabs |-> Idle]
  /\ ticket = [j \in Jobs |-> NoTicket]
  /\ told = [v \in Ids |-> 0]
  /\ expired = {}
  /\ sent = 0

Created == {j \in Jobs : ticket[j] # NoTicket}

JobsOf(v) == {j \in Created : ticket[j].visitor = v}

Awaits(t, pc) == tab[t].pc = pc

Goto(t, pc) == tab' = [tab EXCEPT ![t].pc = pc]

\* The response of tab t and the little the properties ask of it.
Response(t, reply) ==
  [pc |-> "reply", visitor |-> "nobody", sets |-> tab[t].sets, posted |-> NoForm,
   profile |-> NoProfile, jobs |-> {}, floor |-> 0, reply |-> reply,
   job |-> IF reply = "not_found" THEN "none" ELSE tab[t].job]

Answer(t, reply) == tab' = [tab EXCEPT ![t] = Response(t, reply)]

-----------------------------------------------------------------------------
(* A request arrives. *)

\* The session middleware comes first, for every route.  A submission may not
\* fall behind what its visitor has been told is saved.
Arrive(t, pc, posted, job) ==
  /\ Awaits(t, "idle")
  /\ \E s \in serving : \E admitted \in Admissions(jar[browserOf[t]], s) :
       /\ issued' = issued \cup {admitted.visitor}
       /\ tab' = [tab EXCEPT ![t] =
            [pc |-> pc, visitor |-> admitted.visitor, sets |-> admitted.sets, posted |-> posted,
             profile |-> NoProfile, jobs |-> {}, job |-> job, reply |-> "none",
             floor |-> IF pc = "lookup" THEN told[admitted.visitor] ELSE 0]]
  /\ UNCHANGED <<submissionVars, jar, serving, profiles, saves, objects, browserOf, ticket, told, expired>>

\* What limitRequestBody (a body too large or malformed) and the handler's first
\* checks turn away.
Refuse(t) ==
  /\ Awaits(t, "idle")
  /\ \E s \in serving : \E admitted \in Admissions(jar[browserOf[t]], s) :
       /\ issued' = issued \cup {admitted.visitor}
       /\ tab' = [tab EXCEPT ![t] =
            [pc |-> "reply", visitor |-> "nobody", sets |-> admitted.sets, posted |-> NoForm,
             profile |-> NoProfile, jobs |-> {}, job |-> "none", reply |-> "refused", floor |-> 0]]
  /\ UNCHANGED <<submissionVars, jar, serving, profiles, saves, objects, browserOf, ticket, told, expired>>

\* handleProfileSave up to the upsert: it does not look at the size of the text.
AskSave(t, text, named) ==
  IF BodyFits(text) /\ ~Empty(text) /\ named
  THEN /\ sent < MaxSaves
       /\ sent' = sent + 1
       /\ Arrive(t, "upsert", [text |-> text, model |-> "none", key |-> FALSE], "none")
  ELSE Refuse(t) /\ UNCHANGED sent

\* handleJobCreate up to GetProfile; no more of them than there are job ids.
AskSubmit(t, text, model, key) ==
  /\ Cardinality({u \in Tabs : tab[u].pc \in {"lookup", "insert"}}) < Cardinality(Jobs \ Created)
  /\ IF BodyFits(text) /\ ~Empty(text) /\ model \in Catalog /\ (key \/ model = "fake")
     THEN Arrive(t, "lookup", [text |-> text, model |-> model, key |-> key], "none")
     ELSE Refuse(t)
  /\ UNCHANGED sent

AskHome(t) == Arrive(t, "list", NoForm, "none") /\ UNCHANGED sent

\* A job's page, its JSON or its download, of whichever job there is; any other
\* id is not found.
AskJob(t, pc, j) == Arrive(t, pc, NoForm, j) /\ UNCHANGED sent

-----------------------------------------------------------------------------
(* Its handler goes on, one call at a time. *)

\* What a handler's call leaves alone besides what it names.
restVars == <<sessionVars, browserOf, told, expired, sent>>

\* Any call may fail: 500.
Fails(t, pc) ==
  /\ Awaits(t, pc)
  /\ Fault("db")
  /\ Answer(t, "error")

SaveProfile(t) ==
  /\ \/ /\ Awaits(t, "upsert")
        /\ UpsertProfile(tab[t].visitor, tab[t].posted.text)
        /\ tab' = [tab EXCEPT ![t] = [Response(t, "saved") EXCEPT
                                        !.visitor = tab[t].visitor, !.floor = Len(saves[tab[t].visitor]) + 1]]
        /\ NoFault
     \/ /\ Fails(t, "upsert")
        /\ UpsertProfile(tab[t].visitor, tab[t].posted.text) \/ UNCHANGED <<profiles, saves>>
  /\ UNCHANGED <<streamVars, vault, rows, form, objects, ticket, restVars>>

readVars == <<streamVars, vault, rows, form, profiles, saves, objects, ticket, restVars>>

\* Mutant: ListJobs without the visitor.
ListEverybody(v) == Created

\* The newest twenty jobs of the visitor; no run comes near twenty.
ListJobs(v) == JobsOf(v)

\* handleIndex reads the profile, which only fills the form, and the jobs.
HomeList(t) ==
  /\ \/ /\ Awaits(t, "list")
        /\ tab' = [tab EXCEPT ![t] = [Response(t, "home") EXCEPT !.jobs = ListJobs(tab[t].visitor)]]
        /\ NoFault
     \/ Fails(t, "list")
  /\ UNCHANGED readVars

\* GetProfile, and the checks that need it.
SubmitLookup(t) ==
  /\ \/ /\ Awaits(t, "lookup")
        /\ LET profile == profiles[tab[t].visitor]
           IN IF profile # NoProfile /\ ValidateJobSizes(tab[t].posted.text, profile.career)
              THEN tab' = [tab EXCEPT ![t] = [@ EXCEPT !.pc = "insert", !.profile = profile]]
              ELSE Answer(t, "refused")
        /\ NoFault
     \/ Fails(t, "lookup")
  /\ UNCHANGED readVars

\* Mutant: the profile is read again for the event.
IssueReread(t, j) ==
  ticket' = [ticket EXCEPT ![j] =
    [visitor |-> tab[t].visitor, browser |-> browserOf[t], profile |-> profiles[tab[t].visitor],
     description |-> tab[t].posted.text, floor |-> tab[t].floor]]

\* The columns of the new row and the payload of its event, from what the
\* handler has in its hands.
Issue(t, j) ==
  ticket' = [ticket EXCEPT ![j] =
    [visitor |-> tab[t].visitor, browser |-> browserOf[t], profile |-> tab[t].profile,
     description |-> tab[t].posted.text, floor |-> tab[t].floor]]

\* CreateJob for job j, or an error that left no row.
SubmitInsert(t, j) ==
  /\ \/ /\ Awaits(t, "insert")
        /\ SubmitCreate(j)
        /\ form'[j].request = tab[t].posted.model
        /\ form'[j].step # "done" => (form'[j].step = "put" <=> tab[t].posted.key)
        /\ Issue(t, j)
        /\ IF form'[j].step = "done" THEN Answer(t, "error")
           ELSE tab' = [tab EXCEPT ![t] = [Response(t, "none") EXCEPT !.pc = "submit", !.job = j]]
     \/ /\ Fails(t, "insert")
        /\ UNCHANGED <<streamVars, vault, rows, form, ticket>>
  /\ UNCHANGED <<profiles, saves, objects, restVars>>

\* The key, the event and the MarkFailed of JobSubmission; then the redirect.
SubmitGoOn(t) ==
  /\ Awaits(t, "submit")
  /\ SubmitCall(tab[t].job)
  /\ IF form'[tab[t].job].step = "done" THEN Answer(t, "redirect") ELSE UNCHANGED tab
  /\ UNCHANGED <<profiles, saves, objects, ticket, restVars>>

\* Mutant: GetJob without the visitor.
GetJobOfAnyone(j, v) == j \in Created

\* GetJob finds a job of the visitor only.
GetJob(j, v) == j \in JobsOf(v)

\* Mutant: any job that ended.
DownloadableWhenOver(j) == rows[j].status \in Terminal

Downloadable(j) == rows[j].status = "completed"

\* visitorJob, and handleJobDownload's check of the row.
ReadRow(t) ==
  /\ \/ /\ tab[t].pc \in {"page", "download"}
        /\ LET found == GetJob(tab[t].job, tab[t].visitor)
           IN \/ ~found /\ Answer(t, "not_found")
              \/ found /\ Awaits(t, "page") /\ Answer(t, "page")
              \/ found /\ Awaits(t, "download")
                   /\ IF Downloadable(tab[t].job) THEN Goto(t, "fetch") ELSE Answer(t, "not_found")
        /\ NoFault
     \/ Fails(t, "page")
     \/ Fails(t, "download")
  /\ UNCHANGED readVars

\* The bucket's answer becomes the visitor's.
FetchPdf(t) ==
  /\ \/ /\ Awaits(t, "fetch")
        /\ Answer(t, CASE GetObject(tab[t].job) = "found"    -> "pdf"
                       [] GetObject(tab[t].job) = "notFound" -> "not_found"
                       [] GetObject(tab[t].job) = "denied"   -> "unreadable")
        /\ NoFault
     \/ Fails(t, "fetch")
  /\ UNCHANGED readVars

\* The response reaches the browser; a redirect is a request of its own.
Respond(t) ==
  /\ Awaits(t, "reply")
  /\ Receive(browserOf[t], tab[t].sets)
  /\ told' = IF tab[t].reply = "saved"
             THEN [told EXCEPT ![tab[t].visitor] =
                     IF @ < tab[t].floor THEN tab[t].floor ELSE @]
             ELSE told
  /\ tab' = [tab EXCEPT ![t] = Idle]
  /\ UNCHANGED <<submissionVars, issued, serving, profiles, saves, objects, browserOf, ticket, expired, sent>>

\* The visitor leaves or the gateway dies: no response.
Lose(t) ==
  /\ tab[t].pc # "idle"
  /\ tab' = [tab EXCEPT ![t] = Idle]
  /\ IF tab[t].pc = "submit" THEN SubmitCrash(tab[t].job)
     ELSE Fault("crash") /\ UNCHANGED <<streamVars, vault, rows, form>>
  /\ UNCHANGED <<sessionVars, profiles, saves, objects, browserOf, ticket, told, expired, sent>>

-----------------------------------------------------------------------------
(* Everything else: the pipeline, the retention rule, the secret's rotation. *)

workVars == <<streamVars, vault, form, sessionVars, profiles, saves, browserOf, tab, ticket, told, sent>>

\* What Pipeline lets happen to an enqueued job; the PDF is in the bucket by
\* the time the row is completed (CompletedHasPdf).
Work(j) ==
  /\ InStream(j, "requested")
  /\ j \in Live
  /\ \/ MarkRendering(j) /\ UNCHANGED objects
     \/ PutObject(j) /\ MarkCompleted(j)
     \/ MarkFailed(j, "worker") /\ UNCHANGED objects
  /\ UNCHANGED <<workVars, faults, expired>>

Expire(j) ==
  /\ rows[j].status \in Terminal
  /\ ExpireObject(j)
  /\ expired' = expired \cup {j}
  /\ Fault("retention")
  /\ UNCHANGED <<workVars, rows>>

Rotate ==
  /\ \E s \in Secrets : (JoinSecret(s) /\ Fault("rotate")) \/ (LeaveSecret(s) /\ NoFault)
  /\ UNCHANGED <<streamVars, vault, rows, form, profiles, saves, objects, pagesVars>>

Ask(t) ==
  \/ \E text \in Texts, named \in BOOLEAN : AskSave(t, text, named)
  \/ \E text \in Texts, model \in Models, key \in BOOLEAN : AskSubmit(t, text, model, key)
  \/ AskHome(t)
  \/ \E pc \in {"page", "download"}, j \in Created : AskJob(t, pc, j)

Handle(t) ==
  \/ SaveProfile(t) \/ HomeList(t) \/ SubmitLookup(t) \/ SubmitGoOn(t)
  \/ ReadRow(t) \/ FetchPdf(t) \/ Respond(t)
  \/ \E j \in Jobs : SubmitInsert(t, j)

Next ==
  \/ \E t \in Tabs : Ask(t) \/ Handle(t) \/ Lose(t)
  \/ \E j \in Jobs : Work(j) \/ Expire(j)
  \/ Rotate

PagesSpec == Init /\ [][Next]_vars

-----------------------------------------------------------------------------
(* Properties. *)

\* All job and download access is scoped to the session (docs/adr/0011): what
\* a browser is shown of a job - its page, its PDF, its line on the home page -
\* is of a job submitted from that browser, over fresh and rotated cookies.
OwnJobsOnly ==
  \A t \in Tabs :
    tab[t].pc = "reply" =>
      /\ tab[t].reply \in {"page", "pdf"} => ticket[tab[t].job].browser = browserOf[t]
      /\ \A j \in tab[t].jobs : ticket[j].browser = browserOf[t]

\* A job carries one profile as one save stored it, career history and personal
\* details together, and no older than the last save its browser had been told
\* of when it submitted, whatever other tabs save meanwhile.
JobUsesASavedProfile ==
  \A j \in Created :
    LET profile == ticket[j].profile
        history == saves[ticket[j].visitor]
    IN /\ profile.version \in DOMAIN history
       /\ profile.version >= ticket[j].floor
       /\ profile.career = history[profile.version] /\ profile.info = history[profile.version]

\* What reaches the pipeline and the prompt is bounded (limits.go:14), in bytes
\* and so in characters, though a profile of any size may be saved at any time.
PipelineInputBounded ==
  \A j \in Jobs :
    InStream(j, "requested") =>
      /\ Bytes[ticket[j].description] \in 1 .. MaxJobDescription
      /\ Bytes[ticket[j].profile.career] \in 1 .. MaxCareerText

\* Once a browser holds a cookie of the only secret and no request of it is on
\* its way that was sent before, it stays the visitor it is.
Settled(b) ==
  /\ \E s \in serving : serving = {s} /\ Verify(jar[b], s)
  /\ \A t \in Tabs : browserOf[t] = b => tab[t].sets = NoCookie

SettledStaysSettled ==
  [][\A b \in Browsers :
       Settled(b) /\ serving' = serving => Settled(b)' /\ jar'[b] = jar[b]]_vars

\* A submission that was redirected to its job's page left a job that is on its
\* way or failed; a row that nothing but the sweeper will ever move takes two
\* mishaps.
RedirectedJobIsOnItsWay ==
  \A t \in Tabs :
    tab[t].reply = "redirect" /\ faults < 2 =>
      InStream(tab[t].job, "requested") \/ rows[tab[t].job].status = "failed"

\* The bucket is asked only for a PDF that was stored: the check of the row is
\* enough, until the retention rule removes what the row still names.
FetchFindsPdf ==
  \A t \in Tabs : Awaits(t, "fetch") => tab[t].job \in objects \cup expired

\* iam.tf:2 "the gateway maps NoSuchKey to a 404 on its own": the download of a
\* PDF whose retention ended is not an internal error.
ExpiredPdfIsNotFound ==
  \A t \in Tabs : tab[t].reply = "unreadable" => tab[t].job \notin expired
=============================================================================
