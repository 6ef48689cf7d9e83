--------------------------- MODULE VisitorProofs ----------------------------
(***************************************************************************)
(* The visitors' pages for any number of browsers, tabs, visitors, secrets *)
(* and jobs and any sizes of texts and limits: types, where a request may  *)
(* be, and what the pages promise.                                         *)
(***************************************************************************)
EXTENDS VisitorPages, SharedProofs, FiniteSetTheorems

-----------------------------------------------------------------------------
(* The type invariant is not inductive: what a handler reads of its request *)
(* depends on how far it is.                                                *)

\* What a request carries at its next call.
Placed(x) ==
  /\ x.pc \in {"upsert", "list", "lookup", "insert", "page", "download"} \/ x.reply = "saved" =>
       x.visitor \in Ids
  /\ x.pc \in {"upsert", "lookup", "insert"} => x.posted.text \in Texts
  /\ x.pc = "insert" => x.profile \in Profile
  /\ x.pc \in {"submit", "page", "download", "fetch"} => x.job \in Jobs
  /\ x.reply # "none" => x.pc = "reply"

TabsPlaced == \A t \in Tabs : Placed(tab[t])

TypeInv == VisitorPagesTypeOK /\ FormsPlaced /\ TabsPlaced

\* What the pages share with the pipeline.
SystemTypeOK == VaultTypeOK /\ StoreTypeOK /\ EventStreamTypeOK /\ FaultsTypeOK /\ SubmissionTypeOK

\* Tab t changes, to a request that is in its place.
TabMoves(t, x) ==
  /\ x \in Tab /\ Placed(x)
  /\ tab' = [tab EXCEPT ![t] = x]

LEMMA TabMovesTyped ==
  ASSUME TypeInv, NEW t \in Tabs, NEW x, TabMoves(t, x)
  PROVE  tab' \in [Tabs -> Tab] /\ TabsPlaced'
BY DEF TypeInv, VisitorPagesTypeOK, TabsPlaced, TabMoves

\* A request of which one or two fields change.
LEMMA PcChanges ==
  ASSUME NEW x \in Tab, NEW pc
  PROVE  [x EXCEPT !.pc = pc] =
           [pc |-> pc, visitor |-> x.visitor, sets |-> x.sets, posted |-> x.posted,
            profile |-> x.profile, jobs |-> x.jobs, job |-> x.job, floor |-> x.floor, reply |-> x.reply]
BY DEF Tab

LEMMA JobsChange ==
  ASSUME NEW x \in Tab, NEW jobs
  PROVE  [x EXCEPT !.jobs = jobs] =
           [pc |-> x.pc, visitor |-> x.visitor, sets |-> x.sets, posted |-> x.posted,
            profile |-> x.profile, jobs |-> jobs, job |-> x.job, floor |-> x.floor, reply |-> x.reply]
BY DEF Tab

LEMMA ProfileChanges ==
  ASSUME NEW x \in Tab, NEW pc, NEW profile
  PROVE  [x EXCEPT !.pc = pc, !.profile = profile] =
           [pc |-> pc, visitor |-> x.visitor, sets |-> x.sets, posted |-> x.posted,
            profile |-> profile, jobs |-> x.jobs, job |-> x.job, floor |-> x.floor, reply |-> x.reply]
<1>1. [x EXCEPT !.pc = pc] =
        [pc |-> pc, visitor |-> x.visitor, sets |-> x.sets, posted |-> x.posted,
         profile |-> x.profile, jobs |-> x.jobs, job |-> x.job, floor |-> x.floor, reply |-> x.reply]
  BY DEF Tab
<1>2. [[pc |-> pc, visitor |-> x.visitor, sets |-> x.sets, posted |-> x.posted,
        profile |-> x.profile, jobs |-> x.jobs, job |-> x.job, floor |-> x.floor, reply |-> x.reply] EXCEPT !.profile = profile] =
        [pc |-> pc, visitor |-> x.visitor, sets |-> x.sets, posted |-> x.posted,
         profile |-> profile, jobs |-> x.jobs, job |-> x.job, floor |-> x.floor, reply |-> x.reply]
  OBVIOUS
<1> QED
  BY <1>1, <1>2, Zenon

LEMMA SavedChanges ==
  ASSUME NEW x \in Tab, NEW visitor, NEW floor
  PROVE  [x EXCEPT !.visitor = visitor, !.floor = floor] =
           [pc |-> x.pc, visitor |-> visitor, sets |-> x.sets, posted |-> x.posted,
            profile |-> x.profile, jobs |-> x.jobs, job |-> x.job, floor |-> floor, reply |-> x.reply]
<1>1. [x EXCEPT !.visitor = visitor] =
        [pc |-> x.pc, visitor |-> visitor, sets |-> x.sets, posted |-> x.posted,
         profile |-> x.profile, jobs |-> x.jobs, job |-> x.job, floor |-> x.floor, reply |-> x.reply]
  BY DEF Tab
<1>2. [[pc |-> x.pc, visitor |-> visitor, sets |-> x.sets, posted |-> x.posted,
        profile |-> x.profile, jobs |-> x.jobs, job |-> x.job, floor |-> x.floor, reply |-> x.reply] EXCEPT !.floor = floor] =
        [pc |-> x.pc, visitor |-> visitor, sets |-> x.sets, posted |-> x.posted,
         profile |-> x.profile, jobs |-> x.jobs, job |-> x.job, floor |-> floor, reply |-> x.reply]
  OBVIOUS
<1> QED
  BY <1>1, <1>2, Zenon

LEMMA JobChanges ==
  ASSUME NEW x \in Tab, NEW pc, NEW job
  PROVE  [x EXCEPT !.pc = pc, !.job = job] =
           [pc |-> pc, visitor |-> x.visitor, sets |-> x.sets, posted |-> x.posted,
            profile |-> x.profile, jobs |-> x.jobs, job |-> job, floor |-> x.floor, reply |-> x.reply]
<1>1. [x EXCEPT !.pc = pc] =
        [pc |-> pc, visitor |-> x.visitor, sets |-> x.sets, posted |-> x.posted,
         profile |-> x.profile, jobs |-> x.jobs, job |-> x.job, floor |-> x.floor, reply |-> x.reply]
  BY DEF Tab
<1>2. [[pc |-> pc, visitor |-> x.visitor, sets |-> x.sets, posted |-> x.posted,
        profile |-> x.profile, jobs |-> x.jobs, job |-> x.job, floor |-> x.floor, reply |-> x.reply] EXCEPT !.job = job] =
        [pc |-> pc, visitor |-> x.visitor, sets |-> x.sets, posted |-> x.posted,
         profile |-> x.profile, jobs |-> x.jobs, job |-> job, floor |-> x.floor, reply |-> x.reply]
  OBVIOUS
<1> QED
  BY <1>1, <1>2, Zenon

\* An idle tab.
LEMMA IdleFacts ==
  /\ Idle \in Tab /\ Placed(Idle)
  /\ Idle.pc = "idle" /\ Idle.reply = "none" /\ Idle.visitor = "nobody" /\ Idle.sets = NoCookie
  /\ Idle.job = "none" /\ Idle.jobs = {} /\ Idle.floor = 0
BY DEF Idle, Tab, Placed, Replies, Forms, NoForm

\* A response but "saved" is in its place.
LEMMA ResponseFacts ==
  ASSUME TypeInv, NEW t \in Tabs, NEW reply \in Replies
  PROVE  /\ Response(t, reply) \in Tab
         /\ reply # "saved" => Placed(Response(t, reply))
<1>1. tab[t] \in Tab
  BY DEF TypeInv, VisitorPagesTypeOK
<1>2. NoForm \in Forms
  BY DEF NoForm, Forms
<1> QED
  BY <1>1, <1>2 DEF Response, Tab, Placed
-----------------------------------------------------------------------------
(* The types, action by action. *)

\* What is left to the pages and the browsers.
PagesTypeOK ==
  /\ VisitorsTypeOK /\ ProfilesTypeOK /\ ObjectsTypeOK
  /\ browserOf \in [Tabs -> Browsers]
  /\ ticket \in [Jobs -> Ticket \cup {NoTicket}]
  /\ told \in [Ids -> Nat]
  /\ expired \subseteq Jobs
  /\ sent \in Nat

LEMMA TypeParts ==
  TypeInv <=> SystemTypeOK /\ FormsPlaced /\ PagesTypeOK /\ tab \in [Tabs -> Tab] /\ TabsPlaced
BY DEF TypeInv, VisitorPagesTypeOK, SystemTypeOK, PagesTypeOK

\* A step that keeps the parts.
LEMMA TypeStep ==
  ASSUME TypeInv, SystemTypeOK', FormsPlaced', PagesTypeOK', NEW t \in Tabs,
         tab' = tab \/ \E x : TabMoves(t, x)
  PROVE  TypeInv'
<1>1. tab' \in [Tabs -> Tab] /\ TabsPlaced'
  BY TabMovesTyped, TypeParts DEF TabsPlaced
<1> QED
  BY <1>1 DEF TypeInv, VisitorPagesTypeOK, SystemTypeOK, PagesTypeOK

\* A step the pipeline has no part in.
LEMMA SystemSame ==
  ASSUME TypeInv, UNCHANGED <<streamVars, vault, rows, form>>,
         NoFault \/ \E k \in AllFaultKinds : Fault(k)
  PROVE  SystemTypeOK' /\ FormsPlaced'
<1>1. EventStreamTypeOK'
  BY SameStream DEF TypeInv, VisitorPagesTypeOK, streamVars
<1>2. FaultsTypeOK'
  BY FaultType DEF TypeInv, VisitorPagesTypeOK
<1> QED
  BY <1>1, <1>2 DEF TypeInv, VisitorPagesTypeOK, SystemTypeOK, VaultTypeOK, StoreTypeOK,
     SubmissionTypeOK, FormsPlaced

\* A step of a submission.
LEMMA SystemSubmits ==
  ASSUME TypeInv, NEW j \in Jobs, SubmitStep(j)
  PROVE  SystemTypeOK' /\ FormsPlaced'
<1>1. SubmitInv
  BY DEF TypeInv, VisitorPagesTypeOK, SubmitInv
<1>2. SubmitInv'
  BY <1>1, SubmitKeeps
<1> QED
  BY <1>2 DEF SubmitInv, SystemTypeOK

LEMMA PagesSame ==
  ASSUME TypeInv,
         UNCHANGED <<sessionVars, profiles, saves, objects, browserOf, ticket, told, expired, sent>>
  PROVE  PagesTypeOK'
BY DEF TypeInv, VisitorPagesTypeOK, PagesTypeOK, sessionVars, VisitorsTypeOK, ProfilesTypeOK,
   ObjectsTypeOK

LEMMA AnswerMoves ==
  ASSUME TypeInv, NEW t \in Tabs, NEW reply \in Replies \ {"saved"}, Answer(t, reply)
  PROVE  TabMoves(t, Response(t, reply))
BY ResponseFacts DEF Answer, TabMoves

\* Whoever the middleware admits is a visitor, and sets a cookie of theirs or none.
LEMMA AdmissionType ==
  ASSUME VisitorsTypeOK, NEW b \in Browsers, NEW s \in serving, NEW a \in Admissions(jar[b], s)
  PROVE  /\ a.visitor \in Ids /\ a.sets \in Cookies \cup {NoCookie}
         /\ \/ a.sets = NoCookie /\ Verify(jar[b], s) /\ a.visitor = jar[b].visitor
            \/ a.sets = Sign(a.visitor, s) /\ a.visitor \notin issued /\ ~Verify(jar[b], s)
BY DEF Admissions, Verify, Cookies, VisitorsTypeOK, Sign

\* A request arrives with what its handler needs.
LEMMA ArriveTyped ==
  ASSUME TypeInv, NEW t \in Tabs, NEW posted \in Forms, NEW job \in Jobs \cup {"none"},
         NEW pc \in {"upsert", "list", "lookup", "page", "download"},
         pc \in {"upsert", "lookup"} => posted.text \in Texts,
         pc \in {"page", "download"} => job \in Jobs,
         Arrive(t, pc, posted, job), sent' \in Nat
  PROVE  TypeInv'
<1>1. TypeInv /\ browserOf[t] \in Browsers /\ VisitorsTypeOK /\ told \in [Ids -> Nat]
  BY DEF TypeInv, VisitorPagesTypeOK
<1>s. PICK s \in serving : \E a \in Admissions(jar[browserOf[t]], s) :
        /\ issued' = issued \cup {a.visitor}
        /\ tab' = [tab EXCEPT ![t] =
             [pc |-> pc, visitor |-> a.visitor, sets |-> a.sets, posted |-> posted,
              profile |-> NoProfile, jobs |-> {}, job |-> job, reply |-> "none",
              floor |-> IF pc = "lookup" THEN told[a.visitor] ELSE 0]]
  BY DEF Arrive
<1>2. PICK a \in Admissions(jar[browserOf[t]], s) :
        /\ issued' = issued \cup {a.visitor}
        /\ tab' = [tab EXCEPT ![t] =
             [pc |-> pc, visitor |-> a.visitor, sets |-> a.sets, posted |-> posted,
              profile |-> NoProfile, jobs |-> {}, job |-> job, reply |-> "none",
              floor |-> IF pc = "lookup" THEN told[a.visitor] ELSE 0]]
  BY <1>s
<1>3. a.visitor \in Ids /\ a.sets \in Cookies \cup {NoCookie}
  BY <1>1, AdmissionType
<1> DEFINE x == [pc |-> pc, visitor |-> a.visitor, sets |-> a.sets, posted |-> posted,
                 profile |-> NoProfile, jobs |-> {}, job |-> job, reply |-> "none",
                 floor |-> IF pc = "lookup" THEN told[a.visitor] ELSE 0]
<1>4. TabMoves(t, x)
  BY <1>1, <1>2, <1>3 DEF TabMoves, Tab, Placed, Replies
<1>5. PagesTypeOK'
  BY <1>1, <1>2, <1>3 DEF Arrive, TypeInv, VisitorPagesTypeOK, PagesTypeOK, VisitorsTypeOK,
     ProfilesTypeOK, ObjectsTypeOK
<1>6. SystemTypeOK' /\ FormsPlaced'
  BY SystemSame DEF Arrive, submissionVars, NoFault
<1> HIDE DEF x
<1> QED
  BY <1>4, <1>5, <1>6, TypeStep

LEMMA RefuseTyped ==
  ASSUME TypeInv, NEW t \in Tabs, Refuse(t), UNCHANGED sent
  PROVE  TypeInv'
<1>1. TypeInv /\ browserOf[t] \in Browsers /\ VisitorsTypeOK /\ NoForm \in Forms
  BY DEF TypeInv, VisitorPagesTypeOK, NoForm, Forms
<1>s. PICK s \in serving : \E a \in Admissions(jar[browserOf[t]], s) :
        /\ issued' = issued \cup {a.visitor}
        /\ tab' = [tab EXCEPT ![t] =
             [pc |-> "reply", visitor |-> "nobody", sets |-> a.sets, posted |-> NoForm,
              profile |-> NoProfile, jobs |-> {}, job |-> "none", reply |-> "refused", floor |-> 0]]
  BY DEF Refuse
<1>2. PICK a \in Admissions(jar[browserOf[t]], s) :
        /\ issued' = issued \cup {a.visitor}
        /\ tab' = [tab EXCEPT ![t] =
             [pc |-> "reply", visitor |-> "nobody", sets |-> a.sets, posted |-> NoForm,
              profile |-> NoProfile, jobs |-> {}, job |-> "none", reply |-> "refused", floor |-> 0]]
  BY <1>s
<1>3. a.visitor \in Ids /\ a.sets \in Cookies \cup {NoCookie}
  BY <1>1, AdmissionType
<1> DEFINE x == [pc |-> "reply", visitor |-> "nobody", sets |-> a.sets, posted |-> NoForm,
                 profile |-> NoProfile, jobs |-> {}, job |-> "none", reply |-> "refused", floor |-> 0]
<1>4. TabMoves(t, x)
  BY <1>1, <1>2, <1>3 DEF TabMoves, Tab, Placed, Replies
<1>5. PagesTypeOK'
  BY <1>1, <1>2, <1>3 DEF Refuse, TypeInv, VisitorPagesTypeOK, PagesTypeOK, VisitorsTypeOK,
     ProfilesTypeOK, ObjectsTypeOK
<1>6. SystemTypeOK' /\ FormsPlaced'
  BY SystemSame DEF Refuse, submissionVars, NoFault
<1> HIDE DEF x
<1> QED
  BY <1>4, <1>5, <1>6, TypeStep

\* The requests a tab may send.
LEMMA AskTyped ==
  ASSUME TypeInv, NEW t \in Tabs, Ask(t)
  PROVE  TypeInv'
<1>0. NoForm \in Forms /\ sent \in Nat
  BY DEF TypeInv, VisitorPagesTypeOK, NoForm, Forms
<1>1. ASSUME NEW text \in Texts, NEW named \in BOOLEAN, AskSave(t, text, named)
      PROVE  TypeInv'
  <2> DEFINE posted == [text |-> text, model |-> "none", key |-> FALSE]
  <2>1. posted \in Forms /\ posted.text \in Texts
    BY DEF Forms
  <2> HIDE DEF posted
  <2>2. ASSUME Arrive(t, "upsert", posted, "none"), sent' = sent + 1
        PROVE  TypeInv'
    BY <1>0, <2>1, <2>2, ArriveTyped
  <2> QED
    BY <1>1, <2>2, RefuseTyped DEF AskSave, posted
<1>2. ASSUME NEW text \in Texts, NEW model \in Models, NEW key \in BOOLEAN,
             AskSubmit(t, text, model, key)
      PROVE  TypeInv'
  <2>1. [text |-> text, model |-> model, key |-> key] \in Forms
    BY DEF Forms
  <2>2. CASE Refuse(t)
    BY <1>2, <2>2, RefuseTyped DEF AskSubmit
  <2>3. CASE Arrive(t, "lookup", [text |-> text, model |-> model, key |-> key], "none")
    BY <1>0, <1>2, <2>1, <2>3, ArriveTyped DEF AskSubmit
  <2> QED
    BY <1>2, <2>2, <2>3 DEF AskSubmit
<1>3. CASE AskHome(t)
  BY <1>0, <1>3, ArriveTyped DEF AskHome
<1>4. ASSUME NEW pc \in {"page", "download"}, NEW j \in Created, AskJob(t, pc, j)
      PROVE  TypeInv'
  <2>1. j \in Jobs
    BY DEF Created
  <2> QED
    BY <1>0, <1>4, <2>1, ArriveTyped DEF AskJob
<1> QED
  BY <1>1, <1>2, <1>3, <1>4 DEF Ask

\* A statement that failed.
LEMMA FailsMoves ==
  ASSUME TypeInv, NEW t \in Tabs, NEW pc, Fails(t, pc)
  PROVE  (\E x : TabMoves(t, x)) /\ \E k \in AllFaultKinds : Fault(k)
BY AnswerMoves DEF Fails, Replies, AllFaultKinds

\* A save: one more version of the row and of its history.
LEMMA UpsertTyped ==
  ASSUME ProfilesTypeOK, NEW v \in Ids, NEW text \in Texts, UpsertProfile(v, text)
  PROVE  /\ ProfilesTypeOK'
         /\ saves' = [saves EXCEPT ![v] = Append(saves[v], text)]
         /\ profiles' = [profiles EXCEPT ![v] =
              [career |-> text, info |-> text, version |-> profiles[v].version + 1]]
<1>1. profiles[v].version + 1 \in Nat
  BY DEF ProfilesTypeOK, Profile, NoProfile
<1> QED
  BY <1>1 DEF UpsertProfile, ProfilesTypeOK, Profile

\* A handler that only reads.
LEMMA ReadTyped ==
  ASSUME TypeInv, NEW t \in Tabs, UNCHANGED readVars,
         NoFault \/ \E k \in AllFaultKinds : Fault(k),
         tab' = tab \/ \E x : TabMoves(t, x)
  PROVE  TypeInv'
<1>1. SystemTypeOK' /\ FormsPlaced'
  BY SystemSame DEF readVars
<1>2. PagesTypeOK'
  BY PagesSame DEF readVars, restVars
<1> QED
  BY <1>1, <1>2, TypeStep

LEMMA SaveProfileTyped ==
  ASSUME TypeInv, NEW t \in Tabs, SaveProfile(t)
  PROVE  TypeInv'
<1> DEFINE v == tab[t].visitor
           text == tab[t].posted.text
<1>1. tab[t] \in Tab /\ Placed(tab[t]) /\ ProfilesTypeOK /\ Awaits(t, "upsert")
  BY DEF TypeInv, VisitorPagesTypeOK, TabsPlaced, SaveProfile, Fails
<1>2. v \in Ids /\ text \in Texts
  BY <1>1 DEF Placed, Awaits
<1>3. ProfilesTypeOK'
  BY <1>1, <1>2, UpsertTyped DEF SaveProfile, ProfilesTypeOK
<1>4. PagesTypeOK'
  BY <1>3 DEF SaveProfile, restVars, TypeInv, VisitorPagesTypeOK, PagesTypeOK, sessionVars,
     VisitorsTypeOK, ObjectsTypeOK
<1>5. SystemTypeOK' /\ FormsPlaced'
  BY SystemSame DEF SaveProfile, Fails, AllFaultKinds
<1>6. \E x : TabMoves(t, x)
  <2>1. CASE Fails(t, "upsert")
    BY <2>1, FailsMoves
  <2>2. CASE tab' = [tab EXCEPT ![t] = [Response(t, "saved") EXCEPT
                                          !.visitor = v, !.floor = Len(saves[v]) + 1]]
    <3> DEFINE r == Response(t, "saved")
               n == Len(saves[v]) + 1
               x == [r EXCEPT !.visitor = v, !.floor = n]
    <3>1. r \in Tab /\ r.pc = "reply"
      BY ResponseFacts DEF Replies, Response
    <3>2. n \in Nat
      BY <1>1, <1>2 DEF ProfilesTypeOK
    <3> HIDE DEF r, n, v
    <3>3. x = [pc |-> r.pc, visitor |-> v, sets |-> r.sets, posted |-> r.posted,
               profile |-> r.profile, jobs |-> r.jobs, job |-> r.job,
               floor |-> n, reply |-> r.reply]
      BY <3>1, SavedChanges, Zenon
    <3> HIDE DEF x
    <3>4. x \in Tab /\ Placed(x)
      BY <1>2, <3>1, <3>2, <3>3 DEF Tab, Placed
    <3> QED
      BY <2>2, <3>4 DEF TabMoves, r, n, v, x
  <2> QED
    BY <2>1, <2>2 DEF SaveProfile
<1> QED
  BY <1>4, <1>5, <1>6, TypeStep

LEMMA HomeListTyped ==
  ASSUME TypeInv, NEW t \in Tabs, HomeList(t)
  PROVE  TypeInv'
<1>1. CASE Fails(t, "list")
  BY <1>1, FailsMoves, ReadTyped DEF HomeList
<1>2. CASE /\ tab' = [tab EXCEPT ![t] = [Response(t, "home") EXCEPT !.jobs = ListJobs(tab[t].visitor)]]
           /\ NoFault
  <2> DEFINE r == Response(t, "home")
             jobs == ListJobs(tab[t].visitor)
             x == [r EXCEPT !.jobs = jobs]
  <2>1. r \in Tab /\ Placed(r) /\ r.pc = "reply" /\ jobs \subseteq Jobs
    BY ResponseFacts DEF Replies, Response, ListJobs, JobsOf, Created
  <2> HIDE DEF r, jobs
  <2>2. x = [pc |-> r.pc, visitor |-> r.visitor, sets |-> r.sets, posted |-> r.posted,
             profile |-> r.profile, jobs |-> jobs, job |-> r.job, floor |-> r.floor, reply |-> r.reply]
    BY <2>1, JobsChange
  <2> HIDE DEF x
  <2>3. x \in Tab /\ Placed(x)
    BY <2>1, <2>2 DEF Tab, Placed
  <2>4. TabMoves(t, x)
    BY <1>2, <2>3 DEF TabMoves, r, jobs, x
  <2> QED
    BY <1>2, <2>4, ReadTyped DEF HomeList
<1> QED
  BY <1>1, <1>2 DEF HomeList
LEMMA SubmitLookupTyped ==
  ASSUME TypeInv, NEW t \in Tabs, SubmitLookup(t)
  PROVE  TypeInv'
<1> DEFINE profile == profiles[tab[t].visitor]
<1>1. tab[t] \in Tab /\ Placed(tab[t]) /\ ProfilesTypeOK
  BY DEF TypeInv, VisitorPagesTypeOK, TabsPlaced
<1>2. CASE Fails(t, "lookup")
  BY <1>2, FailsMoves, ReadTyped DEF SubmitLookup
<1>3. CASE Awaits(t, "lookup") /\ NoFault /\ Answer(t, "refused")
  BY <1>3, AnswerMoves, ReadTyped DEF SubmitLookup, Replies
<1>4. CASE /\ Awaits(t, "lookup") /\ NoFault /\ profile # NoProfile
           /\ tab' = [tab EXCEPT ![t] = [tab[t] EXCEPT !.pc = "insert", !.profile = profile]]
  <2> DEFINE r == tab[t]
             pc == "insert"
             x == [r EXCEPT !.pc = pc, !.profile = profile]
  <2>1. r \in Tab /\ Placed(r) /\ r.pc = "lookup" /\ profile \in Profile /\ r.visitor \in Ids
    BY <1>1, <1>4 DEF Awaits, Placed, ProfilesTypeOK
  <2>2. pc = "insert"
    OBVIOUS
  <2> HIDE DEF r, profile, pc
  <2>3. x = [pc |-> pc, visitor |-> r.visitor, sets |-> r.sets, posted |-> r.posted,
             profile |-> profile, jobs |-> r.jobs, job |-> r.job, floor |-> r.floor, reply |-> r.reply]
    BY <2>1, ProfileChanges, Zenon
  <2> HIDE DEF x
  <2>4. x \in Tab /\ Placed(x)
    BY <2>1, <2>2, <2>3 DEF Tab, Placed
  <2>5. TabMoves(t, x)
    BY <1>4, <2>4 DEF TabMoves, r, pc, profile, x
  <2> QED
    BY <1>4, <2>5, ReadTyped DEF SubmitLookup
<1> QED
  BY <1>2, <1>3, <1>4 DEF SubmitLookup

LEMMA SubmitInsertTyped ==
  ASSUME TypeInv, NEW t \in Tabs, NEW j \in Jobs, SubmitInsert(t, j)
  PROVE  TypeInv'
<1>1. tab[t] \in Tab /\ Placed(tab[t]) /\ browserOf[t] \in Browsers
  BY DEF TypeInv, VisitorPagesTypeOK, TabsPlaced
<1>2. CASE Fails(t, "insert") /\ UNCHANGED <<streamVars, vault, rows, form, ticket>>
  <2>1. PagesTypeOK'
    BY <1>2, PagesSame DEF SubmitInsert, restVars
  <2> QED
    BY <1>2, <2>1, FailsMoves, SystemSame, TypeStep
<1>3. CASE /\ Awaits(t, "insert") /\ SubmitCreate(j) /\ Issue(t, j)
           /\ IF form'[j].step = "done" THEN Answer(t, "error")
              ELSE tab' = [tab EXCEPT ![t] = [Response(t, "none") EXCEPT !.pc = "submit", !.job = j]]
  <2>1. SystemTypeOK' /\ FormsPlaced'
    BY <1>3, SystemSubmits DEF SubmitStep
  <2>2. ticket' \in [Jobs -> Ticket \cup {NoTicket}]
    BY <1>1, <1>3 DEF Issue, Ticket, Placed, Awaits, TypeInv, VisitorPagesTypeOK, Tab
  <2>3. PagesTypeOK'
    BY <2>2 DEF SubmitInsert, restVars, TypeInv, VisitorPagesTypeOK, PagesTypeOK, sessionVars,
       VisitorsTypeOK, ProfilesTypeOK, ObjectsTypeOK
  <2>4. \E x : TabMoves(t, x)
    <3>1. CASE Answer(t, "error")
      BY <3>1, AnswerMoves DEF Replies
    <3>2. CASE tab' = [tab EXCEPT ![t] = [Response(t, "none") EXCEPT !.pc = "submit", !.job = j]]
      <4> DEFINE r == Response(t, "none")
                 pc == "submit"
                 x == [r EXCEPT !.pc = pc, !.job = j]
      <4>1. r \in Tab /\ r.reply = "none" /\ pc = "submit"
        BY ResponseFacts DEF Replies, Response
      <4> HIDE DEF r, pc
      <4>2. x = [pc |-> pc, visitor |-> r.visitor, sets |-> r.sets, posted |-> r.posted,
                 profile |-> r.profile, jobs |-> r.jobs, job |-> j, floor |-> r.floor, reply |-> r.reply]
        BY <4>1, JobChanges, ZenonT(30)
      <4> HIDE DEF x
      <4>3. x \in Tab /\ Placed(x)
        BY <4>1, <4>2 DEF Tab, Placed
      <4> QED
        BY <3>2, <4>3 DEF TabMoves, r, pc, x
    <3> QED
      BY <1>3, <3>1, <3>2
  <2> QED
    BY <2>1, <2>3, <2>4, TypeStep
<1> QED
  BY <1>2, <1>3 DEF SubmitInsert

LEMMA SubmitGoOnTyped ==
  ASSUME TypeInv, NEW t \in Tabs, SubmitGoOn(t)
  PROVE  TypeInv'
<1>1. tab[t].job \in Jobs
  BY DEF TypeInv, TabsPlaced, Placed, SubmitGoOn, Awaits
<1>2. SystemTypeOK' /\ FormsPlaced'
  BY <1>1, SystemSubmits DEF SubmitGoOn, SubmitStep
<1>3. PagesTypeOK'
  BY PagesSame DEF SubmitGoOn, restVars
<1> QED
  BY <1>2, <1>3, TypeStep, AnswerMoves DEF SubmitGoOn, Replies

LEMMA ReadRowTyped ==
  ASSUME TypeInv, NEW t \in Tabs, ReadRow(t)
  PROVE  TypeInv'
<1>1. CASE Fails(t, "page") \/ Fails(t, "download")
  BY <1>1, FailsMoves, ReadTyped DEF ReadRow
<1>2. CASE NoFault /\ (Answer(t, "not_found") \/ Answer(t, "page"))
  BY <1>2, AnswerMoves, ReadTyped DEF ReadRow, Replies
<1>3. CASE NoFault /\ Awaits(t, "download") /\ Goto(t, "fetch")
  <2> DEFINE r == tab[t]
             pc == "fetch"
             x == [r EXCEPT !.pc = pc]
  <2>1. r \in Tab /\ Placed(r) /\ r.pc = "download" /\ pc = "fetch"
    BY <1>3 DEF Awaits, TypeInv, VisitorPagesTypeOK, TabsPlaced
  <2> HIDE DEF r, pc
  <2>2. x = [pc |-> pc, visitor |-> r.visitor, sets |-> r.sets, posted |-> r.posted,
             profile |-> r.profile, jobs |-> r.jobs, job |-> r.job, floor |-> r.floor, reply |-> r.reply]
    BY <2>1, PcChanges, Zenon
  <2> HIDE DEF x
  <2>3. x \in Tab /\ Placed(x)
    BY <2>1, <2>2 DEF Tab, Placed
  <2>4. tab' = [tab EXCEPT ![t] = x]
    BY <1>3, Zenon DEF Goto, x, r, pc
  <2>5. TabMoves(t, x)
    BY <2>3, <2>4 DEF TabMoves
  <2> QED
    BY <1>3, <2>5, ReadTyped DEF ReadRow
<1> QED
  BY <1>1, <1>2, <1>3 DEF ReadRow

LEMMA FetchPdfTyped ==
  ASSUME TypeInv, NEW t \in Tabs, FetchPdf(t)
  PROVE  TypeInv'
<1>1. CASE Fails(t, "fetch")
  BY <1>1, FailsMoves, ReadTyped DEF FetchPdf
<1>2. CASE NoFault /\ \E reply \in {"pdf", "not_found", "unreadable"} : Answer(t, reply)
  BY <1>2, AnswerMoves, ReadTyped DEF FetchPdf, Replies
<1> QED
  BY <1>1, <1>2, MayListAssumption DEF FetchPdf, GetObject

\* The jar after a response, and what its browser was told.
LEMMA RespondTyped ==
  ASSUME TypeInv, NEW t \in Tabs, Respond(t)
  PROVE  TypeInv'
<1>1. tab[t] \in Tab /\ Placed(tab[t]) /\ browserOf[t] \in Browsers
  BY DEF TypeInv, VisitorPagesTypeOK, TabsPlaced
<1>2. told' \in [Ids -> Nat]
  BY <1>1 DEF Respond, TypeInv, VisitorPagesTypeOK, Placed, Tab
<1>3. jar' \in [Browsers -> Cookies \cup {NoCookie}]
  BY <1>1 DEF Respond, Receive, TypeInv, VisitorPagesTypeOK, VisitorsTypeOK, Tab
<1>4. PagesTypeOK'
  BY <1>2, <1>3 DEF Respond, TypeInv, VisitorPagesTypeOK, PagesTypeOK, VisitorsTypeOK,
     ProfilesTypeOK, ObjectsTypeOK
<1>5. SystemTypeOK' /\ FormsPlaced'
  BY SystemSame DEF Respond, submissionVars, NoFault
<1>6. TabMoves(t, Idle)
  BY IdleFacts DEF Respond, TabMoves
<1> QED
  BY <1>4, <1>5, <1>6, TypeStep

LEMMA LoseTyped ==
  ASSUME TypeInv, NEW t \in Tabs, Lose(t)
  PROVE  TypeInv'
<1>1. PagesTypeOK'
  BY PagesSame DEF Lose
<1>2. TabMoves(t, Idle)
  BY IdleFacts DEF Lose, TabMoves
<1>3. SystemTypeOK' /\ FormsPlaced'
  <2>1. CASE tab[t].pc = "submit"
    <3>1. tab[t].job \in Jobs
      BY <2>1 DEF TypeInv, TabsPlaced, Placed
    <3> QED
      BY <2>1, <3>1, SystemSubmits DEF Lose, SubmitStep
  <2>2. CASE tab[t].pc # "submit"
    BY <2>2, SystemSame DEF Lose, AllFaultKinds
  <2> QED
    BY <2>1, <2>2
<1> QED
  BY <1>1, <1>2, <1>3, TypeStep

\* What the pipeline does to an enqueued job is a step of the table.
LEMMA WorkSteps ==
  ASSUME TypeInv, NEW j \in Jobs, Work(j)
  PROVE  RowsStep /\ objects' \in {objects, objects \cup {j}}
<1>1. MarkRendering(j) \/ MarkCompleted(j) => RowsStep
  BY DEF RowsStep, StoreNext
<1>2. MarkFailed(j, "worker") => RowsStep
  BY MarkFailedSteps
<1>3. objects' \in {objects, objects \cup {j}}
  BY DEF Work, PutObject
<1> QED
  BY <1>1, <1>2, <1>3 DEF Work

LEMMA ElsewhereTyped ==
  ASSUME TypeInv, (\E j \in Jobs : Work(j) \/ Expire(j)) \/ Rotate
  PROVE  TypeInv'
<1>1. ASSUME NEW j \in Jobs, Work(j)
      PROVE  TypeInv'
  <2>1. StoreTypeOK'
    BY <1>1, WorkSteps, RowsStepType DEF TypeInv, VisitorPagesTypeOK
  <2>2. EventStreamTypeOK'
    BY <1>1, SameStream DEF Work, workVars, streamVars, TypeInv, VisitorPagesTypeOK
  <2>3. ObjectsTypeOK'
    BY <1>1, WorkSteps, KeysAssumption DEF ObjectsTypeOK, TypeInv, VisitorPagesTypeOK
  <2> QED
    BY <1>1, <2>1, <2>2, <2>3 DEF Work, workVars, sessionVars, TypeInv, VisitorPagesTypeOK,
       VaultTypeOK, FaultsTypeOK, SubmissionTypeOK, VisitorsTypeOK, ProfilesTypeOK, FormsPlaced, TabsPlaced
<1>2. ASSUME NEW j \in Jobs, Expire(j)
      PROVE  TypeInv'
  <2>1. SystemTypeOK' /\ FormsPlaced'
    BY <1>2, SystemSame DEF Expire, workVars, AllFaultKinds
  <2>2. PagesTypeOK'
    BY <1>2 DEF Expire, ExpireObject, workVars, sessionVars, TypeInv, VisitorPagesTypeOK, PagesTypeOK,
       VisitorsTypeOK, ProfilesTypeOK, ObjectsTypeOK
  <2>3. tab' = tab
    BY <1>2 DEF Expire, workVars
  <2> QED
    BY <2>1, <2>2, <2>3 DEF TypeInv, VisitorPagesTypeOK, SystemTypeOK, PagesTypeOK, TabsPlaced
<1>3. CASE Rotate
  <2>1. SystemTypeOK' /\ FormsPlaced'
    BY <1>3, SystemSame DEF Rotate, AllFaultKinds
  <2>2. VisitorsTypeOK'
    <3>1. PICK s \in Secrets : JoinSecret(s) \/ LeaveSecret(s)
      BY <1>3 DEF Rotate
    <3>2. CASE JoinSecret(s)
      BY <3>2 DEF JoinSecret, VisitorsTypeOK, TypeInv, VisitorPagesTypeOK
    <3>3. CASE LeaveSecret(s)
      <4>1. Cardinality({s}) = 1
        BY FS_Singleton, Zenon
      <4>2. serving # {s}
        BY <3>3, <4>1 DEF LeaveSecret
      <4> QED
        BY <3>3, <4>2 DEF LeaveSecret, VisitorsTypeOK, TypeInv, VisitorPagesTypeOK
    <3> QED
      BY <3>1, <3>2, <3>3
  <2>3. PagesTypeOK'
    BY <1>3, <2>2 DEF Rotate, pagesVars, TypeInv, VisitorPagesTypeOK, PagesTypeOK, ProfilesTypeOK,
       ObjectsTypeOK
  <2>4. tab' = tab
    BY <1>3 DEF Rotate, pagesVars
  <2> QED
    BY <2>1, <2>3, <2>4 DEF TypeInv, VisitorPagesTypeOK, SystemTypeOK, PagesTypeOK, TabsPlaced
<1> QED
  BY <1>1, <1>2, <1>3

LEMMA NextTyped ==
  ASSUME TypeInv, [Next]_vars
  PROVE  TypeInv'
<1>1. ASSUME NEW t \in Tabs, Handle(t)
      PROVE  TypeInv'
  BY <1>1, SaveProfileTyped, HomeListTyped, SubmitLookupTyped, SubmitInsertTyped, SubmitGoOnTyped,
     ReadRowTyped, FetchPdfTyped, RespondTyped DEF Handle
<1>2. CASE UNCHANGED vars
  <2>1. SystemTypeOK' /\ FormsPlaced'
    BY <1>2, SystemSame DEF vars, submissionVars, NoFault
  <2>2. PagesTypeOK' /\ tab' = tab
    BY <1>2, PagesSame DEF vars, pagesVars
  <2> QED
    BY <2>1, <2>2 DEF TypeInv, VisitorPagesTypeOK, SystemTypeOK, PagesTypeOK, TabsPlaced
<1> QED
  BY <1>1, <1>2, AskTyped, LoseTyped, ElsewhereTyped DEF Next

LEMMA InitTyped ==
  ASSUME Init
  PROVE  TypeInv
<1>1. EventStreamTypeOK
  BY MaxStreamAssumption DEF Init, EventStreamInit, EventStreamTypeOK, DeliveryStates
<1>2. VaultTypeOK /\ StoreTypeOK /\ FaultsTypeOK /\ SubmissionTypeOK /\ FormsPlaced
  BY DEF Init, VaultInit, VaultTypeOK, StoreInit, StoreTypeOK, NoRow, Row, Errors, FaultsInit,
     FaultsTypeOK, SubmissionInit, SubmissionTypeOK, FormSteps, FormsPlaced
<1>3. PagesTypeOK
  BY SecretsAssumption DEF Init, PagesTypeOK, VisitorsInit, VisitorsTypeOK, ProfilesInit,
     ProfilesTypeOK, ObjectsInit, ObjectsTypeOK
<1>4. tab \in [Tabs -> Tab] /\ TabsPlaced
  BY IdleFacts DEF Init, TabsPlaced
<1> QED
  BY <1>1, <1>2, <1>3, <1>4, TypeParts DEF SystemTypeOK

\* TypeInv is an invariant of the pages.
THEOREM PagesTyped == PagesSpec => []TypeInv
<1>1. Init => TypeInv
  BY InitTyped
<1>2. TypeInv /\ [Next]_vars => TypeInv'
  BY NextTyped
<1> QED
  BY <1>1, <1>2, PTL DEF PagesSpec

\* Whatever the tabs ask, the rotation and the retention do, every variable of
\* the pages keeps its type.
THEOREM PagesTypeCorrect == PagesSpec => []VisitorPagesTypeOK
<1>1. TypeInv => VisitorPagesTypeOK
  BY DEF TypeInv
<1> QED
  BY <1>1, PagesTyped, PTL

-----------------------------------------------------------------------------
(* How a tab looks after each of its steps. *)

Others(t) == \A u \in Tabs \ {t} : tab'[u] = tab[u]

TabIs(t, x) == tab'[t] = x /\ Others(t)

LEMMA TabFacts ==
  ASSUME TypeInv, NEW t \in Tabs
  PROVE  tab \in [Tabs -> Tab] /\ tab[t] \in Tab /\ Placed(tab[t]) /\ browserOf[t] \in Browsers
BY DEF TypeInv, VisitorPagesTypeOK, TabsPlaced

LEMMA AnswerShape ==
  ASSUME TypeInv, NEW t \in Tabs, NEW reply, Answer(t, reply)
  PROVE  /\ Others(t)
         /\ tab'[t].pc = "reply" /\ tab'[t].reply = reply /\ tab'[t].jobs = {}
         /\ tab'[t].visitor = "nobody" /\ tab'[t].sets = tab[t].sets
         /\ reply # "not_found" => tab'[t].job = tab[t].job
<1>1. TabIs(t, Response(t, reply))
  BY TabFacts DEF Answer, TabIs, Others
<1> QED
  BY <1>1 DEF TabIs, Response

LEMMA FailsShape ==
  ASSUME TypeInv, NEW t \in Tabs, NEW pc, Fails(t, pc)
  PROVE  /\ Others(t)
         /\ tab'[t].pc = "reply" /\ tab'[t].reply = "error" /\ tab'[t].jobs = {}
         /\ tab'[t].visitor = "nobody" /\ tab'[t].sets = tab[t].sets
BY AnswerShape DEF Fails

LEMMA IdleShape ==
  ASSUME TypeInv, NEW t \in Tabs, Respond(t) \/ Lose(t)
  PROVE  TabIs(t, Idle)
BY TabFacts DEF Respond, Lose, TabIs, Others

LEMMA SavedShape ==
  ASSUME TypeInv, NEW t \in Tabs, SaveProfile(t)
  PROVE  \/ Fails(t, "upsert")
         \/ /\ Awaits(t, "upsert")
            /\ UpsertProfile(tab[t].visitor, tab[t].posted.text)
            /\ Others(t)
            /\ tab'[t].pc = "reply" /\ tab'[t].reply = "saved" /\ tab'[t].jobs = {}
            /\ tab'[t].sets = tab[t].sets /\ tab'[t].visitor = tab[t].visitor
            /\ tab'[t].floor = Len(saves[tab[t].visitor]) + 1
<1> DEFINE r == Response(t, "saved")
           v == tab[t].visitor
           n == Len(saves[v]) + 1
           x == [r EXCEPT !.visitor = v, !.floor = n]
<1>0. r \in Tab
  BY ResponseFacts DEF Replies
<1>1. r.pc = "reply" /\ r.reply = "saved" /\ r.jobs = {} /\ r.sets = tab[t].sets
  BY DEF Response
<1> HIDE DEF r, n, v
<1>2. x = [pc |-> r.pc, visitor |-> v, sets |-> r.sets, posted |-> r.posted,
           profile |-> r.profile, jobs |-> r.jobs, job |-> r.job, floor |-> n, reply |-> r.reply]
  BY <1>0, SavedChanges, Zenon
<1> HIDE DEF x
<1>3. /\ x.pc = "reply" /\ x.reply = "saved" /\ x.jobs = {} /\ x.sets = tab[t].sets
      /\ x.visitor = v /\ x.floor = n
  BY <1>1, <1>2
<1>4. ASSUME tab' = [tab EXCEPT ![t] = x]
      PROVE  TabIs(t, x)
  BY <1>4, TabFacts DEF TabIs, Others
<1>5. \/ Fails(t, "upsert")
      \/ /\ Awaits(t, "upsert")
         /\ UpsertProfile(v, tab[t].posted.text)
         /\ tab' = [tab EXCEPT ![t] = x]
  BY DEF SaveProfile, r, v, n, x
<1> QED
  BY <1>3, <1>4, <1>5 DEF TabIs, v, n
LEMMA HomeShape ==
  ASSUME TypeInv, NEW t \in Tabs, HomeList(t)
  PROVE  \/ Fails(t, "list")
         \/ /\ Awaits(t, "list") /\ Others(t)
            /\ tab'[t].pc = "reply" /\ tab'[t].reply = "home" /\ tab'[t].visitor = "nobody"
            /\ tab'[t].sets = tab[t].sets /\ tab'[t].jobs = ListJobs(tab[t].visitor)
<1> DEFINE r == Response(t, "home")
           jobs == ListJobs(tab[t].visitor)
           x == [r EXCEPT !.jobs = jobs]
<1>0. r \in Tab
  BY ResponseFacts DEF Replies
<1>1. r.pc = "reply" /\ r.reply = "home" /\ r.visitor = "nobody" /\ r.sets = tab[t].sets
  BY DEF Response
<1> HIDE DEF r, jobs
<1>2. x = [pc |-> r.pc, visitor |-> r.visitor, sets |-> r.sets, posted |-> r.posted,
           profile |-> r.profile, jobs |-> jobs, job |-> r.job, floor |-> r.floor, reply |-> r.reply]
  BY <1>0, JobsChange, Zenon
<1> HIDE DEF x
<1>3. ASSUME tab' = [tab EXCEPT ![t] = x]
      PROVE  TabIs(t, x)
  BY <1>3, TabFacts DEF TabIs, Others
<1>4. Fails(t, "list") \/ (Awaits(t, "list") /\ tab' = [tab EXCEPT ![t] = x])
  BY DEF HomeList, r, jobs, x
<1> QED
  BY <1>1, <1>2, <1>3, <1>4 DEF TabIs, jobs

LEMMA LookupShape ==
  ASSUME TypeInv, NEW t \in Tabs, SubmitLookup(t)
  PROVE  \/ Fails(t, "lookup") \/ Answer(t, "refused")
         \/ /\ Awaits(t, "lookup") /\ Others(t)
            /\ profiles[tab[t].visitor] # NoProfile
            /\ ValidateJobSizes(tab[t].posted.text, profiles[tab[t].visitor].career)
            /\ tab'[t].pc = "insert" /\ tab'[t].profile = profiles[tab[t].visitor]
            /\ tab'[t].reply = tab[t].reply /\ tab'[t].visitor = tab[t].visitor
            /\ tab'[t].sets = tab[t].sets /\ tab'[t].posted = tab[t].posted
            /\ tab'[t].floor = tab[t].floor
<1> DEFINE r == tab[t]
           pc == "insert"
           profile == profiles[tab[t].visitor]
           x == [r EXCEPT !.pc = pc, !.profile = profile]
<1>0. r \in Tab
  BY TabFacts
<1> HIDE DEF r, pc, profile
<1>1. x = [pc |-> pc, visitor |-> r.visitor, sets |-> r.sets, posted |-> r.posted,
           profile |-> profile, jobs |-> r.jobs, job |-> r.job, floor |-> r.floor, reply |-> r.reply]
  BY <1>0, ProfileChanges, Zenon
<1> HIDE DEF x
<1>2. ASSUME tab' = [tab EXCEPT ![t] = x]
      PROVE  TabIs(t, x)
  BY <1>2, TabFacts DEF TabIs, Others
<1>3. \/ Fails(t, "lookup") \/ Answer(t, "refused")
      \/ /\ Awaits(t, "lookup") /\ profile # NoProfile
         /\ ValidateJobSizes(r.posted.text, profile.career)
         /\ tab' = [tab EXCEPT ![t] = x]
  BY DEF SubmitLookup, r, pc, profile, x
<1>4. pc = "insert"
  BY DEF pc
<1> QED
  BY <1>1, <1>2, <1>3, <1>4 DEF TabIs, profile, r

LEMMA InsertShape ==
  ASSUME TypeInv, NEW t \in Tabs, NEW j \in Jobs, SubmitInsert(t, j)
  PROVE  \/ Fails(t, "insert") /\ UNCHANGED <<streamVars, vault, rows, form, ticket>>
         \/ /\ Awaits(t, "insert") /\ SubmitCreate(j) /\ Issue(t, j)
            /\ \/ form'[j].step = "done" /\ Answer(t, "error")
               \/ /\ form'[j].step # "done" /\ Others(t)
                  /\ tab'[t].pc = "submit" /\ tab'[t].job = j /\ tab'[t].reply = "none"
                  /\ tab'[t].visitor = "nobody" /\ tab'[t].sets = tab[t].sets
<1> DEFINE r == Response(t, "none")
           pc == "submit"
           x == [r EXCEPT !.pc = pc, !.job = j]
<1>0. r \in Tab
  BY ResponseFacts DEF Replies
<1>1. r.reply = "none" /\ r.visitor = "nobody" /\ r.sets = tab[t].sets
  BY DEF Response
<1> HIDE DEF r, pc
<1>2. x = [pc |-> pc, visitor |-> r.visitor, sets |-> r.sets, posted |-> r.posted,
           profile |-> r.profile, jobs |-> r.jobs, job |-> j, floor |-> r.floor, reply |-> r.reply]
  BY <1>0, JobChanges, Zenon
<1> HIDE DEF x
<1>3. ASSUME tab' = [tab EXCEPT ![t] = x]
      PROVE  TabIs(t, x)
  BY <1>3, TabFacts DEF TabIs, Others
<1>4. \/ Fails(t, "insert") /\ UNCHANGED <<streamVars, vault, rows, form, ticket>>
      \/ /\ Awaits(t, "insert") /\ SubmitCreate(j) /\ Issue(t, j)
         /\ \/ form'[j].step = "done" /\ Answer(t, "error")
            \/ form'[j].step # "done" /\ tab' = [tab EXCEPT ![t] = x]
  BY DEF SubmitInsert, r, pc, x
<1>5. pc = "submit"
  BY DEF pc
<1> QED
  BY <1>1, <1>2, <1>3, <1>4, <1>5 DEF TabIs

LEMMA ReadRowShape ==
  ASSUME TypeInv, NEW t \in Tabs, ReadRow(t)
  PROVE  \/ Fails(t, "page") \/ Fails(t, "download") \/ Answer(t, "not_found")
         \/ Awaits(t, "page") /\ GetJob(tab[t].job, tab[t].visitor) /\ Answer(t, "page")
         \/ /\ Awaits(t, "download") /\ GetJob(tab[t].job, tab[t].visitor)
            /\ Downloadable(tab[t].job) /\ Others(t)
            /\ tab'[t].pc = "fetch" /\ tab'[t].job = tab[t].job /\ tab'[t].reply = tab[t].reply
            /\ tab'[t].visitor = tab[t].visitor /\ tab'[t].sets = tab[t].sets
<1> DEFINE r == tab[t]
           pc == "fetch"
           x == [r EXCEPT !.pc = pc]
<1>0. r \in Tab
  BY TabFacts
<1> HIDE DEF r, pc
<1>1. x = [pc |-> pc, visitor |-> r.visitor, sets |-> r.sets, posted |-> r.posted,
           profile |-> r.profile, jobs |-> r.jobs, job |-> r.job, floor |-> r.floor, reply |-> r.reply]
  BY <1>0, PcChanges, Zenon
<1> HIDE DEF x
<1>2. ASSUME tab' = [tab EXCEPT ![t] = x]
      PROVE  TabIs(t, x)
  BY <1>2, TabFacts DEF TabIs, Others
<1>3. ASSUME Goto(t, "fetch")
      PROVE  tab' = [tab EXCEPT ![t] = x]
  BY <1>3, Zenon DEF Goto, x, r, pc
<1>4. pc = "fetch"
  BY DEF pc
<1> QED
  BY <1>1, <1>2, <1>3, <1>4 DEF TabIs, r, ReadRow

\* A request on its way in: whose it is, and what it asks.
LEMMA ArriveShape ==
  ASSUME TypeInv, NEW t \in Tabs, NEW pc, NEW posted, NEW job, Arrive(t, pc, posted, job)
  PROVE  \E s \in serving : \E a \in Admissions(jar[browserOf[t]], s) :
           /\ issued' = issued \cup {a.visitor}
           /\ Others(t)
           /\ tab'[t].pc = pc /\ tab'[t].reply = "none" /\ tab'[t].posted = posted
           /\ tab'[t].visitor = a.visitor /\ tab'[t].sets = a.sets /\ tab'[t].job = job
           /\ tab'[t].floor = IF pc = "lookup" THEN told[a.visitor] ELSE 0
BY TabFacts DEF Arrive, Others

LEMMA RefuseShape ==
  ASSUME TypeInv, NEW t \in Tabs, Refuse(t)
  PROVE  \E s \in serving : \E a \in Admissions(jar[browserOf[t]], s) :
           /\ issued' = issued \cup {a.visitor}
           /\ Others(t)
           /\ tab'[t].pc = "reply" /\ tab'[t].reply = "refused" /\ tab'[t].jobs = {}
           /\ tab'[t].visitor = "nobody" /\ tab'[t].sets = a.sets
BY TabFacts DEF Refuse, Others
-----------------------------------------------------------------------------
(* Cookies and visitors: what any step may do to them. *)

\* A request of tab t is given its visitor.
Admits(t) ==
  /\ \E s \in serving : \E a \in Admissions(jar[browserOf[t]], s) :
       /\ issued' = issued \cup {a.visitor}
       /\ tab'[t].sets = a.sets /\ tab'[t].visitor \in {a.visitor, "nobody"}
  /\ UNCHANGED <<jar, ticket>>

\* Its handler goes on, and may issue a ticket in its visitor's name.
GoesOn(t) ==
  /\ tab'[t].sets \in {tab[t].sets, NoCookie} /\ tab'[t].visitor \in {tab[t].visitor, "nobody"}
  /\ \A j \in Jobs : \/ ticket'[j] = ticket[j]
                     \/ /\ form[j].step = "none" /\ tab[t].pc = "insert"
                        /\ ticket'[j].browser = browserOf[t] /\ ticket'[j].visitor = tab[t].visitor
  /\ UNCHANGED <<jar, issued>>

\* Its response is received.
Receives(t) ==
  /\ tab'[t].sets = NoCookie /\ tab'[t].visitor = "nobody"
  /\ Receive(browserOf[t], tab[t].sets)
  /\ UNCHANGED <<issued, ticket>>

SessionStep ==
  /\ browserOf' = browserOf
  /\ \/ UNCHANGED <<jar, issued, tab, ticket>>
     \/ \E t \in Tabs : Others(t) /\ (Admits(t) \/ GoesOn(t) \/ Receives(t))

LEMMA AskSession ==
  ASSUME TypeInv, NEW t \in Tabs, Ask(t)
  PROVE  Others(t) /\ Admits(t) /\ browserOf' = browserOf
<1>1. ASSUME Refuse(t)
      PROVE  Others(t) /\ Admits(t) /\ browserOf' = browserOf
  BY <1>1, RefuseShape DEF Admits, Refuse
<1>2. ASSUME NEW pc, NEW posted, NEW job, Arrive(t, pc, posted, job)
      PROVE  Others(t) /\ Admits(t) /\ browserOf' = browserOf
  <2>1. \E s \in serving : \E a \in Admissions(jar[browserOf[t]], s) :
          /\ issued' = issued \cup {a.visitor} /\ Others(t)
          /\ tab'[t].visitor = a.visitor /\ tab'[t].sets = a.sets
    BY <1>2, ArriveShape
  <2>2. UNCHANGED <<jar, ticket, browserOf>>
    BY <1>2 DEF Arrive
  <2> QED
    BY <2>1, <2>2 DEF Admits
<1> QED
  BY <1>1, <1>2 DEF Ask, AskSave, AskSubmit, AskHome, AskJob

LEMMA HandleSession ==
  ASSUME TypeInv, NEW t \in Tabs, Handle(t) \/ Lose(t)
  PROVE  Others(t) /\ (GoesOn(t) \/ Receives(t)) /\ browserOf' = browserOf
<1> DEFINE Goal == Others(t) /\ (GoesOn(t) \/ Receives(t)) /\ browserOf' = browserOf
           Quiet == UNCHANGED <<jar, issued, ticket, browserOf>>
<1>1. ASSUME NEW reply, Answer(t, reply), Quiet
      PROVE  Goal
  BY <1>1, AnswerShape DEF GoesOn
<1>2. ASSUME NEW pc, Fails(t, pc), Quiet
      PROVE  Goal
  BY <1>1, <1>2 DEF Fails
<1>3. ASSUME SaveProfile(t)
      PROVE  Goal
  <2>1. Quiet
    BY <1>3 DEF SaveProfile, restVars, sessionVars
  <2> QED
    BY <1>2, <1>3, <2>1, SavedShape DEF GoesOn
<1>4. ASSUME HomeList(t)
      PROVE  Goal
  <2>1. Quiet
    BY <1>4 DEF HomeList, readVars, restVars, sessionVars
  <2> QED
    BY <1>2, <1>4, <2>1, HomeShape DEF GoesOn
<1>5. ASSUME SubmitLookup(t)
      PROVE  Goal
  <2>1. Quiet
    BY <1>5 DEF SubmitLookup, readVars, restVars, sessionVars
  <2> QED
    BY <1>1, <1>2, <1>5, <2>1, LookupShape DEF GoesOn
<1>6. ASSUME NEW j \in Jobs, SubmitInsert(t, j)
      PROVE  Goal
  <2>1. UNCHANGED <<jar, issued, browserOf>>
    BY <1>6 DEF SubmitInsert, restVars, sessionVars
  <2>2. CASE Fails(t, "insert") /\ UNCHANGED <<streamVars, vault, rows, form, ticket>>
    BY <1>2, <2>1, <2>2
  <2>3. CASE Awaits(t, "insert") /\ SubmitCreate(j) /\ Issue(t, j)
    <3>1. \A i \in Jobs : \/ ticket'[i] = ticket[i]
                          \/ /\ form[i].step = "none" /\ tab[t].pc = "insert"
                             /\ ticket'[i].browser = browserOf[t]
                             /\ ticket'[i].visitor = tab[t].visitor
      BY <2>3 DEF Issue, SubmitCreate, At, Awaits, TypeInv, VisitorPagesTypeOK
    <3>2. CASE Answer(t, "error")
      BY <2>1, <3>1, <3>2, AnswerShape DEF GoesOn
    <3>3. CASE Others(t) /\ tab'[t].visitor = "nobody" /\ tab'[t].sets = tab[t].sets
      BY <2>1, <3>1, <3>3 DEF GoesOn
    <3> QED
      BY <1>6, <2>3, <3>2, <3>3, InsertShape DEF Fails
  <2> QED
    BY <1>6, <2>2, <2>3, InsertShape
<1>7. ASSUME SubmitGoOn(t)
      PROVE  Goal
  <2>1. Quiet
    BY <1>7 DEF SubmitGoOn, restVars, sessionVars
  <2>2. CASE Answer(t, "redirect")
    BY <1>1, <2>1, <2>2
  <2>3. CASE UNCHANGED tab
    BY <2>1, <2>3 DEF GoesOn, Others
  <2> QED
    BY <1>7, <2>2, <2>3 DEF SubmitGoOn
<1>8. ASSUME ReadRow(t)
      PROVE  Goal
  <2>1. Quiet
    BY <1>8 DEF ReadRow, readVars, restVars, sessionVars
  <2> QED
    BY <1>1, <1>2, <1>8, <2>1, ReadRowShape DEF GoesOn
<1>9. ASSUME FetchPdf(t)
      PROVE  Goal
  <2>1. Quiet
    BY <1>9 DEF FetchPdf, readVars, restVars, sessionVars
  <2> QED
    BY <1>1, <1>2, <1>9, <2>1 DEF FetchPdf
<1>10. ASSUME Respond(t)
       PROVE  Goal
  BY <1>10, IdleShape, IdleFacts DEF Respond, Receives, TabIs
<1>11. ASSUME Lose(t)
       PROVE  Goal
  BY <1>11, IdleShape, IdleFacts DEF Lose, GoesOn, TabIs, sessionVars
<1> QED
  BY <1>3, <1>4, <1>5, <1>6, <1>7, <1>8, <1>9, <1>10, <1>11 DEF Handle

LEMMA NextSession ==
  ASSUME TypeInv, [Next]_vars
  PROVE  SessionStep
<1>1. CASE \E j \in Jobs : Work(j) \/ Expire(j)
  BY <1>1 DEF Work, Expire, workVars, sessionVars, SessionStep
<1>2. CASE Rotate
  BY <1>2 DEF Rotate, JoinSecret, LeaveSecret, pagesVars, SessionStep
<1>3. CASE UNCHANGED vars
  BY <1>3 DEF vars, pagesVars, sessionVars, SessionStep
<1> QED
  BY <1>1, <1>2, <1>3, AskSession, HandleSession DEF Next, SessionStep

\* A browser that holds a cookie of the only secret, with no other on its way,
\* keeps it through every request, response and loss.
THEOREM VisitorsStaySettled == PagesSpec => SettledStaysSettled
<1>1. ASSUME TypeInv, [Next]_vars, NEW b \in Browsers, Settled(b), serving' = serving
      PROVE  Settled(b)' /\ jar'[b] = jar[b]
  <2>1. PICK s \in serving : serving = {s} /\ Verify(jar[b], s)
    BY <1>1 DEF Settled
  <2>2. \A t \in Tabs : browserOf[t] = b => tab[t].sets = NoCookie
    BY <1>1 DEF Settled
  <2>3. SessionStep /\ VisitorsTypeOK
    BY <1>1, NextSession DEF TypeInv, VisitorPagesTypeOK
  <2>4. ASSUME NEW t \in Tabs, Others(t), Admits(t)
        PROVE  jar'[b] = jar[b] /\ \A u \in Tabs : browserOf[u] = b => tab'[u].sets = NoCookie
    BY <2>1, <2>2, <2>4 DEF Others, Admits, Admissions
  <2>5. ASSUME NEW t \in Tabs, Others(t), GoesOn(t)
        PROVE  jar'[b] = jar[b] /\ \A u \in Tabs : browserOf[u] = b => tab'[u].sets = NoCookie
    BY <2>2, <2>5 DEF Others, GoesOn
  <2>6. ASSUME NEW t \in Tabs, Others(t), Receives(t)
        PROVE  jar'[b] = jar[b] /\ \A u \in Tabs : browserOf[u] = b => tab'[u].sets = NoCookie
    BY <1>1, <2>2, <2>3, <2>6, TabFacts DEF Others, Receives, Receive, VisitorsTypeOK
  <2>7. jar'[b] = jar[b] /\ \A u \in Tabs : browserOf[u] = b => tab'[u].sets = NoCookie
    BY <2>2, <2>3, <2>4, <2>5, <2>6 DEF SessionStep
  <2> QED
    BY <1>1, <2>1, <2>3, <2>7 DEF Settled, SessionStep, Verify
<1>2. TypeInv /\ [Next]_vars =>
        [\A b \in Browsers : Settled(b) /\ serving' = serving => Settled(b)' /\ jar'[b] = jar[b]]_vars
  BY <1>1
<1> QED
  BY <1>2, PagesTyped, PTL DEF PagesSpec, SettledStaysSettled
-----------------------------------------------------------------------------
(* Whose jobs a browser is shown. *)

\* Browser b goes by visitor v: in its jar, in a request of one of its tabs, in
\* a cookie on its way, or in a job of its own.
Has(b, v) ==
  \/ jar[b].visitor = v
  \/ \E t \in Tabs : browserOf[t] = b /\ (tab[t].visitor = v \/ tab[t].sets.visitor = v)
  \/ \E j \in Created : ticket[j].browser = b /\ ticket[j].visitor = v

Own(t, j) == j \in Created /\ ticket[j].browser = browserOf[t]

OwnInv ==
  /\ \A b \in Browsers, v \in Ids : Has(b, v) => v \in issued
  /\ \A b, c \in Browsers, v \in Ids : Has(b, v) /\ Has(c, v) => b = c
  /\ \A j \in Created : form[j].step # "none"
  /\ \A t \in Tabs :
       /\ tab[t].pc = "fetch" \/ (tab[t].pc = "reply" /\ tab[t].reply \in {"page", "pdf"}) =>
            Own(t, tab[t].job)
       /\ tab[t].pc = "reply" => \A j \in tab[t].jobs : Own(t, j)

LEMMA TicketFacts ==
  ASSUME TypeInv, NEW j \in Created
  PROVE  j \in Jobs /\ ticket[j].visitor \in Ids /\ ticket[j].browser \in Browsers
BY DEF TypeInv, VisitorPagesTypeOK, Created, Ticket

\* A submission begins once, and no other step begins one.
LEMMA FormsGrow ==
  ASSUME TypeInv, [Next]_vars, NEW j \in Jobs, form'[j].step = "none"
  PROVE  form[j].step = "none" /\ ticket'[j] = ticket[j]
<1> DEFINE Goal == form[j].step = "none" /\ ticket'[j] = ticket[j]
<1>0. SubmitInv
  BY DEF TypeInv, VisitorPagesTypeOK, SubmitInv
<1>1. ASSUME NEW i \in Jobs, SubmitStep(i)
      PROVE  form[j].step = "none" /\ i # j
  BY <1>0, <1>1, SubmitTouches
<1>2. ASSUME NEW t \in Tabs, NEW i \in Jobs, SubmitInsert(t, i)
      PROVE  Goal
  <2>1. CASE UNCHANGED <<form, ticket>>
    BY <2>1
  <2>2. CASE SubmitCreate(i) /\ Issue(t, i)
    BY <1>1, <2>2 DEF SubmitStep, Issue, TypeInv, VisitorPagesTypeOK
  <2> QED
    BY <1>2, <2>1, <2>2, InsertShape
<1>3. ASSUME NEW t \in Tabs, SubmitGoOn(t)
      PROVE  Goal
  <2>1. tab[t].job \in Jobs
    BY <1>3, TabFacts DEF Placed, SubmitGoOn, Awaits
  <2> QED
    BY <1>1, <1>3, <2>1 DEF SubmitGoOn, SubmitStep
<1>4. ASSUME NEW t \in Tabs, Lose(t)
      PROVE  Goal
  <2>1. CASE tab[t].pc = "submit"
    <3>1. tab[t].job \in Jobs
      BY <2>1, TabFacts DEF Placed
    <3> QED
      BY <1>1, <1>4, <2>1, <3>1 DEF Lose, SubmitStep
  <2> QED
    BY <1>4, <2>1 DEF Lose
<1>5. ASSUME NEW t \in Tabs, Ask(t)
      PROVE  Goal
  BY <1>5 DEF Ask, AskSave, AskSubmit, AskHome, AskJob, Arrive, Refuse, submissionVars
<1>6. ASSUME NEW t \in Tabs, SaveProfile(t) \/ HomeList(t) \/ SubmitLookup(t) \/ ReadRow(t) \/ FetchPdf(t)
      PROVE  Goal
  BY <1>6 DEF SaveProfile, HomeList, SubmitLookup, ReadRow, FetchPdf, readVars
<1>7. ASSUME NEW t \in Tabs, Respond(t)
      PROVE  Goal
  BY <1>7 DEF Respond, submissionVars
<1>8. CASE \E i \in Jobs : Work(i) \/ Expire(i)
  BY <1>8 DEF Work, Expire, workVars
<1>9. CASE Rotate
  BY <1>9 DEF Rotate, pagesVars
<1>10. CASE UNCHANGED vars
  BY <1>10 DEF vars, submissionVars, pagesVars
<1> QED
  BY <1>2, <1>3, <1>4, <1>5, <1>6, <1>7, <1>8, <1>9, <1>10 DEF Next, Handle

\* A ticket is never replaced.
LEMMA TicketsStay ==
  ASSUME TypeInv, OwnInv, [Next]_vars, NEW j \in Created
  PROVE  j \in Created' /\ ticket'[j] = ticket[j]
<1>1. j \in Jobs /\ form[j].step # "none"
  BY TicketFacts DEF OwnInv
<1>2. ticket'[j] = ticket[j]
  BY <1>1, NextSession DEF SessionStep, Admits, GoesOn, Receives
<1> QED
  BY <1>1, <1>2 DEF Created

\* Only a request without a cookie that verifies gives a browser a visitor it
\* did not have, and one that nobody had.
LEMMA HasStep ==
  ASSUME TypeInv, OwnInv, [Next]_vars
  PROVE  /\ issued \subseteq issued'
         /\ \/ \A b \in Browsers, v \in Ids : Has(b, v)' => Has(b, v)
            \/ \E b0 \in Browsers, v0 \in Ids \ issued :
                 /\ v0 \in issued'
                 /\ \A b \in Browsers, v \in Ids : Has(b, v)' => Has(b, v) \/ (b = b0 /\ v = v0)
<1> DEFINE Same == \A b \in Browsers, v \in Ids : Has(b, v)' => Has(b, v)
           Fresh(b0, v0) == \A b \in Browsers, v \in Ids : Has(b, v)' => Has(b, v) \/ (b = b0 /\ v = v0)
<1>0. /\ SessionStep /\ VisitorsTypeOK /\ "nobody" \notin Ids
      /\ tab \in [Tabs -> Tab] /\ browserOf \in [Tabs -> Browsers]
  BY NextSession, IdsAssumption DEF TypeInv, VisitorPagesTypeOK
<1>1. ASSUME UNCHANGED <<jar, issued, tab, ticket>>
      PROVE  Same
  BY <1>0, <1>1 DEF Has, Created, SessionStep
<1>2. ASSUME NEW t \in Tabs, Others(t), GoesOn(t) \/ Receives(t)
      PROVE  Same
  <2> SUFFICES ASSUME NEW b \in Browsers, NEW v \in Ids, Has(b, v)'
               PROVE  Has(b, v)
    OBVIOUS
  <2>0. browserOf' = browserOf
    BY <1>0 DEF SessionStep
  <2>1. ASSUME jar'[b].visitor = v
        PROVE  Has(b, v)
    <3>1. CASE jar'[b] = jar[b]
      BY <2>1, <3>1 DEF Has
    <3>2. CASE b = browserOf[t] /\ jar'[b] = tab[t].sets
      BY <2>1, <3>2 DEF Has
    <3> QED
      BY <1>0, <1>2, <3>1, <3>2 DEF GoesOn, Receives, Receive, VisitorsTypeOK
  <2>2. ASSUME NEW u \in Tabs, browserOf[u] = b, tab'[u].visitor = v \/ tab'[u].sets.visitor = v
        PROVE  Has(b, v)
    <3>1. NoCookie.visitor # v /\ "nobody" # v
      BY <1>0 DEF NoCookie
    <3>2. tab[u].visitor = v \/ tab[u].sets.visitor = v
      BY <1>2, <2>2, <3>1 DEF Others, GoesOn, Receives
    <3> QED
      BY <2>2, <3>2 DEF Has
  <2>3. ASSUME NEW j \in Jobs, ticket'[j] # NoTicket, ticket'[j].browser = b, ticket'[j].visitor = v
        PROVE  Has(b, v)
    <3>1. CASE ticket'[j] = ticket[j]
      BY <2>3, <3>1 DEF Has, Created
    <3>2. CASE ticket'[j].browser = browserOf[t] /\ ticket'[j].visitor = tab[t].visitor
      BY <2>3, <3>2 DEF Has
    <3> QED
      BY <1>2, <3>1, <3>2 DEF GoesOn, Receives
  <2> QED
    BY <2>0, <2>1, <2>2, <2>3 DEF Has, Created
<1>3. ASSUME NEW t \in Tabs, Others(t), Admits(t)
      PROVE  /\ issued \subseteq issued'
             /\ \/ Same
                \/ \E v0 \in Ids \ issued : v0 \in issued' /\ Fresh(browserOf[t], v0)
  <2>0. browserOf' = browserOf /\ browserOf[t] \in Browsers /\ UNCHANGED <<jar, ticket>>
    BY <1>0, <1>3 DEF SessionStep, Admits
  <2>s. PICK s \in serving : \E a \in Admissions(jar[browserOf[t]], s) :
          /\ issued' = issued \cup {a.visitor}
          /\ tab'[t].sets = a.sets /\ tab'[t].visitor \in {a.visitor, "nobody"}
    BY <1>3 DEF Admits
  <2>1. PICK a \in Admissions(jar[browserOf[t]], s) :
          /\ issued' = issued \cup {a.visitor}
          /\ tab'[t].sets = a.sets /\ tab'[t].visitor \in {a.visitor, "nobody"}
    BY <2>s
  <2>2. /\ a.visitor \in Ids
        /\ \/ a.sets = NoCookie /\ a.visitor = jar[browserOf[t]].visitor
           \/ a.sets = Sign(a.visitor, s) /\ a.visitor \notin issued
    BY <1>0, <2>0, AdmissionType
  <2>3. a.sets.visitor \in {a.visitor, "nobody"}
    BY <2>2 DEF NoCookie, Sign
  <2>4. Fresh(browserOf[t], a.visitor)
    <3> SUFFICES ASSUME NEW b \in Browsers, NEW v \in Ids, Has(b, v)'
                 PROVE  Has(b, v) \/ (b = browserOf[t] /\ v = a.visitor)
      OBVIOUS
    <3>1. CASE jar[b].visitor = v
      BY <3>1 DEF Has
    <3>2. ASSUME NEW u \in Tabs, browserOf[u] = b, tab'[u].visitor = v \/ tab'[u].sets.visitor = v
          PROVE  Has(b, v) \/ (b = browserOf[t] /\ v = a.visitor)
      <4>1. CASE u = t
        BY <1>0, <2>1, <2>3, <3>2, <4>1
      <4>2. CASE u # t
        BY <1>3, <3>2, <4>2 DEF Others, Has
      <4> QED
        BY <4>1, <4>2
    <3>3. CASE \E j \in Created : ticket[j].browser = b /\ ticket[j].visitor = v
      BY <3>3 DEF Has
    <3> QED
      BY <2>0, <3>1, <3>2, <3>3 DEF Has, Created
  <2>5. CASE a.visitor = jar[browserOf[t]].visitor
    <3>1. Has(browserOf[t], a.visitor)
      BY <2>5 DEF Has
    <3> QED
      BY <2>1, <2>4, <3>1
  <2> QED
    BY <2>1, <2>2, <2>4, <2>5
<1>4. CASE \E t \in Tabs : Others(t) /\ Admits(t)
  BY <1>0, <1>3, <1>4
<1>5. CASE \E t \in Tabs : Others(t) /\ (GoesOn(t) \/ Receives(t))
  <2>1. issued' = issued
    BY <1>5 DEF GoesOn, Receives
  <2> QED
    BY <1>2, <1>5, <2>1
<1> QED
  BY <1>0, <1>1, <1>4, <1>5 DEF SessionStep
\* What its visitor finds is the browser's own.
LEMMA OwnerFinds ==
  ASSUME TypeInv, OwnInv, NEW t \in Tabs, tab[t].visitor \in Ids, NEW j \in JobsOf(tab[t].visitor)
  PROVE  Own(t, j)
<1>1. j \in Created /\ ticket[j].visitor = tab[t].visitor
  BY DEF JobsOf
<1>2. ticket[j].browser \in Browsers /\ browserOf[t] \in Browsers
  BY <1>1, TicketFacts, TabFacts
<1>3. Has(browserOf[t], tab[t].visitor) /\ Has(ticket[j].browser, tab[t].visitor)
  BY <1>1 DEF Has
<1> QED
  BY <1>1, <1>2, <1>3 DEF OwnInv, Own

\* What tab t shows, or is about to fetch.
Shown(t) ==
  /\ tab[t].pc = "fetch" \/ (tab[t].pc = "reply" /\ tab[t].reply \in {"page", "pdf"}) =>
       Own(t, tab[t].job)
  /\ tab[t].pc = "reply" => \A j \in tab[t].jobs : Own(t, j)

\* A tab that shows nothing of a job.
LEMMA ShowsNothing ==
  ASSUME NEW t \in Tabs, tab'[t].pc # "fetch",
         tab'[t].pc = "reply" => tab'[t].reply \notin {"page", "pdf"} /\ tab'[t].jobs = {}
  PROVE  Shown(t)'
BY DEF Shown

LEMMA HandleShows ==
  ASSUME TypeInv, OwnInv, [Next]_vars, NEW t \in Tabs, Handle(t) \/ Lose(t) \/ Ask(t)
  PROVE  Shown(t)'
<1> DEFINE OwnNext(j) == j \in Created' /\ ticket'[j].browser = browserOf'[t]
<1>0. /\ \A j : Own(t, j) => OwnNext(j)
      /\ Placed(tab[t])
  BY TicketsStay, TicketFacts, NextSession, TabFacts DEF Own, SessionStep
<1>1. ASSUME NEW reply, Answer(t, reply), reply \notin {"page", "pdf"}
      PROVE  Shown(t)'
  BY <1>1, AnswerShape, ShowsNothing
<1>2. ASSUME NEW pc, Fails(t, pc)
      PROVE  Shown(t)'
  BY <1>2, FailsShape, ShowsNothing
<1>3. ASSUME SaveProfile(t)
      PROVE  Shown(t)'
  BY <1>2, <1>3, SavedShape, ShowsNothing
<1>4. ASSUME HomeList(t)
      PROVE  Shown(t)'
  <2>1. tab[t].visitor \in Ids \/ Fails(t, "list")
    BY <1>0, <1>4, HomeShape DEF Placed, Awaits
  <2> QED
    BY <1>0, <1>2, <1>4, <2>1, HomeShape, OwnerFinds DEF Shown, ListJobs, Own
<1>5. ASSUME SubmitLookup(t)
      PROVE  Shown(t)'
  BY <1>1, <1>2, <1>5, LookupShape, ShowsNothing
<1>6. ASSUME NEW j \in Jobs, SubmitInsert(t, j)
      PROVE  Shown(t)'
  BY <1>1, <1>2, <1>6, InsertShape, ShowsNothing
<1>7. ASSUME SubmitGoOn(t)
      PROVE  Shown(t)'
  BY <1>1, <1>7, ShowsNothing DEF SubmitGoOn, Awaits
<1>8. ASSUME ReadRow(t)
      PROVE  Shown(t)'
  <2>1. ASSUME GetJob(tab[t].job, tab[t].visitor), tab[t].pc \in {"page", "download"}
        PROVE  OwnNext(tab[t].job)
    <3>1. tab[t].visitor \in Ids
      BY <1>0, <2>1 DEF Placed
    <3> QED
      BY <1>0, <2>1, <3>1, OwnerFinds DEF GetJob
  <2>2. ASSUME Answer(t, "page"), OwnNext(tab[t].job)
        PROVE  Shown(t)'
    <3>1. tab'[t].job = tab[t].job /\ tab'[t].pc = "reply" /\ tab'[t].jobs = {}
      BY <2>2, AnswerShape
    <3> QED
      BY <2>2, <3>1 DEF Shown, Own
  <2>3. ASSUME tab'[t].pc = "fetch", tab'[t].job = tab[t].job, OwnNext(tab[t].job)
        PROVE  Shown(t)'
    BY <2>3 DEF Shown, Own
  <2> QED
    BY <1>1, <1>2, <1>8, <2>1, <2>2, <2>3, ReadRowShape DEF Awaits
<1>9. ASSUME FetchPdf(t)
      PROVE  Shown(t)'
  <2>1. ASSUME Awaits(t, "fetch"), Answer(t, "pdf")
        PROVE  Shown(t)'
    <3>1. OwnNext(tab[t].job)
      BY <1>0, <2>1 DEF OwnInv, Awaits
    <3>2. tab'[t].job = tab[t].job /\ tab'[t].pc = "reply" /\ tab'[t].jobs = {}
      BY <2>1, AnswerShape
    <3> QED
      BY <3>1, <3>2 DEF Shown, Own
  <2>2. \/ Fails(t, "fetch")
        \/ Awaits(t, "fetch") /\ \E reply \in {"pdf", "not_found", "unreadable"} : Answer(t, reply)
    BY <1>9, MayListAssumption DEF FetchPdf, GetObject
  <2> QED
    BY <1>1, <1>2, <2>1, <2>2
<1>10. ASSUME Respond(t) \/ Lose(t)
       PROVE  Shown(t)'
  BY <1>10, IdleShape, IdleFacts, ShowsNothing DEF TabIs
<1>11. ASSUME Ask(t)
       PROVE  Shown(t)'
  <2>1. ASSUME Refuse(t)
        PROVE  Shown(t)'
    BY <2>1, RefuseShape, ShowsNothing
  <2>2. ASSUME NEW pc, NEW posted, NEW job, Arrive(t, pc, posted, job), pc \notin {"fetch", "reply"}
        PROVE  Shown(t)'
    <3>1. tab'[t].pc = pc
      BY <2>2, ArriveShape
    <3> QED
      BY <2>2, <3>1, ShowsNothing
  <2> QED
    <3>1. ASSUME NEW pc \in {"page", "download"}, NEW j, AskJob(t, pc, j)
          PROVE  Shown(t)'
      BY <2>2, <3>1 DEF AskJob
    <3>2. ASSUME AskHome(t)
          PROVE  Shown(t)'
      BY <2>2, <3>2 DEF AskHome
    <3>3. ASSUME NEW text, NEW model, NEW key, AskSubmit(t, text, model, key)
          PROVE  Shown(t)'
      BY <2>1, <2>2, <3>3 DEF AskSubmit
    <3>4. ASSUME NEW text, NEW named, AskSave(t, text, named)
          PROVE  Shown(t)'
      BY <2>1, <2>2, <3>4 DEF AskSave
    <3> QED
      BY <1>11, <3>1, <3>2, <3>3, <3>4 DEF Ask
<1> QED
  BY <1>3, <1>4, <1>5, <1>6, <1>7, <1>8, <1>9, <1>10, <1>11 DEF Handle

\* Only a step of tab t changes it.
LEMMA OneTab ==
  ASSUME TypeInv, [Next]_vars, NEW t \in Tabs
  PROVE  tab'[t] = tab[t] \/ Handle(t) \/ Lose(t) \/ Ask(t)
<1>1. CASE (\E j \in Jobs : Work(j) \/ Expire(j)) \/ Rotate \/ UNCHANGED vars
  BY <1>1 DEF Work, Expire, workVars, Rotate, vars, pagesVars
<1>2. CASE \E u \in Tabs : Ask(u) \/ Handle(u) \/ Lose(u)
  BY <1>2, AskSession, HandleSession DEF Others
<1> QED
  BY <1>1, <1>2 DEF Next

LEMMA OwnStep ==
  ASSUME TypeInv, OwnInv, [Next]_vars
  PROVE  OwnInv'
<1>1. \A b \in Browsers, v \in Ids : Has(b, v)' => v \in issued'
  BY HasStep DEF OwnInv
<1>2. \A b, c \in Browsers, v \in Ids : Has(b, v)' /\ Has(c, v)' => b = c
  BY HasStep DEF OwnInv
<1>3. \A j \in Created' : form'[j].step # "none"
  <2> SUFFICES ASSUME NEW j \in Created', form'[j].step = "none"
               PROVE  FALSE
    OBVIOUS
  <2>1. j \in Jobs /\ ticket'[j] # NoTicket
    BY DEF Created
  <2>2. j \in Created /\ form[j].step = "none"
    BY <2>1, FormsGrow DEF Created
  <2> QED
    BY <2>2 DEF OwnInv
<1>4. ASSUME NEW t \in Tabs
      PROVE  Shown(t)'
  <2>1. CASE tab'[t] = tab[t]
    <3>1. \A j : Own(t, j) => Own(t, j)'
      BY TicketsStay, NextSession DEF Own, SessionStep
    <3> QED
      BY <2>1, <3>1 DEF Shown, OwnInv
  <2> QED
    BY <2>1, OneTab, HandleShows
<1> QED
  BY <1>1, <1>2, <1>3, <1>4 DEF OwnInv, Shown

LEMMA OwnInit ==
  ASSUME Init
  PROVE  OwnInv
<1>1. Created = {}
  BY DEF Init, Created
<1>2. \A b \in Browsers, v \in Ids : ~Has(b, v)
  BY <1>1, IdsAssumption, IdleFacts DEF Init, Has, VisitorsInit, NoCookie
<1>3. \A t \in Tabs : tab[t].pc = "idle"
  BY IdleFacts DEF Init
<1> QED
  BY <1>1, <1>2, <1>3 DEF OwnInv

\* Over fresh, verified and rotated cookies alike, whatever is lost on the way,
\* a browser is shown the jobs of its own submissions only.
THEOREM OthersJobsHidden == PagesSpec => []OwnJobsOnly
<1>1. Init => OwnInv
  BY OwnInit
<1>2. TypeInv /\ OwnInv /\ [Next]_vars => OwnInv'
  BY OwnStep
<1>3. OwnInv => OwnJobsOnly
  BY DEF OwnInv, OwnJobsOnly, Own
<1> QED
  BY <1>1, <1>2, <1>3, PagesTyped, PTL DEF PagesSpec
-----------------------------------------------------------------------------
(* Which profile a job carries, and how large it is. *)

\* p is what one save of visitor v stored.
SavedAs(v, p) ==
  /\ p.version \in DOMAIN saves[v]
  /\ p.career = saves[v][p.version] /\ p.info = saves[v][p.version]

\* What a request has been checked for on its way to the insert.
Checked(x) ==
  /\ x.pc \in {"upsert", "lookup", "insert"} => ~Empty(x.posted.text)
  /\ x.pc = "lookup" => x.floor <= Len(saves[x.visitor])
  /\ x.pc = "insert" => /\ SavedAs(x.visitor, x.profile)
                        /\ x.floor <= x.profile.version
                        /\ ValidateJobSizes(x.posted.text, x.profile.career)
  /\ x.reply = "saved" => x.floor <= Len(saves[x.visitor])

SavesInv ==
  \A v \in Ids :
    /\ profiles[v].version = Len(saves[v])
    /\ profiles[v] # NoProfile => SavedAs(v, profiles[v])
    /\ told[v] <= Len(saves[v])
    /\ \A k \in DOMAIN saves[v] : ~Empty(saves[v][k])

Sound(k) ==
  /\ SavedAs(k.visitor, k.profile)
  /\ k.floor <= k.profile.version
  /\ ~Empty(k.description)
  /\ ValidateJobSizes(k.description, k.profile.career)

ProfileInv ==
  /\ SavesInv
  /\ \A t \in Tabs : Checked(tab[t])
  /\ \A j \in Created : Sound(ticket[j])
  /\ \A j \in Jobs : form[j].step # "none" => j \in Created
  /\ \A i \in Published : form[stream[i].job].step # "none"

\* The table of profiles and its history only ever change by an upsert.
LEMMA SavesStep ==
  ASSUME TypeInv, ProfileInv, [Next]_vars
  PROVE  \/ UNCHANGED <<profiles, saves>>
         \/ \E v \in Ids : \E text \in Texts : ~Empty(text) /\ UpsertProfile(v, text)
<1>1. ASSUME NEW t \in Tabs, SaveProfile(t)
      PROVE  \/ UNCHANGED <<profiles, saves>>
             \/ \E v \in Ids : \E text \in Texts : ~Empty(text) /\ UpsertProfile(v, text)
  <2>1. Awaits(t, "upsert") /\ Placed(tab[t]) /\ Checked(tab[t])
    BY <1>1, TabFacts DEF SaveProfile, Fails, ProfileInv
  <2>2. tab[t].visitor \in Ids /\ tab[t].posted.text \in Texts /\ ~Empty(tab[t].posted.text)
    BY <2>1 DEF Awaits, Placed, Checked
  <2>3. UpsertProfile(tab[t].visitor, tab[t].posted.text) \/ UNCHANGED <<profiles, saves>>
    BY <1>1 DEF SaveProfile
  <2> QED
    BY <2>2, <2>3
<1>2. ASSUME NEW t \in Tabs, HomeList(t) \/ SubmitLookup(t) \/ SubmitGoOn(t) \/ ReadRow(t) \/ FetchPdf(t)
      PROVE  UNCHANGED <<profiles, saves>>
  BY <1>2 DEF HomeList, SubmitLookup, SubmitGoOn, ReadRow, FetchPdf, readVars
<1>3. ASSUME NEW t \in Tabs, Respond(t) \/ Lose(t) \/ \E j \in Jobs : SubmitInsert(t, j)
      PROVE  UNCHANGED <<profiles, saves>>
  BY <1>3 DEF Respond, Lose, SubmitInsert
<1>4. ASSUME NEW t \in Tabs, Ask(t)
      PROVE  UNCHANGED <<profiles, saves>>
  BY <1>4 DEF Ask, AskSave, AskSubmit, AskHome, AskJob, Arrive, Refuse
<1>5. CASE (\E j \in Jobs : Work(j) \/ Expire(j)) \/ Rotate \/ UNCHANGED vars
  BY <1>5 DEF Work, Expire, workVars, Rotate, vars
<1> QED
  BY <1>1, <1>2, <1>3, <1>4, <1>5 DEF Next, Handle

\* What was saved stays saved.
LEMMA SavesGrow ==
  ASSUME TypeInv, ProfileInv, [Next]_vars, NEW v \in Ids
  PROVE  /\ Len(saves[v]) <= Len(saves'[v])
         /\ \A k \in DOMAIN saves[v] : k \in DOMAIN saves'[v] /\ saves'[v][k] = saves[v][k]
<1>0. ProfilesTypeOK
  BY DEF TypeInv, VisitorPagesTypeOK
<1>1. CASE UNCHANGED <<profiles, saves>>
  BY <1>0, <1>1 DEF ProfilesTypeOK
<1>2. ASSUME NEW w \in Ids, NEW text \in Texts, UpsertProfile(w, text)
      PROVE  /\ Len(saves[v]) <= Len(saves'[v])
             /\ \A k \in DOMAIN saves[v] : k \in DOMAIN saves'[v] /\ saves'[v][k] = saves[v][k]
  <2>1. saves' = [saves EXCEPT ![w] = Append(saves[w], text)] /\ saves \in [Ids -> Seq(Texts)]
    BY <1>0, <1>2, UpsertTyped DEF ProfilesTypeOK
  <2> QED
    BY <2>1
<1> QED
  BY <1>1, <1>2, SavesStep

\* So what is checked stays checked.
LEMMA SavedStays ==
  ASSUME TypeInv, ProfileInv, [Next]_vars, NEW v \in Ids, NEW p, SavedAs(v, p)
  PROVE  /\ p.version \in DOMAIN saves'[v]
         /\ p.career = saves'[v][p.version] /\ p.info = saves'[v][p.version]
BY SavesGrow DEF SavedAs
\* No step leaves a visitor told of more than is saved.
LEMMA ToldStep ==
  ASSUME TypeInv, ProfileInv, [Next]_vars, NEW v \in Ids
  PROVE  told'[v] <= Len(saves'[v])
<1>0. /\ told[v] \in Nat /\ told[v] <= Len(saves[v]) /\ Len(saves[v]) <= Len(saves'[v])
      /\ Len(saves[v]) \in Nat /\ Len(saves'[v]) \in Nat /\ told \in [Ids -> Nat]
  <2>1. ProfilesTypeOK /\ ProfilesTypeOK'
    BY NextTyped DEF TypeInv, VisitorPagesTypeOK
  <2> QED
    BY <2>1, SavesGrow DEF TypeInv, VisitorPagesTypeOK, ProfileInv, SavesInv, ProfilesTypeOK
<1>1. CASE told' = told
  BY <1>0, <1>1
<1>2. ASSUME NEW t \in Tabs, Respond(t)
      PROVE  told'[v] <= Len(saves'[v])
  <2>1. CASE tab[t].reply = "saved"
    <3>1. tab[t].visitor \in Ids /\ tab[t].floor <= Len(saves[tab[t].visitor]) /\ tab[t].floor \in Nat
      BY <2>1, TabFacts DEF ProfileInv, Checked, Placed, Tab
    <3> QED
      BY <1>0, <1>2, <2>1, <3>1 DEF Respond
  <2> QED
    BY <1>0, <1>2, <2>1 DEF Respond
<1>3. ASSUME NEW t \in Tabs, Lose(t) \/ Ask(t)
      PROVE  told' = told
  BY <1>3 DEF Lose, Ask, AskSave, AskSubmit, AskHome, AskJob, Arrive, Refuse
<1>4. ASSUME NEW t \in Tabs,
             \/ SaveProfile(t) \/ HomeList(t) \/ SubmitLookup(t) \/ SubmitGoOn(t)
             \/ ReadRow(t) \/ FetchPdf(t) \/ \E j \in Jobs : SubmitInsert(t, j)
      PROVE  told' = told
  BY <1>4 DEF SaveProfile, HomeList, SubmitLookup, SubmitGoOn, ReadRow, FetchPdf, SubmitInsert,
     readVars, restVars
<1>5. CASE (\E j \in Jobs : Work(j) \/ Expire(j)) \/ Rotate \/ UNCHANGED vars
  BY <1>1, <1>5 DEF Work, Expire, workVars, Rotate, vars, pagesVars
<1> QED
  BY <1>1, <1>2, <1>3, <1>4, <1>5 DEF Next, Handle

LEMMA AppendFacts ==
  ASSUME NEW texts \in Seq(Texts), NEW text \in Texts
  PROVE  /\ Len(Append(texts, text)) = Len(texts) + 1 /\ Len(texts) \in Nat
         /\ Len(texts) + 1 \in DOMAIN Append(texts, text)
         /\ Append(texts, text)[Len(texts) + 1] = text
         /\ \A k \in DOMAIN Append(texts, text) :
              \/ k \in DOMAIN texts /\ Append(texts, text)[k] = texts[k]
              \/ Append(texts, text)[k] = text
OBVIOUS

LEMMA SavesInvStep ==
  ASSUME TypeInv, ProfileInv, [Next]_vars
  PROVE  SavesInv'
<1> SUFFICES ASSUME NEW v \in Ids
             PROVE  /\ profiles'[v].version = Len(saves'[v])
                    /\ profiles'[v] # NoProfile =>
                         /\ profiles'[v].version \in DOMAIN saves'[v]
                         /\ profiles'[v].career = saves'[v][profiles'[v].version]
                         /\ profiles'[v].info = saves'[v][profiles'[v].version]
                    /\ \A k \in DOMAIN saves'[v] : ~Empty(saves'[v][k])
  BY ToldStep DEF SavesInv, SavedAs, Empty
<1>0. /\ ProfilesTypeOK
      /\ profiles[v].version = Len(saves[v])
      /\ profiles[v] # NoProfile => SavedAs(v, profiles[v])
      /\ \A k \in DOMAIN saves[v] : ~Empty(saves[v][k])
  BY DEF TypeInv, VisitorPagesTypeOK, ProfileInv, SavesInv
<1>1. CASE UNCHANGED <<profiles, saves>>
  BY <1>0, <1>1 DEF SavedAs
<1>2. ASSUME NEW w \in Ids, NEW text \in Texts, ~Empty(text), UpsertProfile(w, text), w # v
      PROVE  profiles'[v] = profiles[v] /\ saves'[v] = saves[v]
  BY <1>0, <1>2, UpsertTyped DEF ProfilesTypeOK
<1>3. ASSUME NEW text \in Texts, ~Empty(text), UpsertProfile(v, text)
      PROVE  /\ profiles'[v].version = Len(saves'[v])
             /\ profiles'[v].version \in DOMAIN saves'[v]
             /\ profiles'[v].career = saves'[v][profiles'[v].version]
             /\ profiles'[v].info = saves'[v][profiles'[v].version]
             /\ \A k \in DOMAIN saves'[v] : ~Empty(saves'[v][k])
  <2>1. /\ saves'[v] = Append(saves[v], text) /\ saves[v] \in Seq(Texts)
        /\ profiles'[v] = [career |-> text, info |-> text, version |-> profiles[v].version + 1]
    BY <1>0, <1>3, UpsertTyped DEF ProfilesTypeOK
  <2>2. /\ Len(saves'[v]) = Len(saves[v]) + 1 /\ Len(saves[v]) \in Nat
        /\ saves'[v][Len(saves[v]) + 1] = text
        /\ Len(saves[v]) + 1 \in DOMAIN saves'[v]
        /\ \A k \in DOMAIN saves'[v] : ~Empty(saves'[v][k])
    BY <1>0, <1>3, <2>1, AppendFacts
  <2> QED
    BY <1>0, <1>3, <2>1, <2>2
<1> QED
  BY <1>0, <1>1, <1>2, <1>3, SavesStep DEF SavedAs

\* A tab that is past the checks, or was told nothing.
LEMMA NothingToCheck ==
  ASSUME NEW t \in Tabs, tab'[t].pc \notin {"upsert", "lookup", "insert"}, tab'[t].reply # "saved"
  PROVE  Checked(tab[t])'
BY DEF Checked

\* A tab that did not move.
LEMMA StillChecked ==
  ASSUME TypeInv, ProfileInv, [Next]_vars, NEW t \in Tabs, tab'[t] = tab[t]
  PROVE  Checked(tab[t])'
<1>1. tab[t] \in Tab /\ Placed(tab[t]) /\ Checked(tab[t]) /\ ProfilesTypeOK /\ ProfilesTypeOK'
  BY TabFacts, NextTyped DEF ProfileInv, TypeInv, VisitorPagesTypeOK
<1>2. CASE tab[t].visitor \in Ids
  <2>1. /\ Len(saves[tab[t].visitor]) <= Len(saves'[tab[t].visitor])
        /\ Len(saves[tab[t].visitor]) \in Nat /\ Len(saves'[tab[t].visitor]) \in Nat
        /\ tab[t].floor \in Nat
    BY <1>1, <1>2, SavesGrow DEF ProfilesTypeOK, Tab
  <2>2. tab[t].pc = "insert" => SavedAs(tab[t].visitor, tab[t].profile)'
    <3>1. ASSUME tab[t].pc = "insert"
          PROVE  SavedAs(tab[t].visitor, tab[t].profile)
      BY <1>1, <3>1 DEF Checked
    <3> QED
      BY <1>2, <3>1, SavedStays DEF SavedAs
  <2> QED
    BY <1>1, <2>1, <2>2 DEF Checked, Empty, ValidateJobSizes
<1>3. CASE tab[t].visitor \notin Ids
  BY <1>1, <1>3, NothingToCheck DEF Placed
<1> QED
  BY <1>2, <1>3

LEMMA CheckedStep ==
  ASSUME TypeInv, ProfileInv, [Next]_vars, NEW t \in Tabs, Handle(t) \/ Lose(t) \/ Ask(t)
  PROVE  Checked(tab[t])'
<1>0. tab[t] \in Tab /\ Placed(tab[t]) /\ Checked(tab[t]) /\ ProfilesTypeOK /\ VisitorsTypeOK
  BY TabFacts DEF ProfileInv, TypeInv, VisitorPagesTypeOK
<1>1. ASSUME NEW reply, Answer(t, reply), reply # "saved"
      PROVE  Checked(tab[t])'
  BY <1>1, AnswerShape, NothingToCheck
<1>2. ASSUME NEW pc, Fails(t, pc)
      PROVE  Checked(tab[t])'
  BY <1>2, FailsShape, NothingToCheck
<1>3. ASSUME SaveProfile(t)
      PROVE  Checked(tab[t])'
  <2> DEFINE v == tab[t].visitor
  <2>1. CASE /\ Awaits(t, "upsert") /\ UpsertProfile(v, tab[t].posted.text)
             /\ tab'[t].pc = "reply" /\ tab'[t].visitor = v /\ tab'[t].floor = Len(saves[v]) + 1
    <3>1. v \in Ids /\ tab[t].posted.text \in Texts
      BY <1>0, <2>1 DEF Placed, Awaits
    <3>2. saves'[v] = Append(saves[v], tab[t].posted.text) /\ saves[v] \in Seq(Texts)
      BY <1>0, <2>1, <3>1, UpsertTyped DEF ProfilesTypeOK
    <3>3. Len(saves'[v]) = Len(saves[v]) + 1 /\ Len(saves[v]) \in Nat
      BY <3>1, <3>2
    <3> QED
      BY <2>1, <3>3 DEF Checked
  <2> QED
    BY <1>2, <1>3, <2>1, SavedShape
<1>4. ASSUME HomeList(t)
      PROVE  Checked(tab[t])'
  BY <1>2, <1>4, HomeShape, NothingToCheck
<1>5. ASSUME SubmitLookup(t)
      PROVE  Checked(tab[t])'
  <2> DEFINE v == tab[t].visitor
  <2>1. CASE /\ Awaits(t, "lookup") /\ profiles[v] # NoProfile
             /\ ValidateJobSizes(tab[t].posted.text, profiles[v].career)
             /\ tab'[t].pc = "insert" /\ tab'[t].profile = profiles[v]
             /\ tab'[t].reply = tab[t].reply /\ tab'[t].visitor = v
             /\ tab'[t].posted = tab[t].posted /\ tab'[t].floor = tab[t].floor
    <3>1. v \in Ids /\ tab[t].reply = "none" /\ ~Empty(tab[t].posted.text)
      BY <1>0, <2>1 DEF Placed, Checked, Awaits
    <3>2. /\ SavedAs(v, profiles[v]) /\ profiles[v].version = Len(saves[v])
          /\ tab[t].floor <= Len(saves[v])
      BY <1>0, <2>1, <3>1 DEF ProfileInv, SavesInv, Checked, Awaits
    <3>3. UNCHANGED saves
      BY <1>5 DEF SubmitLookup, readVars
    <3> QED
      BY <2>1, <3>1, <3>2, <3>3 DEF Checked, SavedAs, Empty, ValidateJobSizes
  <2> QED
    BY <1>1, <1>2, <1>5, <2>1, LookupShape
<1>6. ASSUME NEW j \in Jobs, SubmitInsert(t, j)
      PROVE  Checked(tab[t])'
  BY <1>1, <1>2, <1>6, InsertShape, NothingToCheck
<1>7. ASSUME SubmitGoOn(t)
      PROVE  Checked(tab[t])'
  BY <1>1, <1>7, StillChecked DEF SubmitGoOn
<1>8. ASSUME ReadRow(t)
      PROVE  Checked(tab[t])'
  <2>1. CASE tab'[t].pc = "fetch" /\ tab'[t].reply = tab[t].reply /\ Awaits(t, "download")
    <3>1. tab[t].reply # "saved"
      BY <1>0, <2>1 DEF Placed, Awaits
    <3> QED
      BY <2>1, <3>1, NothingToCheck
  <2> QED
    BY <1>1, <1>2, <1>8, <2>1, ReadRowShape
<1>9. ASSUME FetchPdf(t)
      PROVE  Checked(tab[t])'
  <2>1. \/ Fails(t, "fetch")
        \/ Awaits(t, "fetch") /\ \E reply \in {"pdf", "not_found", "unreadable"} : Answer(t, reply)
    BY <1>9, MayListAssumption DEF FetchPdf, GetObject
  <2> QED
    BY <1>1, <1>2, <2>1
<1>10. ASSUME Respond(t) \/ Lose(t)
       PROVE  Checked(tab[t])'
  BY <1>10, IdleShape, IdleFacts, NothingToCheck DEF TabIs
<1>11. ASSUME Ask(t)
       PROVE  Checked(tab[t])'
  <2>1. ASSUME Refuse(t)
        PROVE  Checked(tab[t])'
    BY <2>1, RefuseShape, NothingToCheck
  <2>2. ASSUME NEW pc, NEW posted, NEW job, Arrive(t, pc, posted, job),
               pc \in {"upsert", "lookup"} => ~Empty(posted.text),
               pc \in {"upsert", "lookup", "list", "page", "download"}
        PROVE  Checked(tab[t])'
    <3>1. PICK s \in serving : \E a \in Admissions(jar[browserOf[t]], s) :
            /\ tab'[t].pc = pc /\ tab'[t].reply = "none" /\ tab'[t].posted = posted
            /\ tab'[t].visitor = a.visitor
            /\ tab'[t].floor = IF pc = "lookup" THEN told[a.visitor] ELSE 0
      BY <2>2, ArriveShape
    <3>2. PICK a \in Admissions(jar[browserOf[t]], s) :
            /\ tab'[t].pc = pc /\ tab'[t].reply = "none" /\ tab'[t].posted = posted
            /\ tab'[t].visitor = a.visitor
            /\ tab'[t].floor = IF pc = "lookup" THEN told[a.visitor] ELSE 0
      BY <3>1
    <3>3. a.visitor \in Ids
      BY <1>0, AdmissionType, TabFacts
    <3>4. UNCHANGED saves /\ told[a.visitor] <= Len(saves[a.visitor])
      BY <2>2, <3>3 DEF Arrive, ProfileInv, SavesInv
    <3> QED
      BY <2>2, <3>2, <3>4 DEF Checked, Empty
  <2>3. ASSUME NEW pc \in {"page", "download"}, NEW j, AskJob(t, pc, j)
        PROVE  Checked(tab[t])'
    BY <2>2, <2>3 DEF AskJob
  <2>4. ASSUME AskHome(t)
        PROVE  Checked(tab[t])'
    BY <2>2, <2>4 DEF AskHome
  <2>5. ASSUME NEW text, NEW model, NEW key, AskSubmit(t, text, model, key)
        PROVE  Checked(tab[t])'
    BY <2>1, <2>2, <2>5 DEF AskSubmit
  <2>6. ASSUME NEW text, NEW named, AskSave(t, text, named)
        PROVE  Checked(tab[t])'
    BY <2>1, <2>2, <2>6 DEF AskSave
  <2> QED
    BY <1>11, <2>3, <2>4, <2>5, <2>6 DEF Ask
<1> QED
  BY <1>3, <1>4, <1>5, <1>6, <1>7, <1>8, <1>9, <1>10, <1>11 DEF Handle
\* A job comes into being in an insert, with a ticket from its request.
LEMMA NewJob ==
  ASSUME TypeInv, [Next]_vars, NEW j \in Jobs,
         ticket'[j] # ticket[j] \/ (form[j].step = "none" /\ form'[j].step # "none")
  PROVE  \E t \in Tabs : Awaits(t, "insert") /\ Issue(t, j)
<1> DEFINE Old == ticket'[j] = ticket[j] /\ (form[j].step = "none" => form'[j].step = "none")
           Goal == \E t \in Tabs : Awaits(t, "insert") /\ Issue(t, j)
<1>0. SubmitInv
  BY DEF TypeInv, VisitorPagesTypeOK, SubmitInv
<1>1. ASSUME NEW i \in Jobs, SubmitStep(i), i # j \/ ~At(i, "none")
      PROVE  form[j].step = "none" => form'[j].step = "none"
  BY <1>0, <1>1, SubmitTouches DEF At
<1>2. ASSUME NEW t \in Tabs, NEW i \in Jobs, SubmitInsert(t, i)
      PROVE  Old \/ Goal
  <2>1. CASE UNCHANGED <<form, ticket>>
    BY <2>1
  <2>2. CASE Awaits(t, "insert") /\ SubmitCreate(i) /\ Issue(t, i)
    <3>1. CASE i = j
      BY <2>2, <3>1
    <3>2. CASE i # j
      BY <1>1, <2>2, <3>2 DEF SubmitStep, Issue, TypeInv, VisitorPagesTypeOK
    <3> QED
      BY <3>1, <3>2
  <2> QED
    BY <1>2, <2>1, <2>2, InsertShape
<1>3. ASSUME NEW i \in Jobs, SubmitCall(i) \/ SubmitCrash(i)
      PROVE  form[j].step = "none" => form'[j].step = "none"
  <2>1. ~At(i, "none")
    BY <1>3 DEF SubmitCall, SubmitPutKey, SubmitPublish, SubmitMarkFailed, SubmitCrash, At
  <2> QED
    BY <1>1, <1>3, <2>1 DEF SubmitStep
<1>4. ASSUME NEW t \in Tabs, SubmitGoOn(t)
      PROVE  Old
  <2>1. tab[t].job \in Jobs
    BY <1>4, TabFacts DEF Placed, SubmitGoOn, Awaits
  <2> QED
    BY <1>3, <1>4, <2>1 DEF SubmitGoOn
<1>5. ASSUME NEW t \in Tabs, Lose(t)
      PROVE  Old
  <2>1. CASE tab[t].pc = "submit"
    <3>1. tab[t].job \in Jobs
      BY <2>1, TabFacts DEF Placed
    <3> QED
      BY <1>3, <1>5, <2>1, <3>1 DEF Lose
  <2> QED
    BY <1>5, <2>1 DEF Lose
<1>6. ASSUME NEW t \in Tabs, Ask(t)
      PROVE  Old
  BY <1>6 DEF Ask, AskSave, AskSubmit, AskHome, AskJob, Arrive, Refuse, submissionVars
<1>7. ASSUME NEW t \in Tabs, SaveProfile(t) \/ HomeList(t) \/ SubmitLookup(t) \/ ReadRow(t) \/ FetchPdf(t)
      PROVE  Old
  BY <1>7 DEF SaveProfile, HomeList, SubmitLookup, ReadRow, FetchPdf, readVars
<1>8. ASSUME NEW t \in Tabs, Respond(t)
      PROVE  Old
  BY <1>8 DEF Respond, submissionVars
<1>9. CASE (\E i \in Jobs : Work(i) \/ Expire(i)) \/ Rotate \/ UNCHANGED vars
  BY <1>9 DEF Work, Expire, workVars, Rotate, vars, submissionVars, pagesVars
<1> QED
  BY <1>2, <1>4, <1>5, <1>6, <1>7, <1>8, <1>9 DEF Next, Handle

\* What the log gains is of a job whose submission has begun.
LEMMA LogStep ==
  ASSUME TypeInv, [Next]_vars, NEW i \in Published'
  PROVE  (i \in Published /\ stream'[i] = stream[i]) \/ form'[stream'[i].job].step # "none"
<1> DEFINE Goal == (i \in Published /\ stream'[i] = stream[i]) \/ form'[stream'[i].job].step # "none"
<1>0. SubmitInv
  BY DEF TypeInv, VisitorPagesTypeOK, SubmitInv
<1>1. ASSUME stream' = stream
      PROVE  Goal
  BY <1>1 DEF Published
<1>2. ASSUME NEW j \in Jobs, SubmitStep(j)
      PROVE  Goal
  BY <1>0, <1>2, SubmitTouches, SubmitKeeps DEF LogGrows
<1>3. ASSUME NEW t \in Tabs, NEW j \in Jobs, SubmitInsert(t, j)
      PROVE  Goal
  BY <1>1, <1>2, <1>3, InsertShape DEF SubmitStep, streamVars
<1>4. ASSUME NEW t \in Tabs, SubmitGoOn(t)
      PROVE  Goal
  <2>1. tab[t].job \in Jobs
    BY <1>4, TabFacts DEF Placed, SubmitGoOn, Awaits
  <2> QED
    BY <1>2, <1>4, <2>1 DEF SubmitGoOn, SubmitStep
<1>5. ASSUME NEW t \in Tabs, Lose(t)
      PROVE  Goal
  <2>1. CASE tab[t].pc = "submit"
    <3>1. tab[t].job \in Jobs
      BY <2>1, TabFacts DEF Placed
    <3> QED
      BY <1>2, <1>5, <2>1, <3>1 DEF Lose, SubmitStep
  <2> QED
    BY <1>1, <1>5, <2>1 DEF Lose, streamVars
<1>6. ASSUME NEW t \in Tabs, Ask(t) \/ Respond(t)
      PROVE  stream' = stream
  BY <1>6 DEF Ask, AskSave, AskSubmit, AskHome, AskJob, Arrive, Refuse, Respond, submissionVars, streamVars
<1>7. ASSUME NEW t \in Tabs, SaveProfile(t) \/ HomeList(t) \/ SubmitLookup(t) \/ ReadRow(t) \/ FetchPdf(t)
      PROVE  stream' = stream
  BY <1>7 DEF SaveProfile, HomeList, SubmitLookup, ReadRow, FetchPdf, readVars, streamVars
<1>8. CASE (\E j \in Jobs : Work(j) \/ Expire(j)) \/ Rotate \/ UNCHANGED vars
  BY <1>1, <1>8 DEF Work, Expire, workVars, Rotate, vars, submissionVars, streamVars
<1> QED
  BY <1>1, <1>3, <1>4, <1>5, <1>6, <1>7, <1>8 DEF Next, Handle

LEMMA ProfileStep ==
  ASSUME TypeInv, OwnInv, ProfileInv, [Next]_vars
  PROVE  ProfileInv'
<1>1. SavesInv'
  BY SavesInvStep
<1>2. ASSUME NEW t \in Tabs
      PROVE  Checked(tab[t])'
  BY OneTab, StillChecked, CheckedStep
<1>3. ASSUME NEW j \in Jobs, NEW t \in Tabs, Awaits(t, "insert"), Issue(t, j)
      PROVE  j \in Created' /\ Sound(ticket[j])'
  <2>1. Placed(tab[t]) /\ Checked(tab[t])
    BY TabFacts DEF ProfileInv
  <2>2. /\ tab[t].visitor \in Ids /\ SavedAs(tab[t].visitor, tab[t].profile)
        /\ tab[t].floor <= tab[t].profile.version /\ ~Empty(tab[t].posted.text)
        /\ ValidateJobSizes(tab[t].posted.text, tab[t].profile.career)
    BY <1>3, <2>1 DEF Placed, Checked, Awaits
  <2>3. /\ ticket'[j].visitor = tab[t].visitor /\ ticket'[j].profile = tab[t].profile
        /\ ticket'[j].description = tab[t].posted.text /\ ticket'[j].floor = tab[t].floor
    BY <1>3 DEF Issue, TypeInv, VisitorPagesTypeOK
  <2>4. j \in Created'
    BY <2>2, <2>3, IdsAssumption DEF Created, NoTicket
  <2>5. SavedAs(ticket[j].visitor, ticket[j].profile)'
    BY <2>2, <2>3, SavedStays DEF SavedAs
  <2> QED
    BY <2>2, <2>3, <2>4, <2>5 DEF Sound, Empty, ValidateJobSizes
<1>4. ASSUME NEW j \in Created, ticket'[j] = ticket[j]
      PROVE  Sound(ticket[j])'
  <2>1. Sound(ticket[j]) /\ ticket[j].visitor \in Ids
    BY <1>4, TicketFacts DEF ProfileInv
  <2>2. SavedAs(ticket[j].visitor, ticket[j].profile)'
    BY <1>4, <2>1, SavedStays DEF Sound, SavedAs
  <2> QED
    BY <1>4, <2>1, <2>2 DEF Sound, Empty, ValidateJobSizes
<1>5. ASSUME NEW j \in Created'
      PROVE  Sound(ticket[j])'
  <2>1. j \in Jobs /\ (ticket'[j] = ticket[j] => j \in Created)
    BY DEF Created
  <2> QED
    BY <1>3, <1>4, <2>1, NewJob
<1>6. ASSUME NEW j \in Jobs, form'[j].step # "none"
      PROVE  j \in Created'
  <2>1. CASE form[j].step = "none"
    BY <1>3, <1>6, <2>1, NewJob
  <2>2. CASE form[j].step # "none"
    BY <2>2, TicketsStay DEF ProfileInv
  <2> QED
    BY <2>1, <2>2
<1>7. ASSUME NEW i \in Published'
      PROVE  form'[stream'[i].job].step # "none"
  <2>1. ASSUME i \in Published, stream'[i] = stream[i], form'[stream[i].job].step = "none"
        PROVE  FALSE
    <3>1. stream[i] \in Messages
      BY <2>1, StreamFacts DEF TypeInv, VisitorPagesTypeOK
    <3>2. stream[i].job \in Jobs
      BY <3>1, MessageFields
    <3> QED
      BY <2>1, <3>2, FormsGrow DEF ProfileInv
  <2> QED
    BY <2>1, LogStep
<1> QED
  BY <1>1, <1>2, <1>5, <1>6, <1>7 DEF ProfileInv

LEMMA ProfileInit ==
  ASSUME Init
  PROVE  ProfileInv
<1>1. Created = {} /\ Published = {}
  BY DEF Init, Created, EventStreamInit, Published
<1>2. SavesInv
  BY DEF Init, ProfilesInit, SavesInv, NoProfile
<1>3. \A t \in Tabs : Checked(tab[t])
  BY IdleFacts DEF Init, Checked
<1>4. \A j \in Jobs : form[j].step = "none"
  BY DEF Init, SubmissionInit
<1> QED
  BY <1>1, <1>2, <1>3, <1>4 DEF ProfileInv

\* What saves, lookups, tickets and requested events have to do with one another
\* is preserved: ProfileInv is an invariant of the pages.
THEOREM ProfilesKept == PagesSpec => []ProfileInv
<1>1. Init => OwnInv /\ ProfileInv
  BY OwnInit, ProfileInit
<1>2. TypeInv /\ OwnInv /\ ProfileInv /\ [Next]_vars => OwnInv' /\ ProfileInv'
  BY OwnStep, ProfileStep
<1> QED
  BY <1>1, <1>2, PagesTyped, PTL DEF PagesSpec

\* However many tabs save and submit at once, a job carries one profile as one
\* save stored it, none older than what its browser had been told is saved.
THEOREM JobsUseSavedProfiles == PagesSpec => []JobUsesASavedProfile
<1>1. ProfileInv => JobUsesASavedProfile
  BY DEF ProfileInv, Sound, SavedAs, JobUsesASavedProfile
<1> QED
  BY <1>1, ProfilesKept, PTL

\* Whatever is saved and whenever, the texts of a requested event are not empty
\* and within the limits.
THEOREM InputsBounded == PagesSpec => []PipelineInputBounded
<1>1. ASSUME TypeInv, ProfileInv
      PROVE  PipelineInputBounded
  <2> SUFFICES ASSUME NEW j \in Jobs, NEW i \in Published, stream[i].job = j
               PROVE  /\ Bytes[ticket[j].description] \in 1 .. MaxJobDescription
                      /\ Bytes[ticket[j].profile.career] \in 1 .. MaxCareerText
    BY DEF PipelineInputBounded, InStream
  <2>1. j \in Created /\ Sound(ticket[j])
    BY <1>1 DEF ProfileInv
  <2>2. ticket[j].visitor \in Ids /\ ticket[j].description \in Texts /\ ProfilesTypeOK
    BY <1>1, <2>1 DEF TypeInv, VisitorPagesTypeOK, Created, Ticket
  <2>3. ticket[j].profile.career \in Texts /\ ~Empty(ticket[j].profile.career)
    <3> DEFINE v == ticket[j].visitor
               p == ticket[j].profile
    <3>1. p.version \in DOMAIN saves[v] /\ p.career = saves[v][p.version]
      BY <2>1 DEF Sound, SavedAs
    <3>2. saves[v] \in Seq(Texts)
      BY <2>2 DEF ProfilesTypeOK
    <3>3. ~Empty(saves[v][p.version])
      BY <1>1, <2>2, <3>1 DEF ProfileInv, SavesInv
    <3>4. saves[v][p.version] \in Texts
      BY <3>1, <3>2
    <3> QED
      BY <3>1, <3>3, <3>4
  <2>4. Bytes[ticket[j].description] \in Nat /\ Bytes[ticket[j].profile.career] \in Nat
    BY <2>2, <2>3, SizesAssumption
  <2> QED
    BY <2>1, <2>3, <2>4, LimitsAssumption DEF Sound, Empty, ValidateJobSizes
<1> QED
  BY <1>1, ProfilesKept, PagesTyped, PTL
-----------------------------------------------------------------------------
(* Where a submission ends, and what a download finds. *)

\* Tab t makes the next step of the submission of job j.
Submits(t, j) ==
  /\ SubmitStep(j) /\ Others(t)
  /\ \/ /\ tab[t].pc = "insert" /\ SubmitCreate(j)
        /\ tab'[t].reply # "redirect"
        /\ tab'[t].pc = "submit" => tab'[t].job = j /\ form'[j].step # "done"
     \/ /\ tab[t].pc = "submit" /\ tab[t].job = j /\ SubmitCall(j)
        /\ \/ form'[j].step # "done" /\ tab'[t] = tab[t]
           \/ /\ form'[j].step = "done"
              /\ tab'[t].pc = "reply" /\ tab'[t].reply = "redirect" /\ tab'[t].job = j
     \/ /\ tab[t].pc = "submit" /\ tab[t].job = j /\ SubmitCrash(j)
        /\ tab'[t].pc = "idle" /\ tab'[t].reply = "none"
  /\ UNCHANGED <<objects, expired>>

\* A tab that neither submits nor is redirected.
Aside(t) == tab'[t].pc # "submit" /\ tab'[t].reply # "redirect"

\* A step that concerns neither the log nor the rows.
Elsewhere ==
  /\ UNCHANGED <<stream, window, rows, form>>
  /\ faults' >= faults
  /\ objects \cup expired \subseteq objects' \cup expired'
  /\ \A t \in Tabs : tab'[t] = tab[t] \/ Aside(t)

\* The tabs that read, save or ask.
LEMMA ReadersAside ==
  ASSUME TypeInv, NEW t \in Tabs,
         \/ SaveProfile(t) \/ HomeList(t) \/ SubmitLookup(t) \/ ReadRow(t) \/ FetchPdf(t)
         \/ Respond(t) \/ Ask(t)
  PROVE  Aside(t)
<1>0. Placed(tab[t])
  BY TabFacts
<1>1. ASSUME NEW reply, Answer(t, reply), reply # "redirect"
      PROVE  Aside(t)
  BY <1>1, AnswerShape DEF Aside
<1>2. ASSUME NEW pc, Fails(t, pc)
      PROVE  Aside(t)
  BY <1>2, FailsShape DEF Aside
<1>3. ASSUME SaveProfile(t) \/ HomeList(t) \/ SubmitLookup(t)
      PROVE  Aside(t)
  BY <1>0, <1>1, <1>2, <1>3, SavedShape, HomeShape, LookupShape DEF Aside, Placed, Awaits
<1>4. ASSUME ReadRow(t)
      PROVE  Aside(t)
  BY <1>0, <1>1, <1>2, <1>4, ReadRowShape DEF Aside, Placed, Awaits
<1>5. ASSUME FetchPdf(t)
      PROVE  Aside(t)
  <2>1. \/ Fails(t, "fetch")
        \/ \E reply \in {"pdf", "not_found", "unreadable"} : Answer(t, reply)
    BY <1>5, MayListAssumption DEF FetchPdf, GetObject
  <2> QED
    BY <1>1, <1>2, <2>1
<1>6. ASSUME Respond(t)
      PROVE  Aside(t)
  BY <1>6, IdleShape, IdleFacts DEF TabIs, Aside
<1>7. ASSUME Ask(t)
      PROVE  Aside(t)
  <2>1. ASSUME Refuse(t)
        PROVE  Aside(t)
    BY <2>1, RefuseShape DEF Aside
  <2>2. ASSUME NEW pc, NEW posted, NEW job, Arrive(t, pc, posted, job), pc # "submit"
        PROVE  Aside(t)
    BY <2>2, ArriveShape DEF Aside
  <2>3. ASSUME NEW pc \in {"page", "download"}, NEW j, AskJob(t, pc, j)
        PROVE  Aside(t)
    BY <2>2, <2>3 DEF AskJob
  <2>4. ASSUME AskHome(t)
        PROVE  Aside(t)
    BY <2>2, <2>4 DEF AskHome
  <2>5. ASSUME NEW text, NEW model, NEW key, AskSubmit(t, text, model, key)
        PROVE  Aside(t)
    BY <2>1, <2>2, <2>5 DEF AskSubmit
  <2>6. ASSUME NEW text, NEW named, AskSave(t, text, named)
        PROVE  Aside(t)
    BY <2>1, <2>2, <2>6 DEF AskSave
  <2> QED
    BY <1>7, <2>3, <2>4, <2>5, <2>6 DEF Ask
<1> QED
  BY <1>3, <1>4, <1>5, <1>6, <1>7

\* Every step is one of a submission, one of the pipeline, or one of neither.
LEMMA StepKinds ==
  ASSUME TypeInv, [Next]_vars
  PROVE  (\E t \in Tabs, j \in Jobs : Submits(t, j)) \/ (\E j \in Jobs : Work(j)) \/ Elsewhere
<1> DEFINE Still == UNCHANGED <<streamVars, rows, form, objects, expired>>
           NoOthers == \A t \in Tabs : tab'[t] = tab[t] \/ Aside(t)
<1>0. ASSUME NoFault \/ \E k \in AllFaultKinds : Fault(k)
      PROVE  faults' >= faults
  BY <1>0 DEF NoFault, Fault, TypeInv, VisitorPagesTypeOK, FaultsTypeOK
<1>1. ASSUME Still, NoOthers, NoFault \/ \E k \in AllFaultKinds : Fault(k)
      PROVE  Elsewhere
  BY <1>0, <1>1 DEF Elsewhere, streamVars
<1>2. ASSUME NEW t \in Tabs, NEW j \in Jobs, SubmitInsert(t, j)
      PROVE  Submits(t, j) \/ Elsewhere
  <2>1. UNCHANGED <<objects, expired>> /\ Others(t)
    BY <1>2, HandleSession DEF SubmitInsert, restVars, Handle
  <2>2. CASE Fails(t, "insert") /\ UNCHANGED <<streamVars, vault, rows, form, ticket>>
    <3>1. NoOthers
      BY <2>1, <2>2, FailsShape DEF Aside, Others
    <3> QED
      BY <1>1, <2>1, <2>2, <3>1 DEF Fails, AllFaultKinds
  <2>3. CASE Awaits(t, "insert") /\ SubmitCreate(j) /\ form'[j].step = "done" /\ Answer(t, "error")
    BY <2>1, <2>3, AnswerShape DEF Submits, SubmitStep, Awaits
  <2>4. CASE /\ Awaits(t, "insert") /\ SubmitCreate(j) /\ form'[j].step # "done"
             /\ tab'[t].pc = "submit" /\ tab'[t].job = j /\ tab'[t].reply = "none"
    BY <2>1, <2>4 DEF Submits, SubmitStep, Awaits
  <2> QED
    BY <1>2, <2>2, <2>3, <2>4, InsertShape
<1>3. ASSUME NEW t \in Tabs, SubmitGoOn(t)
      PROVE  tab[t].job \in Jobs /\ Submits(t, tab[t].job)
  <2>1. tab[t].job \in Jobs /\ tab[t].pc = "submit"
    BY <1>3, TabFacts DEF Placed, SubmitGoOn, Awaits
  <2>2. Others(t)
    BY <1>3, HandleSession DEF Handle
  <2>3. CASE form'[tab[t].job].step = "done"
    BY <1>3, <2>1, <2>2, <2>3, AnswerShape DEF SubmitGoOn, restVars, Submits, SubmitStep
  <2>4. CASE form'[tab[t].job].step # "done"
    BY <1>3, <2>1, <2>2, <2>4 DEF SubmitGoOn, restVars, Submits, SubmitStep
  <2> QED
    BY <2>1, <2>3, <2>4
<1>4. ASSUME NEW t \in Tabs, Lose(t)
      PROVE  Elsewhere \/ \E j \in Jobs : Submits(t, j)
  <2>1. Others(t) /\ tab'[t].pc = "idle" /\ tab'[t].reply = "none"
    BY <1>4, IdleShape, IdleFacts DEF TabIs
  <2>2. CASE tab[t].pc = "submit"
    <3>1. tab[t].job \in Jobs
      BY <2>2, TabFacts DEF Placed
    <3> QED
      BY <1>4, <2>1, <2>2, <3>1 DEF Lose, Submits, SubmitStep
  <2>3. CASE tab[t].pc # "submit"
    <3>1. NoOthers
      BY <2>1 DEF Others, Aside
    <3> QED
      BY <1>1, <1>4, <2>3, <3>1 DEF Lose, AllFaultKinds
  <2> QED
    BY <2>2, <2>3
<1>5. ASSUME NEW t \in Tabs, Ask(t)
      PROVE  Elsewhere
  <2>1. NoOthers
    BY <1>5, ReadersAside, AskSession DEF Others
  <2> QED
    BY <1>1, <1>5, <2>1, ZenonT(30) DEF Ask, AskSave, AskSubmit, AskHome, AskJob, Arrive, Refuse, submissionVars, NoFault
<1>6. ASSUME NEW t \in Tabs, SaveProfile(t) \/ HomeList(t) \/ SubmitLookup(t) \/ ReadRow(t) \/ FetchPdf(t)
      PROVE  Elsewhere
  <2>1. Still
    BY <1>6 DEF SaveProfile, HomeList, SubmitLookup, ReadRow, FetchPdf, readVars, restVars
  <2>2. NoFault \/ \E k \in AllFaultKinds : Fault(k)
    BY <1>6 DEF SaveProfile, HomeList, SubmitLookup, ReadRow, FetchPdf, Fails, AllFaultKinds
  <2>3. NoOthers
    BY <1>6, ReadersAside, HandleSession DEF Others, Handle
  <2> QED
    BY <1>1, <2>1, <2>2, <2>3
<1>7. ASSUME NEW t \in Tabs, Respond(t)
      PROVE  Elsewhere
  <2>1. NoOthers
    BY <1>7, ReadersAside, HandleSession DEF Others, Handle
  <2> QED
    BY <1>1, <1>7, <2>1 DEF Respond, submissionVars, NoFault
<1>8. ASSUME NEW j \in Jobs, Expire(j)
      PROVE  Elsewhere
  <2>1. UNCHANGED <<streamVars, rows, form, tab>> /\ faults' >= faults
    BY <1>0, <1>8 DEF Expire, workVars, AllFaultKinds
  <2>2. objects \cup expired \subseteq objects' \cup expired'
    BY <1>8 DEF Expire, ExpireObject
  <2> QED
    BY <2>1, <2>2 DEF Elsewhere, streamVars
<1>9. CASE Rotate
  BY <1>1, <1>9 DEF Rotate, pagesVars, AllFaultKinds
<1>10. CASE UNCHANGED vars
  BY <1>1, <1>10 DEF vars, submissionVars, pagesVars, NoFault
<1> QED
  BY <1>2, <1>3, <1>4, <1>5, <1>6, <1>7, <1>8, <1>9, <1>10 DEF Next, Handle

\* What a submission does to the rows and the budget.
LEMMA SubmitRows ==
  ASSUME SubmitInv, NEW j \in Jobs, SubmitStep(j)
  PROVE  /\ \A i \in Jobs \ {j} : rows'[i] = rows[i]
         /\ rows'[j].status = "completed" => rows[j].status = "completed"
         /\ faults' >= faults
<1>1. rows \in [Jobs -> Row] /\ faults \in Nat
  BY DEF SubmitInv, StoreTypeOK, FaultsTypeOK
<1>2. CASE SubmitCreate(j)
  <2>1. faults' >= faults
    BY <1>1, <1>2 DEF SubmitCreate, NoFault, Fault
  <2>2. TouchesOnly(j) /\ rows[j].status = "absent"
    BY <1>2, CreateJobTouches DEF SubmitCreate, CreateJob, SubmitInv
  <2> QED
    BY <2>1, <2>2 DEF TouchesOnly, RowStep
<1>3. CASE SubmitPutKey(j) \/ SubmitPublish(j) \/ SubmitCrash(j)
  <2>1. rows' = rows
    BY <1>3 DEF SubmitPutKey, SubmitPublish, SubmitCrash
  <2>2. NoFault \/ faults' = faults + 1
    BY <1>3 DEF SubmitPutKey, SubmitPublish, SubmitCrash, Fault
  <2> QED
    BY <1>1, <2>1, <2>2 DEF NoFault
<1>4. CASE SubmitMarkFailed(j)
  <2>1. rows' = rows \/ \E error : FailWhere(j, Live, error)
    BY <1>4 DEF SubmitMarkFailed, MarkFailed
  <2>2. NoFault \/ faults' = faults + 1
    BY <1>4 DEF SubmitMarkFailed, Fault
  <2>3. ASSUME NEW error, FailWhere(j, Live, error)
        PROVE  /\ \A i \in Jobs \ {j} : rows'[i] = rows[i]
               /\ rows'[j].status = "completed" => rows[j].status = "completed"
    BY <1>1, <2>3 DEF FailWhere, Row
  <2> QED
    BY <1>1, <2>1, <2>2, <2>3 DEF NoFault
<1> QED
  BY <1>2, <1>3, <1>4 DEF SubmitStep, SubmitCall

\* An object for every completed row, until its retention ends.
FetchInv ==
  /\ \A j \in Jobs : rows[j].status = "completed" => j \in objects \cup expired
  /\ FetchFindsPdf

LEMMA FetchStep ==
  ASSUME TypeInv, FetchInv, [Next]_vars
  PROVE  FetchInv'
<1>0. SubmitInv /\ rows \in [Jobs -> Row]
  BY DEF TypeInv, VisitorPagesTypeOK, SubmitInv, StoreTypeOK
<1>1. /\ objects \cup expired \subseteq objects' \cup expired'
      /\ \A j \in Jobs : rows'[j].status = "completed" =>
           rows[j].status = "completed" \/ j \in objects'
  <2>1. ASSUME NEW t \in Tabs, NEW j \in Jobs, Submits(t, j)
        PROVE  <1>1!1 /\ <1>1!2
    BY <1>0, <2>1, SubmitRows DEF Submits
  <2>2. ASSUME NEW j \in Jobs, Work(j)
        PROVE  <1>1!1 /\ <1>1!2
    <3>1. objects \cup expired \subseteq objects' \cup expired'
      BY <2>2, WorkSteps DEF Work
    <3>2. CASE MarkRendering(j)
      BY <1>0, <3>1, <3>2 DEF MarkRendering, Pending, Row
    <3>3. CASE PutObject(j) /\ MarkCompleted(j)
      BY <1>0, <3>1, <3>3 DEF PutObject, MarkCompleted, Live, Row
    <3>4. CASE MarkFailed(j, "worker")
      BY <1>0, <3>1, <3>4 DEF MarkFailed, FailWhere, Live, Row
    <3> QED
      BY <2>2, <3>2, <3>3, <3>4 DEF Work
  <2>3. CASE Elsewhere
    BY <2>3 DEF Elsewhere
  <2> QED
    BY <2>1, <2>2, <2>3, StepKinds
<1>2. ASSUME NEW t \in Tabs, tab'[t].pc = "fetch"
      PROVE  tab'[t].job \in objects' \cup expired'
  <2>1. CASE tab'[t] = tab[t]
    BY <1>1, <1>2, <2>1 DEF FetchInv, FetchFindsPdf, Awaits
  <2>2. ASSUME NEW reply, Answer(t, reply)
        PROVE  FALSE
    BY <1>2, <2>2, AnswerShape
  <2>3. ASSUME NEW pc, Fails(t, pc)
        PROVE  FALSE
    BY <2>2, <2>3 DEF Fails
  <2>4. ASSUME ReadRow(t)
        PROVE  tab'[t].job \in objects' \cup expired'
    <3>1. Placed(tab[t])
      BY TabFacts
    <3>2. Downloadable(tab[t].job) /\ tab[t].pc = "download" /\ tab'[t].job = tab[t].job
      BY <2>2, <2>3, <2>4, ReadRowShape DEF Awaits
    <3> QED
      BY <1>1, <3>1, <3>2 DEF FetchInv, Downloadable, Placed
  <2>5. ASSUME SaveProfile(t) \/ HomeList(t) \/ SubmitLookup(t) \/ \E j \in Jobs : SubmitInsert(t, j)
        PROVE  FALSE
    BY <1>2, <2>2, <2>3, <2>5, SavedShape, HomeShape, LookupShape, InsertShape
  <2>6. ASSUME SubmitGoOn(t)
        PROVE  tab'[t] = tab[t]
    BY <2>2, <2>6 DEF SubmitGoOn
  <2>7. ASSUME FetchPdf(t)
        PROVE  FALSE
    <3>1. \/ Fails(t, "fetch")
          \/ \E reply \in {"pdf", "not_found", "unreadable"} : Answer(t, reply)
      BY <2>7, MayListAssumption DEF FetchPdf, GetObject
    <3> QED
      BY <2>2, <2>3, <3>1
  <2>8. ASSUME Respond(t) \/ Lose(t)
        PROVE  FALSE
    BY <1>2, <2>8, IdleShape, IdleFacts DEF TabIs
  <2>9. ASSUME Ask(t)
        PROVE  FALSE
    <3>1. ~Refuse(t)
      BY <1>2, RefuseShape
    <3>2. ASSUME NEW pc, NEW posted, NEW job, Arrive(t, pc, posted, job)
          PROVE  pc = "fetch"
      BY <1>2, <3>2, ArriveShape
    <3>3. ASSUME NEW pc \in {"page", "download"}, NEW j, AskJob(t, pc, j)
          PROVE  FALSE
      BY <3>2, <3>3 DEF AskJob
    <3>4. ~AskHome(t)
      BY <3>2 DEF AskHome
    <3>5. ASSUME NEW text, NEW model, NEW key, AskSubmit(t, text, model, key)
          PROVE  FALSE
      BY <3>1, <3>2, <3>5 DEF AskSubmit
    <3>6. ASSUME NEW text, NEW named, AskSave(t, text, named)
          PROVE  FALSE
      BY <3>1, <3>2, <3>6 DEF AskSave
    <3> QED
      BY <2>9, <3>3, <3>4, <3>5, <3>6 DEF Ask
  <2> QED
    BY <2>1, <2>4, <2>5, <2>6, <2>7, <2>8, <2>9, OneTab DEF Handle
<1> QED
  BY <1>1, <1>2 DEF FetchInv, FetchFindsPdf, Awaits

\* A handler asks the bucket for an object that is there, or was until its
\* retention ended: the check of the row needs no check of the bucket.
THEOREM DownloadsFindPdfs == PagesSpec => []FetchFindsPdf
<1>1. Init => FetchInv
  BY IdleFacts DEF Init, FetchInv, FetchFindsPdf, StoreInit, NoRow, Awaits
<1>2. TypeInv /\ FetchInv /\ [Next]_vars => FetchInv'
  BY FetchStep
<1>3. FetchInv => FetchFindsPdf
  BY DEF FetchInv
<1> QED
  BY <1>1, <1>2, <1>3, PagesTyped, PTL DEF PagesSpec-----------------------------------------------------------------------------
(* Where a redirected submission leaves its job. *)

\* While the handler still runs, its job is live or already requested, and a
\* handler that answers an error has met one.
Underway(j) ==
  form[j].step \in {"put", "publish", "handoff", "enqueue"} =>
    /\ j \in Live \/ InStream(j, "requested")
    /\ form[j].step \in {"handoff", "enqueue"} => faults >= 1

Ended(j) == faults >= 2 \/ InStream(j, "requested") \/ rows[j].status = "failed"

RedirectInv ==
  /\ WindowInLog
  /\ \A j \in Jobs : Underway(j)
  /\ \A t \in Tabs : tab[t].reply = "redirect" => tab[t].job \in Jobs /\ Ended(tab[t].job)

\* What is in the log stays there.
LEMMA LoggedStays ==
  ASSUME NEW j, NEW e, LogGrows, InStream(j, e)
  PROVE  InStream(j, e)'
BY DEF LogGrows, InStream

\* A publish the server took leaves its event in the log, swallowed or not, and
\* nothing in the window that is not.
LEMMA PublishLogs ==
  ASSUME EventStreamTypeOK, WindowInLog, NEW m \in Messages, Publish(m)
  PROVE  WindowInLog' /\ InStream(m.job, m.event)'
<1>1. LogGrows
  BY PublishEffect DEF AppendsAtMost
<1>2. MsgID(m)[1] = m.job /\ MsgID(m)[2] = m.event
  BY DEF MsgID
<1>3. CASE MsgID(m) \in window /\ UNCHANGED <<stream, window>>
  BY <1>1, <1>2, <1>3, LoggedStays DEF WindowInLog
<1>4. CASE stream' = Append(stream, m) /\ window' = window \cup {MsgID(m)}
  <2>1. stream \in Seq(Messages)
    BY DEF EventStreamTypeOK
  <2>2. Len(stream) + 1 \in Published' /\ stream'[Len(stream) + 1] = m
    BY <1>4, <2>1 DEF Published
  <2>3. InStream(m.job, m.event)'
    BY <2>2 DEF InStream
  <2> QED
    BY <1>1, <1>2, <1>4, <2>3, LoggedStays DEF WindowInLog
<1> QED
  BY <1>3, <1>4 DEF Publish
\* The form of a submission that goes on.
LEMMA FormStep ==
  ASSUME SubmissionTypeOK, NEW j \in Jobs, NEW step, SubmitGoto(j, step)
  PROVE  form'[j].step = step
<1>1. form[j] \in [step : FormSteps, request : Bodies["requested"] \cup {"none"}]
  BY DEF SubmissionTypeOK
<1> QED
  BY <1>1 DEF SubmitGoto, SubmissionTypeOK

\* Every step of a submission, its job seen from there.
LEMMA SubmitOwes ==
  ASSUME SubmitInv, WindowInLog, NEW j \in Jobs, Underway(j), SubmitStep(j)
  PROVE  /\ WindowInLog'
         /\ Underway(j)'
         /\ SubmitCall(j) /\ form'[j].step = "done" => Ended(j)'
<1> DEFINE LogSame == UNCHANGED <<stream, window>>
           Asked == InStream(j, "requested")
<1>1. rows \in [Jobs -> Row] /\ faults \in Nat /\ SubmissionTypeOK /\ EventStreamTypeOK
  BY DEF SubmitInv, StoreTypeOK, FaultsTypeOK
<1>2. LogGrows /\ (Asked => Asked')
  BY SubmitKeeps, LoggedStays
<1>3. LogSame => WindowInLog'
  BY <1>2, LoggedStays DEF WindowInLog
<1>4. rows' = rows => Live' = Live
  BY DEF Live
<1>5. CASE SubmitCreate(j)
  <2>1. PICK request \in Bodies["requested"], step \in {"put", "publish", "done"} :
          form' = [form EXCEPT ![j] = [step |-> step, request |-> request]]
    BY <1>5 DEF SubmitCreate
  <2>2. form'[j].step \in {"put", "publish", "done"} /\ form[j].step = "none"
    BY <1>1, <1>5, <2>1 DEF SubmissionTypeOK, SubmitCreate, At
  <2>3. j \in Live'
    BY <1>1, <1>5 DEF SubmitCreate, CreateJob, Live, Statuses, Terminal, NoRow
  <2>4. ~SubmitCall(j)
    BY <2>2 DEF SubmitCall, SubmitPutKey, SubmitPublish, SubmitMarkFailed, At
  <2> QED
    BY <1>3, <1>5, <2>2, <2>3, <2>4 DEF SubmitCreate, streamVars, Underway
<1>6. CASE SubmitPutKey(j)
  <2>1. form[j].step = "put" /\ LogSame /\ rows' = rows
    BY <1>6 DEF SubmitPutKey, At, streamVars
  <2>2. \/ form'[j].step = "publish"
        \/ form'[j].step = "handoff" /\ faults' = faults + 1
    BY <1>1, <1>6, FormStep DEF SubmitPutKey, Fault
  <2> QED
    BY <1>1, <1>2, <1>3, <1>4, <2>1, <2>2 DEF Underway
<1>7. CASE SubmitPublish(j)
  <2> DEFINE m == Message(j, "requested", form[j].request)
  <2>1. form[j].step = "publish" /\ rows' = rows
    BY <1>7 DEF SubmitPublish, At
  <2>2. m \in Messages /\ m.event = "requested" /\ m.job = j
    BY <2>1, MessageType DEF Message, Events, FormsPlaced, At, SubmitInv
  <2>3. \/ Publish(m) /\ form'[j].step = "done"
        \/ PublishErr(m) /\ form'[j].step = "enqueue" /\ faults' = faults + 1
    BY <1>1, <1>7, FormStep DEF SubmitPublish, Fault
  <2> HIDE DEF m
  <2>4. Publish(m) => WindowInLog' /\ Asked'
    BY <1>1, <2>2, PublishLogs
  <2>5. WindowInLog'
    BY <1>3, <2>3, <2>4 DEF PublishErr, streamVars
  <2>6. CASE Publish(m) /\ form'[j].step = "done"
    BY <2>4, <2>5, <2>6 DEF Underway, Ended
  <2>7. CASE PublishErr(m) /\ form'[j].step = "enqueue" /\ faults' = faults + 1
    BY <1>1, <1>2, <1>4, <2>1, <2>5, <2>7 DEF Underway
  <2> QED
    BY <2>3, <2>6, <2>7
<1>8. CASE SubmitMarkFailed(j)
  <2>1. form[j].step \in {"handoff", "enqueue"} /\ form'[j].step = "done" /\ LogSame
    BY <1>1, <1>8, FormStep DEF SubmitMarkFailed, streamVars
  <2>2. faults >= 1 /\ (j \in Live \/ Asked)
    BY <2>1 DEF Underway
  <2>3. ASSUME MarkFailed(j, form[j].step)
        PROVE  Ended(j)'
    BY <1>1, <1>2, <2>2, <2>3 DEF MarkFailed, FailWhere, Ended, Row
  <2>4. ASSUME faults' = faults + 1
        PROVE  Ended(j)'
    BY <1>1, <2>2, <2>4 DEF Ended
  <2>5. Ended(j)'
    BY <1>8, <2>3, <2>4 DEF SubmitMarkFailed, Fault
  <2> QED
    BY <1>3, <2>1, <2>5 DEF Underway
<1>9. CASE SubmitCrash(j) /\ ~SubmitCall(j)
  <2>1. form'[j].step = "done" /\ LogSame /\ rows' = rows /\ faults' = faults + 1
    BY <1>1, <1>9, FormStep DEF SubmitCrash, streamVars, Fault
  <2> QED
    BY <1>3, <1>9, <2>1 DEF Underway
<1> QED
  BY <1>5, <1>6, <1>7, <1>8, <1>9 DEF SubmitStep, SubmitCall
\* What makes a redirect good is never undone.
LEMMA EndedStays ==
  ASSUME StoreTypeOK, faults \in Nat, faults' >= faults, faults' \in Nat, RowsStep, LogGrows,
         NEW j \in Jobs, Ended(j)
  PROVE  Ended(j)'
<1>1. rows[j].status = "failed" => rows'[j] = rows[j]
  BY RowsStepIsStep, StepTouchesRows DEF RowStep, Terminal
<1> QED
  BY <1>1, LoggedStays DEF Ended

LEMMA RedirectStep ==
  ASSUME TypeInv, RedirectInv, [Next]_vars
  PROVE  RedirectInv'
<1> DEFINE Kept == /\ WindowInLog'
                   /\ \A j \in Jobs : Underway(j)'
                   /\ faults' >= faults /\ RowsStep /\ LogGrows
           Good(t) == tab'[t].reply = "redirect" => tab'[t].job \in Jobs /\ Ended(tab[t].job)'
<1>1. SubmitInv /\ StoreTypeOK /\ faults \in Nat /\ rows \in [Jobs -> Row]
  BY DEF TypeInv, VisitorPagesTypeOK, SubmitInv, FaultsTypeOK, StoreTypeOK
<1>2. faults' \in Nat
  BY NextTyped DEF TypeInv, VisitorPagesTypeOK, FaultsTypeOK
<1>3. ASSUME Kept, NEW t \in Tabs, tab'[t] = tab[t]
      PROVE  Good(t)
  BY <1>1, <1>2, <1>3, EndedStays DEF RedirectInv
<1>4. ASSUME NEW t \in Tabs, Aside(t)
      PROVE  Good(t)
  BY <1>4 DEF Aside
<1>5. ASSUME NEW u \in Tabs, NEW i \in Jobs, Submits(u, i)
      PROVE  Kept /\ \A t \in Tabs : Good(t)
  <2>1. SubmitStep(i) /\ Others(u)
    BY <1>5 DEF Submits
  <2>2. /\ WindowInLog' /\ Underway(i)'
        /\ SubmitCall(i) /\ form'[i].step = "done" => Ended(i)'
    BY <1>1, <2>1, SubmitOwes DEF RedirectInv
  <2>3. faults' >= faults /\ RowsStep /\ LogGrows
    BY <1>1, <2>1, SubmitKeeps, SubmitRows
  <2>4. ASSUME NEW j \in Jobs \ {i}
        PROVE  Underway(j)'
    <3>1. form'[j] = form[j] /\ rows'[j] = rows[j]
      BY <1>1, <2>1, SubmitTouches, SubmitRows
    <3>2. InStream(j, "requested") => InStream(j, "requested")'
      BY <2>3, LoggedStays
    <3> QED
      BY <1>1, <1>2, <2>3, <3>1, <3>2 DEF Underway, RedirectInv, Live
  <2>5. Kept
    BY <2>2, <2>3, <2>4
  <2>6. Good(u)
    <3>1. CASE tab'[u].reply # "redirect"
      BY <3>1
    <3>2. CASE tab'[u] = tab[u]
      BY <1>3, <2>5, <3>2
    <3>3. CASE SubmitCall(i) /\ form'[i].step = "done" /\ tab'[u].job = i
      BY <2>2, <3>3 DEF Ended
    <3> QED
      BY <1>5, <3>1, <3>2, <3>3 DEF Submits
  <2> QED
    BY <1>3, <2>1, <2>5, <2>6 DEF Others
<1>6. ASSUME NEW i \in Jobs, Work(i)
      PROVE  Kept /\ \A t \in Tabs : Good(t)
  <2>1. UNCHANGED <<stream, window, form, tab, faults>> /\ InStream(i, "requested")
    BY <1>6 DEF Work, workVars, streamVars
  <2>2. RowsStep /\ LogGrows
    BY <1>1, <1>6, <2>1, WorkSteps, SameLog DEF SubmitInv
  <2>3. \A j \in Jobs \ {i} : rows'[j] = rows[j]
    BY <1>1, <1>6 DEF Work, MarkRendering, MarkCompleted, MarkFailed, FailWhere
  <2>4. \A j, e : InStream(j, e) => InStream(j, e)'
    BY <2>2, LoggedStays
  <2>5. WindowInLog'
    BY <2>1, <2>4 DEF WindowInLog, RedirectInv
  <2>6. ASSUME NEW j \in Jobs
        PROVE  Underway(j)'
    <3>1. CASE j = i
      BY <2>1, <2>4, <3>1 DEF Underway, RedirectInv
    <3>2. CASE j # i
      BY <2>1, <2>3, <2>4, <3>2 DEF Underway, RedirectInv, Live
    <3> QED
      BY <3>1, <3>2
  <2> QED
    BY <1>1, <1>3, <2>1, <2>2, <2>5, <2>6
<1>7. ASSUME Elsewhere
      PROVE  Kept /\ \A t \in Tabs : Good(t)
  <2>1. UNCHANGED <<stream, window, rows, form>> /\ faults' >= faults
    BY <1>7 DEF Elsewhere
  <2>2. RowsStep /\ LogGrows
    BY <1>1, <2>1, SameLog DEF SubmitInv, RowsStep
  <2>3. \A j, e : InStream(j, e) => InStream(j, e)'
    BY <2>2, LoggedStays
  <2>4. WindowInLog'
    BY <2>1, <2>3 DEF WindowInLog, RedirectInv
  <2>5. ASSUME NEW j \in Jobs
        PROVE  Underway(j)'
    BY <1>1, <1>2, <2>1, <2>3 DEF Underway, RedirectInv, Live
  <2>6. Kept
    BY <2>1, <2>2, <2>4, <2>5
  <2> QED
    BY <1>3, <1>4, <1>7, <2>6 DEF Elsewhere
<1>8. Kept /\ \A t \in Tabs : Good(t)
  BY <1>5, <1>6, <1>7, StepKinds
<1> QED
  BY <1>8 DEF RedirectInv

\* However put, publish, the answer to an error and the other tabs interleave, a
\* visitor is redirected to a job that is on its way or failed: only two mishaps
\* leave a row that nothing but the sweeper will ever move.
THEOREM RedirectsLeadSomewhere == PagesSpec => []RedirectedJobIsOnItsWay
<1>1. Init => RedirectInv
  BY IdleFacts DEF Init, RedirectInv, WindowInLog, Underway, EventStreamInit, SubmissionInit
<1>2. TypeInv /\ RedirectInv /\ [Next]_vars => RedirectInv'
  BY RedirectStep
<1>3. ASSUME TypeInv, RedirectInv
      PROVE  RedirectedJobIsOnItsWay
  BY <1>3 DEF RedirectInv, Ended, RedirectedJobIsOnItsWay, TypeInv, VisitorPagesTypeOK, FaultsTypeOK
<1> QED
  BY <1>1, <1>2, <1>3, PagesTyped, PTL DEF PagesSpec
-----------------------------------------------------------------------------
(* The rows, seen from the pages. *)

\* What the tabs, the pipeline behind them and the retention do to the table is
\* one of its statements, or nothing.
LEMMA PagesTakeRowsSteps ==
  ASSUME TypeInv, [Next]_vars
  PROVE  RowsStep
<1>1. ASSUME NEW t \in Tabs, NEW j \in Jobs, Submits(t, j)
      PROVE  RowsStep
  <2>1. SubmitInv
    BY DEF TypeInv, VisitorPagesTypeOK, SubmitInv
  <2> QED
    BY <1>1, <2>1, SubmitKeeps DEF Submits
<1>2. ASSUME NEW j \in Jobs, Work(j)
      PROVE  RowsStep
  BY <1>2, WorkSteps
<1>3. CASE Elsewhere
  BY <1>3 DEF Elsewhere, RowsStep
<1> QED
  BY <1>1, <1>2, <1>3, StepKinds

\* Any number of tabs that submit, leave and come back move a job along
\* JobLifecycle and nowhere else: no lost or repeated request creates a row
\* twice, and no MarkFailed of a handler that was overtaken undoes an end.
THEOREM PagesImplementLifecycle == PagesSpec => LifecycleSafe
<1>1. Init => Lifecycle!Init
  BY DEF Init, StoreInit, Lifecycle!Init, statusColumn, NoRow
<1>2. TypeInv /\ [Next]_vars => [Lifecycle!Next]_statusColumn
  <2> SUFFICES ASSUME TypeInv, [Next]_vars
               PROVE  [Lifecycle!Next]_statusColumn
    OBVIOUS
  <2>1. StoreTypeOK /\ RowsStep
    BY PagesTakeRowsSteps DEF TypeInv, VisitorPagesTypeOK
  <2>2. CASE StoreStep
    BY <2>1, <2>2, StepIsLifecycleStep
  <2>3. CASE rows' = rows
    BY <2>3 DEF statusColumn
  <2> QED
    BY <2>1, <2>2, <2>3, RowsStepIsStep
<1> QED
  BY <1>1, <1>2, PagesTyped, PTL DEF PagesSpec, LifecycleSafe, Lifecycle!SafeSpec

\* What a visitor's page called completed or failed stays so, whatever the
\* handlers of other tabs still have to write.
THEOREM PagesKeepEnds == PagesSpec => TerminalIsFinal
<1>1. TypeInv /\ [Next]_vars
        => [\A j \in Jobs : rows[j].status \in Terminal => rows'[j] = rows[j]]_rows
  <2> SUFFICES ASSUME TypeInv, [Next]_vars
               PROVE  \A j \in Jobs : rows[j].status \in Terminal => rows'[j] = rows[j]
    OBVIOUS
  <2>1. StoreTypeOK /\ RowsStep
    BY PagesTakeRowsSteps DEF TypeInv, VisitorPagesTypeOK
  <2> QED
    BY <2>1, RowsStepIsStep, StepTouchesRows DEF RowStep
<1> QED
  BY <1>1, PagesTyped, PTL DEF PagesSpec, TerminalIsFinal
=============================================================================
