----------------------------- MODULE JobService -----------------------------
(***************************************************************************)
(* What the pipeline promises, with the workers, keys, deliveries and      *)
(* crashes left out: each fact about a job rests on the one before it.  A  *)
(* request follows the row, a CV the request, the PDF the CV, its          *)
(* announcement the PDF; the row shows only what was announced, and may    *)
(* fail at any time before its end.                                        *)
(***************************************************************************)
CONSTANT Jobs

VARIABLES phase,    \* phase[j]: what a visitor can tell of job j
          made,     \* made[j]: the events the log has of job j
          pdfs      \* the jobs whose PDF is stored

vars == <<phase, made, pdfs>>

Init ==
  /\ phase = [j \in Jobs |-> "absent"]
  /\ made = [j \in Jobs |-> {}]
  /\ pdfs = {}

Live(j) == phase[j] \in {"pending", "rendering"}

Show(j, p) ==
  /\ phase' = [phase EXCEPT ![j] = p]
  /\ UNCHANGED <<made, pdfs>>

Announce(j, e) ==
  /\ made' = [made EXCEPT ![j] = @ \cup {e}]
  /\ UNCHANGED <<phase, pdfs>>

Create(j) == phase[j] = "absent" /\ Show(j, "pending")

Request(j) == phase[j] # "absent" /\ Announce(j, "requested")

Structure(j) == "requested" \in made[j] /\ Announce(j, "structured")

Store(j) ==
  /\ "structured" \in made[j]
  /\ pdfs' = pdfs \cup {j}
  /\ UNCHANGED <<phase, made>>

AnnouncePdf(j) ==
  /\ "structured" \in made[j]
  /\ j \in pdfs
  /\ Announce(j, "rendered")

\* Only work that was asked for is reported as failed.
Report(j) == made[j] # {} /\ Announce(j, "failed")

Progress(j) ==
  /\ phase[j] = "pending"
  /\ "structured" \in made[j]
  /\ Show(j, "rendering")

Complete(j) ==
  /\ Live(j)
  /\ "rendered" \in made[j]
  /\ Show(j, "completed")

\* A report, an advisory, a failed submission or the sweeper ends jobs that
\* have not ended.
Fail(S) ==
  /\ \A j \in S : Live(j)
  /\ phase' = [j \in Jobs |-> IF j \in S THEN "failed" ELSE phase[j]]
  /\ UNCHANGED <<made, pdfs>>

Next ==
  \/ \E j \in Jobs :
       \/ Create(j) \/ Request(j) \/ Structure(j) \/ Store(j) \/ AnnouncePdf(j) \/ Report(j)
       \/ Progress(j) \/ Complete(j)
  \/ \E S \in SUBSET Jobs : Fail(S)

SafeSpec == Init /\ [][Next]_vars

-----------------------------------------------------------------------------
\* What follows from the promise alone: nothing is said of a job that was not
\* created, and behind a job that is rendering or completed stand its PDF and
\* every event before it.
WorkBehind ==
  \A j \in Jobs :
    /\ made[j] # {} => phase[j] # "absent"
    /\ made[j] # {} => "requested" \in made[j]
    /\ "rendered" \in made[j] => "structured" \in made[j] /\ j \in pdfs
    /\ j \in pdfs => "structured" \in made[j]
    /\ phase[j] = "rendering" => "structured" \in made[j]
    /\ phase[j] = "completed" => "rendered" \in made[j]
=============================================================================
