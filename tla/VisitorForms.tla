---------------------------- MODULE VisitorForms ----------------------------
(***************************************************************************)
(* What the visitor's pages make of the text typed into them.  The text is *)
(* no part of their state: LinksAreKept and SearchIsExact are formulas     *)
(* about every short text, and the states named here are those in which    *)
(* one is stored or shown.                                                 *)
(***************************************************************************)
EXTENDS VisitorPages, FormText

\* Whatever links the form carries that a save is about to store, they are those
\* of its lines, each a URL behind the last gap and its label; and a profile that is
\* shown and saved again, unedited, keeps its links (handlers.go:97-138).
LinksSurviveAForm == \A t \in Tabs : Awaits(t, "upsert") => LinksAreKept

\* catalog.go:149 "entries whose key or display name matches the query as a
\* case-insensitive subsequence, preserving catalog order": so does the search
\* of the page with the job form, for every query and name.
SearchFindsSubsequences == \A t \in Tabs : tab[t].reply = "home" => SearchIsExact
=============================================================================
