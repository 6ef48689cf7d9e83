------------------------------ MODULE FormText ------------------------------
(***************************************************************************)
(* The text a visitor types, where the gateway looks at its characters:    *)
(* the links of the profile form (internal/web/handlers.go) and the query  *)
(* of the model search (internal/catalog/catalog.go).  These are pure      *)
(* functions: LinksAreKept and SearchIsExact compare them with what they   *)
(* promise, over every short text; VisitorForms says where that matters.   *)
(***************************************************************************)
EXTENDS Naturals, Sequences, FiniteSetsExt, SequencesExt

CONSTANT MaxText      \* bound on the texts tried

ASSUME MaxTextAssumption == MaxText \in Nat

\* What strings.TrimSpace removes.  "return" stands for all the white space that
\* is neither a gap of parseLinks nor the end of a line: carriage return, form
\* feed, the no-break space of a text that was pasted.
Space == {"blank", "tab", "newline", "return"}

\* The positions of anything else.
Ink(text) == {i \in DOMAIN text : text[i] \notin Space}

TrimSpace(text) ==
  IF Ink(text) = {} THEN << >> ELSE SubSeq(text, Min(Ink(text)), Max(Ink(text)))

TextsOver(chars, n) == UNION {[1 .. m -> chars] : m \in 0 .. n}

-----------------------------------------------------------------------------
(* The links of a profile, one to a line. *)

\* strings.Split(raw, "\n")
Lines(raw) ==
  LET ends == SetToSortSeq({i \in DOMAIN raw : raw[i] = "newline"} \cup {Len(raw) + 1}, <)
  IN [k \in DOMAIN ends |-> SubSeq(raw, IF k = 1 THEN 1 ELSE ends[k - 1] + 1, ends[k] - 1)]

\* What LastIndexAny looks for.
Gaps(line) == {i \in DOMAIN line : line[i] \in {"blank", "tab"}}

\* Mutant: the URL starts at the first gap.
ParseLineFirstGap(line) ==
  IF Gaps(line) = {} THEN [label |-> line, url |-> line]
  ELSE [label |-> TrimSpace(SubSeq(line, 1, Min(Gaps(line)) - 1)),
        url   |-> TrimSpace(SubSeq(line, Min(Gaps(line)) + 1, Len(line)))]

\* One trimmed line.
ParseLine(line) ==
  IF Gaps(line) = {} THEN [label |-> line, url |-> line]
  ELSE [label |-> TrimSpace(SubSeq(line, 1, Max(Gaps(line)) - 1)),
        url   |-> TrimSpace(SubSeq(line, Max(Gaps(line)) + 1, Len(line)))]

ParseLinks(raw) ==
  LET trimmed == [k \in DOMAIN Lines(raw) |-> TrimSpace(Lines(raw)[k])]
      lines == SelectSeq(trimmed, LAMBDA line : line # << >>)
  IN [k \in DOMAIN lines |-> ParseLine(lines[k])]

\* profileToForm: what the textarea shows of the stored links.
ShowLinks(links) ==
  LET shown == [k \in DOMAIN links |-> links[k].label \o <<"blank">> \o links[k].url]
  IN FoldLeft(LAMBDA text, line : IF text = << >> THEN line ELSE text \o <<"newline">> \o line,
              << >>, shown)

\* How a browser posts a textarea: every line end, of whatever kind, as CRLF.
Encode(text) ==
  FlattenSeq([i \in DOMAIN text |->
    CASE text[i] = "return" -> <<"return", "newline">>
      [] text[i] = "newline" -> IF i > 1 /\ text[i - 1] = "return" THEN << >>
                                ELSE <<"return", "newline">>
      [] OTHER -> <<text[i]>>])

\* A line tells of a link if the link is all of its text, or the two parts of it
\* around white space with a gap, no other gap being in the second.
TellsOf(line, link) ==
  LET first == Min(Ink(line))
      last == Max(Ink(line))
      inner == {i \in Gaps(line) : first < i /\ i < last}
  IN IF inner = {} THEN link.label = TrimSpace(line) /\ link.url = TrimSpace(line)
     ELSE \E a, b \in Ink(line) :
            /\ link.label = SubSeq(line, first, a) /\ link.url = SubSeq(line, b, last)
            /\ Ink(line) \cap (a + 1) .. (b - 1) = {}
            /\ inner \cap (a + 1) .. (b - 1) # {}
            /\ inner \cap b .. last = {}

\* Whatever text a save receives (handlers.go:119-138), every line of it that is not
\* blank is one link, in order and without loss: blank lines, tabs, lone words, CRLF
\* and odd white space anywhere in a line included.  The form shown and saved
\* again, unedited, stores the same links: sent as it is, or by a browser if one
\* had sent the first text, since no line end is then left inside a line.
\* A URL is what follows the last gap; handlers.go:120 has it as "the last
\* whitespace-separated token", which it need not be where the line has other
\* white space.
LinksAreKept ==
  \A text \in TextsOver(Space \cup {"x", "y"}, MaxText) : \A raw \in {text, Encode(text)} :
    LET links == ParseLinks(raw)
        lines == SelectSeq(Lines(raw), LAMBDA line : Ink(line) # {})
    IN /\ Len(links) = Len(lines)
       /\ \A k \in DOMAIN links : TellsOf(lines[k], links[k])
       /\ ParseLinks(ShowLinks(links)) = links
       /\ raw = Encode(raw) => ParseLinks(Encode(ShowLinks(links))) = links

-----------------------------------------------------------------------------
(* The model search. *)

\* strings.ToLower
ToLower(text) == [i \in DOMAIN text |-> IF text[i] = "A" THEN "a" ELSE text[i]]

\* Mutant: the characters of the query, in any order.
IsSubsequenceUnordered(needle, haystack) ==
  \A i \in DOMAIN needle : \E k \in DOMAIN haystack : haystack[k] = needle[i]

\* i after each rune of haystack: how much of needle was met in order.
IsSubsequence(needle, haystack) ==
  LET met[k \in 0 .. Len(haystack)] ==
        IF k = 0 THEN 0
        ELSE IF met[k - 1] < Len(needle) /\ haystack[k] = needle[met[k - 1] + 1]
             THEN met[k - 1] + 1
             ELSE met[k - 1]
  IN met[Len(haystack)] = Len(needle)

\* Search in the catalog's order; an entry has a key and a display name.
Search(entries, query) ==
  LET q == ToLower(TrimSpace(query))
  IN IF q = << >> THEN entries
     ELSE SelectSeq(entries, LAMBDA entry : \/ IsSubsequence(q, ToLower(entry.key))
                                            \/ IsSubsequence(q, ToLower(entry.name)))

\* Catalogs as Load lets them through: keys and names are not empty, no key twice.
Catalogs ==
  {<<[key |-> <<"b", "a">>, name |-> text], [key |-> text, name |-> <<"A">>]>> :
     text \in TextsOver({"a", "A", "b"}, MaxText - 1) \ {<< >>, <<"b", "a">>}}

\* Some choice of positions of the name, left to right, spells the text.
Spells(text, name) ==
  \E at \in [DOMAIN text -> DOMAIN name] :
    \A i \in DOMAIN text : name[at[i]] = text[i] /\ \A k \in 1 .. i - 1 : at[k] < at[i]

\* The one greedy pass over a name finds the query wherever any choice of
\* positions would, and what is found keeps the catalog's order.
SearchIsExact ==
  \A query \in TextsOver({"a", "A", "b", "blank"}, MaxText - 2), entries \in Catalogs :
    LET wanted == ToLower(TrimSpace(query))
    IN Search(entries, query) =
         SelectSeq(entries, LAMBDA entry : \/ Spells(wanted, ToLower(entry.key))
                                           \/ Spells(wanted, ToLower(entry.name)))
=============================================================================
