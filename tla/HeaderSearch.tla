---------------------------- MODULE HeaderSearch ----------------------------
(***************************************************************************)
(* The search box of the header (layout/header.component): what is typed   *)
(* goes through debounce, distinctUntilChanged and a switchMap; the        *)
(* results are shown under the box until it loses the focus, a result is   *)
(* chosen, or the box of a small screen is closed.                         *)
(*                                                                         *)
(* Choosing and closing empty the box without an event: the stream hears   *)
(* nothing of it, and goes on with the text it had.                        *)
(***************************************************************************)
CONSTANTS
  Wanted,     \* what may be typed, "" included
  TooShort    \* those of fewer than two characters: nothing is searched for

\* What an emptied box holds.
NoWords == ""

ASSUME HeaderAssumption == TooShort \subseteq Wanted /\ NoWords \in TooShort

VARIABLES
  box,        \* HeaderComponent: its fields, and its stream before the switchMap
  finding     \* the search whose answer is awaited

headerVars == <<box, finding>>

Perhaps(S) == {{}} \cup {{x} : x \in S}

\* results: what was searched for, if anything was.  due, last: the text that waits for
\* its debounce, and the last one that passed.
HeaderTypeOK ==
  /\ box \in [text : Wanted, due : Perhaps(Wanted), last : Perhaps(Wanted),
              results : Perhaps(Wanted \ TooShort), showResults : BOOLEAN,
              blurred : BOOLEAN, expanded : BOOLEAN]
  /\ finding \in SUBSET (Wanted \ TooShort)

HeaderInit ==
  /\ box = [text |-> NoWords, due |-> {}, last |-> {}, results |-> {},
            showResults |-> FALSE, blurred |-> FALSE, expanded |-> FALSE]
  /\ finding = {}

OnSearchInput(q) ==
  /\ q # box.text
  /\ box' = [box EXCEPT !.text = q, !.due = {q}, !.showResults = TRUE]
  /\ UNCHANGED finding

\* Mutation: a search under way is let answer (mergeMap).
SearchFor_Merged(q) == finding' = finding \cup ({q} \ TooShort)

\* The switchMap.
SearchFor(q) == finding' = {q} \ TooShort

\* The debounce ends.  What is too short to be searched for has no results, at once.
DueText(q) ==
  /\ box.due = {q}
  /\ IF box.last = {q}
       THEN box' = [box EXCEPT !.due = {}] /\ UNCHANGED finding
       ELSE /\ SearchFor(q)
            /\ box' = [box EXCEPT !.due = {}, !.last = {q},
                         !.results = IF q \in TooShort THEN {} ELSE @]

\* Screens that match are listed with the records found; if the search fails, alone.
Finds(q) ==
  /\ q \in finding /\ finding' = finding \ {q}
  /\ box' = [box EXCEPT !.results = {q}]

\* onSearchBlur(): the results are hidden a beat later, which is let pass although
\* the box has the focus again.
OnSearchBlur == box' = [box EXCEPT !.blurred = TRUE] /\ UNCHANGED finding

Hide ==
  /\ box.blurred /\ box' = [box EXCEPT !.blurred = FALSE, !.showResults = FALSE]
  /\ UNCHANGED finding

OnResultSelected ==
  /\ box.showResults /\ box.results # {}
  /\ box' = [box EXCEPT !.text = NoWords, !.showResults = FALSE]
  /\ UNCHANGED finding

\* toggleMobileSearch()
ToggleMobileSearch ==
  /\ box' = IF box.expanded
              THEN [box EXCEPT !.expanded = FALSE, !.text = NoWords, !.results = {},
                               !.showResults = FALSE]
              ELSE [box EXCEPT !.expanded = TRUE]
  /\ UNCHANGED finding

-----------------------------------------------------------------------------
HeaderNext ==
  \/ \E q \in Wanted : OnSearchInput(q) \/ DueText(q) \/ Finds(q)
  \/ OnSearchBlur \/ Hide \/ OnResultSelected \/ ToggleMobileSearch

HeaderSpec == HeaderInit /\ [][HeaderNext]_headerVars

-----------------------------------------------------------------------------
(***************************************************************************)
(* Properties                                                              *)
(***************************************************************************)

\* Results on screen once typing and searching are at rest are those of the text in
\* the box, whatever was chosen or closed while a search was under way.  There may be
\* none: a text that is typed again after the box was closed is not searched for.
ResultsAnswerTheBox ==
  box.showResults /\ box.due = {} /\ finding = {} => box.results \subseteq {box.text}
=============================================================================
