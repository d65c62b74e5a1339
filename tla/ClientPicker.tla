---------------------------- MODULE ClientPicker ----------------------------
(***************************************************************************)
(* The client picker of the forms (shared/components/client-search): a box *)
(* whose text is searched for, a list of what was found, and the client    *)
(* picked from it, whose id the form keeps.                                *)
(*                                                                         *)
(* Typing goes through debounce, distinctUntilChanged and a switchMap.     *)
(* Names are written into the box without an event, so the stream does not *)
(* hear of them; and the id the form keeps comes back as an input, for     *)
(* which a name is read that nothing orders or cancels.                    *)
(***************************************************************************)
EXTENDS Naturals

CONSTANTS
  Queries,     \* what may be typed, "" included
  Clients,     \* clients; a client's name stands for itself
  PicksWait,   \* TRUE: nobody picks while a name is being read
  MaxNames     \* bound: reads of one client's name under way

\* No text.
Blank == ""

ASSUME PickerAssumption ==
  Blank \in Queries /\ Queries \cap Clients = {} /\ PicksWait \in BOOLEAN /\ MaxNames \in Nat

VARIABLES
  picker,      \* ClientSearchComponent: its box, its stream and its signals
  searching,   \* the searches whose answers are awaited
  chosen,      \* the form's client, if it has one
  naming,      \* how many reads of each client's name are under way
  named        \* history: the box was given a name, and nobody typed over it

pickerVars == <<picker, searching, chosen, naming, named>>

Maybe(S) == {{}} \cup {{x} : x \in S}

PickerTypeOK ==
  /\ picker \in [text : Queries \cup Clients, due : Maybe(Queries),
                 last : Maybe(Queries), options : Maybe(Queries),
                 showDropdown : BOOLEAN, isLoading : BOOLEAN, ended : BOOLEAN]
  /\ searching \in Maybe(Queries \ {Blank})
  /\ chosen \in Maybe(Clients)
  /\ naming \in [Clients -> 0..MaxNames]
  /\ named \in BOOLEAN

\* A form opens, with a client already (a loan that is edited, a link from a client)
\* or without.  The stream starts with the empty text.
PickerInit ==
  /\ picker = [text |-> Blank, due |-> {Blank}, last |-> {}, options |-> {},
               showDropdown |-> FALSE, isLoading |-> FALSE, ended |-> FALSE]
  /\ searching = {}
  /\ chosen = {}
  /\ naming = [c \in Clients |-> 0]
  /\ named = FALSE

\* The effect on the input: a client that differs has its name read.
ReadName(c) == naming' = IF chosen = {c} THEN naming ELSE [naming EXCEPT ![c] = @ + 1]

\* The form is given its client, by the record it loads or the link it was opened by.
GivenClient(c) ==
  /\ chosen = {} /\ naming[c] < MaxNames
  /\ ReadName(c) /\ chosen' = {c} /\ named' = FALSE
  /\ UNCHANGED <<picker, searching>>

\* onInputChange: a stream that has ended hears nothing.
TypeText(q) ==
  /\ picker.text # q
  /\ picker' = [picker EXCEPT !.text = q, !.due = IF picker.ended THEN {} ELSE {q}]
  /\ named' = FALSE
  /\ UNCHANGED <<searching, chosen, naming>>

\* Mutation: searches are not cancelled, and the last to answer is shown.
SwitchTo_Merged(q) == searching' = searching \cup ({q} \ {Blank})

\* The switchMap: a search under way is dropped, and none is made for no text.
SwitchTo(q) == searching' = {q} \ {Blank}

\* The debounce ends.  Emptying the box closes the list; the spinner of a search
\* that is dropped so stays.
SearchDue(q) ==
  /\ picker.due = {q}
  /\ \/ /\ picker.last = {q}
        /\ picker' = [picker EXCEPT !.due = {}]
        /\ UNCHANGED searching
     \/ /\ picker.last # {q}
        /\ picker' = [picker EXCEPT !.due = {}, !.last = {q},
             !.showDropdown = (q # Blank), !.isLoading = @ \/ q # Blank]
        /\ SwitchTo(q)
  /\ UNCHANGED <<chosen, naming, named>>

SearchArrives(q) ==
  /\ q \in searching
  /\ searching' = searching \ {q}
  /\ picker' = [picker EXCEPT !.options = {q}, !.isLoading = FALSE]
  /\ UNCHANGED <<chosen, naming, named>>

\* The error handler is that of the whole stream: nothing is searched for again.
SearchFails(q) ==
  /\ q \in searching
  /\ searching' = searching \ {q}
  /\ picker' = [picker EXCEPT !.options = {}, !.due = {}, !.isLoading = FALSE,
                              !.ended = TRUE]
  /\ UNCHANGED <<chosen, naming, named>>

\* Mutation: the box is left to the read of the name.
OnSelected_Unnamed(c) ==
  /\ picker.showDropdown /\ picker.options # {} /\ naming[c] < MaxNames
  /\ PicksWait => \A d \in Clients : naming[d] = 0
  /\ picker' = [picker EXCEPT !.showDropdown = FALSE]
  /\ ReadName(c) /\ chosen' = {c}
  /\ named' = TRUE
  /\ UNCHANGED searching

\* A client found, by the last search or the one before it, is picked.  A text still
\* waiting for its debounce goes on waiting.
OnSelected(c) ==
  /\ picker.showDropdown /\ picker.options # {} /\ naming[c] < MaxNames
  /\ PicksWait => \A d \in Clients : naming[d] = 0
  /\ picker' = [picker EXCEPT !.text = c, !.showDropdown = FALSE]
  /\ ReadName(c) /\ chosen' = {c}
  /\ named' = TRUE
  /\ UNCHANGED searching

NameArrives(c) ==
  /\ naming[c] > 0
  /\ naming' = [naming EXCEPT ![c] = @ - 1]
  /\ picker' = [picker EXCEPT !.text = c]
  /\ named' = TRUE
  /\ UNCHANGED <<searching, chosen>>

NameFails(c) ==
  /\ naming[c] > 0
  /\ naming' = [naming EXCEPT ![c] = @ - 1]
  /\ UNCHANGED <<picker, searching, chosen, named>>

-----------------------------------------------------------------------------
PickerNext ==
  \/ \E q \in Queries : TypeText(q) \/ SearchDue(q) \/ SearchArrives(q) \/ SearchFails(q)
  \/ \E c \in Clients : GivenClient(c) \/ OnSelected(c) \/ NameArrives(c) \/ NameFails(c)

PickerSpec == PickerInit /\ [][PickerNext]_pickerVars

-----------------------------------------------------------------------------
(***************************************************************************)
(* Properties                                                              *)
(***************************************************************************)

\* What is on offer once a search has been answered is what was found for the last
\* text searched for, whatever is typed, picked and answered in between.
OffersAnswerTheSearch ==
  picker.showDropdown /\ ~picker.isLoading /\ ~picker.ended =>
    picker.options = picker.last

\* The name in the box is that of the client whose id the form sends, unless the user
\* typed over it; for a user who does not pick while a name is being read.
NameIsOfTheClient ==
  chosen # {} /\ named /\ (\A c \in Clients : naming[c] = 0) =>
    chosen = {picker.text}
=============================================================================
