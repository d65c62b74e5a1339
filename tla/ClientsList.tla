----------------------------- MODULE ClientsList -----------------------------
(***************************************************************************)
(* The clients list (features/clients/clients-list) with the data table,   *)
(* the search box and the paginator it is built from.                      *)
(*                                                                         *)
(* Five subjects feed one switchMap.  The table keeps a page, a page size  *)
(* and a sort of its own, linked to what the list binds; the search box    *)
(* waits 400 ms before it says what was typed; and two endpoints answer,   *)
(* one that cannot sort by office and one that may not know the total.     *)
(***************************************************************************)
EXTENDS Naturals

CONSTANTS
  Texts,         \* what may be typed, "" included
  Statuses,      \* the status filter, "" (all) included
  Sizes,         \* page sizes on offer
  FirstSize,     \* the page size the list starts with
  MaxRecords     \* bound: records that match at any time

\* No text was typed; no status was chosen.
All == ""

Columns == {"name", "office"}
Sorts == Columns \cup {"none"}
Pages == 0..MaxRecords

ASSUME ListAssumption ==
  /\ All \in Texts /\ All \in Statuses
  /\ Sizes \subseteq Nat \ {0} /\ FirstSize \in Sizes
  /\ MaxRecords \in Nat

VARIABLES
  list,      \* ClientsListComponent: its query and its signals
  table,     \* DataTableComponent: its linked signals, and the search box
  sent,      \* the questions whose answers are awaited
  shown      \* the rows: what they answer, how many match, and the total reported

listVars == <<list, table, sent, shown>>

Question == [page : Pages, size : Sizes, text : Texts, status : Statuses,
             order : Sorts]
\* What the rows answer: one question, or nothing.
Nothing == {}
Answers == {{q} : q \in Question}
NoRows == [answers |-> Nothing, matching |-> 0, total |-> 0]

ListTypeOK ==
  /\ list \in [open : BOOLEAN, page : Pages, size : Sizes, text : Texts,
               status : Statuses, sort : Sorts, isLoading : BOOLEAN,
               hasError : BOOLEAN]
  /\ table \in [page : Pages, size : Sizes, sort : Sorts, box : Texts,
                due : BOOLEAN]
  /\ sent \subseteq Question
  /\ shown \in [answers : Answers \cup {Nothing}, matching : 0..MaxRecords,
                total : Nat]

-----------------------------------------------------------------------------
(* The query *)

\* usesNameSearch(): the v1 endpoint, for a status or to sort by office.
UsesNameSearch(q) ==
  q.status # All \/ (q.text = All /\ q.sort = "office")

\* Mutation: the order the other endpoint cannot give is left on the table.
Settled_AnySort(q) == q

\* updateSearchPlaceholder(): a broad search drops the order by office.
Settled(q) ==
  IF q.text # All /\ q.status = All /\ q.sort = "office"
    THEN [q EXCEPT !.sort = "none"] ELSE q

\* loadClients(): the request, in the order its endpoint can give.
Requested(q) ==
  [page |-> q.page, size |-> q.size, text |-> q.text, status |-> q.status,
   order |-> IF UsesNameSearch(q) \/ q.sort # "office" THEN q.sort ELSE "none"]

\* Mutation: answers are awaited side by side (mergeMap).
Load_Merged(q) ==
  /\ list' = [q EXCEPT !.isLoading = TRUE]
  /\ sent' = sent \cup {Requested(q)}
  /\ UNCHANGED shown

\* Mutation: the spinner is turned on before the switch, whose finalize turns it off.
Load_SpinnerFirst(q) ==
  /\ list' = [q EXCEPT !.isLoading = (sent = {})]
  /\ sent' = {Requested(q)}
  /\ UNCHANGED shown

\* The switchMap: the request under way is dropped, with its finalize, before the
\* spinner is turned on for the next.
Load(q) ==
  /\ list' = [q EXCEPT !.isLoading = TRUE]
  /\ sent' = {Requested(q)}
  /\ UNCHANGED shown

\* The table's linked signals follow what the list binds.
Follow(t) == table' = [t EXCEPT !.page = list'.page, !.size = list'.size,
                                !.sort = list'.sort]

ListInit ==
  /\ list = [open |-> FALSE, page |-> 0, size |-> FirstSize, text |-> All,
             status |-> All, sort |-> "none", isLoading |-> FALSE, hasError |-> FALSE]
  /\ table = [page |-> 0, size |-> FirstSize, sort |-> "none", box |-> All,
              due |-> FALSE]
  /\ sent = {} /\ shown = NoRows

\* The constructor: the stream starts with a load.
OpenClients ==
  /\ ~list.open
  /\ Load([list EXCEPT !.open = TRUE])
  /\ Follow(table)

-----------------------------------------------------------------------------
(* The user *)

\* The search box: the debounce starts again.
OnInput(text) ==
  /\ list.open /\ text # table.box
  /\ table' = [table EXCEPT !.box = text, !.due = TRUE]
  /\ UNCHANGED <<list, sent, shown>>

\* The debounce ends; a text equal to the last one emitted is not emitted.
Debounced ==
  /\ table.due
  /\ \/ /\ table.box # list.text
        /\ Load(Settled([list EXCEPT !.text = table.box, !.page = 0]))
        /\ Follow([table EXCEPT !.due = FALSE])
     \/ /\ table.box = list.text
        /\ table' = [table EXCEPT !.due = FALSE]
        /\ UNCHANGED <<list, sent, shown>>

\* onFilterChange(), after ngModel has written the status.
OnFilterChange(status) ==
  /\ list.open /\ status # list.status
  /\ Load(Settled([list EXCEPT !.status = status, !.page = 0]))
  /\ Follow(table)

\* The office column sorts unless the search is a broad one.
Sortable(column) == column # "office" \/ list.text = All \/ list.status # All

\* A header is clicked: ascending, descending, then unsorted again.
OnSort(column) ==
  /\ list.open /\ Sortable(column) /\ ~list.hasError
  /\ \E sort \in {column} \cup (IF table.sort = column THEN {"none"} ELSE {}) :
       Load(Settled([list EXCEPT !.sort = sort, !.page = 0]))
  /\ Follow(table)

\* Mutation: the last page is one too far when the rows fill it.
LastPageIndex_Floor(size) == shown.total \div size

\* lastPageIndex
LastPageIndex(size) ==
  IF shown.total = 0 THEN 0 ELSE ((shown.total + size - 1) \div size) - 1

HasNext == shown.total > 0 /\ table.page < LastPageIndex(table.size)
\* Mutation: the way back is offered on the first page as well.
HasPrevious_Always == TRUE

HasPrevious == table.page > 0

\* Where goTo(page) leads.
Target(page) ==
  IF page > LastPageIndex(table.size) THEN LastPageIndex(table.size) ELSE page

OnPage(page, size) ==
  /\ list.open /\ ~list.hasError
  /\ Load([list EXCEPT !.page = page, !.size = size])
  /\ Follow(table)

GoNext == HasNext /\ OnPage(Target(table.page + 1), table.size)
GoPrevious == HasPrevious /\ OnPage(Target(table.page - 1), table.size)
GoLast == HasNext /\ OnPage(LastPageIndex(table.size), table.size)
GoFirst == HasPrevious /\ OnPage(0, table.size)

\* onPageSizeChange: the first record on screen stays in view.
OnPageSizeChange(size) ==
  /\ size # table.size
  /\ OnPage((table.page * table.size) \div size, size)

OnRetryList == list.hasError /\ Load(list) /\ Follow(table)

-----------------------------------------------------------------------------
(* The endpoints *)

\* The total that `matching` records are reported as: v1 may only know that there
\* is at least one more than the page it returns.
Totals(q, matching) ==
  LET beyond == (q.page + 1) * q.size IN
  {matching} \cup
    (IF q.order = "office" \/ q.status # All
       THEN {beyond + 1 : x \in {y \in {matching} : y > beyond}} ELSE {})

ListArrives(q, matching) ==
  /\ q \in sent
  /\ \E total \in Totals(q, matching) :
       shown' = [answers |-> {q}, matching |-> matching, total |-> total]
  /\ sent' = sent \ {q}
  /\ list' = [list EXCEPT !.isLoading = FALSE, !.hasError = FALSE]
  /\ UNCHANGED table

ListFails(q) ==
  /\ q \in sent
  /\ shown' = NoRows
  /\ sent' = sent \ {q}
  /\ list' = [list EXCEPT !.isLoading = FALSE, !.hasError = TRUE]
  /\ UNCHANGED table

ListEnds ==
  \E q \in sent : ListFails(q) \/ \E n \in 0..MaxRecords : ListArrives(q, n)

ListNext ==
  \/ OpenClients
  \/ \E text \in Texts : OnInput(text)
  \/ Debounced
  \/ \E status \in Statuses : OnFilterChange(status)
  \/ \E column \in Columns : OnSort(column)
  \/ GoNext \/ GoPrevious \/ GoFirst \/ GoLast
  \/ \E size \in Sizes : OnPageSizeChange(size)
  \/ OnRetryList
  \/ ListEnds

ListSafe == ListInit /\ [][ListNext]_listVars

\* A request is answered or fails, however often the user changes the question.
ListFairness == WF_listVars(ListEnds)

ListSpec == ListSafe /\ ListFairness

-----------------------------------------------------------------------------
(***************************************************************************)
(* Properties                                                              *)
(***************************************************************************)

AtRest == list.open /\ ~list.isLoading /\ ~list.hasError

\* At rest the rows answer what the controls on screen say: the page, the size and
\* the sort arrow of the table, the status, and the text in the box once it is not
\* being typed.  An order the endpoint cannot give is not left on the table.
RowsAnswerTheControls ==
  AtRest => /\ shown.answers = {[page |-> table.page, size |-> table.size,
                                 text |-> list.text, status |-> list.status,
                                 order |-> table.sort]}
            /\ ~table.due => table.box = list.text

\* At rest, whoever matches can be paged to: there is a next page exactly one on
\* while records remain, and from a page that the records have shrunk below, the
\* page before leads to records.  Whether or not the endpoint knows the total.
RecordsAreInReach ==
  AtRest =>
    /\ shown.matching > (table.page + 1) * table.size =>
         HasNext /\ Target(table.page + 1) = table.page + 1
    /\ shown.matching > 0 /\ shown.matching <= table.page * table.size =>
         HasPrevious /\ Target(table.page - 1) * table.size < shown.matching

\* The list implements LatestAnswer: however subjects, answers and failures
\* interleave, only the answer to the last question is ever shown.
Latest == INSTANCE LatestAnswer WITH
  Questions <- Answers, Nothing <- Nothing,
  asked <- {Requested(list)}, waiting <- list.isLoading, shown <- shown.answers

ImplementsLatest == Latest!LatestSafe

\* The list loads.
ListWaits == list.isLoading
=============================================================================
