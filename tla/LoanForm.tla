------------------------------ MODULE LoanForm ------------------------------
(***************************************************************************)
(* The loan application form (features/loans/loan-form): a new application *)
(* whose terms are filled in from the product picked, or a loan to edit.   *)
(*                                                                         *)
(* Products, the details of each product picked, the record and the        *)
(* platform's date arrive in any order, and nothing cancels the one asked  *)
(* for before.  A value is modelled by where it comes from: the officer,   *)
(* the record, or the product whose default it is.                         *)
(***************************************************************************)
EXTENDS Naturals

CONSTANTS
  Products,      \* loan products, as strings
  Progressive,   \* those of the progressive schedule type
  RowNamed,      \* those whose row in the product list names a strategy
  Terms,         \* the required terms: principal, numberOfRepayments ...
  PicksAtRest,   \* TRUE: a product is picked only when no details are awaited
  MaxAsks        \* bound: requests for one product's details under way

ASSUME LoanAssumption ==
  /\ Progressive \subseteq Products /\ RowNamed \subseteq Products
  /\ Products \cap {"none", "typed", "record"} = {}
  /\ PicksAtRest \in BOOLEAN /\ MaxAsks \in Nat

VARIABLES
  loan,      \* LoanFormComponent: the request it binds to and its signals
  details,   \* selectedProductDetails: the product described, if any
  asked,     \* how many requests for each product's details are under way
  request    \* history: the request posted or put last

loanVars == <<loan, details, asked, request>>

TermValues == Products \cup {"none", "typed", "record"}
\* "other": a strategy of a cumulative loan that is not its product's.
Strategies == {"none", "standard", "advanced", "other"}

\* first: a first repayment date is chosen in the picker.  firstSent: the request
\* object carries one.
LoanTypeOK ==
  /\ loan \in [stage : {"loading", "ready", "left"}, edit : BOOLEAN,
               rows : BOOLEAN, seeded : BOOLEAN, product : SUBSET Products,
               terms : [Terms -> TermValues], strategy : Strategies, flag : BOOLEAN,
               date : {"browser", "platform", "record", "typed"},
               first : BOOLEAN, firstSent : BOOLEAN, isSaving : BOOLEAN]
  /\ details \in {{}} \cup {{p} : p \in Products}
  /\ asked \in [Products -> 0..MaxAsks]
  /\ request \subseteq [edit : BOOLEAN, product : Products,
                        terms : [Terms -> TermValues], strategy : Strategies,
                        flag : BOOLEAN, first : BOOLEAN, firstSent : BOOLEAN]

StrategyOf(p) == IF p \in Progressive THEN "advanced" ELSE "standard"

\* ngOnInit.  The platform's date is asked for before the form knows whether it edits,
\* and may be answered at once.
LoanInit ==
  /\ \E edit, seeded \in BOOLEAN :
       loan = [stage |-> IF edit THEN "loading" ELSE "ready", edit |-> edit,
               rows |-> FALSE, seeded |-> seeded, product |-> {},
               terms |-> [t \in Terms |-> "none"], strategy |-> "none", flag |-> FALSE,
               date |-> IF seeded THEN "platform" ELSE "browser",
               first |-> FALSE, firstSent |-> FALSE, isSaving |-> FALSE]
  /\ details = {} /\ asked = [p \in Products |-> 0]
  /\ request = {}

-----------------------------------------------------------------------------
(* What arrives *)

RowsArrive ==
  /\ ~loan.rows /\ loan' = [loan EXCEPT !.rows = TRUE]
  /\ UNCHANGED <<details, asked, request>>

\* Mutation: the date is seeded whatever the form turned out to be.
Seeded_Always == "platform"

Seeded == IF loan.edit THEN loan.date ELSE "platform"

\* seedPlatformDates(), answered.
SeedArrives ==
  /\ ~loan.seeded /\ loan' = [loan EXCEPT !.seeded = TRUE, !.date = Seeded]
  /\ UNCHANGED <<details, asked, request>>

\* Mutation: the checkboxes of the product before are kept.
Reselect_KeepsFlag(l, p) ==
  /\ loan' = [l EXCEPT !.product = {p}]
  /\ details' = {} /\ asked' = [asked EXCEPT ![p] = @ + 1]

\* onProductSelected(): the details before are dropped, those of p are asked for.
Reselect(l, p) ==
  /\ loan' = [l EXCEPT !.product = {p}, !.flag = l.edit /\ @]
  /\ details' = {} /\ asked' = [asked EXCEPT ![p] = @ + 1]

\* loadLoanData(), answered: only now is the form shown.
RecordArrives(p, dated, flag) ==
  /\ loan.stage = "loading" /\ asked[p] < MaxAsks
  /\ flag => p \in Progressive
  /\ \E strategy \in {StrategyOf(p)} \cup (IF p \in Progressive THEN {} ELSE {"other"}) :
       Reselect([loan EXCEPT !.stage = "ready", !.flag = flag,
                   !.terms = [t \in Terms |-> "record"], !.strategy = strategy,
                   !.date = IF dated THEN "record" ELSE @], p)
  /\ UNCHANGED request

\* A failed load shows the form all the same.
RecordFails ==
  /\ loan.stage = "loading" /\ loan' = [loan EXCEPT !.stage = "ready"]
  /\ UNCHANGED <<details, asked, request>>

\* Mutation: the defaults of the product replace what is there.
Keep_Replaces(t, p) == p

\* keep(): a default fills only what is empty.
Keep(t, p) == IF loan.terms[t] = "none" THEN p ELSE loan.terms[t]

\* Mutation: the defaults of the product fill an edited loan as well.
FilledIn_Always(p) ==
  [loan EXCEPT !.terms = [t \in Terms |-> p], !.strategy = StrategyOf(p)]

\* applyProductDefaults(): for a new application only.
FilledIn(p) ==
  IF loan.edit THEN loan
  ELSE [loan EXCEPT !.terms = [t \in Terms |-> Keep(t, p)],
                    !.strategy = IF @ = "none" THEN StrategyOf(p) ELSE @]

DetailsArrive(p) ==
  /\ asked[p] > 0 /\ asked' = [asked EXCEPT ![p] = @ - 1]
  /\ details' = {p} /\ loan' = FilledIn(p)
  /\ UNCHANGED request

DetailsFail(p) ==
  /\ asked[p] > 0 /\ asked' = [asked EXCEPT ![p] = @ - 1]
  /\ UNCHANGED <<loan, details, request>>

-----------------------------------------------------------------------------
(* The officer *)

Editable == loan.stage = "ready"

PickProduct(p) ==
  /\ Editable /\ ~loan.edit /\ loan.rows /\ loan.product # {p} /\ asked[p] < MaxAsks
  /\ PicksAtRest => \A q \in Products : asked[q] = 0
  /\ Reselect(loan, p)
  /\ UNCHANGED request

TypeTerm(t) ==
  /\ Editable /\ loan' = [loan EXCEPT !.terms[t] = "typed"]
  /\ UNCHANGED <<details, asked, request>>

ClearTerm(t) ==
  /\ Editable /\ loan.terms[t] # "none"
  /\ loan' = [loan EXCEPT !.terms[t] = "none"]
  /\ UNCHANGED <<details, asked, request>>

TypeDate ==
  /\ Editable /\ loan' = [loan EXCEPT !.date = "typed"]
  /\ UNCHANGED <<details, asked, request>>

\* interestRecognitionOnDisbursementDate and allowFullTermForTranche, shown while the
\* details of a progressive product are.
Tick ==
  /\ Editable /\ details # {} /\ details \subseteq Progressive
  /\ loan' = [loan EXCEPT !.flag = ~@]
  /\ UNCHANGED <<details, asked, request>>

\* A first repayment date is chosen; a new application may take it back.
ChooseFirst(chosen) ==
  /\ Editable /\ loan.first # chosen /\ (chosen \/ ~loan.edit)
  /\ loan' = [loan EXCEPT !.first = chosen]
  /\ UNCHANGED <<details, asked, request>>

\* The schedule type as far as it is known: from the details, or from the list.
KnownProgressive ==
  \/ details # {} /\ details \subseteq Progressive
  \/ details = {} /\ loan.rows /\ loan.product \subseteq Progressive

\* Where onSubmit takes the strategy from.
Copied ==
  IF details # {} THEN {StrategyOf(p) : p \in details}
  ELSE IF loan.rows /\ loan.product \subseteq RowNamed
    THEN {StrategyOf(p) : p \in loan.product}
  ELSE IF loan.strategy # "none" THEN {loan.strategy}
  ELSE {IF KnownProgressive THEN "advanced" ELSE "standard"}

\* Mutation: what was copied is not held against the schedule type.
Strategy_AsCopied == CHOOSE s \in Copied : TRUE

Strategy == IF KnownProgressive THEN "advanced" ELSE CHOOSE s \in Copied : TRUE

\* Mutation: a date that a refused request carried stays in the request object.
FirstSent_Kept == loan.first \/ loan.firstSent

\* repaymentsStartingFromDate in the request: deleted from a new application.
FirstSent == loan.first \/ (loan.edit /\ loan.firstSent)

OnSubmitLoan ==
  /\ Editable /\ ~loan.isSaving /\ \A t \in Terms : loan.terms[t] # "none"
  /\ \E p \in loan.product :
       request' = {[edit |-> loan.edit, product |-> p, terms |-> loan.terms,
                    strategy |-> Strategy, flag |-> loan.flag, first |-> loan.first,
                    firstSent |-> FirstSent]}
  /\ loan' = [loan EXCEPT !.isSaving = TRUE, !.strategy = Strategy,
                          !.firstSent = FirstSent]
  /\ UNCHANGED <<details, asked>>

\* Accepted, the record is shown; refused, the form stays as it is.
Submitted(accepted) ==
  /\ loan.isSaving
  /\ loan' = [loan EXCEPT !.isSaving = FALSE, !.stage = IF accepted THEN "left" ELSE @]
  /\ UNCHANGED <<details, asked, request>>

-----------------------------------------------------------------------------
LoanArrives ==
  \/ RowsArrive \/ SeedArrives \/ RecordFails
  \/ \E p \in Products :
       \/ \E dated, flag \in BOOLEAN : RecordArrives(p, dated, flag)
       \/ DetailsArrive(p) \/ DetailsFail(p)

LoanNext ==
  \/ LoanArrives
  \/ \E p \in Products : PickProduct(p)
  \/ \E t \in Terms : TypeTerm(t) \/ ClearTerm(t)
  \/ TypeDate \/ Tick \/ (\E chosen \in BOOLEAN : ChooseFirst(chosen))
  \/ OnSubmitLoan \/ (\E accepted \in BOOLEAN : Submitted(accepted))

LoanSpec == LoanInit /\ [][LoanNext]_loanVars

-----------------------------------------------------------------------------
(***************************************************************************)
(* Properties                                                              *)
(***************************************************************************)

\* "Anything the operator has already typed is left alone", and a loan that is edited
\* keeps the terms of its record, and its date if it has one ("must not have them
\* overwritten"): whichever products are picked afterwards, and however late their
\* defaults, the record or the platform's date arrive, only the officer changes them.
DeliberateIsKept ==
  [][/\ \A t \in Terms : loan.terms[t] \in {"typed", "record"} =>
                           loan'.terms[t] \in {loan.terms[t], "typed", "none"}
     /\ loan.date = "record" => loan'.date \in {"record", "typed"}]_loanVars

\* "Never fall back to the standard strategy for a progressive product": whether its
\* details have arrived, are late or have failed, and whatever product was picked
\* before; for an officer who does not pick another while details are awaited.
ProgressiveIsAdvanced ==
  \A r \in request : r.product \in Progressive => r.strategy = "advanced"

\* Two things that could be left over are not sent.  The checkboxes of progressive
\* loans are sent for progressive products only, though they are no longer on screen
\* when another product has been picked; and the first repayment date is sent as it is
\* chosen, also after a refused application that carried another choice.  It says
\* nothing of the terms (TermsAreOfTheProduct does, and is refuted) nor of a strategy
\* that a refused try may leave for a cumulative product.
NoFlagOrDateLeftOver ==
  \A r \in request : /\ r.flag => r.product \in Progressive
                     /\ r.edit \/ r.firstSent = r.first

-----------------------------------------------------------------------------
(* What a comment of the code says of it, and a run refutes.                 *)

\* loan-form.component.ts: applyProductDefaults "Seeds the terms from the product the
\* user just picked", so that no loan is booked "on terms the product never described":
\* what an application sends is typed, or a default of the product it names.
TermsAreOfTheProduct ==
  \A r \in request : ~r.edit => \A t \in Terms : r.terms[t] \in {"typed", r.product}
=============================================================================
