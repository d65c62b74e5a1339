------------------------- MODULE FormsAndMenu_proofs -------------------------
(***************************************************************************)
(* Proofs about the loan form, for any products, terms and number of       *)
(* requests; about the preview of a cron expression, for any expression    *)
(* and time; and about the menu, for any tree of upstream's and any        *)
(* entries a deployment adds and moves.                                    *)
(***************************************************************************)
EXTENDS FormsAndMenu, FiniteSetTheorems, SequenceTheorems, TLAPS

-----------------------------------------------------------------------------
(* The loan form *)

LoanState == [stage : {"loading", "ready", "left"}, edit : BOOLEAN,
              rows : BOOLEAN, seeded : BOOLEAN, product : SUBSET Products,
              terms : [Terms -> TermValues], strategy : Strategies, flag : BOOLEAN,
              date : {"browser", "platform", "record", "typed"},
              first : BOOLEAN, firstSent : BOOLEAN, isSaving : BOOLEAN]
Request == [edit : BOOLEAN, product : Products, terms : [Terms -> TermValues],
            strategy : Strategies, flag : BOOLEAN, first : BOOLEAN,
            firstSent : BOOLEAN]

LEMMA StrategyOfTyped ==
  ASSUME NEW p
  PROVE  /\ StrategyOf(p) \in Strategies
         /\ p \in Progressive => StrategyOf(p) = "advanced"
  BY DEF StrategyOf, Strategies

(* onSubmit sends a strategy, and copies one only if there is something to copy. *)
LEMMA StrategyTyped ==
  ASSUME LoanTypeOK, loan.product # {}
  PROVE  /\ Strategy \in Strategies
         /\ KnownProgressive => Strategy = "advanced"
         /\ details = {} /\ ~loan.rows /\ loan.strategy = "advanced" => Strategy = "advanced"
  <1>1. Copied # {} /\ Copied \subseteq Strategies
    <2>1. CASE details # {}
      BY <2>1, StrategyOfTyped DEF Copied
    <2>2. CASE details = {}
      BY <2>2, StrategyOfTyped DEF Copied, LoanTypeOK, Strategies
    <2> QED
      BY <2>1, <2>2
  <1>2. (CHOOSE s \in Copied : TRUE) \in Copied
    BY <1>1
  <1>3. details = {} /\ ~loan.rows /\ loan.strategy = "advanced" => Copied = {"advanced"}
    BY DEF Copied
  <1> QED
    BY <1>1, <1>2, <1>3 DEF Strategy, Strategies

(* A request to the platform keeps the counters in their bounds. *)
LEMMA ReselectTyped ==
  ASSUME LoanAssumption, LoanTypeOK, NEW l \in LoanState, NEW p \in Products,
         asked[p] < MaxAsks, Reselect(l, p)
  PROVE  /\ loan' \in LoanState
         /\ loan' = [l EXCEPT !.product = {p}, !.flag = l.edit /\ l.flag]
         /\ details' \in {{}} \cup {{q} : q \in Products}
         /\ asked' \in [Products -> 0..MaxAsks]
  <1>1. asked[p] + 1 \in 0..MaxAsks
    BY DEF LoanTypeOK, LoanAssumption
  <1>2. asked' \in [Products -> 0..MaxAsks]
    BY <1>1 DEF Reselect, LoanTypeOK
  <1>3. loan' = [l EXCEPT !.product = {p}, !.flag = l.edit /\ l.flag]
    BY DEF Reselect
  <1>4. (l.edit /\ l.flag) \in BOOLEAN
    OBVIOUS
  <1>5. loan' \in LoanState
    BY <1>3, <1>4 DEF LoanState
  <1> QED
    BY <1>2, <1>3, <1>5 DEF Reselect

LEMMA LoanTypeStep ==
  ASSUME LoanAssumption, LoanTypeOK, [LoanNext]_loanVars
  PROVE  LoanTypeOK'
  <1>0. loan \in LoanState /\ request \subseteq Request
        /\ details \in {{}} \cup {{p} : p \in Products}
        /\ asked \in [Products -> 0..MaxAsks]
    BY DEF LoanTypeOK, LoanState, Request
  <1>k. ASSUME loan' \in LoanState, request' \subseteq Request,
               details' \in {{}} \cup {{p} : p \in Products},
               asked' \in [Products -> 0..MaxAsks]
        PROVE  LoanTypeOK'
    BY <1>k DEF LoanTypeOK, LoanState, Request
  <1>a. ASSUME NEW p \in Products, asked[p] > 0
        PROVE  [asked EXCEPT ![p] = @ - 1] \in [Products -> 0..MaxAsks]
    <2>1. asked[p] - 1 \in 0..MaxAsks
      BY <1>0, <1>a DEF LoanAssumption
    <2> QED
      BY <1>0, <2>1
  <1>1. CASE RowsArrive
    BY <1>0, <1>1, <1>k DEF RowsArrive, LoanState
  <1>2. CASE SeedArrives
    BY <1>0, <1>2, <1>k DEF SeedArrives, Seeded, LoanState
  <1>3. CASE RecordFails
    BY <1>0, <1>3, <1>k DEF RecordFails, LoanState
  <1>4. ASSUME NEW p \in Products, NEW dated \in BOOLEAN, NEW flag \in BOOLEAN,
               RecordArrives(p, dated, flag)
        PROVE  LoanTypeOK'
    <2>1. PICK strategy \in Strategies :
            Reselect([loan EXCEPT !.stage = "ready", !.flag = flag,
                        !.terms = [t \in Terms |-> "record"], !.strategy = strategy,
                        !.date = IF dated THEN "record" ELSE @], p)
      BY <1>4, StrategyOfTyped DEF RecordArrives, Strategies
    <2>2. [loan EXCEPT !.stage = "ready", !.flag = flag,
             !.terms = [t \in Terms |-> "record"], !.strategy = strategy,
             !.date = IF dated THEN "record" ELSE @] \in LoanState
      <3>1. [t \in Terms |-> "record"] \in [Terms -> TermValues]
        BY DEF TermValues
      <3> QED
        BY <1>0, <3>1 DEF LoanState
    <2>3. asked[p] < MaxAsks /\ UNCHANGED request
      BY <1>4 DEF RecordArrives
    <2> QED
      BY <1>0, <1>k, <2>1, <2>2, <2>3, ReselectTyped
  <1>5. ASSUME NEW p \in Products, DetailsArrive(p)
        PROVE  LoanTypeOK'
    <2>1. FilledIn(p) \in LoanState
      <3>1. [t \in Terms |-> Keep(t, p)] \in [Terms -> TermValues]
        BY <1>0 DEF Keep, TermValues, LoanState
      <3> QED
        BY <1>0, <3>1, StrategyOfTyped DEF FilledIn, LoanState
    <2>2. asked' \in [Products -> 0..MaxAsks]
      BY <1>5, <1>a DEF DetailsArrive
    <2> QED
      BY <1>0, <1>5, <1>k, <2>1, <2>2 DEF DetailsArrive
  <1>6. ASSUME NEW p \in Products, DetailsFail(p)
        PROVE  LoanTypeOK'
    <2>1. asked' \in [Products -> 0..MaxAsks]
      BY <1>6, <1>a DEF DetailsFail
    <2> QED
      BY <1>0, <1>6, <1>k, <2>1 DEF DetailsFail
  <1>7. ASSUME NEW p \in Products, PickProduct(p)
        PROVE  LoanTypeOK'
    BY <1>0, <1>7, <1>k, ReselectTyped DEF PickProduct
  <1>8. ASSUME NEW t \in Terms, TypeTerm(t) \/ ClearTerm(t)
        PROVE  LoanTypeOK'
    <2>1. \A v \in {"typed", "none"} : [loan EXCEPT !.terms[t] = v] \in LoanState
      BY <1>0 DEF LoanState, TermValues
    <2> QED
      BY <1>0, <1>8, <1>k, <2>1 DEF TypeTerm, ClearTerm
  <1>9. CASE TypeDate
    BY <1>0, <1>9, <1>k DEF TypeDate, LoanState
  <1>10. CASE Tick
    <2>1. (~loan.flag) \in BOOLEAN
      OBVIOUS
    <2>2. [loan EXCEPT !.flag = ~loan.flag] \in LoanState
      BY <1>0, <2>1 DEF LoanState
    <2> QED
      BY <1>0, <1>10, <1>k, <2>2 DEF Tick
  <1>11. ASSUME NEW chosen \in BOOLEAN, ChooseFirst(chosen)
         PROVE  LoanTypeOK'
    BY <1>0, <1>11, <1>k DEF ChooseFirst, LoanState
  <1>12. CASE OnSubmitLoan
    <2>1. PICK p \in loan.product :
            request' = {[edit |-> loan.edit, product |-> p, terms |-> loan.terms,
                         strategy |-> Strategy, flag |-> loan.flag, first |-> loan.first,
                         firstSent |-> FirstSent]}
      BY <1>12 DEF OnSubmitLoan
    <2>2. Strategy \in Strategies /\ FirstSent \in BOOLEAN /\ p \in Products
      BY <1>0, <2>1, StrategyTyped DEF FirstSent, LoanState
    <2>3. request' \subseteq Request
      BY <1>0, <2>1, <2>2 DEF Request, LoanState
    <2>4. loan' \in LoanState
      BY <1>0, <1>12, <2>2 DEF OnSubmitLoan, LoanState
    <2> QED
      BY <1>0, <1>12, <1>k, <2>3, <2>4 DEF OnSubmitLoan
  <1>13. ASSUME NEW accepted \in BOOLEAN, Submitted(accepted)
         PROVE  LoanTypeOK'
    BY <1>0, <1>13, <1>k DEF Submitted, LoanState
  <1>14. CASE UNCHANGED loanVars
    BY <1>14 DEF loanVars, LoanTypeOK
  <1> QED
    BY <1>1, <1>2, <1>3, <1>4, <1>5, <1>6, <1>7, <1>8, <1>9, <1>10, <1>11, <1>12, <1>13,
       <1>14 DEF LoanNext, LoanArrives

LEMMA LoanTypeInit ==
  ASSUME LoanAssumption, LoanInit
  PROVE  LoanTypeOK
  <1>1. [t \in Terms |-> "none"] \in [Terms -> TermValues]
    BY DEF TermValues
  <1>2. loan \in LoanState
    BY <1>1 DEF LoanInit, LoanState, Strategies
  <1>3. asked \in [Products -> 0..MaxAsks]
    BY DEF LoanInit, LoanAssumption
  <1> QED
    BY <1>2, <1>3 DEF LoanInit, LoanTypeOK, LoanState

-----------------------------------------------------------------------------
(* What is deliberate is kept *)

\* A form that has not shown its record yet has asked for nothing and holds nothing;
\* and only a record that is edited has set a date.
Untouched ==
  /\ loan.stage = "loading" =>
       /\ loan.edit /\ loan.product = {} /\ details = {}
       /\ \A p \in Products : asked[p] = 0
       /\ \A t \in Terms : loan.terms[t] = "none"
  /\ loan.date = "record" => loan.edit

LEMMA UntouchedInit ==
  ASSUME LoanInit
  PROVE  Untouched
  BY DEF LoanInit, Untouched

LEMMA UntouchedStep ==
  ASSUME LoanAssumption, LoanTypeOK, Untouched, [LoanNext]_loanVars
  PROVE  Untouched'
  <1>0. loan \in LoanState /\ asked \in [Products -> 0..MaxAsks]
    BY DEF LoanTypeOK, LoanState
  \* The stage is not "loading" afterwards, and the date is not the record's unless
  \* the form edits.
  <1>k. ASSUME loan'.stage # "loading", loan'.date = "record" => loan'.edit
        PROVE  Untouched'
    BY <1>k DEF Untouched
  \* A form that is shown stays shown.
  <1>e. ASSUME Editable, loan'.stage = loan.stage, loan'.edit = loan.edit,
               loan'.date = "record" => loan.date = "record"
        PROVE  Untouched'
    BY <1>e, <1>k DEF Editable, Untouched
  <1>1. CASE RowsArrive
    <2>1. /\ loan' = [loan EXCEPT !.rows = TRUE] /\ UNCHANGED <<details, asked>>
      BY <1>1 DEF RowsArrive
    <2>2. /\ loan'.stage = loan.stage /\ loan'.edit = loan.edit /\ loan'.terms = loan.terms
          /\ loan'.product = loan.product /\ loan'.date = loan.date
      BY <1>0, <2>1 DEF LoanState
    <2> QED
      BY <2>1, <2>2 DEF Untouched
  <1>2. CASE SeedArrives
    <2>1. /\ loan' = [loan EXCEPT !.seeded = TRUE, !.date = Seeded]
          /\ UNCHANGED <<details, asked>>
      BY <1>2 DEF SeedArrives
    <2>2. /\ loan'.stage = loan.stage /\ loan'.edit = loan.edit /\ loan'.terms = loan.terms
          /\ loan'.product = loan.product
          /\ loan'.date = IF loan.edit THEN loan.date ELSE "platform"
      BY <1>0, <2>1 DEF LoanState, Seeded
    <2> QED
      BY <2>1, <2>2 DEF Untouched
  <1>3. CASE RecordFails
    <2>1. loan'.stage = "ready" /\ loan'.date = loan.date /\ loan'.edit = loan.edit
      BY <1>0, <1>3 DEF RecordFails, LoanState
    <2> QED
      BY <1>k, <2>1 DEF Untouched
  <1>4. ASSUME NEW p \in Products, NEW dated \in BOOLEAN, NEW flag \in BOOLEAN,
               RecordArrives(p, dated, flag)
        PROVE  Untouched'
    <2>1. loan'.stage = "ready" /\ loan'.edit = loan.edit /\ loan.stage = "loading"
      BY <1>0, <1>4 DEF RecordArrives, Reselect, LoanState
    <2> QED
      BY <1>k, <2>1 DEF Untouched
  <1>5. ASSUME NEW p \in Products, DetailsArrive(p)
        PROVE  Untouched'
    <2>1. asked[p] > 0 /\ loan' = FilledIn(p)
      BY <1>5 DEF DetailsArrive
    <2>2. loan.stage # "loading"
      BY <1>0, <2>1 DEF Untouched
    <2>3. loan'.stage = loan.stage /\ loan'.edit = loan.edit /\ loan'.date = loan.date
      BY <1>0, <2>1 DEF FilledIn, LoanState
    <2> QED
      BY <1>k, <2>2, <2>3 DEF Untouched
  <1>6. ASSUME NEW p \in Products, DetailsFail(p)
        PROVE  Untouched'
    <2>1. asked[p] > 0 /\ UNCHANGED loan
      BY <1>6 DEF DetailsFail
    <2>2. loan.stage # "loading"
      BY <1>0, <2>1 DEF Untouched
    <2> QED
      BY <1>k, <2>1, <2>2 DEF Untouched
  <1>7. ASSUME NEW p \in Products, PickProduct(p)
        PROVE  Untouched'
    <2>1. Editable /\ loan' = [loan EXCEPT !.product = {p}, !.flag = loan.edit /\ loan.flag]
      BY <1>7 DEF PickProduct, Reselect
    <2>2. loan'.stage = loan.stage /\ loan'.edit = loan.edit /\ loan'.date = loan.date
      BY <1>0, <2>1 DEF LoanState
    <2> QED
      BY <1>e, <2>1, <2>2
  <1>8. ASSUME NEW t \in Terms, TypeTerm(t) \/ ClearTerm(t)
        PROVE  Untouched'
    BY <1>0, <1>8, <1>e DEF TypeTerm, ClearTerm, LoanState
  <1>9. CASE TypeDate
    BY <1>0, <1>9, <1>e DEF TypeDate, LoanState
  <1>10. CASE Tick
    <2>1. Editable /\ loan' = [loan EXCEPT !.flag = ~loan.flag]
      BY <1>10 DEF Tick
    <2> QED
      BY <1>0, <1>e, <2>1 DEF LoanState
  <1>11. ASSUME NEW chosen \in BOOLEAN, ChooseFirst(chosen)
         PROVE  Untouched'
    BY <1>0, <1>11, <1>e DEF ChooseFirst, LoanState
  <1>12. CASE OnSubmitLoan
    BY <1>0, <1>12, <1>e DEF OnSubmitLoan, LoanState
  <1>13. ASSUME NEW accepted \in BOOLEAN, Submitted(accepted)
         PROVE  Untouched'
    <2>1. /\ loan' = [loan EXCEPT !.isSaving = FALSE,
                                  !.stage = IF accepted THEN "left" ELSE loan.stage]
          /\ UNCHANGED <<details, asked>>
      BY <1>13 DEF Submitted
    <2>2. /\ loan'.stage = (IF accepted THEN "left" ELSE loan.stage)
          /\ loan'.edit = loan.edit /\ loan'.terms = loan.terms
          /\ loan'.product = loan.product /\ loan'.date = loan.date
      BY <1>0, <2>1 DEF LoanState
    <2> QED
      BY <2>1, <2>2 DEF Untouched
  <1>14. CASE UNCHANGED loanVars
    BY <1>14 DEF loanVars, Untouched
  <1> QED
    BY <1>1, <1>2, <1>3, <1>4, <1>5, <1>6, <1>7, <1>8, <1>9, <1>10, <1>11, <1>12, <1>13,
       <1>14 DEF LoanNext, LoanArrives

\* What a step may do to the terms and the date.
Kept ==
  /\ \A t \in Terms : loan.terms[t] \in {"typed", "record"} =>
                        loan'.terms[t] \in {loan.terms[t], "typed", "none"}
  /\ loan.date = "record" => loan'.date \in {"record", "typed"}

LEMMA KeptByStep ==
  ASSUME LoanAssumption, LoanTypeOK, Untouched, [LoanNext]_loanVars
  PROVE  Kept
  <1>0. loan \in LoanState /\ asked \in [Products -> 0..MaxAsks]
    BY DEF LoanTypeOK, LoanState
  <1>k. ASSUME loan'.terms = loan.terms, loan'.date = loan.date
        PROVE  Kept
    BY <1>k DEF Kept
  <1>1. CASE RowsArrive
    BY <1>0, <1>1, <1>k DEF RowsArrive, LoanState
  <1>2. CASE SeedArrives
    <2>1. /\ loan'.terms = loan.terms
          /\ loan'.date = IF loan.edit THEN loan.date ELSE "platform"
      BY <1>0, <1>2 DEF SeedArrives, Seeded, LoanState
    <2> QED
      BY <2>1 DEF Kept, Untouched
  <1>3. CASE RecordFails
    BY <1>0, <1>3, <1>k DEF RecordFails, LoanState
  <1>4. ASSUME NEW p \in Products, NEW dated \in BOOLEAN, NEW flag \in BOOLEAN,
               RecordArrives(p, dated, flag)
        PROVE  Kept
    <2>1. \A t \in Terms : loan.terms[t] = "none"
      BY <1>4 DEF RecordArrives, Untouched
    <2>2. loan'.date = IF dated THEN "record" ELSE loan.date
      BY <1>0, <1>4 DEF RecordArrives, Reselect, LoanState
    <2> QED
      BY <2>1, <2>2 DEF Kept
  <1>5. ASSUME NEW p \in Products, DetailsArrive(p)
        PROVE  Kept
    <2>1. loan' = FilledIn(p)
      BY <1>5 DEF DetailsArrive
    <2>2. CASE loan.edit
      BY <1>k, <2>1, <2>2 DEF FilledIn
    <2>3. CASE ~loan.edit
      <3>1. loan'.terms = [t \in Terms |-> Keep(t, p)] /\ loan'.date = loan.date
        BY <1>0, <2>1, <2>3 DEF FilledIn, LoanState
      <3>2. \A t \in Terms : loan.terms[t] # "none" => loan'.terms[t] = loan.terms[t]
        BY <3>1 DEF Keep
      <3> QED
        BY <3>1, <3>2 DEF Kept
    <2> QED
      BY <2>2, <2>3
  <1>6. ASSUME NEW p \in Products, DetailsFail(p)
        PROVE  Kept
    BY <1>6, <1>k DEF DetailsFail
  <1>7. ASSUME NEW p \in Products, PickProduct(p)
        PROVE  Kept
    <2>1. loan' = [loan EXCEPT !.product = {p}, !.flag = loan.edit /\ loan.flag]
      BY <1>7 DEF PickProduct, Reselect
    <2> QED
      BY <1>0, <1>k, <2>1 DEF LoanState
  <1>8. ASSUME NEW t \in Terms, TypeTerm(t) \/ ClearTerm(t)
        PROVE  Kept
    <2>1. PICK v \in {"typed", "none"} : loan' = [loan EXCEPT !.terms[t] = v]
      BY <1>8 DEF TypeTerm, ClearTerm
    <2>2. /\ loan'.date = loan.date
          /\ \A u \in Terms : loan'.terms[u] = IF u = t THEN v ELSE loan.terms[u]
      BY <1>0, <2>1 DEF LoanState
    <2> QED
      BY <2>2 DEF Kept
  <1>9. CASE TypeDate
    <2>1. loan'.terms = loan.terms /\ loan'.date = "typed"
      BY <1>0, <1>9 DEF TypeDate, LoanState
    <2> QED
      BY <2>1 DEF Kept
  <1>10. CASE Tick
    <2>1. loan' = [loan EXCEPT !.flag = ~loan.flag]
      BY <1>10 DEF Tick
    <2> QED
      BY <1>0, <1>k, <2>1 DEF LoanState
  <1>11. ASSUME NEW chosen \in BOOLEAN, ChooseFirst(chosen)
         PROVE  Kept
    BY <1>0, <1>11, <1>k DEF ChooseFirst, LoanState
  <1>12. CASE OnSubmitLoan
    BY <1>0, <1>12, <1>k DEF OnSubmitLoan, LoanState
  <1>13. ASSUME NEW accepted \in BOOLEAN, Submitted(accepted)
         PROVE  Kept
    BY <1>0, <1>13, <1>k DEF Submitted, LoanState
  <1>14. CASE UNCHANGED loanVars
    BY <1>14, <1>k DEF loanVars
  <1> QED
    BY <1>1, <1>2, <1>3, <1>4, <1>5, <1>6, <1>7, <1>8, <1>9, <1>10, <1>11, <1>12, <1>13,
       <1>14 DEF LoanNext, LoanArrives

(* What the officer typed, and the terms and date of a record, are changed by the *)
(* officer only, in whatever order the record, the defaults of any number of      *)
(* products and the platform's date arrive.                                       *)
THEOREM OnlyTheOfficerChanges ==
  ASSUME LoanAssumption
  PROVE  LoanSpec => DeliberateIsKept
  <1>1. LoanInit => LoanTypeOK /\ Untouched
    BY LoanTypeInit, UntouchedInit
  <1>2. LoanTypeOK /\ Untouched /\ [LoanNext]_loanVars => LoanTypeOK' /\ Untouched'
    BY LoanTypeStep, UntouchedStep
  <1>3. LoanTypeOK /\ Untouched /\ [LoanNext]_loanVars => [Kept]_loanVars
    BY KeptByStep
  <1>4. [Kept]_loanVars =>
          [/\ \A t \in Terms : loan.terms[t] \in {"typed", "record"} =>
                                 loan'.terms[t] \in {loan.terms[t], "typed", "none"}
           /\ loan.date = "record" => loan'.date \in {"record", "typed"}]_loanVars
    BY DEF Kept
  <1> QED
    BY <1>1, <1>2, <1>3, <1>4, PTL DEF LoanSpec, DeliberateIsKept

-----------------------------------------------------------------------------
(* What the form knows of its product *)

\* A new application has a product only once there is a list to pick it from.
RowsFirst == ~loan.edit /\ ~loan.rows => loan.product = {}

\* The details awaited or shown are those of the product picked.
DetailsAreOfTheProduct ==
  /\ \A p \in Products : asked[p] > 0 => loan.product = {p}
  /\ details \subseteq loan.product

\* The record of a progressive loan names its strategy.
StrategyIsKnown ==
  ~loan.rows /\ loan.product # {} /\ loan.product \subseteq Progressive =>
    loan.strategy = "advanced"

FlagIsOfTheProduct == loan.flag => loan.product \subseteq Progressive

OneProduct == \A p, q \in loan.product : p = q

OfOneProduct ==
  /\ RowsFirst /\ DetailsAreOfTheProduct /\ StrategyIsKnown /\ FlagIsOfTheProduct
  /\ OneProduct

LEMMA OfOneProductStep ==
  ASSUME LoanAssumption, PicksAtRest, LoanTypeOK, Untouched, OfOneProduct,
         [LoanNext]_loanVars
  PROVE  OfOneProduct'
  <1>0. /\ loan \in LoanState /\ asked \in [Products -> 0..MaxAsks]
        /\ details \in {{}} \cup {{p} : p \in Products}
    BY DEF LoanTypeOK, LoanState
  <1>1. /\ RowsFirst /\ DetailsAreOfTheProduct /\ StrategyIsKnown /\ FlagIsOfTheProduct
        /\ OneProduct
    BY DEF OfOneProduct
  \* The product stays.
  <1>k. ASSUME loan'.product = loan.product, loan'.edit = loan.edit,
               loan.rows => loan'.rows,
               loan'.strategy = loan.strategy \/ loan.rows \/ loan.product = {}
                 \/ (loan.strategy = "advanced" => loan'.strategy = "advanced"),
               loan'.flag => loan.flag,
               \A p \in Products : asked'[p] > 0 => asked[p] > 0,
               details' \subseteq loan.product
        PROVE  OfOneProduct'
    <2>1. RowsFirst'
      BY <1>1, <1>k DEF RowsFirst
    <2>2. DetailsAreOfTheProduct'
      BY <1>1, <1>k DEF DetailsAreOfTheProduct
    <2>3. StrategyIsKnown'
      BY <1>1, <1>k DEF StrategyIsKnown
    <2>4. FlagIsOfTheProduct' /\ OneProduct'
      BY <1>1, <1>k DEF FlagIsOfTheProduct, OneProduct
    <2> QED
      BY <2>1, <2>2, <2>3, <2>4 DEF OfOneProduct
  <1>d. details \subseteq loan.product
    BY <1>1 DEF DetailsAreOfTheProduct
  <1>2. CASE RowsArrive
    BY <1>0, <1>2, <1>d, <1>k DEF RowsArrive, LoanState
  <1>3. CASE SeedArrives
    BY <1>0, <1>3, <1>d, <1>k DEF SeedArrives, LoanState
  <1>4. CASE RecordFails
    BY <1>0, <1>4, <1>d, <1>k DEF RecordFails, LoanState
  \* A product is picked: nothing else is awaited, and nothing is shown of another.
  <1>p. ASSUME NEW p \in Products, loan'.product = {p}, details' = {},
               asked' = [asked EXCEPT ![p] = @ + 1], \A q \in Products : asked[q] = 0,
               loan'.edit \/ loan'.rows, loan'.flag => p \in Progressive,
               loan'.rows \/ (p \in Progressive => loan'.strategy = "advanced")
        PROVE  OfOneProduct'
    <2>1. \A q \in Products : asked'[q] > 0 => q = p
      BY <1>0, <1>p
    <2>2. DetailsAreOfTheProduct'
      BY <1>p, <2>1 DEF DetailsAreOfTheProduct
    <2>3. RowsFirst' /\ StrategyIsKnown' /\ FlagIsOfTheProduct' /\ OneProduct'
      BY <1>p DEF RowsFirst, StrategyIsKnown, FlagIsOfTheProduct, OneProduct
    <2> QED
      BY <2>2, <2>3 DEF OfOneProduct
  <1>5. ASSUME NEW p \in Products, NEW dated \in BOOLEAN, NEW flag \in BOOLEAN,
               RecordArrives(p, dated, flag)
        PROVE  OfOneProduct'
    <2>1. PICK strategy \in {StrategyOf(p)} \cup (IF p \in Progressive THEN {} ELSE {"other"}) :
            Reselect([loan EXCEPT !.stage = "ready", !.flag = flag,
                        !.terms = [t \in Terms |-> "record"], !.strategy = strategy,
                        !.date = IF dated THEN "record" ELSE @], p)
      BY <1>5 DEF RecordArrives
    <2>2. p \in Progressive => strategy = "advanced"
      BY <2>1, StrategyOfTyped
    <2>3. loan.edit /\ (flag => p \in Progressive) /\ \A q \in Products : asked[q] = 0
      BY <1>5 DEF RecordArrives, Untouched
    <2>4. /\ loan'.product = {p} /\ loan'.edit = loan.edit /\ loan'.strategy = strategy
          /\ loan'.flag = (loan.edit /\ flag)
      BY <1>0, <2>1 DEF Reselect, LoanState
    <2>5. details' = {} /\ asked' = [asked EXCEPT ![p] = @ + 1]
      BY <2>1 DEF Reselect
    <2> QED
      BY <1>p, <2>2, <2>3, <2>4, <2>5
  <1>6. ASSUME NEW p \in Products, DetailsArrive(p)
        PROVE  OfOneProduct'
    <2>1. /\ asked[p] > 0 /\ asked' = [asked EXCEPT ![p] = @ - 1]
          /\ details' = {p} /\ loan' = FilledIn(p)
      BY <1>6 DEF DetailsArrive
    <2>2. details' \subseteq loan.product
      BY <1>1, <2>1 DEF DetailsAreOfTheProduct
    <2>3. \A q \in Products : asked'[q] > 0 => asked[q] > 0
      BY <1>0, <2>1
    <2>4. /\ loan'.product = loan.product /\ loan'.edit = loan.edit
          /\ loan'.rows = loan.rows /\ loan'.flag = loan.flag
          /\ loan.strategy = "advanced" => loan'.strategy = "advanced"
      BY <1>0, <2>1 DEF FilledIn, LoanState
    <2> QED
      BY <1>k, <2>2, <2>3, <2>4
  <1>7. ASSUME NEW p \in Products, DetailsFail(p)
        PROVE  OfOneProduct'
    <2>1. \A q \in Products : asked'[q] > 0 => asked[q] > 0
      BY <1>0, <1>7 DEF DetailsFail
    <2> QED
      BY <1>7, <1>d, <1>k, <2>1 DEF DetailsFail
  <1>8. ASSUME NEW p \in Products, PickProduct(p)
        PROVE  OfOneProduct'
    <2>1. /\ ~loan.edit /\ loan.rows /\ \A q \in Products : asked[q] = 0
          /\ loan' = [loan EXCEPT !.product = {p}, !.flag = loan.edit /\ loan.flag]
          /\ details' = {} /\ asked' = [asked EXCEPT ![p] = @ + 1]
      BY <1>8 DEF PickProduct, Reselect
    <2>2. loan'.product = {p} /\ loan'.rows = loan.rows /\ ~loan'.flag
      BY <1>0, <2>1 DEF LoanState
    <2> QED
      BY <1>p, <2>1, <2>2
  <1>9. ASSUME NEW t \in Terms, TypeTerm(t) \/ ClearTerm(t)
        PROVE  OfOneProduct'
    BY <1>0, <1>9, <1>d, <1>k DEF TypeTerm, ClearTerm, LoanState
  <1>10. CASE TypeDate
    BY <1>0, <1>10, <1>d, <1>k DEF TypeDate, LoanState
  <1>11. CASE Tick
    <2>1. /\ loan' = [loan EXCEPT !.flag = ~loan.flag] /\ UNCHANGED <<details, asked>>
          /\ details # {} /\ details \subseteq Progressive
      BY <1>11 DEF Tick
    <2>2. /\ loan'.product = loan.product /\ loan'.edit = loan.edit
          /\ loan'.rows = loan.rows /\ loan'.strategy = loan.strategy
      BY <1>0, <2>1 DEF LoanState
    <2>3. loan.product \subseteq Progressive
      BY <1>1, <1>d, <2>1 DEF OneProduct
    <2>4. RowsFirst' /\ DetailsAreOfTheProduct' /\ StrategyIsKnown' /\ OneProduct'
      BY <1>1, <2>1, <2>2 DEF RowsFirst, DetailsAreOfTheProduct, StrategyIsKnown, OneProduct
    <2>5. FlagIsOfTheProduct'
      BY <2>2, <2>3 DEF FlagIsOfTheProduct
    <2> QED
      BY <2>4, <2>5 DEF OfOneProduct
  <1>12. ASSUME NEW chosen \in BOOLEAN, ChooseFirst(chosen)
         PROVE  OfOneProduct'
    BY <1>0, <1>12, <1>d, <1>k DEF ChooseFirst, LoanState
  <1>13. CASE OnSubmitLoan
    <2>1. /\ loan' = [loan EXCEPT !.isSaving = TRUE, !.strategy = Strategy,
                                  !.firstSent = FirstSent]
          /\ UNCHANGED <<details, asked>> /\ loan.product # {}
      BY <1>13 DEF OnSubmitLoan
    <2>2. /\ loan'.product = loan.product /\ loan'.edit = loan.edit
          /\ loan'.rows = loan.rows /\ loan'.flag = loan.flag /\ loan'.strategy = Strategy
      BY <1>0, <2>1 DEF LoanState
    <2>3. RowsFirst' /\ DetailsAreOfTheProduct' /\ FlagIsOfTheProduct' /\ OneProduct'
      BY <1>1, <2>1, <2>2 DEF RowsFirst, DetailsAreOfTheProduct, FlagIsOfTheProduct, OneProduct
    <2>4. StrategyIsKnown'
      <3>1. ASSUME ~loan.rows, loan.product \subseteq Progressive
            PROVE  Strategy = "advanced"
        <4>1. loan.strategy = "advanced"
          BY <1>1, <2>1, <3>1 DEF StrategyIsKnown
        <4>2. details # {} => KnownProgressive
          BY <1>d, <3>1 DEF KnownProgressive
        <4> QED
          BY <2>1, <3>1, <4>1, <4>2, StrategyTyped
      <3> QED
        BY <2>2, <3>1 DEF StrategyIsKnown
    <2> QED
      BY <2>3, <2>4 DEF OfOneProduct
  <1>14. ASSUME NEW accepted \in BOOLEAN, Submitted(accepted)
         PROVE  OfOneProduct'
    BY <1>0, <1>14, <1>d, <1>k DEF Submitted, LoanState
  <1>15. CASE UNCHANGED loanVars
    BY <1>15, <1>d, <1>k DEF loanVars
  <1> QED
    BY <1>2, <1>3, <1>4, <1>5, <1>6, <1>7, <1>8, <1>9, <1>10, <1>11, <1>12, <1>13,
       <1>14, <1>15 DEF LoanNext, LoanArrives

\* What was sent was right when it was sent.
SentWell == ProgressiveIsAdvanced /\ NoFlagOrDateLeftOver

LEMMA SentWellStep ==
  ASSUME LoanAssumption, LoanTypeOK, OfOneProduct, SentWell, [LoanNext]_loanVars
  PROVE  SentWell'
  <1>u. ASSUME UNCHANGED request
        PROVE  SentWell'
    BY <1>u DEF SentWell, ProgressiveIsAdvanced, NoFlagOrDateLeftOver
  <1>1. CASE OnSubmitLoan
    <2>1. PICK p \in loan.product :
            request' = {[edit |-> loan.edit, product |-> p, terms |-> loan.terms,
                         strategy |-> Strategy, flag |-> loan.flag, first |-> loan.first,
                         firstSent |-> FirstSent]}
      BY <1>1 DEF OnSubmitLoan
    <2>2. loan.product = {p}
      BY DEF OfOneProduct, OneProduct
    <2>3. p \in Progressive => Strategy = "advanced"
      <3>1. SUFFICES ASSUME p \in Progressive
                     PROVE  Strategy = "advanced"
        OBVIOUS
      <3>2. CASE details # {} \/ loan.rows
        <4>1. KnownProgressive
          BY <2>2, <3>1, <3>2 DEF KnownProgressive, OfOneProduct, DetailsAreOfTheProduct
        <4> QED
          BY <2>2, <4>1, StrategyTyped
      <3>3. CASE details = {} /\ ~loan.rows
        <4>1. loan.strategy = "advanced"
          BY <2>2, <3>1, <3>3 DEF OfOneProduct, StrategyIsKnown
        <4> QED
          BY <2>2, <3>3, <4>1, StrategyTyped
      <3> QED
        BY <3>2, <3>3
    <2>4. loan.flag => p \in Progressive
      BY <2>2 DEF OfOneProduct, FlagIsOfTheProduct
    <2>5. loan.edit \/ FirstSent = loan.first
      BY DEF FirstSent, LoanTypeOK
    <2>6. ProgressiveIsAdvanced'
      BY <2>1, <2>3 DEF ProgressiveIsAdvanced
    <2>7. NoFlagOrDateLeftOver'
      BY <2>1, <2>4, <2>5 DEF NoFlagOrDateLeftOver
    <2> QED
      BY <2>6, <2>7 DEF SentWell
  <1>2. CASE ~OnSubmitLoan
    BY <1>2, <1>u DEF LoanNext, LoanArrives, RowsArrive, SeedArrives, RecordFails,
       RecordArrives, DetailsArrive, DetailsFail, PickProduct, TypeTerm, ClearTerm,
       TypeDate, Tick, ChooseFirst, Submitted, loanVars
  <1> QED
    BY <1>1, <1>2

LEMMA LoanInvariant ==
  ASSUME LoanAssumption, PicksAtRest
  PROVE  LoanSpec => []SentWell
  <1>1. LoanInit => LoanTypeOK /\ Untouched /\ OfOneProduct /\ SentWell
    <2>1. ASSUME LoanInit
          PROVE  OfOneProduct /\ SentWell
      BY <2>1 DEF LoanInit, OfOneProduct, RowsFirst, DetailsAreOfTheProduct,
         StrategyIsKnown, FlagIsOfTheProduct, OneProduct, SentWell,
         ProgressiveIsAdvanced, NoFlagOrDateLeftOver
    <2> QED
      BY <2>1, LoanTypeInit, UntouchedInit
  <1>2. LoanTypeOK /\ Untouched /\ OfOneProduct /\ SentWell /\ [LoanNext]_loanVars
          => LoanTypeOK' /\ Untouched' /\ OfOneProduct' /\ SentWell'
    BY LoanTypeStep, UntouchedStep, OfOneProductStep, SentWellStep
  <1> QED
    BY <1>1, <1>2, PTL DEF LoanSpec

(* While the officer picks no other product before the details of the last one are *)
(* in, an application for a progressive product is sent with the advanced          *)
(* strategy, whether the list and the details have arrived, are late or failed.    *)
THEOREM ProgressiveAlwaysAdvanced ==
  ASSUME LoanAssumption, PicksAtRest
  PROVE  LoanSpec => []ProgressiveIsAdvanced
  <1>1. SentWell => ProgressiveIsAdvanced
    BY DEF SentWell
  <1> QED
    BY <1>1, LoanInvariant, PTL

(* Under the same condition no flag and no first repayment date is sent that was  *)
(* left over: no checkbox of a progressive product that was given up, no date of  *)
(* an application refused.  Terms and the strategy are not what this is about.    *)
THEOREM NoFlagOrDateLeftIsSent ==
  ASSUME LoanAssumption, PicksAtRest
  PROVE  LoanSpec => []NoFlagOrDateLeftOver
  <1>1. SentWell => NoFlagOrDateLeftOver
    BY DEF SentWell
  <1> QED
    BY <1>1, LoanInvariant, PTL
-----------------------------------------------------------------------------
(* The menu: lists of entries *)

\* Entry n is in a list once at most.
Once(list, n) == \A i, j \in Places(list, n) : i = j

(* What Append, detach and sortTree do to a list, and to an entry that is in it once. *)
LEMMA Appended ==
  ASSUME NEW S, NEW list \in Seq(S), NEW n \in S
  PROVE  /\ Append(list, n) \in Seq(S) /\ Range(Append(list, n)) = Range(list) \cup {n}
         /\ \A m : Once(list, m) /\ (m = n => n \notin Range(list)) => Once(Append(list, n), m)
  <1> DEFINE longer == Append(list, n)
  <1>1. /\ longer \in Seq(S) /\ Len(longer) = Len(list) + 1 /\ Len(list) \in Nat
        /\ DOMAIN longer = 1..(Len(list) + 1) /\ DOMAIN list = 1..Len(list)
        /\ \A i \in 1..Len(list) : longer[i] = list[i]
        /\ longer[Len(list) + 1] = n
    BY AppendProperties, LenProperties
  <1> HIDE DEF longer
  <1>2. Range(longer) = Range(list) \cup {n}
    BY <1>1 DEF Range
  <1>3. ASSUME NEW m, Once(list, m), m = n => n \notin Range(list)
        PROVE  Once(longer, m)
    <2> SUFFICES ASSUME NEW i \in 1..(Len(list) + 1), NEW j \in 1..(Len(list) + 1),
                        longer[i] = m, longer[j] = m
                 PROVE  i = j
      BY <1>1 DEF Once, Places
    <2>1. CASE i \in 1..Len(list) /\ j \in 1..Len(list)
      BY <1>1, <1>3, <2>1 DEF Once, Places
    <2>2. CASE ~(i \in 1..Len(list) /\ j \in 1..Len(list))
      BY <1>1, <1>3, <2>2 DEF Range
    <2> QED
      BY <2>1, <2>2
  <1> QED
    BY <1>1, <1>2, <1>3 DEF longer

LEMMA DetachedOne ==
  ASSUME NEW S, NEW list \in Seq(S), NEW n \in Range(list)
  PROVE  /\ Detached(list, n) \in Seq(S)
         /\ Range(Detached(list, n)) \subseteq Range(list)
         /\ Range(list) \ {n} \subseteq Range(Detached(list, n))
         /\ \A m : Once(list, m) => Once(Detached(list, n), m)
         /\ Once(list, n) => n \notin Range(Detached(list, n))
  <1> DEFINE at == CHOOSE i \in Places(list, n) : TRUE
             shorter == Detached(list, n)
  <1>1. /\ Len(list) \in Nat /\ DOMAIN list = 1..Len(list)
        /\ \A i \in 1..Len(list) : list[i] \in S
    BY LenProperties
  <1>2. at \in 1..Len(list) /\ list[at] = n
    <2>1. Places(list, n) # {}
      BY <1>1 DEF Range, Places
    <2>2. at \in Places(list, n)
      BY <2>1
    <2> QED
      BY <1>1, <2>2 DEF Places
  <1>3. shorter = [i \in 1..(Len(list) - 1) |-> IF i < at THEN list[i] ELSE list[i + 1]]
    BY DEF Detached
  <1> HIDE DEF at, shorter
  <1>4. Len(list) - 1 \in Nat /\ DOMAIN shorter = 1..(Len(list) - 1)
    BY <1>1, <1>2, <1>3
  <1>5. ASSUME NEW i \in 1..(Len(list) - 1)
        PROVE  /\ i < at => i \in 1..Len(list) /\ shorter[i] = list[i]
               /\ i >= at => i + 1 \in 1..Len(list) /\ shorter[i] = list[i + 1]
    BY <1>1, <1>2, <1>3, <1>5
  <1>6. shorter \in Seq(S)
    <2>1. \A i \in 1..(Len(list) - 1) : shorter[i] \in S
      BY <1>1, <1>2, <1>5
    <2>2. shorter \in [1..(Len(list) - 1) -> S]
      BY <1>3, <2>1
    <2> QED
      BY <1>4, <2>2, SeqDef
  <1>7. ASSUME NEW m, Once(list, m)
        PROVE  Once(shorter, m)
    <2> SUFFICES ASSUME NEW i \in 1..(Len(list) - 1), NEW j \in 1..(Len(list) - 1),
                        shorter[i] = m, shorter[j] = m
                 PROVE  i = j
      BY <1>4 DEF Once, Places
    <2> DEFINE I == IF i < at THEN i ELSE i + 1
               J == IF j < at THEN j ELSE j + 1
    <2>1. I \in 1..Len(list) /\ J \in 1..Len(list) /\ list[I] = m /\ list[J] = m
      BY <1>2, <1>5
    <2>2. I = J
      BY <1>1, <1>7, <2>1 DEF Once, Places
    <2> QED
      BY <1>2, <2>2
  <1>8. ASSUME NEW x \in Range(shorter)
        PROVE  \E i \in 1..Len(list) : list[i] = x /\ i # at
    <2>1. PICK i \in 1..(Len(list) - 1) : shorter[i] = x
      BY <1>4 DEF Range
    <2> DEFINE I == IF i < at THEN i ELSE i + 1
    <2>2. I \in 1..Len(list) /\ list[I] = x /\ I # at
      BY <1>2, <1>5, <2>1
    <2> QED
      BY <2>2
  <1>9. ASSUME NEW x \in Range(list), x # n
        PROVE  x \in Range(shorter)
    <2>1. PICK i \in 1..Len(list) : list[i] = x
      BY <1>1 DEF Range
    <2>2. i # at
      BY <1>2, <1>9, <2>1
    <2> DEFINE I == IF i < at THEN i ELSE i - 1
    <2>3. I \in 1..(Len(list) - 1) /\ (I < at => I = i) /\ (I >= at => I + 1 = i)
      BY <1>1, <1>2, <2>2
    <2>4. shorter[I] = x
      BY <1>5, <1>2, <2>1, <2>3
    <2> QED
      BY <1>4, <2>3, <2>4 DEF Range
  <1>10. Range(shorter) \subseteq Range(list)
    BY <1>1, <1>8 DEF Range
  <1>11. ASSUME Once(list, n), n \in Range(shorter)
         PROVE  FALSE
    <2>1. PICK i \in 1..Len(list) : list[i] = n /\ i # at
      BY <1>8, <1>11
    <2> QED
      BY <1>1, <1>2, <1>11, <2>1 DEF Once, Places
  <1> QED
    BY <1>6, <1>7, <1>9, <1>10, <1>11 DEF shorter

\* Where each of D comes in order R, counted from 1.
Ranks(D, R) == [x \in D |-> Cardinality({y \in D : <<y, x>> \in R}) + 1]

(* In a total order, everywhere once. *)
LEMMA RanksAreAll ==
  ASSUME NEW D, IsFiniteSet(D), NEW R,
         \A x \in D : <<x, x>> \notin R,
         \A x, y \in D : x # y => <<x, y>> \in R \/ <<y, x>> \in R,
         \A x, y, z \in D : <<x, y>> \in R /\ <<y, z>> \in R => <<x, z>> \in R
  PROVE  /\ Ranks(D, R) \in [D -> 1..Cardinality(D)]
         /\ \A x, y \in D : <<x, y>> \in R <=> Ranks(D, R)[x] < Ranks(D, R)[y]
         /\ \A x, y \in D : Ranks(D, R)[x] = Ranks(D, R)[y] => x = y
         /\ \A k \in 1..Cardinality(D) : \E x \in D : Ranks(D, R)[x] = k
  <1> DEFINE below(x) == {y \in D : <<y, x>> \in R}
             r == Ranks(D, R)
  <1>0. Cardinality(D) \in Nat
    BY FS_CardinalityType
  <1>1. ASSUME NEW x \in D
        PROVE  /\ IsFiniteSet(below(x)) /\ Cardinality(below(x)) \in Nat
               /\ Cardinality(below(x)) + 1 <= Cardinality(D)
    <2>1. IsFiniteSet(D \ {x}) /\ Cardinality(D \ {x}) = Cardinality(D) - 1
      BY FS_RemoveElement
    <2>2. below(x) \in SUBSET (D \ {x})
      OBVIOUS
    <2>3. IsFiniteSet(below(x)) /\ Cardinality(below(x)) <= Cardinality(D \ {x})
      BY <2>1, <2>2, FS_Subset
    <2>4. Cardinality(below(x)) \in Nat
      BY <2>3, FS_CardinalityType
    <2> QED
      BY <1>0, <2>1, <2>3, <2>4
  <1>2. DOMAIN r = D /\ r = [x \in D |-> r[x]]
        /\ \A x \in D : r[x] = Cardinality(below(x)) + 1
    BY DEF Ranks
  <1> HIDE DEF r
  <1>3. r \in [D -> 1..Cardinality(D)]
    <2>1. ASSUME NEW x \in D
          PROVE  Cardinality(below(x)) + 1 \in 1..Cardinality(D)
      <3>1. ASSUME NEW q \in Nat, q + 1 <= Cardinality(D)
            PROVE  q + 1 \in 1..Cardinality(D)
        BY <1>0, <3>1
      <3>2. Cardinality(below(x)) \in Nat /\ Cardinality(below(x)) + 1 <= Cardinality(D)
        BY <1>1
      <3> HIDE DEF below
      <3> QED
        BY <3>1, <3>2
    <2> HIDE DEF below
    <2>2. \A x \in D : r[x] \in 1..Cardinality(D)
      BY <1>2, <2>1
    <2>3. DOMAIN r = D /\ r = [x \in D |-> r[x]]
      BY <1>2
    <2> QED
      BY ONLY <2>2, <2>3
  <1>4. ASSUME NEW x \in D, NEW y \in D, <<x, y>> \in R
        PROVE  r[x] < r[y]
    <2>1. below(x) \cup {x} \in SUBSET below(y) /\ x \notin below(x)
      BY <1>4
    <2>2. IsFiniteSet(below(x) \cup {x})
          /\ Cardinality(below(x) \cup {x}) = Cardinality(below(x)) + 1
      BY <1>1, <2>1, FS_AddElement
    <2>3. Cardinality(below(x) \cup {x}) <= Cardinality(below(y))
      BY <1>1, <2>1, FS_Subset
    <2>4. Cardinality(below(x)) + 1 <= Cardinality(below(y))
      BY <2>2, <2>3
    <2>5. Cardinality(below(x)) \in Nat /\ Cardinality(below(y)) \in Nat
      BY <1>1
    <2> HIDE DEF below
    <2> QED
      BY <1>2, <2>4, <2>5
  <1> HIDE DEF below
  <1>5. ASSUME NEW x \in D, NEW y \in D
        PROVE  (<<x, y>> \in R <=> r[x] < r[y]) /\ (r[x] = r[y] => x = y)
    <2>1. r[x] \in Nat /\ r[y] \in Nat
      <3>1. r[x] \in 1..Cardinality(D) /\ r[y] \in 1..Cardinality(D)
        BY <1>3
      <3>2. \A q \in 1..Cardinality(D) : q \in Nat
        BY <1>0
      <3> QED
        BY <3>1, <3>2
    <2>2. (<<x, y>> \in R => r[x] < r[y]) /\ (<<y, x>> \in R => r[y] < r[x])
      BY <1>4
    <2>3. x = y \/ <<x, y>> \in R \/ <<y, x>> \in R
      OBVIOUS
    <2>4. x = y => <<x, y>> \notin R
      OBVIOUS
    <2>5. \A p, q \in Nat : ~(p < q /\ q < p) /\ (p = q => ~(p < q) /\ ~(q < p))
      OBVIOUS
    <2> QED
      BY ONLY <2>1, <2>2, <2>3, <2>4, <2>5
  <1>6. \A x, y \in D : r[x] = r[y] => x = y
    BY <1>5
  <1>7. r \in Surjection(D, 1..Cardinality(D))
    <2>1. r \in Injection(D, 1..Cardinality(D))
      BY <1>3, <1>6 DEF Injection, IsInjective
    <2>2. IsFiniteSet(1..Cardinality(D)) /\ Cardinality(1..Cardinality(D)) = Cardinality(D)
      <3>1. 1 \in Int /\ Cardinality(D) \in Int
        BY <1>0
      <3> QED
        BY <1>0, <3>1, FS_Interval
    <2> QED
      BY <2>1, <2>2, FS_Injection
  <1> QED
    BY <1>3, <1>5, <1>6, <1>7 DEF Surjection, r

LEMMA SortedSame ==
  ASSUME MaxOrder \in Nat, nav.order \in [NavIds -> Orders], NEW c, nav.tree[c] \in Seq(NavIds)
  PROVE  /\ Sorted(c) \in Seq(NavIds) /\ Range(Sorted(c)) = Range(nav.tree[c])
         /\ \A m : Once(nav.tree[c], m) => Once(Sorted(c), m)
  <1> DEFINE list == nav.tree[c]
             D == DOMAIN list
             R == {w \in D \X D : ComesBefore(c, w[1], w[2])}
             r == Ranks(D, R)
             sorted == Sorted(c)
  <1>1. Len(list) \in Nat /\ D = 1..Len(list) /\ \A i \in D : list[i] \in NavIds
    BY LenProperties
  <1>2. \A i, j \in D : <<i, j>> \in R <=> ComesBefore(c, i, j)
    OBVIOUS
  <1>3. \A i \in D : r[i] = Rank(c, i)
    BY <1>2 DEF Rank, Ranks
  <1>4. \A i \in D : i \in Nat /\ OrderOf(c, i) \in Nat
    BY <1>1 DEF Orders, OrderOf
  <1> HIDE DEF list
  <1>5. /\ \A x \in D : <<x, x>> \notin R
        /\ \A x, y \in D : x # y => <<x, y>> \in R \/ <<y, x>> \in R
        /\ \A x, y, z \in D : <<x, y>> \in R /\ <<y, z>> \in R => <<x, z>> \in R
    <2>1. \A x \in D : ~ComesBefore(c, x, x)
      BY <1>4 DEF ComesBefore
    <2>2. \A x, y \in D : x # y => ComesBefore(c, x, y) \/ ComesBefore(c, y, x)
      BY <1>4 DEF ComesBefore
    <2>3. \A x, y, z \in D : ComesBefore(c, x, y) /\ ComesBefore(c, y, z)
                                => ComesBefore(c, x, z)
      BY <1>4 DEF ComesBefore
    <2> HIDE DEF R
    <2> QED
      BY <1>2, <2>1, <2>2, <2>3
  <1>6. IsFiniteSet(D) /\ Cardinality(D) = Len(list)
    <2>1. Len(list) \in Nat /\ D = 1..Len(list)
      BY <1>1
    <2> HIDE DEF D
    <2>2. ASSUME NEW q \in Nat
          PROVE  IsFiniteSet(1..q) /\ Cardinality(1..q) = q
      <3>1. 1 \in Int /\ q \in Int
        OBVIOUS
      <3>2. /\ IsFiniteSet(1..q)
            /\ Cardinality(1..q) = IF 1 > q THEN 0 ELSE q - 1 + 1
        BY <3>1, FS_Interval, Zenon
      <3> QED
        BY <3>2
    <2> QED
      BY <2>1, <2>2
  <1> HIDE DEF R
  <1>7. /\ r \in [D -> 1..Len(list)]
        /\ \A x, y \in D : r[x] = r[y] => x = y
        /\ \A k \in D : \E x \in D : r[x] = k
    <2>0. IsFiniteSet(D)
      BY <1>6
    <2> HIDE DEF D
    <2>1. /\ r \in [D -> 1..Cardinality(D)]
          /\ \A x, y \in D : r[x] = r[y] => x = y
          /\ \A k \in 1..Cardinality(D) : \E x \in D : r[x] = k
      BY <1>5, <2>0, RanksAreAll
    <2> QED
      BY <1>1, <1>6, <2>1
  <1> HIDE DEF r
  <1> DEFINE at(k) == CHOOSE i \in D : Rank(c, i) = k
  <1>8. \A k \in D : at(k) \in D /\ r[at(k)] = k
    BY <1>3, <1>7
  <1>9. \A i \in D : \E k \in D : at(k) = i
    BY <1>1, <1>7, <1>8
  <1>10. sorted = [k \in D |-> list[at(k)]]
    BY DEF Sorted, list
  <1> HIDE DEF at, sorted
  <1>11. sorted \in Seq(NavIds)
    <2>1. \A k \in D : list[at(k)] \in NavIds
      BY <1>1, <1>8
    <2>2. sorted \in [1..Len(list) -> NavIds]
      BY <1>1, <1>10, <2>1
    <2> QED
      BY <1>1, <2>2, SeqDef
  <1>12. Range(sorted) = Range(list)
    BY <1>8, <1>9, <1>10 DEF Range
  <1>13. ASSUME NEW m, Once(list, m)
         PROVE  Once(sorted, m)
    BY <1>8, <1>10, <1>13 DEF Once, Places
  <1> QED
    BY <1>11, <1>12, <1>13 DEF sorted, list
-----------------------------------------------------------------------------
(* The menu: where entries sit *)

\* Of lists t and an index s: who is there, every entry is in the list where the index
\* has it, the root or a group that is there, nothing is in a group that is not, no groups
\* are nested in one another only, and but for the ids of R, entries are in no other list,
\* and once.
There(s) == {n \in NavIds : s[n] # Unplaced}
Housed(t, s) ==
  \A n \in There(s) : s[n] \in {"root"} \cup (Groups \cap There(s)) /\ n \in Range(t[s[n]])
Bare(t, s) == \A g \in Groups \ There(s) : Range(t[g]) = {}
Rooted(s) ==
  \A S \in SUBSET (Groups \cap There(s)) : S # {} => \E g \in S : s[g] \notin S
Listed(t, s, R) ==
  \A c \in Containers, n \in NavIds \ R : Once(t[c], n) /\ (n \in Range(t[c]) => s[n] = c)

OneTree(t, s, R) ==
  /\ t \in [Containers -> Seq(NavIds)] /\ s \in [NavIds -> Containers \cup {Unplaced}]
  /\ Housed(t, s) /\ Bare(t, s) /\ Rooted(s) /\ Listed(t, s, R)
  /\ R \subseteq NavIds \ Groups

LEMMA Ids ==
  ASSUME NavigationAssumption
  PROVE  /\ Groups \subseteq NavIds /\ BuiltIn \subseteq NavIds
         /\ Containers = {"root"} \cup Groups
         /\ "root" \notin NavIds /\ Unplaced \notin NavIds \cup Containers
         /\ Nowhere \notin NavIds
         /\ DOMAIN Upstream \subseteq Containers /\ "root" \in DOMAIN Upstream
  BY DEF NavigationAssumption, Groups, Containers, NavIds, Unplaced, Nowhere

LEMMA OneTreeInit ==
  ASSUME NavigationAssumption, NavInit
  PROVE  OneTree(nav.tree, nav.slot, {}) /\ BuiltIn \subseteq There(nav.slot)
  <1> DEFINE t == nav.tree
             s == nav.slot
             declared(n) == CHOOSE c \in DOMAIN Upstream : n \in Range(Upstream[c])
  <1>1. /\ t = [c \in Containers |-> IF c \in DOMAIN Upstream THEN Upstream[c] ELSE <<>>]
        /\ s = [n \in NavIds |-> IF n \in BuiltIn THEN declared(n) ELSE Unplaced]
    BY DEF NavInit
  <1>2. \A n \in BuiltIn : declared(n) \in DOMAIN Upstream /\ n \in Range(Upstream[declared(n)])
    BY DEF BuiltIn
  <1>3. \A c \in DOMAIN Upstream : \A n \in Range(Upstream[c]) : n \in BuiltIn /\ declared(n) = c
    <2> SUFFICES ASSUME NEW c \in DOMAIN Upstream, NEW n \in Range(Upstream[c])
                 PROVE  n \in BuiltIn /\ declared(n) = c
      OBVIOUS
    <2>1. n \in BuiltIn
      BY DEF BuiltIn
    <2>2. declared(n) \in DOMAIN Upstream /\ n \in Range(Upstream[declared(n)])
      BY <1>2, <2>1
    <2> HIDE DEF declared
    <2> QED
      BY <2>1, <2>2 DEF NavigationAssumption
  <1> HIDE DEF t, s, declared
  <1>4. Range(<<>>) = {} /\ (\A m : Once(<<>>, m)) /\ <<>> \in Seq(NavIds)
    <2>1. \A c : <<>> \in Seq(c) /\ DOMAIN <<>> = {}
      BY EmptySeq, LenProperties
    <2> QED
      BY <2>1 DEF Range, Once, Places
  <1>5. t \in [Containers -> Seq(NavIds)]
    BY <1>1, <1>4 DEF NavigationAssumption
  <1>6. s \in [NavIds -> Containers \cup {Unplaced}]
    BY <1>1, <1>2, Ids
  <1>7. There(s) = BuiltIn
    BY <1>1, <1>2, Ids DEF There
  <1>8. Listed(t, s, {})
    <2> SUFFICES ASSUME NEW c \in Containers, NEW n \in NavIds
                 PROVE  Once(t[c], n) /\ (n \in Range(t[c]) => s[n] = c)
      BY DEF Listed
    <2>1. CASE c \in DOMAIN Upstream
      <3>1. IsInjective(Upstream[c]) /\ t[c] = Upstream[c]
        BY <1>1, <2>1 DEF NavigationAssumption
      <3>2. Once(t[c], n)
        BY <3>1 DEF Once, Places, IsInjective
      <3> QED
        BY <1>1, <1>3, <2>1, <3>1, <3>2
    <2>2. CASE c \notin DOMAIN Upstream
      BY <1>1, <1>4, <2>2
    <2> QED
      BY <2>1, <2>2
  <1>9. Housed(t, s)
    <2> SUFFICES ASSUME NEW n \in BuiltIn
                 PROVE  s[n] \in {"root"} \cup (Groups \cap BuiltIn) /\ n \in Range(t[s[n]])
      BY <1>7 DEF Housed
    <2>1. s[n] \in DOMAIN Upstream /\ n \in Range(Upstream[s[n]])
      BY <1>1, <1>2, Ids
    <2> QED
      BY <1>1, <2>1, Ids DEF Groups, NavigationAssumption
  <1>10. Rooted(s)
    <2> SUFFICES ASSUME NEW S \in SUBSET (Groups \cap BuiltIn), S # {}
                 PROVE  \E g \in S : s[g] \notin S
      BY <1>7 DEF Rooted
    <2>1. S \in SUBSET (DOMAIN Upstream \ {"root"})
      BY DEF Groups, NavigationAssumption
    <2>2. PICK c \in DOMAIN Upstream \ S : Range(Upstream[c]) \cap S # {}
      BY <2>1 DEF NavigationAssumption
    <2>3. PICK g \in S : g \in Range(Upstream[c])
      BY <2>2
    <2>4. s[g] = c
      BY <1>1, <1>3, <2>2, <2>3, Ids
    <2> QED
      BY <2>2, <2>4
  <1>11. Bare(t, s)
    <2> SUFFICES ASSUME NEW g \in Groups \ BuiltIn
                 PROVE  Range(t[g]) = {}
      BY <1>7 DEF Bare
    <2>1. g \in Containers /\ g \notin DOMAIN Upstream
      <3>1. DOMAIN Upstream \ {"root"} \subseteq BuiltIn /\ "root" \notin Groups
        BY Ids DEF NavigationAssumption
      <3> QED
        BY <3>1, Ids
    <2> QED
      BY <1>1, <1>4, <2>1
  <1> QED
    BY <1>5, <1>6, <1>8, <1>9, <1>10, <1>11, <1>7 DEF OneTree, t, s

(* An entry is put at the end of a list, one that is there already too if it is no group. *)
LEMMA Placing ==
  ASSUME NavigationAssumption, NEW t, NEW s, NEW R, OneTree(t, s, R),
         NEW n \in NavIds, n \notin Groups \cap There(s),
         NEW p \in {"root"} \cup (Groups \cap There(s))
  PROVE  /\ OneTree([t EXCEPT ![p] = Append(@, n)], [s EXCEPT ![n] = p],
                    R \cup ({n} \cap There(s)))
         /\ There([s EXCEPT ![n] = p]) = There(s) \cup {n}
  <1> DEFINE u == [t EXCEPT ![p] = Append(@, n)]
             w == [s EXCEPT ![n] = p]
  <1>0. p \in Containers /\ p # n /\ p # Unplaced
    BY Ids DEF There
  <1>1. /\ t \in [Containers -> Seq(NavIds)] /\ s \in [NavIds -> Containers \cup {Unplaced}]
        /\ Housed(t, s) /\ Bare(t, s) /\ Rooted(s) /\ Listed(t, s, R) /\ R \subseteq NavIds \ Groups
    BY DEF OneTree
  <1>2. ASSUME n \notin R, n \notin There(s)
        PROVE  \A c \in Containers : n \notin Range(t[c])
    BY <1>1, <1>2, Ids DEF Listed, There
  <1>3. /\ Append(t[p], n) \in Seq(NavIds)
        /\ Range(Append(t[p], n)) = Range(t[p]) \cup {n}
        /\ \A m : Once(t[p], m) /\ (m = n => n \notin Range(t[p])) => Once(Append(t[p], n), m)
    <2>1. t[p] \in Seq(NavIds)
      BY <1>0, <1>1
    <2> QED
      BY <2>1, Appended
  <1>4. /\ u \in [Containers -> Seq(NavIds)] /\ w \in [NavIds -> Containers \cup {Unplaced}]
        /\ u[p] = Append(t[p], n) /\ \A c \in Containers \ {p} : u[c] = t[c]
        /\ w[n] = p /\ \A m \in NavIds \ {n} : w[m] = s[m]
    BY <1>0, <1>1, <1>3
  <1> HIDE DEF u, w
  <1>5. There(w) = There(s) \cup {n}
    BY <1>0, <1>4 DEF There
  <1>6. Listed(u, w, R \cup ({n} \cap There(s)))
    <2> SUFFICES ASSUME NEW c \in Containers, NEW m \in NavIds \ R,
                        m = n => n \notin There(s)
                 PROVE  Once(u[c], m) /\ (m \in Range(u[c]) => w[m] = c)
      BY DEF Listed
    <2>1. Once(t[c], m) /\ (m \in Range(t[c]) => s[m] = c)
      BY <1>1 DEF Listed
    <2>2. m = n => n \notin Range(t[c])
      BY <1>2
    <2>3. CASE c = p
      BY <1>3, <1>4, <2>1, <2>2, <2>3
    <2>4. CASE c # p
      BY <1>4, <2>1, <2>2, <2>4
    <2> QED
      BY <2>3, <2>4
  <1>7. Housed(u, w)
    <2>1. ASSUME NEW m \in There(w)
          PROVE  w[m] \in {"root"} \cup (Groups \cap There(w)) /\ m \in Range(u[w[m]])
      <3>1. CASE m = n
        BY <1>3, <1>4, <1>5, <3>1
      <3>2. CASE m # n
        <4>1. m \in There(s) /\ m \in NavIds /\ w[m] = s[m]
          BY <1>4, <1>5, <3>2 DEF There
        <4>2. s[m] \in {"root"} \cup (Groups \cap There(s)) /\ m \in Range(t[s[m]])
          BY <1>1, <4>1 DEF Housed
        <4>3. s[m] \in Containers /\ Range(t[s[m]]) \subseteq Range(u[s[m]])
          BY <1>3, <1>4, <4>2, Ids
        <4> QED
          BY <1>5, <4>1, <4>2, <4>3
      <3> QED
        BY <3>1, <3>2
    <2> QED
      BY <2>1 DEF Housed
  <1>8. Rooted(w)
    <2> SUFFICES ASSUME NEW S \in SUBSET (Groups \cap There(w)), S # {}
                 PROVE  \E g \in S : w[g] \notin S
      BY DEF Rooted
    <2>1. CASE S \ {n} = {}
      BY <1>0, <1>4, <2>1
    <2>2. CASE S \ {n} # {}
      <3>1. S \ {n} \in SUBSET (Groups \cap There(s))
        BY <1>5
      <3>2. PICK g \in S \ {n} : s[g] \notin S \ {n}
        BY <1>1, <2>2, <3>1 DEF Rooted
      <3>3. s[g] # n
        <4>1. s[g] \in {"root"} \cup (Groups \cap There(s))
          BY <1>1, <3>1, <3>2 DEF Housed
        <4> QED
          BY <4>1, Ids
      <3>4. g \in NavIds /\ w[g] = s[g]
        BY <1>4, <3>1, <3>2 DEF There
      <3> QED
        BY <3>2, <3>3, <3>4
    <2> QED
      BY <2>1, <2>2
  <1>9. Bare(u, w)
    <2> SUFFICES ASSUME NEW g \in Groups \ There(w)
                 PROVE  Range(u[g]) = {}
      BY DEF Bare
    <2>1. g \in Containers /\ g # p /\ g \in Groups \ There(s)
      BY <1>5, Ids
    <2> QED
      BY <1>1, <1>4, <2>1 DEF Bare
  <1>10. R \cup ({n} \cap There(s)) \subseteq NavIds \ Groups
    BY <1>1
  <1> QED
    BY <1>4, <1>5, <1>6, <1>7, <1>8, <1>9, <1>10 DEF OneTree, u, w

(* Detached from its list and put at the end of another, which is not in the entry *)
(* itself: groups that would be nested in one another only now, the ones the entry *)
(* holds left out, would have been before.                                         *)
LEMMA Moving ==
  ASSUME NavigationAssumption, NEW R, OneTree(nav.tree, nav.slot, R),
         NEW n \in Placed, NEW p, MayMove(n, p)
  PROVE  LET u == Pushed(Pulled(nav.tree, nav.slot[n], n), p, n)
             w == [nav.slot EXCEPT ![n] = p]
         IN  OneTree(u, w, R) /\ There(w) = There(nav.slot)
  <1> DEFINE t == nav.tree
             s == nav.slot
             t1 == Pulled(t, s[n], n)
             u == Pushed(t1, p, n)
             w == [s EXCEPT ![n] = p]
  <1>0. /\ n \in There(s) /\ n \in NavIds /\ p \in {"root"} \cup (Groups \cap There(s))
        /\ p # n /\ ~ContainsId(n, p)
    BY DEF MayMove, Holds, Placed, There
  <1>1. /\ t \in [Containers -> Seq(NavIds)] /\ s \in [NavIds -> Containers \cup {Unplaced}]
        /\ Housed(t, s) /\ Bare(t, s) /\ Rooted(s) /\ Listed(t, s, R) /\ R \subseteq NavIds \ Groups
    BY DEF OneTree
  <1>2. p \in Containers /\ p # Unplaced /\ s[n] \in Containers /\ n \in Range(t[s[n]])
    BY <1>0, <1>1, Ids DEF Housed
  <1>3. \A c \in Containers : t[c] \in Seq(NavIds)
    BY <1>1
  <1> HIDE DEF t, s
  <1>4. /\ Detached(t[s[n]], n) \in Seq(NavIds)
        /\ Range(Detached(t[s[n]], n)) \subseteq Range(t[s[n]])
        /\ Range(t[s[n]]) \ {n} \subseteq Range(Detached(t[s[n]], n))
        /\ \A m : Once(t[s[n]], m) => Once(Detached(t[s[n]], n), m)
        /\ Once(t[s[n]], n) => n \notin Range(Detached(t[s[n]], n))
    <2>1. t[s[n]] \in Seq(NavIds) /\ n \in Range(t[s[n]])
      BY <1>2, <1>3
    <2> QED
      BY <2>1, DetachedOne
  <1>5. /\ t1 \in [Containers -> Seq(NavIds)]
        /\ \A c \in Containers :
             /\ Range(t1[c]) \subseteq Range(t[c]) /\ Range(t[c]) \ {n} \subseteq Range(t1[c])
             /\ \A m : Once(t[c], m) => Once(t1[c], m)
             /\ n \notin R => n \notin Range(t1[c])
    <2>1. t1 \in [Containers -> Seq(NavIds)]
      BY <1>1, <1>2, <1>4 DEF Pulled
    <2>2. ASSUME NEW c \in Containers, c # s[n]
          PROVE  t1[c] = t[c] /\ (n \notin R => n \notin Range(t[c]))
      BY <1>0, <1>1, <2>2 DEF Listed, Pulled
    <2>3. t1[s[n]] = Detached(t[s[n]], n) /\ (n \notin R => Once(t[s[n]], n))
      BY <1>0, <1>1, <1>2 DEF Listed, Pulled
    <2> HIDE DEF t1
    <2> QED
      BY <1>4, <2>1, <2>2, <2>3
  <1> HIDE DEF t1
  <1>6. /\ Append(t1[p], n) \in Seq(NavIds)
        /\ Range(Append(t1[p], n)) = Range(t1[p]) \cup {n}
        /\ \A m : Once(t1[p], m) /\ (m = n => n \notin Range(t1[p]))
                   => Once(Append(t1[p], n), m)
    <2>1. t1[p] \in Seq(NavIds)
      BY <1>2, <1>5
    <2> QED
      BY <1>0, <2>1, Appended
  <1>7. /\ u \in [Containers -> Seq(NavIds)] /\ w \in [NavIds -> Containers \cup {Unplaced}]
        /\ u[p] = Append(t1[p], n) /\ \A c \in Containers \ {p} : u[c] = t1[c]
        /\ w[n] = p /\ \A m \in NavIds \ {n} : w[m] = s[m]
    BY <1>0, <1>1, <1>2, <1>5, <1>6 DEF Pushed
  <1> HIDE DEF u, w
  <1>8. /\ \A c \in Containers : Range(t[c]) \ {n} \subseteq Range(u[c])
        /\ n \in Range(u[p])
    <2>1. ASSUME NEW c \in Containers
          PROVE  Range(t[c]) \ {n} \subseteq Range(u[c])
      <3>1. CASE c = p
        BY <1>5, <1>6, <1>7, <3>1
      <3>2. CASE c # p
        BY <1>5, <1>7, <3>2
      <3> QED
        BY <3>1, <3>2
    <2> QED
      BY <1>6, <1>7, <2>1
  <1>9. There(w) = There(s)
    BY <1>0, <1>2, <1>7 DEF There
  <1>10. Listed(u, w, R)
    <2> SUFFICES ASSUME NEW c \in Containers, NEW m \in NavIds \ R
                 PROVE  Once(u[c], m) /\ (m \in Range(u[c]) => w[m] = c)
      BY DEF Listed
    <2>1. /\ Once(t1[c], m) /\ Range(t1[c]) \subseteq Range(t[c])
          /\ m \in Range(t[c]) => s[m] = c
          /\ m = n => m \notin Range(t1[c])
      <3>1. Once(t[c], m) /\ (m \in Range(t[c]) => s[m] = c)
        BY <1>1 DEF Listed
      <3>2. Once(t1[c], m)
        BY <1>5, <3>1
      <3>3. Range(t1[c]) \subseteq Range(t[c]) /\ (m = n => m \notin Range(t1[c]))
        BY <1>5
      <3> QED
        BY <3>1, <3>2, <3>3
    <2>2. CASE c = p
      <3>1. Once(u[c], m)
        <4>1. Once(t1[p], m) /\ (m = n => n \notin Range(t1[p]))
          BY <2>1, <2>2
        <4>2. Once(Append(t1[p], n), m)
          BY <1>6, <4>1
        <4>3. u[c] = Append(t1[p], n)
          BY <1>7, <2>2
        <4> QED
          BY <4>2, <4>3
      <3>2. m \in Range(u[c]) => m = n \/ m \in Range(t[c])
        BY <1>6, <1>7, <2>1, <2>2
      <3> QED
        BY <1>7, <2>1, <2>2, <3>1, <3>2
    <2>3. CASE c # p
      BY <1>7, <2>1, <2>3
    <2> QED
      BY <2>2, <2>3
  <1>11. Housed(u, w)
    <2>1. ASSUME NEW m \in There(s)
          PROVE  w[m] \in {"root"} \cup (Groups \cap There(s)) /\ m \in Range(u[w[m]])
      <3>1. CASE m = n
        BY <1>0, <1>2, <1>7, <1>8, <3>1
      <3>2. CASE m # n
        <4>1. m \in NavIds /\ w[m] = s[m]
          BY <1>7, <3>2 DEF There
        <4>2. s[m] \in {"root"} \cup (Groups \cap There(s)) /\ m \in Range(t[s[m]])
          BY <1>1 DEF Housed
        <4>3. s[m] \in Containers
          BY <4>2, Ids
        <4>4. m \in Range(t[s[m]]) \ {n}
          BY <3>2, <4>2
        <4>5. \A c \in Containers : Range(t[c]) \ {n} \subseteq Range(u[c])
          BY <1>8
        <4>6. m \in Range(u[s[m]])
          BY ONLY <4>3, <4>4, <4>5
        <4> QED
          BY <4>1, <4>2, <4>6
      <3> QED
        BY <3>1, <3>2
    <2> QED
      BY <1>9, <2>1 DEF Housed
  <1>12. Bare(u, w)
    <2> SUFFICES ASSUME NEW g \in Groups \ There(s)
                 PROVE  Range(u[g]) = {}
      BY <1>9 DEF Bare
    <2>1. g \in Containers /\ g # p
      BY <1>0, Ids
    <2>2. Range(t[g]) = {} /\ u[g] = t1[g]
      BY <1>1, <1>7, <2>1 DEF Bare
    <2> QED
      BY <1>5, <2>1, <2>2
  <1>13. Rooted(w)
    <2> SUFFICES ASSUME NEW W \in SUBSET (Groups \cap There(s)), W # {},
                        \A g \in W : w[g] \in W
                 PROVE  FALSE
      BY <1>9 DEF Rooted
    <2>1. \A g \in W : g \in NavIds
      BY DEF There
    <2>2. CASE n \notin W
      <3>1. \A g \in W : s[g] \in W
        BY <1>7, <2>1, <2>2
      <3> QED
        BY <1>1, <3>1 DEF Rooted
    <2>3. CASE n \in W
      <3>1. p \in W /\ n \in Groups
        BY <1>7, <2>3
      <3>2. PICK S \in SUBSET Groups :
              /\ n \in S /\ \A g \in S : Contents(g) \cap Groups \subseteq S
              /\ \A g \in S : p \notin Contents(g)
        BY <1>0, <3>1 DEF ContainsId
      <3> DEFINE C == S \ {p}
      <3>3. n \in C /\ \A g \in C : Contents(g) \cap Groups \subseteq C
        BY <1>0, <3>2
      <3>4. W \ C \in SUBSET (Groups \cap There(s)) /\ W \ C # {}
        BY <3>1
      <3>5. ASSUME NEW g \in W \ C
            PROVE  s[g] \in W \ C
        <4>1. g # n /\ g \in Groups /\ g \in There(s)
          BY <3>3
        <4>2. s[g] \in W
          BY <1>7, <2>1, <4>1
        <4>3. g \in Range(t[s[g]])
          BY <1>1, <4>1 DEF Housed
        <4>4. g \in Contents(s[g])
          BY <4>3 DEF Contents, t
        <4> HIDE DEF C
        <4> QED
          BY <3>3, <4>1, <4>2, <4>4
      <3> HIDE DEF C
      <3> QED
        BY <1>1, <3>4, <3>5 DEF Rooted
    <2> QED
      BY <2>2, <2>3
  <1> QED
    BY <1>1, <1>7, <1>9, <1>10, <1>11, <1>13, <1>12 DEF OneTree, t, t1, s, u, w

LEMMA Sorting ==
  ASSUME MaxOrder \in Nat, nav.order \in [NavIds -> Orders],
         NEW R, OneTree(nav.tree, nav.slot, R)
  PROVE  OneTree([c \in Containers |-> Sorted(c)], nav.slot, R)
  <1> DEFINE u == [c \in Containers |-> Sorted(c)]
  <1>1. /\ nav.tree \in [Containers -> Seq(NavIds)]
        /\ nav.slot \in [NavIds -> Containers \cup {Unplaced}]
        /\ Housed(nav.tree, nav.slot) /\ Bare(nav.tree, nav.slot) /\ Rooted(nav.slot)
        /\ Listed(nav.tree, nav.slot, R) /\ R \subseteq NavIds \ Groups
    BY DEF OneTree
  <1>2. ASSUME NEW c \in Containers
        PROVE  /\ u[c] \in Seq(NavIds) /\ Range(u[c]) = Range(nav.tree[c])
               /\ \A m : Once(nav.tree[c], m) => Once(u[c], m)
    <2>1. nav.tree[c] \in Seq(NavIds)
      BY <1>1
    <2>2. /\ Sorted(c) \in Seq(NavIds) /\ Range(Sorted(c)) = Range(nav.tree[c])
          /\ \A m : Once(nav.tree[c], m) => Once(Sorted(c), m)
      BY <2>1, SortedSame
    <2> QED
      BY <2>2
  <1>3. u \in [Containers -> Seq(NavIds)]
    BY <1>2
  <1> HIDE DEF u
  <1>4. Listed(u, nav.slot, R)
    BY <1>1, <1>2 DEF Listed
  <1>5. Housed(u, nav.slot)
    <2>1. There(nav.slot) \subseteq NavIds
      BY DEF There
    <2>2. \A n \in There(nav.slot) : nav.slot[n] \in Containers
      BY <1>1 DEF Housed, Containers
    <2> QED
      BY <1>1, <1>2, <2>2 DEF Housed
  <1>6. Bare(u, nav.slot)
    BY <1>1, <1>2 DEF Bare, Containers
  <1> QED
    BY <1>1, <1>3, <1>4, <1>5, <1>6 DEF OneTree, u

-----------------------------------------------------------------------------
(* The menu: what a deployment does to it *)

\* What is asked for so far is done or reported; an override is read when all items are.
MetSoFar ==
  /\ \A n \in wish.items : n \in Placed \/ <<"item", n>> \in nav.defects
  /\ \A n \in wish.patched :
       \/ <<"override", n>> \in nav.defects
       \/ n \in Placed /\ wish.parent[n] \in {Unplaced, nav.slot[n]}
  /\ nav.stage = "items" => wish.patched = {}

NavInv ==
  /\ NavTypeOK /\ OneTree(nav.tree, nav.slot, wish.repeated)
  /\ BuiltIn \subseteq Placed /\ MetSoFar

LEMMA PlacedThere == Placed = There(nav.slot)
  BY DEF Placed, There

LEMMA NavInvInit ==
  ASSUME NavigationAssumption, NavInit
  PROVE  NavInv
  <1>1. OneTree(nav.tree, nav.slot, {}) /\ BuiltIn \subseteq Placed
    BY OneTreeInit, PlacedThere
  <1>2. nav.tree \in [Containers -> Seq(NavIds)]
        /\ nav.slot \in [NavIds -> Containers \cup {Unplaced}]
    BY <1>1 DEF OneTree
  <1>3. /\ nav = [stage |-> "items", tree |-> nav.tree, slot |-> nav.slot,
                  order |-> [n \in NavIds |-> 0], defects |-> {}]
        /\ wish = [items |-> {}, read |-> 0, patched |-> {},
                   parent |-> [n \in NavIds |-> Unplaced], repeated |-> {}]
    BY DEF NavInit
  <1>4. 0 \in Orders /\ 0 \in 0..MaxItems
    BY DEF Orders, NavigationAssumption
  <1>5. NavTypeOK
    <2>1. [n \in NavIds |-> 0] \in [NavIds -> Orders]
      BY <1>4
    <2>2. [n \in NavIds |-> Unplaced] \in [NavIds -> Containers \cup {Nowhere, Unplaced}]
      OBVIOUS
    <2>3. nav \in [stage : {"items", "overrides", "composed"}, tree : [Containers -> Seq(NavIds)],
                   slot : [NavIds -> Containers \cup {Unplaced}], order : [NavIds -> Orders],
                   defects : SUBSET ({"item", "override"} \X NavIds)]
      BY <1>2, <1>3, <2>1
    <2>4. wish \in [items : SUBSET NavIds, read : 0..MaxItems, patched : SUBSET NavIds,
                    parent : [NavIds -> Containers \cup {Nowhere, Unplaced}],
                    repeated : SUBSET (NavIds \ Groups)]
      BY <1>3, <1>4, <2>2
    <2> QED
      BY <2>3, <2>4 DEF NavTypeOK
  <1>6. wish.items = {} /\ wish.patched = {} /\ wish.repeated = {}
    BY <1>3
  <1> QED
    BY <1>1, <1>5, <1>6 DEF NavInv, MetSoFar

(* One item: the entry nested in an added group is put in it like the group in its *)
(* parent, as there is nothing in a group that is not there yet; if it was there    *)
(* before, its id is one of those repeated from now on.                             *)
LEMMA AddItemStep ==
  ASSUME NavigationAssumption, NavInv, NEW n \in NavIds, NEW parent, NEW urlOk \in BOOLEAN,
         AddItem(n, parent, urlOk)
  PROVE  NavInv'
  <1> DEFINE nests == IF n \in Groups THEN NavIds \ (Groups \cup Dividers) ELSE {n}
  <1>0. /\ NavTypeOK /\ OneTree(nav.tree, nav.slot, wish.repeated)
        /\ BuiltIn \subseteq Placed /\ MetSoFar /\ nav.stage = "items"
    BY DEF NavInv, AddItem
  <1>1. wish.read \in 0..MaxItems /\ wish.read < MaxItems
    BY <1>0 DEF AddItem, NavTypeOK
  <1>2. ASSUME NEW again \in SUBSET (NavIds \ Groups), wish' = Asked(n, again)
        PROVE  /\ wish' \in [items : SUBSET NavIds, read : 0..MaxItems, patched : SUBSET NavIds,
                              parent : [NavIds -> Containers \cup {Nowhere, Unplaced}],
                              repeated : SUBSET (NavIds \ Groups)]
               /\ wish'.items = wish.items \cup {n} /\ wish'.patched = {}
               /\ wish'.repeated = wish.repeated \cup again
    <2>1. wish.read + 1 \in 0..MaxItems
      BY <1>1 DEF NavigationAssumption
    <2> QED
      BY <1>0, <1>2, <2>1 DEF NavTypeOK, MetSoFar, Asked
  <1>3. CASE Usable(n) /\ urlOk /\ Holds(parent)
    <2>1. PICK nested \in nests :
            /\ nav' = [nav EXCEPT
                 !.tree = IF nested = n THEN Pushed(@, parent, n)
                          ELSE [Pushed(@, parent, n) EXCEPT ![n] = <<nested>>],
                 !.slot = [@ EXCEPT ![nested] = n, ![n] = parent]]
            /\ wish' = Asked(n, {nested} \cap Placed)
      BY <1>3 DEF AddItem
    <2> DEFINE R == wish.repeated
               again == {nested} \cap Placed
               t == nav.tree
               s == nav.slot
               t1 == [t EXCEPT ![parent] = Append(@, n)]
               s1 == [s EXCEPT ![n] = parent]
    <2>2. n \notin There(s) /\ parent \in {"root"} \cup (Groups \cap There(s))
      BY <1>3, PlacedThere DEF Usable, Holds
    <2>3. OneTree(t1, s1, R) /\ There(s1) = There(s) \cup {n}
      <3> HIDE DEF t, s, R
      <3>1. OneTree(t, s, R) /\ n \notin Groups \cap There(s)
        BY <1>0, <2>2 DEF t, s, R
      <3>2. /\ OneTree([t EXCEPT ![parent] = Append(@, n)], [s EXCEPT ![n] = parent],
                       R \cup ({n} \cap There(s)))
            /\ There([s EXCEPT ![n] = parent]) = There(s) \cup {n}
        BY <2>2, <3>1, Placing, Zenon
      <3>3. R \cup ({n} \cap There(s)) = R
        BY <2>2
      <3> HIDE DEF t1, s1
      <3> QED
        BY <3>2, <3>3 DEF t1, s1
    <2>4. /\ OneTree(nav'.tree, nav'.slot, R \cup again) /\ n \in There(nav'.slot)
          /\ There(s) \subseteq There(nav'.slot)
      <3>0. /\ t \in [Containers -> Seq(NavIds)] /\ s \in [NavIds -> Containers \cup {Unplaced}]
            /\ parent \in Containers /\ parent # n
        BY <1>0, <2>2, Ids DEF OneTree, There
      <3>1. CASE n \notin Groups
        <4>1. nested = n /\ R \cup again = R
          BY <2>1, <2>2, <3>1, PlacedThere
        <4>2. nav'.tree = t1 /\ nav'.slot = s1
          BY <1>0, <2>1, <4>1, <3>0 DEF NavTypeOK, Pushed
        <4> HIDE DEF t1, s1, R, again
        <4> QED
          BY <2>3, <4>1, <4>2
      <3>2. CASE n \in Groups
        <4>1. nested \in NavIds \ Groups /\ nested # n
          BY <2>1, <3>2
        <4>2. n \in Groups \cap There(s1) /\ again = {nested} \cap There(s1)
          BY <2>3, <3>2, <4>1, PlacedThere
        <4>3. /\ OneTree([t1 EXCEPT ![n] = Append(@, nested)], [s1 EXCEPT ![nested] = n],
                         R \cup ({nested} \cap There(s1)))
              /\ There([s1 EXCEPT ![nested] = n]) = There(s1) \cup {nested}
          <5> HIDE DEF t1, s1, R
          <5>1. n \in {"root"} \cup (Groups \cap There(s1))
            BY <4>2
          <5>2. nested \in NavIds /\ nested \notin Groups \cap There(s1) /\ OneTree(t1, s1, R)
            BY <2>3, <4>1
          <5> QED
            BY <5>1, <5>2, Placing, Zenon
        <4>4. t[n] = <<>>
          <5>1. n \in Containers /\ t[n] \in Seq(NavIds)
            BY <3>0, <3>2, Ids
          <5>2. Range(t[n]) = {}
            BY <1>0, <2>2, <3>2 DEF OneTree, Bare
          <5> DEFINE list == t[n]
          <5>3. list \in Seq(NavIds) /\ Range(list) = {}
            BY <5>1, <5>2
          <5> HIDE DEF list
          <5>4. Len(list) \in Nat /\ DOMAIN list = 1..Len(list)
            BY <5>3, LenProperties
          <5>5. DOMAIN list = {}
            <6>1. \A i \in DOMAIN list : list[i] \in Range(list)
              BY DEF Range
            <6> QED
              BY <5>3, <6>1
          <5>6. Len(list) = 0
            BY <5>4, <5>5
          <5>7. list = <<>>
            BY <5>3, <5>6, EmptySeq
          <5> QED
            BY <5>7 DEF list
        <4>5. t1[n] = <<>>
          BY <3>0, <3>2, <4>4, Ids
        <4>6. Append(t1[n], nested) = <<nested>>
          <5>1. Append(<<>>, nested) = <<nested>>
            OBVIOUS
          <5> QED
            BY <4>5, <5>1
        <4>7. nav'.tree = [t1 EXCEPT ![n] = <<nested>>]
              /\ nav'.slot = [[s EXCEPT ![nested] = n] EXCEPT ![n] = parent]
          BY <1>0, <2>1, <4>1 DEF NavTypeOK, Pushed
        <4>8. nav'.tree = [t1 EXCEPT ![n] = Append(@, nested)]
          BY <4>6, <4>7
        <4>9. nav'.slot = [s1 EXCEPT ![nested] = n]
          BY <3>0, <4>1, <4>7
        <4> HIDE DEF t1, s1, R, again
        <4> QED
          BY <2>3, <4>2, <4>3, <4>8, <4>9
      <3> QED
        BY <3>1, <3>2
    <2>5. again \in SUBSET (NavIds \ Groups) /\ wish' = Asked(n, again)
      BY <1>3, <2>1 DEF Usable
    <2>6. /\ nav'.stage = "items" /\ nav'.order = nav.order /\ nav'.defects = nav.defects
          /\ nav' = [nav EXCEPT !.tree = nav'.tree, !.slot = nav'.slot]
      BY <1>0, <2>1 DEF NavTypeOK
    <2>7. NavTypeOK'
      <3>1. nav'.tree \in [Containers -> Seq(NavIds)]
            /\ nav'.slot \in [NavIds -> Containers \cup {Unplaced}]
        BY <2>4 DEF OneTree
      <3> QED
        BY <1>0, <1>2, <2>6, <2>5, <3>1 DEF NavTypeOK
    <2>8. Placed' = There(nav'.slot) /\ Placed = There(s)
      BY DEF Placed, There
    <2>9. MetSoFar'
      <3>1. wish'.items = wish.items \cup {n} /\ wish'.patched = {}
        BY <1>2, <2>5
      <3>2. n \in Placed' /\ Placed \subseteq Placed'
        BY <2>4, <2>8
      <3> QED
        BY <1>0, <2>6, <3>1, <3>2 DEF MetSoFar
    <2>10. wish'.repeated = R \cup again
      BY <1>2, <2>5
    <2> QED
      BY <1>0, <2>4, <2>7, <2>8, <2>9, <2>10 DEF NavInv
  <1>4. CASE ~(Usable(n) /\ urlOk /\ Holds(parent))
    <2>1. nav' = [nav EXCEPT !.defects = @ \cup {<<"item", n>>}] /\ wish' = Asked(n, {})
      BY <1>4 DEF AddItem
    <2>2. /\ nav'.tree = nav.tree /\ nav'.slot = nav.slot /\ nav'.stage = nav.stage
          /\ nav'.defects = nav.defects \cup {<<"item", n>>} /\ NavTypeOK'
      <3>1. nav.defects \cup {<<"item", n>>} \in SUBSET ({"item", "override"} \X NavIds)
        BY <1>0 DEF NavTypeOK
      <3> QED
        BY <1>0, <1>2, <2>1, <3>1 DEF NavTypeOK
    <2>3. Placed' = Placed
      BY <2>2 DEF Placed
    <2>4. wish'.repeated = wish.repeated
      <3>1. {} \in SUBSET (NavIds \ Groups)
        OBVIOUS
      <3>2. wish'.repeated = wish.repeated \cup {}
        BY <1>2, <2>1, <3>1, Zenon
      <3> QED
        BY <3>2
    <2> QED
      BY <1>0, <1>2, <2>1, <2>2, <2>3, <2>4 DEF NavInv, MetSoFar
  <1> QED
    BY <1>3, <1>4

LEMMA OverrideStep ==
  ASSUME NavigationAssumption, NavInv, NEW n \in NavIds,
         NEW parent \in Containers \cup {Nowhere, Unplaced}, NEW order \in Orders,
         Override(n, parent, order)
  PROVE  NavInv'
  <1>0. /\ NavTypeOK /\ OneTree(nav.tree, nav.slot, wish.repeated)
        /\ BuiltIn \subseteq Placed /\ MetSoFar /\ nav.stage = "overrides" /\ n \notin wish.patched
    BY DEF NavInv, Override
  <1>1. wish' = [wish EXCEPT !.patched = @ \cup {n}, !.parent[n] = parent]
    BY DEF Override
  <1>2. /\ wish' \in [items : SUBSET NavIds, read : 0..MaxItems, patched : SUBSET NavIds,
                      parent : [NavIds -> Containers \cup {Nowhere, Unplaced}],
                      repeated : SUBSET (NavIds \ Groups)]
        /\ wish'.repeated = wish.repeated
        /\ wish'.items = wish.items /\ wish'.patched = wish.patched \cup {n}
        /\ wish'.parent[n] = parent /\ \A m \in NavIds \ {n} : wish'.parent[m] = wish.parent[m]
    BY <1>0, <1>1 DEF NavTypeOK
  <1>3. wish.items \subseteq NavIds /\ wish.patched \subseteq NavIds \ {n}
    BY <1>0 DEF NavTypeOK
  \* What is not n stays where it is, and nothing reported is taken back.
  <1>4. ASSUME NavTypeOK', OneTree(nav'.tree, nav'.slot, wish.repeated),
               Placed' = Placed,
               nav'.stage = "overrides", nav.defects \subseteq nav'.defects,
               \A m \in NavIds \ {n} : nav'.slot[m] = nav.slot[m],
               <<"override", n>> \in nav'.defects
                 \/ (n \in Placed /\ parent \in {Unplaced, nav'.slot[n]})
        PROVE  NavInv'
    <2>1. \A m \in wish'.items : m \in Placed' \/ <<"item", m>> \in nav'.defects
      BY <1>0, <1>2, <1>4 DEF MetSoFar
    <2>2. ASSUME NEW m \in wish'.patched
          PROVE  \/ <<"override", m>> \in nav'.defects
                 \/ m \in Placed' /\ wish'.parent[m] \in {Unplaced, nav'.slot[m]}
      <3>1. CASE m = n
        BY <1>2, <1>4, <3>1
      <3>2. CASE m # n
        <4>1. m \in wish.patched /\ m \in NavIds \ {n}
          BY <1>2, <1>3, <3>2
        <4>2. wish'.parent[m] = wish.parent[m] /\ nav'.slot[m] = nav.slot[m]
          BY <1>2, <1>4, <4>1
        <4> QED
          BY <1>0, <1>4, <4>1, <4>2 DEF MetSoFar
      <3> QED
        BY <3>1, <3>2
    <2>3. MetSoFar'
      BY <1>4, <2>1, <2>2 DEF MetSoFar
    <2> QED
      BY <1>0, <1>2, <1>4, <2>3 DEF NavInv
  <1>5. <<"override", n>> \in {"item", "override"} \X NavIds
    OBVIOUS
  <1>6. CASE n \notin Placed
    <2>1. nav' = [nav EXCEPT !.defects = @ \cup {<<"override", n>>}]
      BY <1>6 DEF Override
    <2>2. /\ NavTypeOK' /\ nav'.tree = nav.tree /\ nav'.slot = nav.slot
          /\ nav'.stage = nav.stage /\ nav'.defects = nav.defects \cup {<<"override", n>>}
      BY <1>0, <1>2, <1>5, <2>1 DEF NavTypeOK
    <2>3. Placed' = Placed
      BY <2>2 DEF Placed
    <2> QED
      BY <1>0, <1>4, <2>2, <2>3
  <1>7. CASE n \in Placed /\ parent = Unplaced
    <2>1. nav' = [nav EXCEPT !.order[n] = order]
      BY <1>7 DEF Override
    <2>2. /\ NavTypeOK' /\ nav'.tree = nav.tree /\ nav'.slot = nav.slot
          /\ nav'.stage = nav.stage /\ nav'.defects = nav.defects
      BY <1>0, <1>2, <2>1 DEF NavTypeOK
    <2>3. Placed' = Placed
      BY <2>2 DEF Placed
    <2> QED
      BY <1>0, <1>4, <1>7, <2>2, <2>3
  <1>8. CASE n \in Placed /\ parent # Unplaced /\ MayMove(n, parent)
    <2> DEFINE u == Pushed(Pulled(nav.tree, nav.slot[n], n), parent, n)
               w == [nav.slot EXCEPT ![n] = parent]
    <2>1. nav' = [nav EXCEPT !.order[n] = order, !.slot[n] = parent, !.tree = u]
      BY <1>8 DEF Override, Moved
    <2>2. OneTree(u, w, wish.repeated) /\ There(w) = There(nav.slot)
      BY <1>0, <1>8, Moving
    <2>3. u \in [Containers -> Seq(NavIds)] /\ w \in [NavIds -> Containers \cup {Unplaced}]
      BY <2>2 DEF OneTree
    <2>5. w[n] = parent /\ \A m \in NavIds \ {n} : w[m] = nav.slot[m]
      BY <1>0 DEF NavTypeOK
    <2> HIDE DEF u
    <2>6. /\ NavTypeOK' /\ nav'.tree = u /\ nav'.slot = w
          /\ nav'.stage = nav.stage /\ nav'.defects = nav.defects
      BY <1>0, <1>2, <2>1, <2>3 DEF NavTypeOK
    <2> HIDE DEF w
    <2>7. Placed' = Placed
      BY <2>2, <2>6 DEF Placed, There
    <2> QED
      BY <1>0, <1>4, <1>8, <2>2, <2>5, <2>6, <2>7
  <1>9. CASE n \in Placed /\ parent # Unplaced /\ ~MayMove(n, parent)
    <2>1. nav' = [nav EXCEPT !.order[n] = order,
                             !.defects = @ \cup {<<"override", n>>}]
      BY <1>9 DEF Override, MoveDefects
    <2>2. /\ NavTypeOK' /\ nav'.tree = nav.tree /\ nav'.slot = nav.slot
          /\ nav'.stage = nav.stage /\ nav'.defects = nav.defects \cup {<<"override", n>>}
      BY <1>0, <1>2, <1>5, <2>1 DEF NavTypeOK
    <2>3. Placed' = Placed
      BY <2>2 DEF Placed
    <2> QED
      BY <1>0, <1>4, <2>2, <2>3
  <1> QED
    BY <1>6, <1>7, <1>8, <1>9

LEMMA NavInvStep ==
  ASSUME NavigationAssumption, NavInv, [NavNext]_navVars
  PROVE  NavInv'
  <1>0. /\ NavTypeOK /\ OneTree(nav.tree, nav.slot, wish.repeated)
        /\ BuiltIn \subseteq Placed /\ MetSoFar
    BY DEF NavInv
  <1>1. CASE \E n \in NavIds, parent \in Containers \cup {Nowhere} :
               \E urlOk \in BOOLEAN : AddItem(n, parent, urlOk)
    BY <1>1, AddItemStep
  <1>2. CASE ItemsRead
    <2>1. /\ nav' = [nav EXCEPT !.stage = "overrides"] /\ wish' = wish
          /\ nav.stage = "items"
      BY <1>2 DEF ItemsRead
    <2>2. /\ NavTypeOK' /\ nav'.tree = nav.tree /\ nav'.slot = nav.slot
          /\ nav'.stage = "overrides" /\ nav'.defects = nav.defects
      BY <1>0, <2>1 DEF NavTypeOK
    <2>3. Placed' = Placed
      BY <2>2 DEF Placed
    <2> QED
      BY <1>0, <2>1, <2>2, <2>3 DEF NavInv, MetSoFar
  <1>3. CASE \E n \in NavIds, parent \in Containers \cup {Nowhere, Unplaced}, order \in Orders :
               Override(n, parent, order)
    BY <1>3, OverrideStep
  <1>4. CASE Compose
    <2> DEFINE u == [c \in Containers |-> Sorted(c)]
    <2>1. /\ nav' = [nav EXCEPT !.stage = "composed",
                                !.tree = [c \in Containers |-> Sorted(c)]]
          /\ wish' = wish
      BY <1>4 DEF Compose
    <2>2. OneTree(u, nav.slot, wish.repeated)
      BY <1>0, Sorting DEF NavTypeOK, NavigationAssumption
    <2>3. u \in [Containers -> Seq(NavIds)]
      BY <2>2 DEF OneTree
    <2>4. nav' = [nav EXCEPT !.stage = "composed", !.tree = u]
      BY <2>1
    <2> HIDE DEF u
    <2>5. /\ NavTypeOK' /\ nav'.tree = u /\ nav'.slot = nav.slot
          /\ nav'.stage = "composed" /\ nav'.defects = nav.defects
      BY <1>0, <2>1, <2>3, <2>4 DEF NavTypeOK
    <2>6. Placed' = Placed
      BY <2>5 DEF Placed
    <2> QED
      BY <1>0, <2>1, <2>2, <2>5, <2>6 DEF NavInv, MetSoFar
  <1>5. CASE UNCHANGED navVars
    BY <1>0, <1>5 DEF navVars, NavInv, NavTypeOK, Placed, MetSoFar
  <1> QED
    BY <1>1, <1>2, <1>3, <1>4, <1>5 DEF NavNext

-----------------------------------------------------------------------------
(* The menu: what is shown *)

\* A set that holds, with a group, the list the group sits in.
GoesUp(S) == \A g \in S \cap Groups : nav.slot[g] \in S

\* The lists entry n sits in are the least set that goes up from its own.
LEMMA AboveLeast ==
  ASSUME NEW n, nav.slot[n] \in Containers \cup {Unplaced}
  PROVE  /\ Above(n) \subseteq Containers \cup {Unplaced} /\ nav.slot[n] \in Above(n)
         /\ \A S \in SUBSET (Containers \cup {Unplaced}) :
              nav.slot[n] \in S /\ GoesUp(S) => Above(n) \subseteq S
  <1> DEFINE closed == {S \in {{nav.slot[n]} \cup T : T \in SUBSET (Containers \cup {Unplaced})} :
                          \A g \in S \cap Groups : nav.slot[g] \in S}
  <1>1. Above(n) = {c \in Containers \cup {Unplaced} : \A S \in closed : c \in S}
    BY DEF Above
  <1>2. \A S \in closed : nav.slot[n] \in S
    OBVIOUS
  <1>3. ASSUME NEW S \in SUBSET (Containers \cup {Unplaced}), nav.slot[n] \in S, GoesUp(S)
        PROVE  S \in closed
    <2>1. S = {nav.slot[n]} \cup S
      BY <1>3
    <2> QED
      BY <1>3, <2>1 DEF GoesUp
  <1> HIDE DEF closed
  <1> QED
    BY <1>1, <1>2, <1>3

LEMMA AboveGoesUp ==
  ASSUME NavigationAssumption, NEW R, OneTree(nav.tree, nav.slot, R), NEW n
  PROVE  GoesUp(Above(n))
  <1> DEFINE closed == {S \in {{nav.slot[n]} \cup T : T \in SUBSET (Containers \cup {Unplaced})} :
                          \A g \in S \cap Groups : nav.slot[g] \in S}
  <1>1. Above(n) = {c \in Containers \cup {Unplaced} : \A S \in closed : c \in S}
    BY DEF Above
  <1>2. \A S \in closed : \A g \in S \cap Groups : nav.slot[g] \in S
    OBVIOUS
  <1> HIDE DEF closed
  <1>3. \A g \in Groups : nav.slot[g] \in Containers \cup {Unplaced}
    BY Ids DEF OneTree
  <1> QED
    BY <1>1, <1>2, <1>3 DEF GoesUp

(* Every entry is under the root, and under groups that are there: the lists above it *)
(* that are not the root would else be groups nested in one another only.             *)
LEMMA UnderTheRoot ==
  ASSUME NavigationAssumption, NEW R, OneTree(nav.tree, nav.slot, R), NEW n \in Placed
  PROVE  "root" \in Above(n) /\ Above(n) \subseteq {"root"} \cup (Groups \cap Placed)
  <1> DEFINE upper == {"root"} \cup (Groups \cap Placed)
  <1>1. /\ nav.slot[n] \in upper
        /\ \A g \in Groups \cap Placed : nav.slot[g] \in upper
    BY PlacedThere DEF OneTree, Housed
  <1>2. upper \subseteq Containers
    BY Ids
  <1>3. Above(n) \subseteq upper
    <2>1. GoesUp(upper)
      BY <1>1, Ids DEF GoesUp
    <2> HIDE DEF upper
    <2> QED
      BY <1>1, <1>2, <2>1, AboveLeast
  <1>4. nav.slot[n] \in Above(n)
    BY <1>1, <1>2, AboveLeast
  <1>5. "root" \in Above(n)
    <2> SUFFICES ASSUME "root" \notin Above(n)
                 PROVE  FALSE
      OBVIOUS
    <2>1. Above(n) \in SUBSET (Groups \cap There(nav.slot)) /\ Above(n) # {}
      BY <1>3, <1>4, PlacedThere
    <2>2. \A g \in Above(n) : nav.slot[g] \in Above(n)
      BY <2>1, AboveGoesUp DEF GoesUp
    <2> QED
      BY <2>1, <2>2 DEF OneTree, Rooted
  <1> QED
    BY <1>3, <1>5

\* A set that holds, with a list, the groups in it that v sees.
GoesDown(v, S) ==
  \A d \in S : \A g \in Contents(d) \cap Groups : IsItemVisible(v, g) => g \in S

(* The lists filterNavItems goes into are the least set that goes down from the root. *)
LEMMA OpenedLeast ==
  ASSUME NavigationAssumption, NEW v
  PROVE  /\ "root" \in Opened(v, "root") /\ Opened(v, "root") \subseteq Containers
         /\ GoesDown(v, Opened(v, "root"))
         /\ \A S \in SUBSET Containers :
              "root" \in S /\ GoesDown(v, S) => Opened(v, "root") \subseteq S
         /\ \A c \in Containers \ Opened(v, "root") :
              \E S \in SUBSET Containers : "root" \in S /\ GoesDown(v, S) /\ c \notin S
  <1> DEFINE closed == {S \in {{"root"} \cup T : T \in SUBSET Groups} :
                          \A d \in S : \A g \in Contents(d) \cap Groups :
                            IsItemVisible(v, g) => g \in S}
  <1>1. Opened(v, "root") = {d \in Containers : \A S \in closed : d \in S}
    BY DEF Opened
  <1>2. \A S \in closed : "root" \in S /\ S \subseteq Containers /\ GoesDown(v, S)
    BY DEF GoesDown, Containers
  <1>3. ASSUME NEW S \in SUBSET Containers, "root" \in S, GoesDown(v, S)
        PROVE  S \in closed
    <2>1. S = {"root"} \cup (S \cap Groups)
      <3>1. \A c \in S : c = "root" \/ c \in Groups
        BY DEF Containers
      <3> QED
        BY <1>3, <3>1
    <2>2. S \in {{"root"} \cup T : T \in SUBSET Groups}
      BY <2>1
    <2> QED
      BY <1>3, <2>2 DEF GoesDown
  <1> HIDE DEF closed
  <1>4. "root" \in Opened(v, "root") /\ Opened(v, "root") \subseteq Containers
    BY <1>1, <1>2 DEF Containers
  <1>5. GoesDown(v, Opened(v, "root"))
    BY <1>1, <1>2 DEF GoesDown, Containers
  <1>6. \A c \in Containers \ Opened(v, "root") : \E S \in closed : c \notin S
    BY <1>1
  <1> QED
    BY <1>1, <1>2, <1>3, <1>4, <1>5, <1>6

(* filterNavItems goes into the list an entry sits in if and only if the groups above *)
(* the entry are visible.                                                             *)
LEMMA OpenedAbove ==
  ASSUME NavigationAssumption, NEW R, OneTree(nav.tree, nav.slot, R), NEW n \in Placed, NEW v
  PROVE  nav.slot[n] \in Opened(v, "root")
           <=> \A g \in Above(n) \ {"root"} : IsItemVisible(v, g)
  <1> DEFINE seen(x) == \A g \in Above(x) \ {"root"} : IsItemVisible(v, g)
             O == Opened(v, "root")
  <1>0. /\ \A m \in Placed : m \in NavIds /\ nav.slot[m] \in Containers
                             /\ m \in Contents(nav.slot[m])
        /\ \A c \in Containers : \A m \in Contents(c) \cap Groups : nav.slot[m] = c /\ m \in Placed
    <2>1. \A m \in Placed : m \in NavIds /\ nav.slot[m] \in Containers
                            /\ m \in Contents(nav.slot[m])
      BY PlacedThere DEF OneTree, Housed, Contents, Containers, There
    <2>2. \A c \in Containers : \A m \in Contents(c) \cap Groups : nav.slot[m] = c
      BY Ids DEF OneTree, Listed, Contents
    <2> QED
      BY <2>1, <2>2, Ids DEF Placed
  \* An entry of a list is seen if the list is visible and seen itself.
  <1>1. ASSUME NEW m \in Placed, nav.slot[m] # "root" =>
                 IsItemVisible(v, nav.slot[m]) /\ seen(nav.slot[m])
        PROVE  seen(m)
    <2> DEFINE d == nav.slot[m]
               S == {d} \cup (IF d = "root" THEN {} ELSE Above(d))
    <2>1. d \in Containers /\ (d # "root" => d \in Groups /\ d \in Placed)
      BY <1>0, PlacedThere DEF OneTree, Housed
    <2>2. S \subseteq Containers \cup {Unplaced} /\ GoesUp(S)
      <3>1. CASE d = "root"
        BY <2>1, <3>1, Ids DEF GoesUp
      <3>2. CASE d # "root"
        <4>1. nav.slot[d] \in Containers \cup {Unplaced}
          BY <1>0, <2>1, <3>2
        <4>2. Above(d) \subseteq Containers \cup {Unplaced} /\ nav.slot[d] \in Above(d)
          BY <4>1, AboveLeast
        <4>3. GoesUp(Above(d))
          BY AboveGoesUp
        <4>4. S = {d} \cup Above(d)
          BY <3>2
        <4> HIDE DEF S, d
        <4> QED
          BY <2>1, <4>2, <4>3, <4>4 DEF GoesUp
      <3> QED
        BY <3>1, <3>2
    <2>3. Above(m) \subseteq S
      <3>1. d \in S
        OBVIOUS
      <3> HIDE DEF S
      <3> QED
        BY <2>1, <2>2, <3>1, AboveLeast
    <2> QED
      BY <1>1, <2>3
  <1>2. ASSUME nav.slot[n] \in O
        PROVE  seen(n)
    <2> DEFINE V == {c \in Containers : c = "root" \/ (IsItemVisible(v, c) /\ seen(c))}
    <2>1. GoesDown(v, V)
      <3> SUFFICES ASSUME NEW d \in V, NEW g \in Contents(d) \cap Groups, IsItemVisible(v, g)
                   PROVE  g \in V
        BY DEF GoesDown
      <3>1. g \in Placed /\ nav.slot[g] = d /\ g \in Containers
        BY <1>0, Ids
      <3>2. seen(g)
        BY <1>1, <3>1
      <3> QED
        BY <3>1, <3>2
    <2>2. O \subseteq V
      <3>1. "root" \in V /\ V \in SUBSET Containers
        BY DEF Containers
      <3> HIDE DEF V
      <3> QED
        BY <2>1, <3>1, OpenedLeast
    <2>3. nav.slot[n] \in V
      BY <1>2, <2>2
    <2> QED
      BY <1>1, <2>3
  <1>3. ASSUME seen(n), nav.slot[n] \notin O
        PROVE  FALSE
    <2>1. PICK S \in SUBSET Containers : "root" \in S /\ GoesDown(v, S) /\ nav.slot[n] \notin S
      BY <1>0, <1>3, OpenedLeast
    <2> DEFINE B == Above(n) \ S
    <2>2. B \in SUBSET (Groups \cap There(nav.slot)) /\ B # {}
      <3>1. nav.slot[n] \in Above(n)
        BY <1>0, AboveLeast
      <3> QED
        BY <2>1, <3>1, UnderTheRoot, PlacedThere
    <2>3. PICK g \in B : nav.slot[g] \notin B
      BY <2>2 DEF OneTree, Rooted
    <2>4. g \in Groups /\ g \in Placed /\ IsItemVisible(v, g)
      BY <1>3, <2>1, <2>2, <2>3, PlacedThere
    <2>5. nav.slot[g] \in Above(n)
      BY <2>3, <2>4, AboveGoesUp DEF GoesUp
    <2>6. nav.slot[g] \in S /\ g \in Contents(nav.slot[g])
      BY <1>0, <2>3, <2>4, <2>5
    <2> QED
      BY <2>1, <2>3, <2>4, <2>6 DEF GoesDown
  <1> QED
    BY <1>2, <1>3

LEMMA TreeIsShown ==
  ASSUME NavigationAssumption, NavInv
  PROVE  MenuIsOneTree
  <1>0. OneTree(nav.tree, nav.slot, wish.repeated) /\ BuiltIn \subseteq Placed
    BY DEF NavInv
  <1>1. ASSUME NEW n \in NavIds \ wish.repeated, NEW c \in Containers
        PROVE  LET at == Places(nav.tree[c], n) IN
               IF nav.slot[n] = c THEN \E i \in at : at = {i} ELSE at = {}
    <2>1. Once(nav.tree[c], n) /\ (n \in Contents(c) => nav.slot[n] = c)
      BY <1>0 DEF OneTree, Listed, Contents
    <2>2. CASE nav.slot[n] = c
      <3>1. n \in There(nav.slot)
        BY <2>2, Ids DEF There
      <3>2. n \in Contents(c)
        BY <1>0, <2>2, <3>1 DEF OneTree, Housed, Contents
      <3>3. PICK i \in Places(nav.tree[c], n) : TRUE
        BY <3>2 DEF Contents, Range, Places
      <3>4. Places(nav.tree[c], n) = {i}
        BY <2>1, <3>3 DEF Once
      <3> QED
        BY <2>2, <3>4
    <2>3. CASE nav.slot[n] # c
      BY <2>1, <2>3 DEF Contents, Range, Places
    <2> QED
      BY <2>2, <2>3
  <1>2. \A n \in Placed : "root" \in Above(n) /\ n \in Contents(nav.slot[n])
    BY <1>0, UnderTheRoot, PlacedThere DEF OneTree, Housed, Contents
  <1>3. ASSUME NEW v \in Views,
               NEW n \in Placed \ (Groups \cup Dividers \cup wish.repeated)
        PROVE  n \in Shown(v)
                 <=> \A m \in {n} \cup (Above(n) \ {"root"}) : IsItemVisible(v, m)
    <2>1. n \in Shown(v) <=> n \in Passing(v, "root")
      <3>1. Opened(v, "root") \ {"root"} \subseteq Groups
        BY OpenedLeast DEF Containers
      <3> QED
        BY <3>1 DEF Shown, FilterNavItems
    <2>2. n \in Passing(v, "root")
            <=> IsItemVisible(v, n) /\ \E d \in Opened(v, "root") : n \in Contents(d)
      <3> DEFINE below == UNION {Contents(d) : d \in Opened(v, "root")}
      <3>1. n \in below <=> \E d \in Opened(v, "root") : n \in Contents(d)
        OBVIOUS
      <3>2. n \in Passing(v, "root")
              <=> n \in below \ Groups /\ (n \in Dividers \/ IsItemVisible(v, n))
        BY DEF Passing
      <3> HIDE DEF below
      <3> QED
        BY <3>1, <3>2
    <2>3. (\E d \in Opened(v, "root") : n \in Contents(d)) <=> nav.slot[n] \in Opened(v, "root")
      <3>1. nav.slot[n] \in Containers /\ n \in Contents(nav.slot[n])
        BY <1>0, PlacedThere DEF OneTree, Housed, Contents, Containers
      <3>2. \A d \in Opened(v, "root") : d \in Containers
        BY OpenedLeast
      <3>3. \A d \in Opened(v, "root") : n \in Contents(d) => nav.slot[n] = d
        BY <1>0, <3>2 DEF OneTree, Listed, Contents, Placed
      <3> QED
        BY <3>1, <3>3
    <2>4. nav.slot[n] \in Opened(v, "root")
            <=> \A g \in Above(n) \ {"root"} : IsItemVisible(v, g)
      BY <1>0, OpenedAbove
    <2> QED
      BY <2>1, <2>2, <2>3, <2>4
  <1> QED
    BY <1>0, <1>1, <1>2, <1>3 DEF MenuIsOneTree

(* Whatever upstream declares and a deployment adds and moves, in whatever order: the *)
(* menu is one tree, and each entry is shown to whom it and the groups above it are,  *)
(* but for the ids of the menu that an added group repeats.                           *)
THEOREM MenuStaysOneTree ==
  ASSUME NavigationAssumption
  PROVE  NavSpec => []MenuIsOneTree
  <1>1. NavInv => MenuIsOneTree
    BY TreeIsShown
  <1> QED
    BY <1>1, NavInvInit, NavInvStep, PTL DEF NavSpec

(* And what its config.json asks for is done or reported. *)
THEOREM WishesAreKept ==
  ASSUME NavigationAssumption
  PROVE  NavSpec => []WishesAreMetOrReported
  <1>1. NavInv => WishesAreMetOrReported
    BY DEF NavInv, MetSoFar, WishesAreMetOrReported
  <1> QED
    BY <1>1, NavInvInit, NavInvStep, PTL DEF NavSpec

-----------------------------------------------------------------------------
(* The preview: the calendar *)

\* A month of those that a preview looks at.
MonthOf(y, m) == y \in Years /\ m \in 1..12

LEMMA MonthLength ==
  ASSUME NEW y, NEW m \in 1..12
  PROVE  DaysInMonth(y, m) \in 28..31
  BY DEF DaysInMonth

LEMMA DaysBeforeTyped ==
  ASSUME CronAssumption, NEW y, NEW m, MonthOf(y, m)
  PROVE  DaysBefore(y, m) \in Nat
  <1> DEFINE leaps == {x \in FirstYear..(y - 1) : Leap(x)}
             dates == {x \in (1..(m - 1)) \X (1..31) : x[2] <= DaysInMonth(y, x[1])}
  <1>1. y \in Nat /\ y >= FirstYear
    <2>1. PICK x \in Clock, ahead \in 0..YearsAhead : y = x.year + ahead
      BY DEF MonthOf, Years
    <2>2. x.year \in Nat /\ x.year >= FirstYear /\ ahead \in Nat
      BY DEF CronAssumption, FirstYear
    <2> QED
      BY <2>1, <2>2 DEF FirstYear
  <1>2. Cardinality(leaps) \in Nat
    <2>1. FirstYear \in Int /\ y - 1 \in Int
      BY <1>1 DEF FirstYear
    <2>2. IsFiniteSet(FirstYear..(y - 1))
      BY <2>1, FS_Interval
    <2>3. leaps \in SUBSET (FirstYear..(y - 1))
      OBVIOUS
    <2>4. IsFiniteSet(leaps)
      BY <2>2, <2>3, FS_Subset
    <2> QED
      BY <2>4, FS_CardinalityType
  <1>3. Cardinality(dates) \in Nat
    <2>1. 1 \in Int /\ m - 1 \in Int /\ 31 \in Int
      BY DEF MonthOf
    <2>2. IsFiniteSet(1..(m - 1)) /\ IsFiniteSet(1..31)
      BY <2>1, FS_Interval
    <2>3. IsFiniteSet((1..(m - 1)) \X (1..31))
      BY <2>2, FS_Product
    <2>4. dates \in SUBSET ((1..(m - 1)) \X (1..31))
      OBVIOUS
    <2>5. IsFiniteSet(dates)
      BY <2>3, <2>4, FS_Subset
    <2> QED
      BY <2>5, FS_CardinalityType
  <1>4. DaysBefore(y, m) = 365 * (y - FirstYear) + Cardinality(leaps) + Cardinality(dates)
    BY DEF DaysBefore
  <1>5. ASSUME NEW p \in Nat, NEW q \in Nat
        PROVE  365 * (y - FirstYear) + p + q \in Nat
    BY <1>1 DEF FirstYear
  <1> HIDE DEF leaps, dates
  <1> QED
    BY <1>2, <1>3, <1>4, <1>5

(* The days of a month go round the week. *)
LEMMA WeekGoesRound ==
  ASSUME CronAssumption, NEW y, NEW m, MonthOf(y, m)
  PROVE  \E b \in 0..6 : \A d \in 1..31 : WeekdayOf(y, m, d) = ((b + d - 1) % 7) + 1
  <1> DEFINE before == DaysBefore(y, m)
  <1>1. before \in Nat
    BY DaysBeforeTyped
  <1>2. \A d \in 1..31 : WeekdayOf(y, m, d) = ((before + d - 1) % 7) + 1
    BY DEF WeekdayOf, Weekday, MonthOf
  <1> HIDE DEF before
  <1>3. before % 7 \in 0..6
    BY <1>1
  <1>4. \A d \in 1..31 : (before + d - 1) % 7 = ((before % 7) + d - 1) % 7
    BY <1>1
  <1> QED
    BY <1>2, <1>3, <1>4

(* A field counts the same round from its start: expandRange() and its reading. *)
LEMMA RangeIsOnTheWay ==
  ASSUME NEW max \in {7, 12}, NEW start \in 1..max, NEW end \in 1..max, NEW step \in 1..12
  PROVE  /\ ExpandRange(start, end, step, max) \subseteq 1..max
         /\ \A v \in 1..max : v \in ExpandRange(start, end, step, max)
                                <=> OnTheWay(v, start, end, step, max)
  <1> DEFINE stop == IF end < start THEN end + max ELSE end
             walked == {j \in start..stop : (j - start) % step = 0}
  <1>0. /\ max \in Nat /\ start \in Nat /\ end \in Nat /\ start <= max /\ end <= max
        /\ start >= 1 /\ end >= 1 /\ stop \in Nat /\ start <= stop /\ stop < start + max
        /\ stop - start = (end + max - start) % max
    OBVIOUS
  <1>1. ExpandRange(start, end, step, max) = {IF i > max THEN i - max ELSE i : i \in walked}
    BY DEF ExpandRange
  <1>2. \A i \in walked : i \in Nat /\ start <= i /\ i <= stop /\ (i - start) % step = 0
    BY <1>0
  <1>3. \A i \in Nat : start <= i /\ i <= stop /\ (i - start) % step = 0 => i \in walked
    BY <1>0
  <1> HIDE DEF stop, walked
  <1>4. ExpandRange(start, end, step, max) \subseteq 1..max
    BY <1>0, <1>1, <1>2
  <1>5. ASSUME NEW v \in 1..max
        PROVE  v \in ExpandRange(start, end, step, max) <=> OnTheWay(v, start, end, step, max)
    <2> DEFINE at == (v + max - start) % max
    <2>1. at \in Nat /\ at < max /\ (v = start + at \/ v = start + at - max)
      BY <1>0
    <2> HIDE DEF at
    <2>2. OnTheWay(v, start, end, step, max) <=> at % step = 0 /\ at <= stop - start
      BY <1>0 DEF OnTheWay, at
    <2>3. (start + at) - start = at
      BY <1>0, <2>1
    <2>4. ASSUME at % step = 0, at <= stop - start
          PROVE  v \in ExpandRange(start, end, step, max)
      <3> DEFINE j == start + at
      <3>1. j \in walked
        BY <1>0, <1>3, <2>1, <2>3, <2>4
      <3>2. v = IF j > max THEN j - max ELSE j
        BY <1>0, <2>1
      <3> HIDE DEF j
      <3>3. \E i \in walked : v = IF i > max THEN i - max ELSE i
        BY <3>1, <3>2
      <3> QED
        BY <1>1, <3>3
    <2>5. ASSUME NEW i \in walked, v = IF i > max THEN i - max ELSE i
          PROVE  at % step = 0 /\ at <= stop - start
      <3>1. i \in Nat /\ start <= i /\ i <= stop /\ (i - start) % step = 0
        BY <1>2
      <3>2. i - start = at
        BY <1>0, <2>1, <2>5, <3>1
      <3> QED
        BY <1>0, <3>1, <3>2
    <2> QED
      BY <1>1, <2>2, <2>4, <2>5
  <1> QED
    BY <1>4, <1>5

-----------------------------------------------------------------------------
(* The preview: the days of a month *)

(* The same day of the weeks before, in a month. *)
LEMMA WeeksBefore ==
  ASSUME NEW d \in 1..31
  PROVE  Cardinality({e \in 1..31 : e < d /\ (d - e) % 7 = 0}) = (d - 1) \div 7
  <1> DEFINE B == {e \in 1..31 : e < d /\ (d - e) % 7 = 0}
  <1>1. IsFiniteSet({}) /\ Cardinality({}) = 0
    BY FS_EmptySet
  <1>2. ASSUME NEW S, IsFiniteSet(S), NEW k \in Nat, Cardinality(S) = k, NEW e, e \notin S
        PROVE  IsFiniteSet(S \cup {e}) /\ Cardinality(S \cup {e}) = k + 1
    BY <1>2, FS_AddElement
  <1>3. CASE d <= 7
    <2>1. B = {} /\ (d - 1) \div 7 = 0
      BY <1>3
    <2> QED
      BY <1>1, <2>1
  <1>4. CASE d > 7
    <2>1. IsFiniteSet({d - 7}) /\ Cardinality({d - 7}) = 1
      BY FS_Singleton
    <2>2. CASE d <= 14
      <3>1. B = {d - 7} /\ (d - 1) \div 7 = 1
        BY <1>4, <2>2
      <3> QED
        BY <2>1, <3>1
    <2>3. CASE d > 14
      <3>1. IsFiniteSet({d - 7} \cup {d - 14}) /\ Cardinality({d - 7} \cup {d - 14}) = 2
        <4>1. d - 14 \notin {d - 7}
          OBVIOUS
        <4> QED
          BY <1>2, <2>1, <4>1
      <3>2. CASE d <= 21
        <4>1. B = {d - 7} \cup {d - 14} /\ (d - 1) \div 7 = 2
          BY <2>3, <3>2
        <4> QED
          BY <3>1, <4>1
      <3>3. CASE d > 21
        <4> DEFINE three == ({d - 7} \cup {d - 14}) \cup {d - 21}
        <4>1. IsFiniteSet(three) /\ Cardinality(three) = 3
          <5>1. d - 21 \notin {d - 7} \cup {d - 14}
            OBVIOUS
          <5> QED
            BY <1>2, <3>1, <5>1
        <4>2. CASE d <= 28
          <5>1. B = three /\ (d - 1) \div 7 = 3
            BY <3>3, <4>2
          <5> QED
            BY <4>1, <5>1
        <4>3. CASE d > 28
          <5>1. IsFiniteSet(three \cup {d - 28}) /\ Cardinality(three \cup {d - 28}) = 4
            <6>1. d - 28 \notin three
              OBVIOUS
            <6> QED
              BY <1>2, <4>1, <6>1
          <5>2. B = three \cup {d - 28} /\ (d - 1) \div 7 = 4
            BY <4>3
          <5> QED
            BY <5>1, <5>2
        <4> QED
          BY <4>2, <4>3
      <3> QED
        BY <3>2, <3>3
    <2> QED
      BY <2>2, <2>3
  <1> QED
    BY <1>3, <1>4

(* Friday or Monday, or three days on or two days back at an edge of the month, is the *)
(* one working day of the month that is nearest to a Saturday or Sunday of it.         *)
LEMMA NearestIsOne ==
  ASSUME CronAssumption, NEW y, NEW m, MonthOf(y, m), NEW wanted \in 1..DaysInMonth(y, m)
  PROVE  LET near == NearestWeekday(y, m, wanted, DaysInMonth(y, m))
         IN  /\ near \in 1..DaysInMonth(y, m)
             /\ \A d : Nearest(y, m, d, wanted) <=> d = near
  <1> DEFINE last == DaysInMonth(y, m)
             W(d) == WeekdayOf(y, m, d)
             near == NearestWeekday(y, m, wanted, last)
             working == {e \in 1..last : W(e) \notin {1, 7}}
  <1>0. last \in 28..31 /\ wanted \in 1..last
    BY MonthLength DEF MonthOf
  <1>1. PICK b \in 0..6 : \A d \in 1..31 : W(d) = ((b + d - 1) % 7) + 1
    BY WeekGoesRound
  <1>2. near = CASE W(wanted) = 7 -> IF wanted = 1 THEN 3 ELSE wanted - 1
                 [] W(wanted) = 1 -> IF wanted = last THEN wanted - 2 ELSE wanted + 1
                 [] OTHER -> wanted
    BY DEF NearestWeekday
  <1>3. \A d : Nearest(y, m, d, wanted)
                 <=> d \in working /\ \A e \in working : Distance(d, wanted) <= Distance(e, wanted)
    BY DEF Nearest
  <1> HIDE DEF last, W, near
  <1>4. \A d \in 1..last : d \in 1..31
    BY <1>0
  <1>5. near \in working
    <2>1. W(wanted) = ((b + wanted - 1) % 7) + 1
      BY <1>0, <1>1, <1>4
    <2>2. CASE W(wanted) = 7
      <3>1. near = IF wanted = 1 THEN 3 ELSE wanted - 1
        BY <1>2, <2>2
      <3>2. near \in 1..last
        BY <1>0, <3>1
      <3>3. W(near) = ((b + near - 1) % 7) + 1
        BY <1>1, <1>4, <3>2
      <3>4. W(near) \notin {1, 7}
        BY <1>0, <2>1, <2>2, <3>1, <3>3
      <3> QED
        BY <3>2, <3>4
    <2>3. CASE W(wanted) = 1
      <3>1. near = IF wanted = last THEN wanted - 2 ELSE wanted + 1
        BY <1>2, <2>3
      <3>2. near \in 1..last
        BY <1>0, <3>1
      <3>3. W(near) = ((b + near - 1) % 7) + 1
        BY <1>1, <1>4, <3>2
      <3>4. W(near) \notin {1, 7}
        BY <1>0, <2>1, <2>3, <3>1, <3>3
      <3> QED
        BY <3>2, <3>4
    <2>4. CASE W(wanted) \notin {1, 7}
      <3>1. near = wanted
        BY <1>2, <2>4
      <3> QED
        BY <1>0, <2>4, <3>1
    <2> QED
      BY <2>2, <2>3, <2>4
  <1>6. ASSUME NEW e \in working
        PROVE  /\ Distance(near, wanted) <= Distance(e, wanted)
               /\ e # near => Distance(near, wanted) < Distance(e, wanted)
    <2>1. e \in 1..last /\ W(e) \notin {1, 7} /\ W(e) = ((b + e - 1) % 7) + 1
      BY <1>1, <1>4
    <2>2. W(wanted) = ((b + wanted - 1) % 7) + 1
      BY <1>0, <1>1, <1>4
    <2>3. CASE W(wanted) = 7
      <3>1. near = IF wanted = 1 THEN 3 ELSE wanted - 1
        BY <1>2, <2>3
      <3>2. e # wanted /\ e # wanted + 1
        BY <1>0, <2>1, <2>2, <2>3
      <3> QED
        BY <1>0, <2>1, <3>1, <3>2 DEF Distance
    <2>4. CASE W(wanted) = 1
      <3>1. near = IF wanted = last THEN wanted - 2 ELSE wanted + 1
        BY <1>2, <2>4
      <3>2. e # wanted /\ e # wanted - 1
        BY <1>0, <2>1, <2>2, <2>4
      <3> QED
        BY <1>0, <2>1, <3>1, <3>2 DEF Distance
    <2>5. CASE W(wanted) \notin {1, 7}
      <3>1. near = wanted
        BY <1>2, <2>5
      <3> QED
        BY <1>0, <2>1, <3>1 DEF Distance
    <2> QED
      BY <2>3, <2>4, <2>5
  <1>7. \A e \in working : e \in 1..last
    OBVIOUS
  <1> HIDE DEF working
  <1>8. \A e \in 1..last : Distance(e, wanted) \in Nat
    BY <1>0 DEF Distance
  <1>9. near \in 1..last
    BY <1>5, <1>7
  <1>10. ASSUME NEW d, Nearest(y, m, d, wanted)
         PROVE  d = near
    <2>1. d \in working /\ Distance(d, wanted) <= Distance(near, wanted)
      BY <1>3, <1>5, <1>10
    <2>2. Distance(d, wanted) \in Nat /\ Distance(near, wanted) \in Nat
      BY <1>7, <1>8, <1>9, <2>1
    <2> QED
      BY <1>6, <2>1, <2>2
  <1>11. Nearest(y, m, near, wanted)
    BY <1>3, <1>5, <1>6
  <1> QED
    BY <1>9, <1>10, <1>11 DEF near, last

(* The days matchingDays() finds are those the day field means. *)
LEMMA DaysAreMeant ==
  ASSUME CronAssumption, NEW y, NEW m, MonthOf(y, m), NEW rule \in DayRule
  PROVE  /\ MatchingDays(rule, y, m) \subseteq 1..DaysInMonth(y, m)
         /\ \A d \in 1..DaysInMonth(y, m) :
              d \in MatchingDays(rule, y, m) <=> DayHolds(rule, y, m, d)
  <1> DEFINE last == DaysInMonth(y, m)
             W(d) == WeekdayOf(y, m, d)
             matching == MatchingDays(rule, y, m)
             same(d) == {e \in 1..last : W(e) = W(d)}
             Meant == matching \subseteq 1..last
                      /\ \A d \in 1..last : d \in matching <=> DayHolds(rule, y, m, d)
  <1>0. last \in 28..31 /\ \A d \in 1..last : d \in 1..31
    BY MonthLength DEF MonthOf
  <1>1. PICK b \in 0..6 : \A d \in 1..31 : W(d) = ((b + d - 1) % 7) + 1
    BY WeekGoesRound
  <1>2. \A d \in 1..last : W(d) \in 1..7
    BY <1>0, <1>1
  \* The same weekday comes again each seventh day.
  <1>3. \A d, e \in 1..last : W(e) = W(d) <=> (d - e) % 7 = 0
    <2> SUFFICES ASSUME NEW d \in 1..last, NEW e \in 1..last
                 PROVE  W(e) = W(d) <=> (d - e) % 7 = 0
      OBVIOUS
    <2>1. W(d) = ((b + d - 1) % 7) + 1 /\ W(e) = ((b + e - 1) % 7) + 1
      BY <1>0, <1>1
    <2> HIDE DEF W, last
    <2>2. d \in 1..31 /\ e \in 1..31
      BY <1>0
    <2> QED
      BY <2>1, <2>2
  <1>4. ASSUME rule.kind = "monthDays"
        PROVE  Meant
    <2>1. matching = (1..last) \cap rule.days
      BY <1>4 DEF MatchingDays
    <2>2. \A d : DayHolds(rule, y, m, d) <=> d \in rule.days
      BY <1>4 DEF DayHolds
    <2> QED
      BY <2>1, <2>2
  <1>5. ASSUME rule.kind = "lastDay", rule.offset \in 0..30, rule.weekday \in BOOLEAN
        PROVE  Meant
    <2> DEFINE wanted == last - rule.offset
    <2>1. matching = IF wanted < 1 THEN {}
                     ELSE {IF rule.weekday THEN NearestWeekday(y, m, wanted, last) ELSE wanted}
      BY <1>5 DEF MatchingDays
    <2>2. \A d : DayHolds(rule, y, m, d)
                   <=> /\ rule.offset < last
                       /\ IF rule.weekday THEN Nearest(y, m, d, wanted)
                          ELSE d + rule.offset = last
      BY <1>5 DEF DayHolds
    <2>3. CASE wanted < 1
      BY <1>0, <1>5, <2>1, <2>2, <2>3
    <2>4. CASE wanted >= 1 /\ rule.weekday
      <3>1. wanted \in 1..last
        BY <1>0, <1>5, <2>4
      <3>2. /\ NearestWeekday(y, m, wanted, last) \in 1..last
            /\ \A d : Nearest(y, m, d, wanted) <=> d = NearestWeekday(y, m, wanted, last)
        BY <3>1, NearestIsOne
      <3>3. rule.offset < last /\ ~(wanted < 1)
        BY <1>0, <1>5, <2>4
      <3> HIDE DEF last, wanted
      <3> QED
        BY <2>1, <2>2, <2>4, <3>2, <3>3
    <2>5. CASE wanted >= 1 /\ ~rule.weekday
      <3>1. wanted \in 1..last /\ rule.offset < last /\ ~(wanted < 1)
        BY <1>0, <1>5, <2>5
      <3>2. \A d \in 1..last : d + rule.offset = last <=> d = wanted
        BY <1>0, <1>5
      <3> HIDE DEF last, wanted
      <3> QED
        BY <2>1, <2>2, <2>5, <3>1, <3>2
    <2> QED
      BY <1>0, <1>5, <2>3, <2>4, <2>5
  <1>6. ASSUME rule.kind = "nearestWeekday", rule.day \in 1..31
        PROVE  Meant
    <2>1. matching = IF rule.day > last THEN {} ELSE {NearestWeekday(y, m, rule.day, last)}
      BY <1>6 DEF MatchingDays
    <2>2. \A d : DayHolds(rule, y, m, d) <=> rule.day <= last /\ Nearest(y, m, d, rule.day)
      BY <1>6 DEF DayHolds
    <2>3. CASE rule.day > last
      BY <1>0, <1>6, <2>1, <2>2, <2>3
    <2>4. CASE rule.day <= last
      <3>1. rule.day \in 1..last /\ ~(rule.day > last)
        BY <1>0, <1>6, <2>4
      <3>2. /\ NearestWeekday(y, m, rule.day, last) \in 1..last
            /\ \A d : Nearest(y, m, d, rule.day) <=> d = NearestWeekday(y, m, rule.day, last)
        BY <3>1, NearestIsOne
      <3> QED
        BY <2>1, <2>2, <2>4, <3>1, <3>2
    <2> QED
      BY <1>0, <1>6, <2>3, <2>4
  <1>7. ASSUME rule.kind = "weekdays", rule.start \in 1..7, rule.end \in 1..7
        PROVE  Meant
    <2>1. matching = {d \in 1..last : W(d) \in ExpandRange(rule.start, rule.end, 1, 7)}
      BY <1>7 DEF MatchingDays
    <2>2. \A d : DayHolds(rule, y, m, d) <=> OnTheWay(W(d), rule.start, rule.end, 1, 7)
      BY <1>7 DEF DayHolds
    <2>3. \A v \in 1..7 : v \in ExpandRange(rule.start, rule.end, 1, 7)
                            <=> OnTheWay(v, rule.start, rule.end, 1, 7)
      <3>1. 7 \in {7, 12} /\ 1 \in 1..12
        OBVIOUS
      <3> QED
        BY <1>7, <3>1, RangeIsOnTheWay
    <2> HIDE DEF W
    <2> QED
      BY <1>2, <2>1, <2>2, <2>3
  <1>8. ASSUME rule.kind = "lastWeekday"
        PROVE  Meant
    <2>1. matching = {d \in 1..last : d > last - 7 /\ W(d) = rule.day}
      BY <1>8 DEF MatchingDays
    <2>2. \A d : DayHolds(rule, y, m, d) <=> W(d) = rule.day /\ \A e \in same(d) : e <= d
      BY <1>8 DEF DayHolds
    <2>3. ASSUME NEW d \in 1..last
          PROVE  d > last - 7 <=> \A e \in same(d) : e <= d
      <3>1. ASSUME d > last - 7, NEW e \in 1..last, W(e) = W(d)
            PROVE  e <= d
        <4>1. (d - e) % 7 = 0
          BY <1>3, <3>1
        <4> HIDE DEF W, last
        <4> QED
          BY <1>0, <3>1, <4>1
      <3>2. ASSUME d <= last - 7
            PROVE  d + 7 \in 1..last /\ W(d + 7) = W(d)
        <4>1. d + 7 \in 1..last /\ (d - (d + 7)) % 7 = 0
          BY <1>0, <3>2
        <4> QED
          BY <1>3, <4>1
      <3>3. d \in Nat /\ last \in Nat
        BY <1>0
      <3> HIDE DEF W, last
      <3>4. CASE d > last - 7
        BY <3>1, <3>4
      <3>5. CASE d <= last - 7
        <4>1. d + 7 \in same(d) /\ ~(d + 7 <= d)
          BY <3>2, <3>3, <3>5
        <4> HIDE DEF same
        <4> QED
          BY <3>3, <3>5, <4>1
      <3> QED
        BY <3>3, <3>4, <3>5
    <2> HIDE DEF W, last, same
    <2> QED
      BY <2>1, <2>2, <2>3
  <1>9. ASSUME rule.kind = "nthWeekday", rule.nth \in 1..5
        PROVE  Meant
    <2>1. matching = {d \in 1..last : (d + 6) \div 7 = rule.nth /\ W(d) = rule.day}
      BY <1>9 DEF MatchingDays
    <2>2. \A d : DayHolds(rule, y, m, d)
                   <=> W(d) = rule.day /\ Cardinality({e \in same(d) : e < d}) = rule.nth - 1
      BY <1>9 DEF DayHolds
    <2>3. ASSUME NEW d \in 1..last
          PROVE  (d + 6) \div 7 = rule.nth <=> Cardinality({e \in same(d) : e < d}) = rule.nth - 1
      <3>1. {e \in same(d) : e < d} = {e \in 1..31 : e < d /\ (d - e) % 7 = 0}
        <4>1. \A e \in 1..31 : e < d => e \in 1..last
          BY <1>0
        <4> HIDE DEF W, last
        <4> QED
          BY <1>0, <1>3, <4>1
      <3>2. d \in 1..31 /\ Cardinality({e \in 1..31 : e < d /\ (d - e) % 7 = 0}) = (d - 1) \div 7
        BY <1>0, WeeksBefore
      <3>3. (d + 6) \div 7 = rule.nth <=> (d - 1) \div 7 = rule.nth - 1
        BY <1>9, <3>2
      <3> QED
        BY <3>1, <3>2, <3>3
    <2> HIDE DEF W, last, same
    <2> QED
      BY <2>1, <2>2, <2>3
  <1> HIDE DEF Meant
  <1>10. Meant
    BY <1>4, <1>5, <1>6, <1>7, <1>8, <1>9 DEF DayRule
  <1> QED
    BY <1>10 DEF Meant

-----------------------------------------------------------------------------
(* The preview: the moments that are found *)

\* A moment that can be compared: of a day of a month.
Dated(x) == /\ x.year \in Nat /\ x.month \in 1..12 /\ x.day \in 1..31

\* Every moment nextFireTimes() goes through.
Found(s, now) ==
  UNION {{Moment(x, t) : t \in TimesAfter(s, x, now)} : x \in DaysFrom(s, now)}

LEMMA DayKeyIsOne ==
  ASSUME NEW x, NEW y, Dated(x), Dated(y)
  PROVE  /\ DayKey(x) \in Nat
         /\ DayKey(x) = DayKey(y) <=> x.year = y.year /\ x.month = y.month /\ x.day = y.day
  <1> DEFINE a == x.year
             m == x.month
             d == x.day
             b == y.year
             n == y.month
             e == y.day
  <1>1. DayKey(x) = (a * 100 + m) * 100 + d /\ DayKey(y) = (b * 100 + n) * 100 + e
    BY DEF DayKey
  <1>2. /\ a \in Nat /\ m \in 1..12 /\ d \in 1..31
        /\ b \in Nat /\ n \in 1..12 /\ e \in 1..31
    BY DEF Dated
  <1> HIDE DEF a, m, d, b, n, e
  <1>3. DayKey(x) \in Nat
    BY <1>1, <1>2
  <1>4. ASSUME DayKey(x) = DayKey(y)
        PROVE  a = b /\ m = n /\ d = e
    <2>1. d - e \in -30..30 /\ m - n \in -11..11
      BY <1>2
    <2>2. 10000 * (a - b) = 100 * (n - m) + (e - d)
      BY <1>1, <1>2, <1>4
    <2>3. a = b
      BY <1>2, <2>1, <2>2
    <2> QED
      BY <1>2, <2>1, <2>2, <2>3
  <1> QED
    BY <1>1, <1>3, <1>4 DEF a, m, d, b, n, e

(* A preview goes through the moments that are meant and to come, and no others. *)
LEMMA FoundIsMeant ==
  ASSUME CronAssumption, CronTypeOK, NEW s \in Schedules
  PROVE  /\ Found(s, cron.now) = ToCome(s)
         /\ \A x \in Found(s, cron.now) :
              /\ x \in [year : cron.now.year..(cron.now.year + YearsAhead), month : 1..12,
                        day : 1..31, time : TimesOfDay]
              /\ Dated(x)
  <1> DEFINE now == cron.now
             years == now.year..(now.year + YearsAhead)
             months == ExpandRange(s.months.start, s.months.end, s.months.step, 12)
             onTheWay == {m \in 1..12 : OnTheWay(m, s.months.start, s.months.end,
                                                s.months.step, 12)}
             days == {x \in [year : years, month : onTheWay, day : 1..31] :
                        /\ x.day <= DaysInMonth(x.year, x.month)
                        /\ DayHolds(s.days, x.year, x.month, x.day)}
             of(y, m) == {[year |-> y, month |-> m, day |-> d] : d \in MatchingDays(s.days, y, m)}
             from == UNION {of(y, m) : y \in years, m \in months}
  <1>1. /\ now \in Clock /\ now.year \in Nat /\ Dated(now) /\ now.time \in Nat
        /\ YearsAhead \in Nat
    BY DEF CronAssumption, CronTypeOK, Dated
  <1>2. /\ s.days \in DayRule /\ s.times \subseteq TimesOfDay /\ s.times \subseteq Nat
        /\ s.months.start \in 1..12 /\ s.months.end \in 1..12 /\ s.months.step \in 1..12
    BY DEF CronAssumption, Schedules
  <1>3. months = onTheWay
    <2>1. 12 \in {7, 12}
      OBVIOUS
    <2>2. /\ months \subseteq 1..12
          /\ \A m \in 1..12 : m \in months <=> OnTheWay(m, s.months.start, s.months.end,
                                                        s.months.step, 12)
      BY <1>2, <2>1, RangeIsOnTheWay
    <2> HIDE DEF months
    <2> QED
      BY <2>2
  <1>4. \A y \in years : y \in Years /\ y \in Nat
    <2> SUFFICES ASSUME NEW y \in years
                 PROVE  y \in Years /\ y \in Nat
      OBVIOUS
    <2>1. y - now.year \in 0..YearsAhead /\ y = now.year + (y - now.year) /\ y \in Nat
      BY <1>1
    <2>2. \E ahead \in 0..YearsAhead : y = now.year + ahead
      BY <2>1
    <2> HIDE DEF years, now
    <2> QED
      BY <1>1, <2>1, <2>2 DEF Years
  <1>5. \A y \in years, m \in 1..12 :
           /\ MonthOf(y, m) /\ DaysInMonth(y, m) \in 28..31
           /\ MatchingDays(s.days, y, m) \subseteq 1..DaysInMonth(y, m)
           /\ \A d \in 1..DaysInMonth(y, m) :
                d \in MatchingDays(s.days, y, m) <=> DayHolds(s.days, y, m, d)
    <2> SUFFICES ASSUME NEW y \in years, NEW m \in 1..12
                 PROVE  /\ MonthOf(y, m) /\ DaysInMonth(y, m) \in 28..31
                        /\ MatchingDays(s.days, y, m) \subseteq 1..DaysInMonth(y, m)
                        /\ \A d \in 1..DaysInMonth(y, m) :
                             d \in MatchingDays(s.days, y, m) <=> DayHolds(s.days, y, m, d)
      OBVIOUS
    <2>1. MonthOf(y, m)
      BY <1>4 DEF MonthOf
    <2> QED
      BY <1>2, <2>1, DaysAreMeant, MonthLength
  <1> HIDE DEF now, years, months
  <1>6. from = days
    <2>1. ASSUME NEW x \in from
          PROVE  x \in days
      <3>1. PICK y \in years, m \in months : x \in of(y, m)
        OBVIOUS
      <3>2. PICK d \in MatchingDays(s.days, y, m) : x = [year |-> y, month |-> m, day |-> d]
        BY <3>1
      <3>3. m \in 1..12 /\ m \in onTheWay
        BY <1>3
      <3>4. d \in 1..DaysInMonth(y, m) /\ DayHolds(s.days, y, m, d)
        BY <1>5, <3>3
      <3>5. d \in 1..31 /\ d <= DaysInMonth(y, m)
        BY <1>5, <3>3, <3>4
      <3> HIDE DEF onTheWay
      <3> QED
        BY <3>2, <3>3, <3>4, <3>5
    <2>2. ASSUME NEW x \in days
          PROVE  x \in from
      <3>1. /\ x = [year |-> x.year, month |-> x.month, day |-> x.day]
            /\ x.year \in years /\ x.month \in onTheWay /\ x.day \in 1..31
            /\ x.day <= DaysInMonth(x.year, x.month)
            /\ DayHolds(s.days, x.year, x.month, x.day)
        OBVIOUS
      <3>2. x.month \in 1..12 /\ x.month \in months
        BY <1>3, <3>1
      <3>3. x.day \in 1..DaysInMonth(x.year, x.month)
        BY <1>5, <3>1, <3>2
      <3>4. x.day \in MatchingDays(s.days, x.year, x.month)
        BY <1>5, <3>1, <3>2, <3>3
      <3>5. x \in of(x.year, x.month)
        BY <3>1, <3>4
      <3> HIDE DEF days, of
      <3> QED
        BY <3>1, <3>2, <3>5
    <2> QED
      BY <2>1, <2>2
  <1>7. \A x \in days : x \in [year : years, month : 1..12, day : 1..31] /\ Dated(x)
    BY <1>4 DEF Dated
  <1>8. ASSUME NEW x \in days, NEW t \in s.times
        PROVE  DayKey(x) >= DayKey(now) /\ (DayKey(x) = DayKey(now) => t > now.time)
                 <=> Before(now, Moment(x, t))
    <2>1. DayKey(Moment(x, t)) = DayKey(x) /\ Moment(x, t).time = t
      BY DEF Moment, DayKey
    <2>2. DayKey(x) \in Nat /\ DayKey(now) \in Nat
      BY <1>1, <1>7, DayKeyIsOne
    <2>3. t \in Nat
      BY <1>2
    <2> QED
      BY <1>1, <2>1, <2>2, <2>3 DEF Before
  <1>9. DaysFrom(s, now) = {x \in from : DayKey(x) >= DayKey(now)}
    BY DEF DaysFrom, years, months
  <1>10. ToCome(s) = {x \in {Moment(d, t) : d \in days, t \in s.times} : Before(now, x)}
    BY DEF ToCome, now, years
  <1> HIDE DEF days, from
  <1>11. ASSUME NEW x
         PROVE  x \in Found(s, now) <=> \E d \in days, t \in s.times :
                                          x = Moment(d, t) /\ Before(now, Moment(d, t))
    <2>1. x \in Found(s, now)
            <=> \E d \in DaysFrom(s, now) : \E t \in TimesAfter(s, d, now) : x = Moment(d, t)
      BY DEF Found
    <2>2. \A d : d \in DaysFrom(s, now) <=> d \in days /\ DayKey(d) >= DayKey(now)
      BY <1>6, <1>9
    <2>3. \A d, t : t \in TimesAfter(s, d, now)
                      <=> t \in s.times /\ (DayKey(d) = DayKey(now) => t > now.time)
      BY DEF TimesAfter
    <2> QED
      BY <1>8, <2>1, <2>2, <2>3
  <1>12. ASSUME NEW x
         PROVE  x \in ToCome(s) <=> \E d \in days, t \in s.times :
                                      x = Moment(d, t) /\ Before(now, Moment(d, t))
    BY <1>10
  <1>13. Found(s, now) = ToCome(s)
    BY <1>11, <1>12
  <1>14. ASSUME NEW x \in Found(s, now)
         PROVE  /\ x \in [year : years, month : 1..12, day : 1..31, time : TimesOfDay]
                /\ Dated(x)
    <2>1. PICK d \in days, t \in s.times : x = Moment(d, t)
      BY <1>11
    <2>2. d \in [year : years, month : 1..12, day : 1..31] /\ Dated(d)
      BY <1>7
    <2> QED
      BY <1>2, <2>1, <2>2 DEF Moment, Dated
  <1> QED
    BY <1>13, <1>14 DEF now, years

(* What is found is finite, and one moment of it is before the other. *)
LEMMA FoundIsOrdered ==
  ASSUME CronAssumption, CronTypeOK, NEW s \in Schedules
  PROVE  LET found == Found(s, cron.now)
         IN  /\ IsFiniteSet(found)
             /\ \A x \in found : ~Before(x, x)
             /\ \A x, y \in found : x # y => Before(x, y) \/ Before(y, x)
             /\ \A x, y, z \in found : Before(x, y) /\ Before(y, z) => Before(x, z)
  <1> DEFINE found == Found(s, cron.now)
             horizon == cron.now.year + YearsAhead
             N == (horizon * 100 + 12) * 100 + 31
             place == [x \in found |-> <<DayKey(x), x.time>>]
             T == (0..N) \X TimesOfDay
  <1>1. ASSUME NEW x \in found
        PROVE  /\ DayKey(x) \in 0..N /\ x.time \in TimesOfDay /\ x.time \in Nat
               /\ Dated(x) /\ x = [year |-> x.year, month |-> x.month, day |-> x.day,
                                   time |-> x.time]
    <2>1. /\ x \in [year : cron.now.year..horizon, month : 1..12, day : 1..31,
                    time : TimesOfDay]
          /\ Dated(x)
      BY FoundIsMeant
    <2>2. x.time \in Nat
      BY <2>1 DEF CronAssumption
    <2>3. cron.now.year \in Nat /\ horizon \in Nat
      BY DEF CronAssumption, CronTypeOK
    <2>4. /\ x.year \in Nat /\ x.year <= horizon /\ x.month \in 1..12 /\ x.day \in 1..31
          /\ x.time \in TimesOfDay
          /\ x = [year |-> x.year, month |-> x.month, day |-> x.day, time |-> x.time]
      BY <2>1, <2>3
    <2> HIDE DEF horizon
    <2>5. DayKey(x) \in 0..N
      BY <2>3, <2>4 DEF DayKey
    <2> QED
      BY <2>1, <2>2, <2>4, <2>5
  <1>2. ASSUME NEW x \in found, NEW y \in found, DayKey(x) = DayKey(y), x.time = y.time
        PROVE  x = y
    <2>1. x.year = y.year /\ x.month = y.month /\ x.day = y.day
      BY <1>1, <1>2, DayKeyIsOne
    <2>2. /\ x = [year |-> x.year, month |-> x.month, day |-> x.day, time |-> x.time]
          /\ y = [year |-> y.year, month |-> y.month, day |-> y.day, time |-> y.time]
      BY <1>1
    <2> QED
      BY ONLY <1>2, <2>1, <2>2
  <1>3. N \in Nat
    BY DEF CronAssumption, CronTypeOK
  <1> HIDE DEF found, N
  <1>4. IsFiniteSet(found)
    <2>1. 0 \in Int /\ N \in Int
      BY <1>3
    <2>2. IsFiniteSet(0..N) /\ IsFiniteSet(TimesOfDay)
      BY <2>1, FS_Interval DEF CronAssumption
    <2>3. IsFiniteSet(T)
      BY <2>2, FS_Product
    <2>4. place \in [found -> T]
      BY <1>1
    <2>5. \A x, y \in found : place[x] = place[y] => x = y
      BY <1>2
    <2>6. place \in Injection(found, T)
      BY <2>4, <2>5 DEF Injection, IsInjective
    <2> HIDE DEF T, place
    <2> QED
      BY <2>3, <2>6, FS_Injection
  <1>5. \A x \in found : DayKey(x) \in Nat /\ x.time \in Nat
    BY <1>1, <1>3
  <1>6. \A x \in found : ~Before(x, x)
    BY <1>5 DEF Before
  <1>7. \A x, y \in found : x # y => Before(x, y) \/ Before(y, x)
    BY <1>2, <1>5 DEF Before
  <1>8. \A x, y, z \in found : Before(x, y) /\ Before(y, z) => Before(x, z)
    BY <1>5 DEF Before
  <1> QED
    BY <1>4, <1>6, <1>7, <1>8 DEF found

(* A preview is the first of what is found, in order. *)
LEMMA FirstOfTheFound ==
  ASSUME CronAssumption, CronTypeOK, NEW s \in Schedules
  PROVE  LET runs  == NextFireTimes(s, cron.now)
             found == Found(s, cron.now)
         IN  /\ \E count \in 0..PreviewCount :
                  /\ DOMAIN runs = 1..count /\ Len(runs) = count
                  /\ \A x \in found :
                       (\A i \in 1..count : runs[i] # x) => count = PreviewCount
             /\ \A i \in DOMAIN runs : runs[i] \in found
             /\ \A i, j \in DOMAIN runs : i < j => Before(runs[i], runs[j])
             /\ \A x \in found :
                  (\A i \in DOMAIN runs : runs[i] # x)
                    => \A i \in DOMAIN runs : Before(runs[i], x)
  <1> DEFINE found == Found(s, cron.now)
             R == {w \in found \X found : Before(w[1], w[2])}
             nth == [x \in found |-> Cardinality({y \in found : Before(y, x)}) + 1]
             size == Cardinality(found)
             count == IF size < PreviewCount THEN size ELSE PreviewCount
             runs == [i \in 1..count |-> CHOOSE x \in found : nth[x] = i]
  <1>1. NextFireTimes(s, cron.now) = runs
    BY DEF NextFireTimes, Found
  <1>2. /\ IsFiniteSet(found)
        /\ \A x \in found : ~Before(x, x)
        /\ \A x, y \in found : x # y => Before(x, y) \/ Before(y, x)
        /\ \A x, y, z \in found : Before(x, y) /\ Before(y, z) => Before(x, z)
    BY FoundIsOrdered
  <1> HIDE DEF found
  <1>3. \A x, y \in found : <<x, y>> \in R <=> Before(x, y)
    OBVIOUS
  <1>4. /\ \A x \in found : <<x, x>> \notin R
        /\ \A x, y \in found : x # y => <<x, y>> \in R \/ <<y, x>> \in R
        /\ \A x, y, z \in found : <<x, y>> \in R /\ <<y, z>> \in R => <<x, z>> \in R
    BY <1>2, <1>3
  <1>5. nth = Ranks(found, R)
    <2>1. \A x \in found : {y \in found : Before(y, x)} = {y \in found : <<y, x>> \in R}
      BY <1>3
    <2> HIDE DEF R
    <2> QED
      BY <2>1 DEF Ranks
  <1> HIDE DEF R
  <1>6. /\ Ranks(found, R) \in [found -> 1..size]
        /\ \A x, y \in found : <<x, y>> \in R <=> Ranks(found, R)[x] < Ranks(found, R)[y]
        /\ \A x, y \in found : Ranks(found, R)[x] = Ranks(found, R)[y] => x = y
        /\ \A k \in 1..size : \E x \in found : Ranks(found, R)[x] = k
    <2>1. /\ IsFiniteSet(found)
          /\ \A x \in found : <<x, x>> \notin R
          /\ \A x, y \in found : x # y => <<x, y>> \in R \/ <<y, x>> \in R
          /\ \A x, y, z \in found : <<x, y>> \in R /\ <<y, z>> \in R => <<x, z>> \in R
      BY <1>2, <1>4
    <2> QED
      BY ONLY <2>1, RanksAreAll
  <1>7. size \in Nat /\ PreviewCount \in Nat
    BY <1>2, FS_CardinalityType DEF CronAssumption
  <1> HIDE DEF nth, size
  <1>8. /\ \A x \in found : nth[x] \in 1..size
        /\ \A x, y \in found : Before(x, y) <=> nth[x] < nth[y]
        /\ \A k \in 1..size : \E x \in found : nth[x] = k
        /\ \A x, y \in found : nth[x] = nth[y] => x = y
    BY <1>3, <1>5, <1>6
  <1>9. /\ count \in 0..PreviewCount /\ count <= size
        /\ count # PreviewCount => count = size
        /\ \A i \in 1..count : i \in 1..size /\ i \in Nat
    BY <1>7
  <1>10. count \in Nat
    BY <1>7
  <1> HIDE DEF count
  <1>11. DOMAIN runs = 1..count /\ Len(runs) = count
    <2>1. DOMAIN runs = 1..count
      OBVIOUS
    <2> HIDE DEF runs
    <2>2. Len(runs) = count
      BY <1>10, <2>1
    <2> QED
      BY <2>1, <2>2
  <1>12. \A i \in 1..count : runs[i] \in found /\ nth[runs[i]] = i
    BY <1>8, <1>9
  <1> HIDE DEF runs
  <1>13. ASSUME NEW x \in found, \A i \in 1..count : runs[i] # x
         PROVE  count = PreviewCount /\ \A i \in 1..count : Before(runs[i], x)
    <2>1. nth[x] \in 1..size
      BY <1>8
    <2>2. nth[x] \notin 1..count
      BY <1>8, <1>12, <1>13
    <2>3. count < nth[x] /\ count < size
      BY <1>7, <1>10, <2>1, <2>2
    <2>4. count # size
      BY <1>7, <1>10, <2>3
    <2>5. ASSUME NEW i \in 1..count
          PROVE  Before(runs[i], x)
      <3>1. i < nth[x]
        BY <1>7, <1>10, <2>1, <2>3
      <3> QED
        BY <1>8, <1>12, <3>1
    <2> QED
      BY <1>9, <2>4, <2>5
  <1>14. \A i, j \in 1..count : i < j => Before(runs[i], runs[j])
    BY <1>8, <1>12
  <1> QED
    BY <1>1, <1>9, <1>11, <1>12, <1>13, <1>14 DEF found

LEMMA CronTypeCorrect ==
  CronSpec => []CronTypeOK
  <1>1. CronInit => CronTypeOK
    BY DEF CronInit, CronTypeOK
  <1>2. CronTypeOK /\ [CronNext]_cronVars => CronTypeOK'
    BY DEF CronTypeOK, CronNext, TypeCron, ClockRead, cronVars
  <1> QED
    BY <1>1, <1>2, PTL DEF CronSpec

LEMMA PreviewIsRight ==
  ASSUME CronAssumption, CronTypeOK
  PROVE  NextRunsAreNext
  <1> SUFFICES ASSUME NEW s \in cron.schedule
               PROVE  LET runs == NextRuns
                          listed == {runs[i] : i \in DOMAIN runs}
                          meant == ToCome(s)
                      IN  /\ \A i, j \in DOMAIN runs : i < j => Before(runs[i], runs[j])
                          /\ listed \subseteq meant
                          /\ \A x \in meant \ listed :
                               Len(runs) = PreviewCount /\ \A y \in listed : Before(y, x)
    BY DEF NextRunsAreNext
  <1>1. s \in Schedules /\ cron.schedule = {s}
    BY DEF CronTypeOK
  <1>2. NextRuns = NextFireTimes(s, cron.now)
    <2>1. cron.schedule # {} /\ (CHOOSE x \in cron.schedule : TRUE) = s
      BY <1>1
    <2> QED
      BY <2>1 DEF NextRuns
  <1> DEFINE runs == NextFireTimes(s, cron.now)
             found == Found(s, cron.now)
  <1>3. found = ToCome(s)
    BY <1>1, FoundIsMeant
  <1>4. /\ \E count \in 0..PreviewCount :
             /\ DOMAIN runs = 1..count /\ Len(runs) = count
             /\ \A x \in found :
                  (\A i \in 1..count : runs[i] # x) => count = PreviewCount
        /\ \A i \in DOMAIN runs : runs[i] \in found
        /\ \A i, j \in DOMAIN runs : i < j => Before(runs[i], runs[j])
        /\ \A x \in found :
             (\A i \in DOMAIN runs : runs[i] # x) => \A i \in DOMAIN runs : Before(runs[i], x)
    BY <1>1, FirstOfTheFound
  <1> HIDE DEF runs, found
  <1> QED
    BY <1>2, <1>3, <1>4 DEF runs

(* "The preview is the point of the screen" (scheduler-job-form.component.ts:62): for   *)
(* every expression and every reading of the clock, the times it lists are the first of *)
(* those that the expression means and that are to come, in order and none left out.    *)
THEOREM PreviewIsNext ==
  CronSpec => []NextRunsAreNext
  <1>1. CronTypeOK => NextRunsAreNext
    BY CronAssumption, PreviewIsRight
  <1> QED
    BY <1>1, CronTypeCorrect, PTL

-----------------------------------------------------------------------------
(* The parts together: a behaviour of the parts is a behaviour of each. *)

LEMMA EachFormPart ==
  FormsSpec => LoanSpec /\ CronSpec /\ NavSpec /\ [](inUse \in Parts)
  <1>1. FormsInit => LoanInit /\ CronInit /\ NavInit /\ inUse \in Parts
    BY DEF FormsInit
  <1>2. [FormsNext]_formsVars => [LoanNext]_loanVars /\ [CronNext]_cronVars
                                 /\ [NavNext]_navVars
    BY DEF FormsNext, formsVars
  <1>3. inUse \in Parts /\ [FormsNext]_formsVars => (inUse \in Parts)'
    BY DEF FormsNext, formsVars
  <1> QED
    BY <1>1, <1>2, <1>3, PTL DEF FormsSpec, LoanSpec, CronSpec, NavSpec

(* Every variable of the loan form, the preview and the menu stays of its type. *)
THEOREM FormsTypeCorrect ==
  FormsSpec => []FormsTypeOK
  <1>1. LoanSpec => []LoanTypeOK
    BY LoanAssumption, LoanTypeInit, LoanTypeStep, PTL DEF LoanSpec
  <1>2. NavSpec => []NavTypeOK
    <2>1. NavInit => NavInv
      BY NavigationAssumption, NavInvInit
    <2>2. NavInv /\ [NavNext]_navVars => NavInv'
      BY NavigationAssumption, NavInvStep
    <2>3. NavInv => NavTypeOK
      BY DEF NavInv
    <2> QED
      BY <2>1, <2>2, <2>3, PTL DEF NavSpec
  <1> QED
    BY <1>1, <1>2, CronTypeCorrect, EachFormPart, PTL DEF FormsTypeOK

(* What is proved of the loan form, of the preview and of the menu alone holds of them together. *)
THEOREM EachFormKeepsItsPromise ==
  FormsSpec => /\ DeliberateIsKept /\ []MenuIsOneTree /\ []WishesAreMetOrReported
               /\ []NextRunsAreNext
               /\ PicksAtRest => [](ProgressiveIsAdvanced /\ NoFlagOrDateLeftOver)
  <1>1. LoanSpec => DeliberateIsKept
    BY LoanAssumption, OnlyTheOfficerChanges
  <1>2. NavSpec => []MenuIsOneTree
    BY NavigationAssumption, MenuStaysOneTree
  <1>3. NavSpec => []WishesAreMetOrReported
    BY NavigationAssumption, WishesAreKept
  <1>4. PicksAtRest /\ LoanSpec => []ProgressiveIsAdvanced
    BY LoanAssumption, ProgressiveAlwaysAdvanced
  <1>5. PicksAtRest /\ LoanSpec => []NoFlagOrDateLeftOver
    BY LoanAssumption, NoFlagOrDateLeftIsSent
  <1>6. CronSpec => []NextRunsAreNext
    BY CronAssumption, PreviewIsNext
  <1> QED
    BY <1>1, <1>2, <1>3, <1>4, <1>5, <1>6, EachFormPart, PTL
=============================================================================
