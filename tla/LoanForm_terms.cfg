SPECIFICATION LoanSpec
CONSTANTS
 Products = {"cumulative","progressive"}
 Progressive = {"progressive"}
 RowNamed = {"cumulative"}
 Terms = {"principal"}
 PicksAtRest = TRUE
 MaxAsks = 1
CHECK_DEADLOCK FALSE
INVARIANT TermsAreOfTheProduct
