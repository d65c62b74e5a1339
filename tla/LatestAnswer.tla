---------------------------- MODULE LatestAnswer ----------------------------
(***************************************************************************)
(* What a list that is searched, sorted and paged at the server promises:  *)
(* whatever order requests are made and answered in, what is shown once    *)
(* the spinner is gone answers the question asked last, or nothing is      *)
(* shown and the failure is.                                               *)
(***************************************************************************)
CONSTANTS Questions, Nothing

VARIABLES asked, waiting, shown

latestVars == <<asked, waiting, shown>>

LatestInit == asked \in Questions /\ waiting = FALSE /\ shown = Nothing

Ask == asked' \in Questions /\ waiting' = TRUE /\ UNCHANGED shown

Answer == waiting /\ waiting' = FALSE /\ shown' = asked /\ UNCHANGED asked

Fail == waiting /\ waiting' = FALSE /\ shown' = Nothing /\ UNCHANGED asked

LatestNext == Ask \/ Answer \/ Fail

LatestSafe == LatestInit /\ [][LatestNext]_latestVars
=============================================================================
