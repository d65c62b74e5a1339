---------------------------- MODULE FormsAndMenu ----------------------------
(***************************************************************************)
(* Three parts of the user interface that compute what they show or send   *)
(* from what was chosen, typed or deployed: the loan form, the preview of  *)
(* a job's cron expression, the menu of the sidebar.                       *)
(*                                                                         *)
(* They share no state with one another.  A behaviour is one of one part,  *)
(* the one in use, while the others rest: what holds of each alone holds   *)
(* of them together.                                                       *)
(***************************************************************************)
EXTENDS LoanForm, QuartzCron, Navigation

VARIABLE inUse     \* the part in use

Parts == {"loan", "cron", "menu"}

formsVars == <<inUse, loanVars, cronVars, navVars>>

\* A part that is not in use starts in one of its initial states only.
Rests ==
  /\ inUse # "loan" => ~loan.edit /\ ~loan.seeded
  /\ inUse # "cron" => cron.now = CHOOSE t \in Clock : TRUE

FormsInit ==
  /\ inUse \in Parts
  /\ LoanInit /\ CronInit /\ NavInit
  /\ Rests

FormsNext ==
  /\ UNCHANGED inUse
  /\ IF inUse = "loan" THEN LoanNext ELSE UNCHANGED loanVars
  /\ IF inUse = "cron" THEN CronNext ELSE UNCHANGED cronVars
  /\ IF inUse = "menu" THEN NavNext ELSE UNCHANGED navVars

FormsSpec == FormsInit /\ [][FormsNext]_formsVars

\* Every variable of every part is of its type.
FormsTypeOK ==
  inUse \in Parts /\ LoanTypeOK /\ CronTypeOK /\ NavTypeOK
=============================================================================
