--------------------------- MODULE ScreensThatWait ---------------------------
(***************************************************************************)
(* Seven parts of the user interface in which somebody waits: the work     *)
(* queues, the checker inbox, the clients list, the scheduler jobs, the    *)
(* client picker and the search box of the header wait for the platform to *)
(* answer, the guided tour for a control to be rendered.                   *)
(*                                                                         *)
(* They share no state with one another.  A behaviour is one of one part,  *)
(* the one in use, while the others rest: since none reads or writes what  *)
(* another does, what holds of each alone holds of them together.          *)
(***************************************************************************)
EXTENDS WorkQueues, CheckerInbox, ClientsList, SchedulerJobs, ClientPicker,
        HeaderSearch, GuidedTour

VARIABLE inUse     \* the part in use

Parts == {"queues", "inbox", "clients", "jobs", "picker", "header", "tour"}

screensVars == <<inUse, queuesVars, inboxVars, listVars, jobsVars, pickerVars,
                 headerVars, tourVars>>

\* A part that is not in use starts in one of its initial states only.
Rests ==
  /\ inUse # "queues" => \A q \in Queues : pending[q] = {}
  /\ inUse # "jobs" => \A f \in Fields : job.fields[f] = 1
  /\ inUse # "tour" => route.at = CHOOSE s \in Screens : TRUE

ScreensInit ==
  /\ inUse \in Parts
  /\ QueuesInit /\ InboxInit /\ ListInit /\ JobsInit /\ PickerInit /\ HeaderInit
  /\ TourInit
  /\ Rests

ScreensNext ==
  /\ UNCHANGED inUse
  /\ IF inUse = "queues" THEN QueuesNext ELSE UNCHANGED queuesVars
  /\ IF inUse = "inbox" THEN InboxNext ELSE UNCHANGED inboxVars
  /\ IF inUse = "clients" THEN ListNext ELSE UNCHANGED listVars
  /\ IF inUse = "jobs" THEN JobsNext ELSE UNCHANGED jobsVars
  /\ IF inUse = "picker" THEN PickerNext ELSE UNCHANGED pickerVars
  /\ IF inUse = "header" THEN HeaderNext ELSE UNCHANGED headerVars
  /\ IF inUse = "tour" THEN TourNext ELSE UNCHANGED tourVars

\* The fairness of each part.  A queue that is not in use stays as its screen opens,
\* with a list under way; nothing is under way in the other parts that rest.
ScreensFairness ==
  /\ \A q \in Queues : WF_queuesVars(inUse = "queues" /\ Arrival(q))
  /\ InboxFairness /\ ListFairness /\ JobsFairness /\ TourFairness

ScreensSpec == ScreensInit /\ [][ScreensNext]_screensVars /\ ScreensFairness

-----------------------------------------------------------------------------
(***************************************************************************)
(* Properties that several parts have                                      *)
(***************************************************************************)

\* Every variable of every part is of its type.
ScreensTypeOK ==
  /\ inUse \in Parts
  /\ QueuesTypeOK /\ InboxTypeOK /\ ListTypeOK /\ JobsTypeOK /\ PickerTypeOK
  /\ HeaderTypeOK /\ TourTypeOK

\* Answers that come late, out of order or not at all: what is on screen once a part
\* is at rest answers what was asked last, in the work queues, the clients list, the
\* client picker and the search box of the header.
LatestIsShown ==
  /\ RowsAreOfTheActiveQueue /\ RowsAnswerTheControls
  /\ OffersAnswerTheSearch /\ ResultsAnswerTheBox

\* What the user was told is done is seen to be done: a task decided is off the inbox,
\* a job saved is listed as saved.
OwnChangesAreShown == DecidedIsGone /\ SavedIsListed

\* One part is in use, so this is its wait: none of the others ever waits.
Waits ==
  \/ inUse = "queues" /\ QueueWaits
  \/ InboxWaits \/ ListWaits \/ SaveWaits \/ TourWaits

\* Whatever fails, what the user waits for ends: a queue, an inbox or a list that
\* loads, also after a failure; the save of a job, also of one found running; the
\* tour's search for a control, unless the tour is paged through for ever.
WaitsEnd == Waits ~> ~Waits
=============================================================================
