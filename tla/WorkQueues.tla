------------------------------ MODULE WorkQueues -----------------------------
(***************************************************************************)
(* The work queues screen                                                  *)
(* (features/tasks/work-queues/work-queues.component.ts).                  *)
(*                                                                         *)
(* One list of rows stands for whichever queue is on screen.  A row keeps  *)
(* only an id: what that id means to a command is decided by the queue     *)
(* that is active when the batch is built.  Loads are never cancelled, the *)
(* confirmation is awaited, and the batch answers long after it was sent.  *)
(***************************************************************************)
EXTENDS Naturals, FiniteSets

CONSTANTS
  Queues,         \* the queues modelled, some of QueueKey
  Ids,            \* record ids: the same id names a loan, a client, a request
  MaxRuns,        \* bound: how often the user runs a selection
  MaxQueueLoads,       \* bound: loads of one queue in flight at one stage
  Patient         \* the user changes queue only when the screen is at rest

QueueKeys == {"loanApproval", "loanDisbursal", "clientActivation",
              "rescheduleApproval"}

ASSUME QueuesAssumption ==
  /\ Queues \subseteq QueueKeys /\ "loanApproval" \in Queues
  /\ Ids \subseteq Nat /\ IsFiniteSet(Ids)
  /\ MaxRuns \in Nat /\ MaxQueueLoads \in Nat \ {0}
  /\ Patient \in BOOLEAN

NoQueue == "none"
Runs == 1..MaxRuns

\* The queues whose rows are grouped by the office the loan belongs to.
NeedsOffices == {"loanApproval", "loanDisbursal"} \cap Queues

VARIABLES
  activeQueue,  \* activeQueue
  rows,         \* the ids of rows()
  readFrom,     \* the queue those rows were read from (history)
  selected,     \* the ids of selectedRows()
  isLoading,    \* isLoading
  isRunning,    \* isRunning
  lastResult,   \* lastResult: which run it reports and the rows it names
  officeNames,  \* officeNameById is cached
  loads,        \* how many loads of each queue are at each stage
  run,          \* each use of onRun: its closure and its batch
  pending       \* the platform: the records each queue has pending

queueScreen == <<activeQueue, rows, readFrom, selected>>
queuesVars == <<queueScreen, isLoading, isRunning, lastResult, officeNames, loads, run,
          pending>>

NoResult == [run |-> 0, names |-> {}]

\* selected, readFrom: what onRun captured and the user confirmed.
\* queue: the queue the batch was built for.  refused: the requestIds of the
\* response whose status is not 200.  denied: the records those stand for.
Unrun == [stage |-> "unused", selected |-> {}, readFrom |-> NoQueue,
           queue |-> NoQueue, refused |-> {}, denied |-> {}]

RunStages == {"unused", "opening", "open", "sent", "executed", "over"}

QueuesTypeOK ==
  /\ activeQueue \in Queues /\ readFrom \in Queues \cup {NoQueue}
  /\ rows \subseteq Ids /\ selected \subseteq rows
  /\ isLoading \in BOOLEAN /\ isRunning \in BOOLEAN /\ officeNames \in BOOLEAN
  /\ lastResult \in [run : 0..MaxRuns, names : SUBSET Ids]
  /\ loads \in [Queues \X {"offices", "list"} -> 0..MaxQueueLoads]
  /\ run \in [Runs -> [stage : RunStages, selected : SUBSET Ids,
                       readFrom : Queues \cup {NoQueue},
                       queue : Queues \cup {NoQueue},
                       refused : SUBSET (1..Cardinality(Ids)),
                       denied : SUBSET Ids]]
  /\ pending \in [Queues -> SUBSET Ids]

NoQueueLoads == [l \in Queues \X {"offices", "list"} |-> 0]

\* Where a load of queue q starts: the office names are fetched first, once.
FirstLoad(q) ==
  IF q \in NeedsOffices /\ ~officeNames THEN <<q, "offices">> ELSE <<q, "list">>

QueuesInit ==
  /\ activeQueue = "loanApproval" /\ rows = {} /\ readFrom = NoQueue
  /\ selected = {} /\ isLoading = TRUE /\ isRunning = FALSE
  /\ lastResult = NoResult /\ officeNames = FALSE
  /\ loads = [NoQueueLoads EXCEPT ![FirstLoad("loanApproval")] = 1]
  /\ run = [n \in Runs |-> Unrun]
  /\ pending \in [Queues -> SUBSET Ids]

-----------------------------------------------------------------------------
(* Loading *)

\* Mutation: the selection outlives the rows.
LoadQueue_KeepsSelection(q) ==
  /\ isLoading' = TRUE /\ rows' = {} /\ readFrom' = NoQueue
  /\ UNCHANGED selected
  /\ loads[FirstLoad(q)] < MaxQueueLoads
  /\ loads' = [loads EXCEPT ![FirstLoad(q)] = @ + 1]

\* load(): the rows are emptied and the active queue is asked for.
LoadQueue(q) ==
  /\ isLoading' = TRUE /\ rows' = {} /\ readFrom' = NoQueue /\ selected' = {}
  /\ loads[FirstLoad(q)] < MaxQueueLoads
  /\ loads' = [loads EXCEPT ![FirstLoad(q)] = @ + 1]

\* Nothing is on its way and no run is under way.
QueuesAtRest ==
  /\ \A l \in DOMAIN loads : loads[l] = 0
  /\ \A n \in Runs : run[n].stage \in {"unused", "over"}

\* A confirmation on screen covers the segment.
NoneOpen == \A n \in Runs : run[n].stage # "open"

OnQueueChange(q) ==
  /\ q # activeQueue /\ NoneOpen
  /\ Patient => QueuesAtRest
  /\ activeQueue' = q /\ lastResult' = NoResult
  /\ LoadQueue(q)
  /\ UNCHANGED <<isRunning, officeNames, run, pending>>

OfficesArrive(q) ==
  /\ loads[<<q, "offices">>] > 0 /\ loads[<<q, "list">>] < MaxQueueLoads
  /\ officeNames' = TRUE
  /\ loads' = [loads EXCEPT ![<<q, "offices">>] = @ - 1,
                            ![<<q, "list">>] = @ + 1]
  /\ UNCHANGED <<queueScreen, isLoading, isRunning, lastResult, run, pending>>

\* loadLoans() subscribes to the offices with no error handler.
OfficesFail(q) ==
  /\ loads[<<q, "offices">>] > 0
  /\ loads' = [loads EXCEPT ![<<q, "offices">>] = @ - 1]
  /\ UNCHANGED <<queueScreen, isLoading, isRunning, lastResult, officeNames, run,
                 pending>>

\* A list arrives and is shown, whichever queue is on screen by then.
QueueArrives(q) ==
  /\ loads[<<q, "list">>] > 0
  /\ loads' = [loads EXCEPT ![<<q, "list">>] = @ - 1]
  /\ rows' = pending[q] /\ readFrom' = q /\ selected' = {}
  /\ isLoading' = FALSE
  /\ UNCHANGED <<activeQueue, isRunning, lastResult, officeNames, run, pending>>

\* Mutation: a list that fails to load leaves the spinner.
QueueFails_Spinning(q) ==
  /\ loads[<<q, "list">>] > 0
  /\ loads' = [loads EXCEPT ![<<q, "list">>] = @ - 1]
  /\ UNCHANGED <<queueScreen, isLoading, isRunning, lastResult, officeNames, run,
                 pending>>

QueueFails(q) ==
  /\ loads[<<q, "list">>] > 0
  /\ loads' = [loads EXCEPT ![<<q, "list">>] = @ - 1]
  /\ isLoading' = FALSE
  /\ UNCHANGED <<queueScreen, isRunning, lastResult, officeNames, run, pending>>

-----------------------------------------------------------------------------
(* Selecting and running *)

OnSelectRow(id) ==
  /\ ~isLoading /\ id \in rows /\ NoneOpen
  /\ selected' = IF id \in selected THEN selected \ {id} ELSE selected \cup {id}
  /\ UNCHANGED <<activeQueue, rows, readFrom, isLoading, isRunning, lastResult,
                 officeNames, loads, run, pending>>

OnSelectAll(checked) ==
  /\ ~isLoading /\ rows # {} /\ NoneOpen
  /\ selected' = IF checked THEN rows ELSE {}
  /\ UNCHANGED <<activeQueue, rows, readFrom, isLoading, isRunning, lastResult,
                 officeNames, loads, run, pending>>

\* A run that is over is forgotten, but for what the platform denied it.
OverRun(denied) == [Unrun EXCEPT !.stage = "over", !.denied = denied]

\* onRun, to approve or to reject, up to the confirmation it awaits: the selection is
\* captured.
OnRun(n) ==
  /\ ~isLoading /\ selected # {} /\ ~isRunning /\ NoneOpen
  /\ run[n].stage = "unused" /\ \A m \in 1..(n - 1) : run[m].stage # "unused"
  /\ run' = [run EXCEPT ![n] = [Unrun EXCEPT !.stage = "opening",
               !.selected = selected, !.readFrom = readFrom]]
  /\ UNCHANGED <<queueScreen, isLoading, isRunning, lastResult, officeNames, loads,
                 pending>>

\* The dialog's chunk is loaded and the dialog is presented.
DialogOpens(n) ==
  /\ run[n].stage = "opening"
  /\ run' = [run EXCEPT ![n].stage = "open"]
  /\ UNCHANGED <<queueScreen, isLoading, isRunning, lastResult, officeNames, loads,
                 pending>>

Declined(n) ==
  /\ run[n].stage = "open"
  /\ run' = [run EXCEPT ![n] = OverRun({})]
  /\ UNCHANGED <<queueScreen, isLoading, isRunning, lastResult, officeNames, loads,
                 pending>>

\* Mutation: every batch is built for the first queue of the screen.
BatchQueue_First == "loanApproval"

\* toBatchRequest reads the active queue when the batch is built.
BatchQueue == activeQueue

Confirmed(n) ==
  /\ run[n].stage = "open"
  /\ run' = [run EXCEPT ![n].stage = "sent", ![n].queue = BatchQueue]
  /\ isRunning' = TRUE
  /\ UNCHANGED <<queueScreen, isLoading, lastResult, officeNames, loads, pending>>

-----------------------------------------------------------------------------
(* The platform *)

\* The requestId of a record in a batch: one more than its index in the list.
RequestId(batch, id) == Cardinality({x \in batch : x <= id})

\* POST /batches executes each item on its own; a loan that is approved awaits
\* disbursal next.
Execute(n) ==
  LET r == run[n]
      done == r.selected \cap pending[r.queue]
      denied == r.selected \ done
      moves == r.queue = "loanApproval" IN
  /\ r.stage = "sent"
  /\ pending' = [q \in Queues |->
       IF q = r.queue THEN pending[q] \ done
       ELSE IF moves /\ q = "loanDisbursal" THEN pending[q] \cup done
       ELSE pending[q]]
  /\ run' = [run EXCEPT ![n].stage = "executed", ![n].denied = denied,
               ![n].refused = {RequestId(r.selected, x) : x \in denied}]
  /\ UNCHANGED <<queueScreen, isLoading, isRunning, lastResult, officeNames, loads>>

\* Somebody else deals with a record in the meantime.
DealtWithElsewhere(q, id) ==
  /\ id \in pending[q]
  /\ pending' = [pending EXCEPT ![q] = @ \ {id}]
  /\ UNCHANGED <<queueScreen, isLoading, isRunning, lastResult, officeNames, loads,
                 run>>

-----------------------------------------------------------------------------
(* The outcome *)

\* Mutation: the names are looked up in what is selected by then.
Named_Now(n) == {x \in selected : RequestId(selected, x) \in run[n].refused}

\* reportOutcome: the names of the refused items, by their place in the
\* selection that was sent.
Named(n) ==
  {x \in run[n].selected : RequestId(run[n].selected, x) \in run[n].refused}

BatchAnswers(n) ==
  /\ run[n].stage = "executed"
  /\ run' = [run EXCEPT ![n] = OverRun(@.denied)]
  /\ isRunning' = FALSE
  /\ lastResult' = [run |-> n, names |-> Named(n)]
  /\ LoadQueue(activeQueue)
  /\ UNCHANGED <<activeQueue, officeNames, pending>>

\* The batch, or the answer to it, is lost.
BatchFails(n) ==
  /\ run[n].stage \in {"sent", "executed"}
  /\ run' = [run EXCEPT ![n] = OverRun({})]
  /\ isRunning' = FALSE
  /\ UNCHANGED <<queueScreen, isLoading, lastResult, officeNames, loads, pending>>

-----------------------------------------------------------------------------
Arrival(q) == OfficesArrive(q) \/ OfficesFail(q) \/ QueueArrives(q) \/ QueueFails(q)

RunStep(n) ==
  \/ OnRun(n) \/ DialogOpens(n) \/ Declined(n) \/ Confirmed(n)
  \/ Execute(n) \/ BatchAnswers(n) \/ BatchFails(n)

QueuesNext ==
  \/ \E q \in Queues : OnQueueChange(q) \/ Arrival(q)
  \/ \E id \in Ids : OnSelectRow(id)
  \/ \E checked \in BOOLEAN : OnSelectAll(checked)
  \/ \E n \in Runs : RunStep(n)
  \/ \E q \in Queues, id \in Ids : DealtWithElsewhere(q, id)

QueuesSafe == QueuesInit /\ [][QueuesNext]_queuesVars

\* Requests settle.  Nothing is asked of the user.
QueuesFairness == \A q \in Queues : WF_queuesVars(Arrival(q))

QueuesSpec == QueuesSafe /\ QueuesFairness

-----------------------------------------------------------------------------
(***************************************************************************)
(* Properties                                                              *)
(***************************************************************************)

\* Every batch was built for the queue its rows were read from: a row's `id` is
\* "The id the queue's command addresses" (work-queues.component.ts:55), and the
\* same number is a loan in one queue, a client or a request in another.
BatchAddressesItsRows ==
  \A n \in Runs : run[n].queue # NoQueue => run[n].queue = run[n].readFrom

\* Once the spinner is gone, the rows on screen are those of the active queue.
RowsAreOfTheActiveQueue == ~isLoading /\ rows # {} => readFrom = activeQueue

\* A partial failure names exactly the records the platform refused
\* (work-queues.component.ts:630-633), whatever was selected, reloaded or run
\* while the batch was out.
FailuresAreNamed ==
  lastResult.run # 0 => lastResult.names = run[lastResult.run].denied

\* The office list failed, and nothing more is on its way: loadOfficeNames() has
\* no error handler, and the spinner stays.
OfficesMissing ==
  /\ activeQueue \in NeedsOffices /\ ~officeNames
  /\ \A l \in DOMAIN loads : loads[l] = 0

\* The screen loads, and its user has something to wait for.
QueueWaits == isLoading /\ ~OfficesMissing
=============================================================================
