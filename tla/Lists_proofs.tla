---------------------------- MODULE Lists_proofs ----------------------------
(***************************************************************************)
(* Proofs about the three lists: the checker inbox, the clients list and   *)
(* the scheduler jobs, for any tasks, records and fields, and any number   *)
(* of posts, visits and saves.                                             *)
(***************************************************************************)
EXTENDS CheckerInbox, ClientsList, SchedulerJobs, FiniteSetTheorems, TLAPS

-----------------------------------------------------------------------------
(* The checker inbox *)

InboxState == [open : BOOLEAN, visit : 0..MaxOpenings, tasks : SUBSET Tasks,
               hasError : BOOLEAN]
ReadState == [stage : {"none", "asked", "evaluated", "ended"}, value : SUBSET Tasks]
PostState == [stage : PostStages, task : SUBSET Tasks, command : Commands,
              visit : 0..MaxOpenings]

InboxTypes ==
  /\ inbox \in InboxState /\ inboxRead \in ReadState
  /\ post \in [Posts -> PostState] /\ task \in [Tasks -> {"new", "awaiting", "decided"}]

\* Nothing is loaded, and the stream has not ended, while the inbox is closed.
StreamIsOfTheInbox ==
  /\ inboxRead.stage # "ended" /\ (~inbox.open => inboxRead.stage = "none")

\* A decision that was applied, or reported, is decided, in a visit there was.
ReportsAreDecided ==
  /\ \A n \in Posts : post[n].visit <= inbox.visit
  /\ \A n \in Posts : post[n].stage = "applied" =>
       \A t \in post[n].task : task[t] = "decided"
  /\ \A v, t : <<v, t>> \in told => t \in Tasks /\ task[t] = "decided" /\ v \in 0..inbox.visit

\* What a load has read was not reported before in this visit, since every report
\* starts the load again.
ReadIsLater ==
  inboxRead.stage = "evaluated" =>
    \A t \in inboxRead.value : <<inbox.visit, t>> \notin told

InboxInv ==
  InboxTypes /\ StreamIsOfTheInbox /\ ReportsAreDecided /\ ReadIsLater /\ DecidedIsGone

LEMMA InboxInvInit ==
  ASSUME InboxAssumption, InboxInit
  PROVE  InboxInv
  <1>1. InboxTypes
    BY DEF InboxInit, InboxAssumption, InboxTypes, InboxState, ReadState, PostState, NoRead,
           Unposted, PostStages, Commands
  <1> QED
    BY <1>1 DEF InboxInit, InboxInv, StreamIsOfTheInbox, ReportsAreDecided, ReadIsLater,
           DecidedIsGone, NoRead, Unposted

(* Refresh starts a load of the inbox on screen, or leaves things as they are. *)
LEMMA RefreshStarts ==
  ASSUME InboxInv, NEW v, Refresh(v)
  PROVE  /\ inboxRead' \in ReadState
         /\ inboxRead'.stage # "ended"
         /\ inbox.open /\ inbox.visit = v => inboxRead'.stage = "asked"
         /\ ~(inbox.open /\ inbox.visit = v) => inboxRead' = inboxRead
  BY DEF InboxInv, InboxTypes, StreamIsOfTheInbox, Refresh, InboxAsked, ReadState

LEMMA InboxInvStep ==
  ASSUME InboxAssumption, InboxInv, [InboxNext]_inboxVars
  PROVE  InboxInv'
  <1>0. /\ inbox \in InboxState /\ inboxRead \in ReadState
        /\ post \in [Posts -> PostState]
        /\ task \in [Tasks -> {"new", "awaiting", "decided"}]
        /\ StreamIsOfTheInbox /\ ReportsAreDecided /\ ReadIsLater /\ DecidedIsGone
    BY DEF InboxInv, InboxTypes
  \* The decisions and the platform are left alone.
  <1>i. ASSUME inbox' \in InboxState, inboxRead' \in ReadState, UNCHANGED <<post, task, told>>,
               inbox'.visit \in {inbox.visit, inbox.visit + 1}, StreamIsOfTheInbox', ReadIsLater', DecidedIsGone'
        PROVE  InboxInv'
    <2>1. inbox.visit \in Nat /\ inbox'.visit \in Nat
          /\ \A n \in Posts : post[n].visit \in Nat
      BY <1>0, <1>i DEF InboxState, PostState, InboxAssumption
    <2>2. 0..inbox.visit \subseteq 0..inbox'.visit
      BY <2>1, <1>i
    <2>3. ReportsAreDecided'
      BY <1>0, <1>i, <2>1, <2>2 DEF ReportsAreDecided
    <2> QED
      BY <1>0, <1>i, <2>3 DEF InboxInv, InboxTypes
  \* A decision moves on, of which the platform and the list hear nothing.
  <1>p. ASSUME NEW n \in Posts, NEW p \in PostState, post' = [post EXCEPT ![n] = p],
               p.visit = post[n].visit \/ p.visit = inbox.visit, p.stage # "applied",
               UNCHANGED <<inbox, inboxRead, task, told>>
        PROVE  InboxInv'
    <2>1. post' \in [Posts -> PostState]
      BY <1>0, <1>p
    <2>2. ReportsAreDecided'
      BY <1>0, <1>p DEF ReportsAreDecided, InboxState, PostState, InboxAssumption
    <2> QED
      BY <1>0, <1>p, <2>1, <2>2 DEF InboxInv, InboxTypes, StreamIsOfTheInbox, ReadIsLater,
         DecidedIsGone
  <1>1. CASE OpenInbox
    <2>1. /\ inbox'.visit = inbox.visit + 1 /\ inbox' \in InboxState /\ inbox'.tasks = {}
          /\ inbox'.open
      BY <1>0, <1>1 DEF OpenInbox, InboxState, InboxAssumption
    <2>2. inboxRead' = InboxAsked /\ UNCHANGED <<post, task, told>>
      BY <1>1 DEF OpenInbox
    <2>3. inboxRead' \in ReadState /\ StreamIsOfTheInbox' /\ ReadIsLater' /\ DecidedIsGone'
      BY <2>1, <2>2 DEF InboxAsked, ReadState, StreamIsOfTheInbox, ReadIsLater, DecidedIsGone
    <2> QED
      BY <2>1, <2>2, <2>3, <1>i
  <1>2. CASE CloseInbox
    <2>1. /\ inbox'.visit = inbox.visit /\ inbox' \in InboxState /\ ~inbox'.open
          /\ inboxRead' = NoRead
          /\ UNCHANGED <<post, task, told>>
      BY <1>0, <1>2 DEF CloseInbox, InboxState
    <2>2. inboxRead' \in ReadState /\ StreamIsOfTheInbox' /\ ReadIsLater' /\ DecidedIsGone'
      BY <2>1 DEF NoRead, ReadState, StreamIsOfTheInbox, ReadIsLater, DecidedIsGone
    <2> QED
      BY <2>1, <2>2, <1>i
  <1>3. CASE OnRetryInbox
    <2>1. Refresh(inbox.visit) /\ inbox.open /\ UNCHANGED <<inbox, post, task, told>>
      BY <1>3 DEF OnRetryInbox
    <2>2. inboxRead' \in ReadState /\ inboxRead'.stage = "asked"
      BY <2>1, RefreshStarts
    <2>3. StreamIsOfTheInbox' /\ ReadIsLater' /\ DecidedIsGone'
      BY <1>0, <2>1, <2>2 DEF StreamIsOfTheInbox, ReadIsLater, DecidedIsGone
    <2> QED
      BY <1>0, <2>1, <2>2, <2>3, <1>i
  <1>4. CASE ReadEvaluated
    <2>1. /\ inboxRead' = [stage |-> "evaluated", value |-> Awaiting]
          /\ inboxRead.stage = "asked" /\ UNCHANGED <<inbox, post, task, told>>
      BY <1>4 DEF ReadEvaluated
    <2>2. Awaiting \subseteq Tasks /\ \A t \in Awaiting : task[t] # "decided"
      BY DEF Awaiting
    <2>3. ReadIsLater'
      BY <1>0, <2>1, <2>2 DEF ReadIsLater, ReportsAreDecided
    <2>4. /\ inboxRead' \in ReadState /\ StreamIsOfTheInbox' /\ DecidedIsGone'
      BY <1>0, <2>1, <2>2 DEF ReadState, StreamIsOfTheInbox, DecidedIsGone
    <2> QED
      BY <1>0, <2>1, <2>3, <2>4, <1>i
  <1>5. CASE ReadArrives
    <2>1. /\ inboxRead.stage = "evaluated" /\ inboxRead' = NoRead
          /\ inbox' = [inbox EXCEPT !.tasks = inboxRead.value, !.hasError = FALSE]
          /\ UNCHANGED <<post, task, told>>
      BY <1>5 DEF ReadArrives
    <2>2. /\ inbox' \in InboxState /\ inbox'.visit = inbox.visit /\ inbox'.open = inbox.open
          /\ inbox'.tasks = inboxRead.value
      BY <1>0, <2>1 DEF InboxState, ReadState
    <2>3. DecidedIsGone'
      BY <1>0, <2>1, <2>2 DEF DecidedIsGone, ReadIsLater
    <2>4. inboxRead' \in ReadState /\ StreamIsOfTheInbox' /\ ReadIsLater'
      BY <2>1 DEF NoRead, ReadState, StreamIsOfTheInbox, ReadIsLater
    <2> QED
      BY <2>1, <2>2, <2>3, <2>4, <1>i
  <1>6. CASE ReadFails
    <2>1. /\ inboxRead' = NoRead /\ UNCHANGED <<post, task, told>>
          /\ inbox' = [inbox EXCEPT !.tasks = {}, !.hasError = TRUE]
      BY <1>6 DEF ReadFails
    <2>2. /\ inbox' \in InboxState /\ inbox'.tasks = {} /\ inbox'.visit = inbox.visit
      BY <1>0, <2>1 DEF InboxState
    <2>3. inboxRead' \in ReadState /\ StreamIsOfTheInbox' /\ ReadIsLater' /\ DecidedIsGone'
      BY <2>1, <2>2 DEF NoRead, ReadState, StreamIsOfTheInbox, ReadIsLater, DecidedIsGone
    <2> QED
      BY <2>1, <2>2, <2>3, <1>i
  <1>7. ASSUME NEW n \in Posts, NEW t \in Tasks, OnApprove(n, t) \/ OnReject(n, t)
        PROVE  InboxInv'
    <2>1. PICK command \in Commands : Click(n, t, command)
      BY <1>7 DEF OnApprove, OnReject, Commands
    <2> DEFINE p == [stage |-> IF command = "approve" THEN "sent" ELSE "opening",
                     task |-> {t}, command |-> command, visit |-> inbox.visit]
    <2>2. p \in PostState /\ p.visit = inbox.visit /\ p.stage # "applied"
      BY <1>0 DEF PostState, PostStages, InboxState
    <2>3. post' = [post EXCEPT ![n] = p] /\ UNCHANGED <<inbox, inboxRead, task, told>>
      BY <2>1 DEF Click
    <2> HIDE DEF p
    <2> QED
      BY <2>2, <2>3, <1>p
  <1>8. ASSUME NEW n \in Posts, NEW stage \in PostStages \ {"applied"},
               post' = [post EXCEPT ![n].stage = stage],
               UNCHANGED <<inbox, inboxRead, task, told>>
        PROVE  InboxInv'
    <2> DEFINE p == [post[n] EXCEPT !.stage = stage]
    <2>1. p \in PostState /\ p.visit = post[n].visit /\ p.stage # "applied"
      BY <1>0, <1>8 DEF PostState
    <2>2. post' = [post EXCEPT ![n] = p]
      BY <1>8
    <2> HIDE DEF p
    <2> QED
      BY <1>8, <2>1, <2>2, <1>p
  <1>9. ASSUME NEW n \in Posts, ConfirmOpens(n) \/ PostFails(n)
                  \/ \E confirmed \in BOOLEAN : ConfirmAnswered(n, confirmed)
        PROVE  InboxInv'
    BY <1>8, <1>9 DEF ConfirmOpens, PostFails, ConfirmAnswered, PostStages
  <1>10. ASSUME NEW n \in Posts, Decide(n)
         PROVE  InboxInv'
    <2>1. post[n].task \subseteq Tasks
      BY <1>0 DEF PostState
    <2>2. CASE post[n].task \subseteq Awaiting
      <3>1. /\ post' = [post EXCEPT ![n].stage = "applied"]
            /\ task' = [t \in Tasks |-> IF t \in post[n].task THEN "decided" ELSE task[t]]
            /\ UNCHANGED <<inbox, inboxRead, told>>
        BY <1>10, <2>2 DEF Decide
      <3>2. /\ post' \in [Posts -> PostState]
            /\ \A m \in Posts : post'[m].visit = post[m].visit /\ post'[m].task = post[m].task
            /\ \A m \in Posts \ {n} : post'[m].stage = post[m].stage
        BY <1>0, <3>1 DEF PostState, PostStages
      <3>3. /\ task' \in [Tasks -> {"new", "awaiting", "decided"}]
            /\ \A t \in Tasks : task[t] = "decided" => task'[t] = "decided"
            /\ \A t \in post[n].task : task'[t] = "decided"
        BY <1>0, <2>1, <3>1
      <3>4. ReportsAreDecided'
        BY <1>0, <3>1, <3>2, <3>3 DEF ReportsAreDecided, PostState
      <3> QED
        BY <1>0, <3>1, <3>2, <3>3, <3>4 DEF InboxInv, InboxTypes, StreamIsOfTheInbox,
           ReadIsLater, DecidedIsGone
    <2>3. CASE ~(post[n].task \subseteq Awaiting)
      BY <1>8, <1>10, <2>3 DEF Decide, PostStages
    <2> QED
      BY <2>2, <2>3
  <1>11. ASSUME NEW t \in Tasks, MadeElsewhere(t)
         PROVE  InboxInv'
    <2>1. /\ task' \in [Tasks -> {"new", "awaiting", "decided"}]
          /\ \A u \in Tasks : task[u] = "decided" => task'[u] = "decided"
          /\ UNCHANGED <<inbox, inboxRead, post, told>>
      BY <1>0, <1>11 DEF MadeElsewhere
    <2>2. ReportsAreDecided'
      BY <1>0, <2>1 DEF ReportsAreDecided, PostState
    <2> QED
      BY <1>0, <2>1, <2>2 DEF InboxInv, InboxTypes, StreamIsOfTheInbox, ReadIsLater,
         DecidedIsGone
  <1>12. ASSUME NEW n \in Posts, PostSucceeds(n)
         PROVE  InboxInv'
    <2> DEFINE v == post[n].visit
    <2>1. /\ post[n].stage = "applied" /\ post' = [post EXCEPT ![n].stage = "over"]
          /\ told' = told \cup ({v} \X post[n].task)
          /\ Refresh(v) /\ UNCHANGED <<inbox, task>>
      BY <1>12 DEF PostSucceeds
    <2>2. /\ inboxRead' \in ReadState /\ inboxRead'.stage # "ended"
          /\ inbox.open /\ inbox.visit = v => inboxRead'.stage = "asked"
          /\ ~(inbox.open /\ inbox.visit = v) => inboxRead' = inboxRead
      BY <2>1, RefreshStarts
    <2>3. /\ post' \in [Posts -> PostState]
          /\ \A m \in Posts : post'[m].visit = post[m].visit /\ post'[m].task = post[m].task
          /\ \A m \in Posts : post'[m].stage = "applied" => post[m].stage = "applied"
      BY <1>0, <2>1 DEF PostState, PostStages
    <2>4. v \in 0..inbox.visit /\ \A t \in post[n].task : t \in Tasks /\ task[t] = "decided"
      BY <1>0, <2>1 DEF ReportsAreDecided, PostState, InboxState, InboxAssumption
    <2>5. \A w, t : <<w, t>> \in told' => <<w, t>> \in told \/ (w = v /\ t \in post[n].task)
      BY <2>1
    <2>6. ReportsAreDecided'
      BY <1>0, <2>1, <2>3, <2>4, <2>5 DEF ReportsAreDecided
    <2>7. StreamIsOfTheInbox'
      BY <1>0, <2>1, <2>2 DEF StreamIsOfTheInbox
    <2>8. CASE inbox.open /\ inbox.visit = v
      BY <1>0, <2>1, <2>2, <2>3, <2>6, <2>7, <2>8 DEF InboxInv, InboxTypes, ReadIsLater,
         DecidedIsGone
    <2>9. CASE ~(inbox.open /\ inbox.visit = v)
      <3>1. inbox.open => \A t : <<inbox.visit, t>> \in told' => <<inbox.visit, t>> \in told
        BY <2>5, <2>9
      <3>2. ~inbox.open => inboxRead'.stage = "none"
        BY <1>0, <2>2, <2>9 DEF StreamIsOfTheInbox
      <3>3. ReadIsLater' /\ DecidedIsGone'
        BY <1>0, <2>1, <2>2, <2>9, <3>1, <3>2 DEF ReadIsLater, DecidedIsGone
      <3> QED
        BY <1>0, <2>1, <2>2, <2>3, <2>6, <2>7, <3>3 DEF InboxInv, InboxTypes
    <2> QED
      BY <2>8, <2>9
  <1>13. CASE UNCHANGED inboxVars
    BY <1>0, <1>13 DEF inboxVars, InboxInv, InboxTypes, StreamIsOfTheInbox, ReportsAreDecided,
       ReadIsLater, DecidedIsGone
  <1> QED
    BY <1>1, <1>2, <1>3, <1>4, <1>5, <1>6, <1>7, <1>9, <1>10, <1>11, <1>12, <1>13
    DEF InboxNext, PostStep, LoadEnds

(* A decision reported as done is off the inbox once its list is at rest: whichever  *)
(* loads were under way or failed, whoever else decides, however often the inbox was *)
(* left and opened again.                                                            *)
THEOREM DecidedGoesAway ==
  ASSUME InboxAssumption
  PROVE  InboxInit /\ [][InboxNext]_inboxVars => []DecidedIsGone
  <1>1. InboxInit => InboxInv
    BY InboxInvInit
  <1>2. InboxInv /\ [InboxNext]_inboxVars => InboxInv'
    BY InboxInvStep
  <1>3. InboxInv => DecidedIsGone
    BY DEF InboxInv
  <1> QED
    BY <1>1, <1>2, <1>3, PTL

\* A decision is of one task, and of a visit; so is a report.
DecisionsAreOfTasks ==
  /\ inbox.open => inbox.visit # 0
  /\ \A n \in Posts : post[n].stage # "unused" =>
       post[n].visit # 0 /\ \E t \in Tasks : post[n].task = {t}
  /\ told \subseteq (1..MaxOpenings) \X Tasks

LEMMA DecisionsStep ==
  ASSUME InboxAssumption, InboxInv, DecisionsAreOfTasks, [InboxNext]_inboxVars
  PROVE  DecisionsAreOfTasks'
  <1>0. /\ inbox \in InboxState /\ post \in [Posts -> PostState] /\ MaxOpenings \in Nat
        /\ inbox.visit \in Nat
    BY DEF InboxInv, InboxTypes, InboxState, InboxAssumption
  \* The decisions are left alone, and the inbox opens only with a visit.
  <1>i. ASSUME UNCHANGED <<post, told>>, inbox'.open => inbox'.visit # 0
        PROVE  DecisionsAreOfTasks'
    BY <1>i DEF DecisionsAreOfTasks
  \* One decision moves on.
  <1>p. ASSUME NEW n \in Posts, NEW p, post' = [post EXCEPT ![n] = p], UNCHANGED <<inbox, told>>,
               p.visit # 0, \E t \in Tasks : p.task = {t}
        PROVE  DecisionsAreOfTasks'
    BY <1>0, <1>p DEF DecisionsAreOfTasks
  <1>s. ASSUME NEW n \in Posts, NEW stage, post' = [post EXCEPT ![n].stage = stage],
               post[n].stage # "unused", UNCHANGED <<inbox, told>>
        PROVE  DecisionsAreOfTasks'
    <2> DEFINE p == [post[n] EXCEPT !.stage = stage]
    <2>1. p.visit = post[n].visit /\ p.task = post[n].task /\ post' = [post EXCEPT ![n] = p]
      BY <1>0, <1>s DEF PostState
    <2>2. post[n].visit # 0 /\ \E t \in Tasks : post[n].task = {t}
      BY <1>s DEF DecisionsAreOfTasks
    <2>3. p.visit # 0 /\ \E t \in Tasks : p.task = {t}
      BY <2>1, <2>2
    <2>4. inbox' = inbox /\ told' = told
      BY <1>s
    <2> HIDE DEF p
    <2> QED
      BY <1>p, <2>1, <2>3, <2>4
  <1>1. CASE OpenInbox
    BY <1>0, <1>1, <1>i DEF OpenInbox
  <1>2. CASE CloseInbox
    BY <1>0, <1>2, <1>i DEF CloseInbox, InboxState
  <1>3. CASE OnRetryInbox \/ ReadEvaluated \/ (\E t \in Tasks : MadeElsewhere(t)) \/ UNCHANGED inboxVars
    <2>1. UNCHANGED <<inbox, post, told>>
      BY <1>3 DEF OnRetryInbox, ReadEvaluated, MadeElsewhere, inboxVars
    <2> QED
      BY <1>i, <2>1 DEF DecisionsAreOfTasks
  <1>4. CASE LoadEnds
    <2>1. /\ inbox'.open = inbox.open /\ inbox'.visit = inbox.visit
          /\ UNCHANGED <<post, told>>
      BY <1>0, <1>4 DEF LoadEnds, ReadArrives, ReadFails, InboxState
    <2> QED
      BY <1>i, <2>1 DEF DecisionsAreOfTasks
  <1>5. ASSUME NEW n \in Posts, NEW t \in Tasks, OnApprove(n, t) \/ OnReject(n, t)
        PROVE  DecisionsAreOfTasks'
    <2>1. PICK command \in Commands : Click(n, t, command)
      BY <1>5 DEF OnApprove, OnReject, Commands
    <2>2. inbox.open /\ UNCHANGED <<inbox, told>>
      BY <2>1 DEF Click
    <2> DEFINE p == [stage |-> IF command = "approve" THEN "sent" ELSE "opening",
                     task |-> {t}, command |-> command, visit |-> inbox.visit]
    <2>3. post' = [post EXCEPT ![n] = p] /\ p.visit = inbox.visit /\ p.task = {t}
      BY <2>1 DEF Click
    <2>4. inbox.visit # 0
      BY <2>2 DEF DecisionsAreOfTasks
    <2> HIDE DEF p
    <2> QED
      BY <1>p, <2>2, <2>3, <2>4
  <1>6. ASSUME NEW n \in Posts, ConfirmOpens(n) \/ (\E confirmed \in BOOLEAN : ConfirmAnswered(n, confirmed))
                  \/ Decide(n) \/ PostFails(n)
        PROVE  DecisionsAreOfTasks'
    <2>1. \E stage : post' = [post EXCEPT ![n].stage = stage]
      BY <1>6 DEF ConfirmOpens, ConfirmAnswered, Decide, PostFails
    <2>2. post[n].stage # "unused" /\ UNCHANGED <<inbox, told>>
      BY <1>6 DEF ConfirmOpens, ConfirmAnswered, Decide, PostFails
    <2> QED
      BY <1>s, <2>1, <2>2
  <1>7. ASSUME NEW n \in Posts, PostSucceeds(n)
        PROVE  DecisionsAreOfTasks'
    <2>1. /\ post[n].stage = "applied" /\ post' = [post EXCEPT ![n].stage = "over"]
          /\ told' = told \cup ({post[n].visit} \X post[n].task) /\ inbox' = inbox
      BY <1>7 DEF PostSucceeds
    <2>2. PICK t \in Tasks : post[n].task = {t}
      BY <2>1 DEF DecisionsAreOfTasks
    <2>3. post[n].visit \in 1..MaxOpenings
      BY <1>0, <2>1 DEF DecisionsAreOfTasks, PostState
    <2>4. told' \subseteq (1..MaxOpenings) \X Tasks
      BY <2>1, <2>2, <2>3 DEF DecisionsAreOfTasks
    <2>5. \A m \in Posts : post'[m].visit = post[m].visit /\ post'[m].task = post[m].task
                             /\ (post'[m].stage # "unused" => post[m].stage # "unused")
      BY <1>0, <2>1 DEF PostState
    <2> QED
      BY <2>1, <2>4, <2>5 DEF DecisionsAreOfTasks
  <1> QED
    BY <1>1, <1>2, <1>3, <1>4, <1>5, <1>6, <1>7 DEF InboxNext, PostStep

(* Every variable of the inbox keeps its type. *)
THEOREM InboxTypeCorrect ==
  ASSUME InboxAssumption
  PROVE  InboxInit /\ [][InboxNext]_inboxVars => []InboxTypeOK
  <1>1. InboxInit => InboxInv /\ DecisionsAreOfTasks
    <2>1. InboxInit => DecisionsAreOfTasks
      BY DEF InboxInit, DecisionsAreOfTasks, Unposted
    <2> QED
      BY <2>1, InboxInvInit
  <1>2. InboxInv /\ DecisionsAreOfTasks /\ [InboxNext]_inboxVars => InboxInv' /\ DecisionsAreOfTasks'
    BY InboxInvStep, DecisionsStep
  <1>3. InboxInv /\ DecisionsAreOfTasks => InboxTypeOK
    BY DEF InboxInv, InboxTypes, InboxState, ReadState, PostState, DecisionsAreOfTasks, InboxTypeOK
  <1> QED
    BY <1>1, <1>2, <1>3, PTL

-----------------------------------------------------------------------------
(* The clients list *)

ListState == [open : BOOLEAN, page : Pages, size : Sizes, text : Texts,
              status : Statuses, sort : Sorts, isLoading : BOOLEAN,
              hasError : BOOLEAN]
TableState == [page : Pages, size : Sizes, sort : Sorts, box : Texts, due : BOOLEAN]

TableFollows ==
  table.page = list.page /\ table.size = list.size /\ table.sort = list.sort

\* The page begins within the records there may be, and so do those it leads to.
PageIsInRange ==
  list.page * list.size <= MaxRecords /\ shown.total <= MaxRecords

\* What is awaited is the answer to the question on screen, exactly while it loads.
SentIsLast == sent = {x \in {Requested(list)} : list.isLoading}

ListInv == ListTypeOK /\ TableFollows /\ PageIsInRange /\ SentIsLast

(* What division rounds to. *)
LEMMA Quotient ==
  ASSUME NEW a \in Nat, NEW b \in Nat \ {0}
  PROVE  /\ a \div b \in Nat /\ (a \div b) * b <= a /\ a < (a \div b) * b + b
         /\ a \div b <= (a \div b) * b
  <1>1. a \div b \in Nat /\ b * (a \div b) <= a /\ a < b * (a \div b) + b
    OBVIOUS
  <1>2. \A k \in Nat : k * b = b * k /\ k <= k * b
    OBVIOUS
  <1> QED
    BY <1>1, <1>2

(* The last page begins within the records. *)
LEMMA LastPageInRange ==
  ASSUME NEW size \in Nat \ {0}, shown.total \in Nat, MaxRecords \in Nat,
         shown.total <= MaxRecords
  PROVE  /\ LastPageIndex(size) \in 0..MaxRecords
         /\ LastPageIndex(size) * size <= MaxRecords
  <1>1. CASE shown.total = 0
    BY <1>1 DEF LastPageIndex
  <1>2. CASE shown.total # 0
    <2> DEFINE a == shown.total + size - 1
               k == a \div size
    <2>1. a \in Nat
      BY <1>2
    <2>2. k \in Nat /\ k * size <= a /\ a < k * size + size
      BY <2>1, Quotient
    <2>3. LastPageIndex(size) = k - 1
      BY <1>2 DEF LastPageIndex
    <2> HIDE DEF k
    <2>4. k # 0
      BY <1>2, <2>2
    <2>5. k - 1 \in Nat /\ (k - 1) * size = k * size - size /\ k - 1 <= (k - 1) * size
      BY <2>2, <2>4
    <2>6. (k - 1) * size <= shown.total
      BY <2>2, <2>5
    <2> QED
      BY <2>3, <2>5, <2>6
  <1> QED
    BY <1>1, <1>2

(* The last page holds the last of the records. *)
LEMMA LastPageIs ==
  ASSUME NEW size \in Nat \ {0}, shown.total \in Nat, shown.total > 0
  PROVE  /\ LastPageIndex(size) \in Nat /\ LastPageIndex(size) * size < shown.total
         /\ shown.total <= (LastPageIndex(size) + 1) * size
  <1> DEFINE a == shown.total + size - 1
             k == a \div size
  <1>1. a \in Nat
    OBVIOUS
  <1>2. k \in Nat /\ k * size <= a /\ a < k * size + size
    BY <1>1, Quotient
  <1>3. LastPageIndex(size) = k - 1
    BY DEF LastPageIndex
  <1> HIDE DEF k
  <1>4. k # 0
    BY <1>2
  <1>5. k - 1 \in Nat /\ (k - 1) * size = k * size - size /\ (k - 1) + 1 = k
    BY <1>2, <1>4
  <1> QED
    BY <1>2, <1>3, <1>5

LEMMA ProductsCompare ==
  ASSUME NEW a \in Nat, NEW b \in Nat, NEW size \in Nat \ {0}, a * size < b * size
  PROVE  a < b
  <1>1. b <= a => b * size <= a * size
    OBVIOUS
  <1> QED
    BY <1>1

LEMMA RequestedTyped ==
  ASSUME NEW q \in ListState
  PROVE  /\ Requested(q) \in Question
         /\ Requested([q EXCEPT !.isLoading = TRUE]) = Requested(q)
         /\ Settled(q) \in ListState
         /\ Settled(q).page = q.page /\ Settled(q).size = q.size
  BY DEF ListState, Requested, Question, UsesNameSearch, Settled, Sorts

(* A question is asked. *)
LEMMA LoadAsks ==
  ASSUME ListAssumption, ListInv, NEW q \in ListState, NEW t \in TableState,
         q.page * q.size <= MaxRecords, Load(q), Follow(t)
  PROVE  ListInv' /\ Latest!Ask
  <1>1. /\ list' = [q EXCEPT !.isLoading = TRUE] /\ sent' = {Requested(q)}
        /\ UNCHANGED shown
    BY DEF Load
  <1>2. list' \in ListState /\ list'.isLoading /\ list'.page = q.page /\ list'.size = q.size
    BY <1>1 DEF ListState
  <1>3. Requested(q) \in Question /\ Requested(list') = Requested(q)
    BY <1>1, RequestedTyped
  <1>4. table' = [t EXCEPT !.page = list'.page, !.size = list'.size, !.sort = list'.sort]
    BY DEF Follow
  <1>5. table' \in TableState /\ TableFollows'
    BY <1>2, <1>4 DEF TableState, ListState, TableFollows
  <1>6. ListTypeOK'
    BY <1>1, <1>2, <1>3, <1>5 DEF ListInv, ListTypeOK, ListState, TableState
  <1>7. PageIsInRange' /\ SentIsLast'
    BY <1>1, <1>2, <1>3 DEF ListInv, PageIsInRange, SentIsLast
  <1>8. Latest!Ask
    BY <1>1, <1>2, <1>3 DEF Latest!Ask, Answers
  <1> QED
    BY <1>5, <1>6, <1>7, <1>8 DEF ListInv

LEMMA ListInvInit ==
  ASSUME ListAssumption, ListInit
  PROVE  ListInv /\ Latest!LatestInit
  <1>1. list \in ListState /\ table \in TableState /\ ~list.isLoading
    BY DEF ListInit, ListAssumption, ListState, TableState, Pages, Sorts
  <1>2. Requested(list) \in Question
    BY <1>1, RequestedTyped
  <1>3. ListTypeOK
    BY <1>1 DEF ListInit, ListTypeOK, ListState, TableState, NoRows, ListAssumption
  <1>4. TableFollows /\ PageIsInRange /\ SentIsLast
    BY <1>1 DEF ListInit, TableFollows, PageIsInRange, SentIsLast, NoRows, ListAssumption
  <1>5. Latest!LatestInit
    BY <1>1, <1>2 DEF ListInit, Latest!LatestInit, Answers, NoRows, Nothing
  <1> QED
    BY <1>3, <1>4, <1>5 DEF ListInv

(* A step of the list is one of LatestAnswer, or changes nothing it speaks of. *)
LEMMA ListStep ==
  ASSUME ListAssumption, ListInv, [ListNext]_listVars
  PROVE  ListInv' /\ [Latest!LatestNext]_(Latest!latestVars)
  <1>0. /\ list \in ListState /\ table \in TableState /\ ListTypeOK
        /\ TableFollows /\ PageIsInRange /\ SentIsLast
    BY DEF ListInv, ListTypeOK, ListState, TableState
  <1>n. /\ MaxRecords \in Nat /\ list.page \in Nat /\ list.size \in Nat \ {0}
        /\ list.page <= MaxRecords /\ shown.total \in Nat
        /\ Sizes \subseteq Nat \ {0} /\ 0 \in Pages
    <2>1. MaxRecords \in Nat /\ Sizes \subseteq Nat \ {0} /\ shown.total \in Nat
      BY DEF ListAssumption, ListInv, ListTypeOK
    <2>2. list.page \in Pages /\ list.size \in Sizes
      BY <1>0 DEF ListState
    <2>3. list.page \in 0..MaxRecords /\ 0 \in Pages
      BY <2>1, <2>2 DEF Pages
    <2>4. list.page \in Nat /\ list.page <= MaxRecords
      BY <2>1, <2>3
    <2>5. list.size \in Nat \ {0}
      BY <2>1, <2>2
    <2> QED
      BY <2>1, <2>3, <2>4, <2>5
  <1>a. ASSUME NEW q \in ListState, NEW t \in TableState, Load(q), Follow(t),
               q.page * q.size <= MaxRecords
        PROVE  ListInv' /\ [Latest!LatestNext]_(Latest!latestVars)
    BY <1>a, LoadAsks DEF Latest!LatestNext
  \* Typing asks nothing.
  <1>t. ASSUME table' \in TableState, TableFollows', UNCHANGED <<list, sent, shown>>
        PROVE  ListInv' /\ [Latest!LatestNext]_(Latest!latestVars)
    <2>1. ListInv'
      BY <1>0, <1>t DEF ListInv, ListTypeOK, TableState, PageIsInRange, SentIsLast, Requested,
         UsesNameSearch
    <2>2. UNCHANGED Latest!latestVars
      BY <1>t DEF Latest!latestVars, Requested, UsesNameSearch
    <2> QED
      BY <2>1, <2>2
  \* A question about the first page.
  <1>f. ASSUME NEW q \in ListState, NEW t \in TableState, q.page = 0, Load(Settled(q)),
               Follow(t)
        PROVE  ListInv' /\ [Latest!LatestNext]_(Latest!latestVars)
    <2>1. Settled(q) \in ListState /\ Settled(q).page = 0 /\ Settled(q).size \in Nat
      BY <1>f, <1>n, RequestedTyped DEF ListState
    <2>2. Settled(q).page * Settled(q).size <= MaxRecords
      BY <1>n, <2>1
    <2> QED
      BY <1>a, <1>f, <2>1, <2>2
  \* Another page.
  <1>p. ASSUME NEW to \in Nat, NEW size \in Sizes, OnPage(to, size),
               to * size <= MaxRecords
        PROVE  ListInv' /\ [Latest!LatestNext]_(Latest!latestVars)
    <2> DEFINE q == [list EXCEPT !.page = to, !.size = size]
    <2>1. to <= to * size /\ size \in Nat \ {0}
      BY <1>n, <1>p
    <2>2. to \in Pages
      BY <1>n, <1>p, <2>1 DEF Pages
    <2>3. q \in ListState /\ q.page = to /\ q.size = size
      BY <1>0, <2>2 DEF ListState
    <2>4. Load(q) /\ Follow(table)
      BY <1>p DEF OnPage
    <2> HIDE DEF q
    <2> QED
      BY <1>0, <1>a, <1>p, <2>3, <2>4
  <1>l. /\ LastPageIndex(table.size) \in 0..MaxRecords
        /\ LastPageIndex(table.size) * table.size <= MaxRecords
        /\ table.size \in Sizes /\ table.size \in Nat \ {0} /\ table.page \in Nat
        /\ table.page * table.size <= MaxRecords
    BY <1>0, <1>n, LastPageInRange DEF PageIsInRange, TableFollows, ListState
  <1>1. CASE OpenClients
    <2>1. [list EXCEPT !.open = TRUE] \in ListState
      BY <1>0 DEF ListState
    <2> QED
      BY <1>0, <1>1, <1>a, <2>1 DEF OpenClients, PageIsInRange, ListState
  <1>2. ASSUME NEW text \in Texts, OnInput(text)
        PROVE  ListInv' /\ [Latest!LatestNext]_(Latest!latestVars)
    <2>1. table' = [table EXCEPT !.box = text, !.due = TRUE] /\ UNCHANGED <<list, sent, shown>>
      BY <1>2 DEF OnInput
    <2>2. table' \in TableState /\ TableFollows'
      BY <1>0, <2>1 DEF TableState, TableFollows
    <2> QED
      BY <1>t, <2>1, <2>2
  <1>3. CASE Debounced
    <2> DEFINE t == [table EXCEPT !.due = FALSE]
    <2>1. t \in TableState /\ t.page = table.page /\ t.size = table.size /\ t.sort = table.sort
      BY <1>0 DEF TableState
    <2>2. CASE table' = t /\ UNCHANGED <<list, sent, shown>>
      BY <1>0, <1>t, <2>1, <2>2 DEF TableFollows
    <2>3. CASE Load(Settled([list EXCEPT !.text = table.box, !.page = 0])) /\ Follow(t)
      <3>1. [list EXCEPT !.text = table.box, !.page = 0] \in ListState
        BY <1>0, <1>n DEF ListState, TableState
      <3>2. [list EXCEPT !.text = table.box, !.page = 0].page = 0
        BY <1>0 DEF ListState
      <3> HIDE DEF t
      <3> QED
        BY <1>f, <2>1, <2>3, <3>1, <3>2
    <2> QED
      BY <1>3, <2>2, <2>3 DEF Debounced
  <1>4. ASSUME NEW status \in Statuses, OnFilterChange(status)
        PROVE  ListInv' /\ [Latest!LatestNext]_(Latest!latestVars)
    <2>1. /\ [list EXCEPT !.status = status, !.page = 0] \in ListState
          /\ [list EXCEPT !.status = status, !.page = 0].page = 0
      BY <1>0, <1>n DEF ListState
    <2> QED
      BY <1>0, <1>4, <1>f, <2>1 DEF OnFilterChange
  <1>5. ASSUME NEW column \in Columns, OnSort(column)
        PROVE  ListInv' /\ [Latest!LatestNext]_(Latest!latestVars)
    <2>1. PICK sort \in {column, "none"} :
            Load(Settled([list EXCEPT !.sort = sort, !.page = 0]))
      BY <1>5 DEF OnSort
    <2>2. /\ [list EXCEPT !.sort = sort, !.page = 0] \in ListState
          /\ [list EXCEPT !.sort = sort, !.page = 0].page = 0
      BY <1>0, <1>n DEF ListState, Sorts
    <2> QED
      BY <1>0, <1>5, <1>f, <2>1, <2>2 DEF OnSort
  <1>6. CASE GoNext \/ GoLast
    <2>1. PICK to \in Nat : to <= LastPageIndex(table.size) /\ OnPage(to, table.size)
      BY <1>6, <1>l DEF GoNext, GoLast, Target
    <2>2. to <= LastPageIndex(table.size) /\ LastPageIndex(table.size) \in Nat
      BY <1>l, <2>1
    <2>3. to * table.size <= LastPageIndex(table.size) * table.size
      BY <1>l, <2>2
    <2>4. to * table.size <= MaxRecords
      BY <1>l, <1>n, <2>2, <2>3
    <2> QED
      BY <1>l, <1>p, <2>1, <2>4
  <1>7. CASE GoPrevious
    <2>1. table.page - 1 \in Nat /\ OnPage(Target(table.page - 1), table.size)
      BY <1>7, <1>l DEF GoPrevious, HasPrevious
    <2>2. CASE Target(table.page - 1) = table.page - 1
      <3>1. (table.page - 1) * table.size <= table.page * table.size
        BY <1>l, <2>1
      <3>2. (table.page - 1) * table.size <= MaxRecords
        BY <1>l, <1>n, <2>1, <3>1
      <3> QED
        BY <1>l, <1>p, <2>1, <2>2, <3>2
    <2>3. CASE Target(table.page - 1) = LastPageIndex(table.size)
      BY <1>l, <1>p, <2>1, <2>3
    <2> QED
      BY <2>2, <2>3 DEF Target
  <1>8. CASE GoFirst
    <2>1. OnPage(0, table.size) /\ 0 * table.size <= MaxRecords
      BY <1>8, <1>l, <1>n DEF GoFirst
    <2> QED
      BY <1>l, <1>p, <2>1
  <1>9. ASSUME NEW size \in Sizes, OnPageSizeChange(size)
        PROVE  ListInv' /\ [Latest!LatestNext]_(Latest!latestVars)
    <2> DEFINE a == table.page * table.size
    <2>1. a \in Nat /\ a <= MaxRecords /\ size \in Nat \ {0}
      BY <1>l, <1>n
    <2>2. OnPage(a \div size, size)
      BY <1>9 DEF OnPageSizeChange
    <2> HIDE DEF a
    <2>3. a \div size \in Nat /\ (a \div size) * size <= a
      BY <2>1, Quotient
    <2>4. (a \div size) * size <= MaxRecords
      BY <1>n, <2>1, <2>3
    <2> QED
      BY <1>p, <2>2, <2>3, <2>4
  <1>10. CASE OnRetryList
    BY <1>0, <1>10, <1>a DEF OnRetryList, PageIsInRange
  <1>11. ASSUME NEW q \in sent, ListFails(q) \/ \E n \in 0..MaxRecords : ListArrives(q, n)
         PROVE  ListInv' /\ [Latest!LatestNext]_(Latest!latestVars)
    <2>1. list.isLoading /\ q = Requested(list) /\ sent = {q} /\ q \in Question
      BY <1>0, <1>11 DEF SentIsLast, ListTypeOK
    <2>2. sent' = {} /\ UNCHANGED table
      BY <1>11, <2>1 DEF ListFails, ListArrives
    <2>3. /\ list' \in ListState /\ ~list'.isLoading /\ Requested(list') = Requested(list)
          /\ list'.page = list.page /\ list'.size = list.size /\ list'.sort = list.sort
      BY <1>0, <1>11 DEF ListFails, ListArrives, ListState, Requested, UsesNameSearch
    <2>4. CASE ListFails(q)
      <3>1. shown' = NoRows
        BY <2>4 DEF ListFails
      <3>2. ListInv'
        BY <1>0, <1>n, <2>2, <2>3, <3>1 DEF ListInv, ListTypeOK, ListState, TableFollows,
           PageIsInRange, SentIsLast, NoRows
      <3>3. Latest!Fail
        BY <2>1, <2>3, <3>1 DEF Latest!Fail, NoRows
      <3> QED
        BY <3>2, <3>3 DEF Latest!LatestNext
    <2>5. ASSUME NEW n \in 0..MaxRecords, ListArrives(q, n)
          PROVE  ListInv' /\ [Latest!LatestNext]_(Latest!latestVars)
      <3>1. PICK total \in Totals(q, n) :
              shown' = [answers |-> {q}, matching |-> n, total |-> total]
        BY <2>5 DEF ListArrives
      <3>2. total \in Nat /\ total <= MaxRecords
        <4>0. q.page = list.page /\ q.size = list.size
          BY <1>0, <2>1 DEF Requested, ListState
        <4>1. (q.page + 1) * q.size \in Nat
          BY <1>n, <4>0
        <4>2. n \in Nat /\ n <= MaxRecords
          BY <1>n
        <4>3. \/ total = n
              \/ total = (q.page + 1) * q.size + 1 /\ n > (q.page + 1) * q.size
          <5> DEFINE beyond == (q.page + 1) * q.size
          <5>1. total \in {n} \/ total \in {beyond + 1 : x \in {y \in {n} : y > beyond}}
            BY <3>1 DEF Totals
          <5>2. total \in {beyond + 1 : x \in {y \in {n} : y > beyond}} =>
                  total = beyond + 1 /\ n > beyond
            OBVIOUS
          <5> HIDE DEF beyond
          <5>3. total = n \/ (total = beyond + 1 /\ n > beyond)
            BY <5>1, <5>2
          <5> QED
            BY <5>3 DEF beyond
        <4> QED
          BY <1>n, <4>1, <4>2, <4>3
      <3>3. ListInv'
        BY <1>0, <1>n, <2>1, <2>2, <2>3, <3>1, <3>2 DEF ListInv, ListTypeOK, ListState,
           TableFollows, PageIsInRange, SentIsLast, Answers
      <3>4. Latest!Answer
        BY <2>1, <2>3, <3>1 DEF Latest!Answer
      <3> QED
        BY <3>3, <3>4 DEF Latest!LatestNext
    <2> QED
      BY <1>11, <2>4, <2>5
  <1>12. CASE UNCHANGED listVars
    BY <1>0, <1>12, <1>t DEF listVars, TableFollows
  <1> QED
    BY <1>1, <1>2, <1>3, <1>4, <1>5, <1>6, <1>7, <1>8, <1>9, <1>10, <1>11, <1>12
    DEF ListNext, ListEnds

(* The clients list implements LatestAnswer, whatever may be typed, filtered, sorted *)
(* and paged, and however the records shrink and grow: only the answer to the last   *)
(* question is ever shown, and the spinner turns exactly while it is awaited.        *)
THEOREM OnlyTheLatestIsShown ==
  ASSUME ListAssumption
  PROVE  ListSafe => ImplementsLatest
  <1>1. ListInit => ListInv /\ Latest!LatestInit
    BY ListInvInit
  <1>2. ListInv /\ [ListNext]_listVars =>
          ListInv' /\ [Latest!LatestNext]_(Latest!latestVars)
    BY ListStep
  <1> QED
    BY <1>1, <1>2, PTL DEF ListSafe, ImplementsLatest, Latest!LatestSafe

-----------------------------------------------------------------------------
(* What is on screen at rest *)

Orderable(q) == q.sort = "office" => q.text = All \/ q.status # All

\* At rest the rows are those of the question on screen, whose order its endpoint can
\* give; and a box that is not being typed in holds the text that is searched for.
ShownIsAsked ==
  /\ AtRest => /\ shown.answers = {Requested(list)}
               /\ shown.total \in Totals(Requested(list), shown.matching)
  /\ Orderable(list)
  /\ ~table.due => table.box = list.text

(* An order that cannot be given is dropped, and what is requested is what is left. *)
LEMMA SettledIsOrderable ==
  ASSUME NEW q \in ListState
  PROVE  /\ Orderable(Settled(q)) /\ Settled(q).text = q.text
         /\ Orderable(q) => Requested(q).order = q.sort
  BY DEF ListState, Orderable, Settled, Requested, UsesNameSearch

(* What Totals reports: the number that match, or one more than the page ends with. *)
LEMMA TotalsReported ==
  ASSUME NEW q, NEW n, NEW total \in Totals(q, n)
  PROVE  \/ total = n
         \/ total = (q.page + 1) * q.size + 1 /\ n > (q.page + 1) * q.size
  <1> DEFINE beyond == (q.page + 1) * q.size
  <1>1. total \in {n} \/ total \in {beyond + 1 : x \in {y \in {n} : y > beyond}}
    BY DEF Totals
  <1>2. total \in {beyond + 1 : x \in {y \in {n} : y > beyond}} =>
          total = beyond + 1 /\ n > beyond
    OBVIOUS
  <1> HIDE DEF beyond
  <1>3. total = n \/ (total = beyond + 1 /\ n > beyond)
    BY <1>1, <1>2
  <1> QED
    BY <1>3 DEF beyond

LEMMA ShownStep ==
  ASSUME ListAssumption, ListInv, ShownIsAsked, [ListNext]_listVars
  PROVE  ShownIsAsked'
  <1>0. /\ list \in ListState /\ table \in TableState /\ SentIsLast /\ TableFollows
        /\ Orderable(list) /\ (~table.due => table.box = list.text)
    BY DEF ListInv, ListTypeOK, ListState, TableState, ShownIsAsked
  \* A question is asked.
  <1>a. ASSUME NEW q \in ListState, NEW t \in TableState, Load(q), Follow(t), Orderable(q),
               ~t.due => t.box = q.text
        PROVE  ShownIsAsked'
    <2>1. list' = [q EXCEPT !.isLoading = TRUE]
      BY <1>a DEF Load
    <2>2. table' = [t EXCEPT !.page = list'.page, !.size = list'.size, !.sort = list'.sort]
      BY <1>a DEF Follow
    <2>3. list'.isLoading /\ Orderable(list') /\ list'.text = q.text
      BY <1>a, <2>1 DEF ListState, Orderable
    <2>4. table'.due = t.due /\ table'.box = t.box
      BY <2>2 DEF TableState
    <2> QED
      BY <1>a, <2>3, <2>4 DEF ShownIsAsked, AtRest
  \* Another page, or the same question again.
  <1>p. ASSUME NEW q \in ListState, Load(q), Follow(table), q.text = list.text,
               q.status = list.status, q.sort = list.sort
        PROVE  ShownIsAsked'
    BY <1>0, <1>a, <1>p DEF Orderable
  <1>1. CASE OpenClients
    <2>1. /\ [list EXCEPT !.open = TRUE] \in ListState
          /\ [list EXCEPT !.open = TRUE].text = list.text
          /\ [list EXCEPT !.open = TRUE].status = list.status
          /\ [list EXCEPT !.open = TRUE].sort = list.sort
      BY <1>0 DEF ListState
    <2> QED
      BY <1>1, <1>p, <2>1 DEF OpenClients
  <1>2. ASSUME NEW text \in Texts, OnInput(text)
        PROVE  ShownIsAsked'
    <2>1. table' = [table EXCEPT !.box = text, !.due = TRUE] /\ UNCHANGED <<list, sent, shown>>
      BY <1>2 DEF OnInput
    <2>2. table'.due
      BY <1>0, <2>1 DEF TableState
    <2> QED
      BY <2>1, <2>2 DEF ShownIsAsked, AtRest, Orderable, Requested, UsesNameSearch
  <1>3. CASE Debounced
    <2> DEFINE t == [table EXCEPT !.due = FALSE]
               q == [list EXCEPT !.text = table.box, !.page = 0]
    <2>1. t \in TableState /\ ~t.due /\ t.box = table.box
      BY <1>0 DEF TableState
    <2>2. CASE table.box = list.text /\ table' = t /\ UNCHANGED <<list, sent, shown>>
      <3>1. table'.box = list'.text
        BY <2>1, <2>2
      <3> QED
        BY <2>2, <3>1 DEF ShownIsAsked, AtRest, Orderable, Requested, UsesNameSearch
    <2>3. CASE Load(Settled(q)) /\ Follow(t)
      <3>1. 0 \in Pages
        BY DEF ListAssumption, Pages
      <3>2. q \in ListState /\ q.text = table.box
        BY <1>0, <3>1 DEF ListState, TableState
      <3>3. Settled(q) \in ListState /\ Orderable(Settled(q)) /\ Settled(q).text = q.text
        BY <3>2, RequestedTyped, SettledIsOrderable
      <3> HIDE DEF q, t
      <3> QED
        BY <1>a, <2>1, <2>3, <3>2, <3>3
    <2> QED
      BY <1>3, <2>2, <2>3 DEF Debounced
  <1>s. ASSUME NEW q \in ListState, q.text = list.text, Load(Settled(q)), Follow(table)
        PROVE  ShownIsAsked'
    <2>1. Settled(q) \in ListState /\ Orderable(Settled(q)) /\ Settled(q).text = q.text
      BY <1>s, RequestedTyped, SettledIsOrderable
    <2> QED
      BY <1>0, <1>a, <1>s, <2>1
  <1>4. ASSUME NEW status \in Statuses, OnFilterChange(status)
        PROVE  ShownIsAsked'
    <2> DEFINE q == [list EXCEPT !.status = status, !.page = 0]
    <2>1. 0 \in Pages
      BY DEF ListAssumption, Pages
    <2>2. q \in ListState /\ q.text = list.text
      BY <1>0, <2>1 DEF ListState
    <2>3. Load(Settled(q)) /\ Follow(table)
      BY <1>4 DEF OnFilterChange
    <2> HIDE DEF q
    <2> QED
      BY <1>s, <2>2, <2>3
  <1>5. ASSUME NEW column \in Columns, OnSort(column)
        PROVE  ShownIsAsked'
    <2>1. PICK sort \in {column, "none"} :
            Load(Settled([list EXCEPT !.sort = sort, !.page = 0])) /\ Follow(table)
      BY <1>5 DEF OnSort
    <2> DEFINE q == [list EXCEPT !.sort = sort, !.page = 0]
    <2>2. 0 \in Pages
      BY DEF ListAssumption, Pages
    <2>3. q \in ListState /\ q.text = list.text
      BY <1>0, <2>2 DEF ListState, Sorts
    <2> HIDE DEF q
    <2> QED
      BY <1>s, <2>1, <2>3 DEF q
  <1>6. ASSUME NEW to, NEW size, OnPage(to, size), list' \in ListState
        PROVE  ShownIsAsked'
    <2> DEFINE q == [list EXCEPT !.page = to, !.size = size]
    <2>1. Load(q) /\ Follow(table)
      BY <1>6 DEF OnPage
    <2>2. /\ list' = [q EXCEPT !.isLoading = TRUE] /\ q.text = list.text
          /\ q.status = list.status /\ q.sort = list.sort
      BY <1>0, <2>1 DEF Load, ListState
    <2>3. list'.page = to /\ list'.size = size
      BY <1>0, <2>2 DEF ListState
    <2>4. q \in ListState
      BY <1>0, <1>6, <2>3 DEF ListState
    <2> HIDE DEF q
    <2> QED
      BY <1>p, <2>1, <2>2, <2>4
  <1>7. CASE GoNext \/ GoPrevious \/ GoFirst \/ GoLast
             \/ \E size \in Sizes : OnPageSizeChange(size)
    <2>1. list' \in ListState
      BY ListStep DEF ListInv, ListTypeOK, ListState
    <2> QED
      BY <1>6, <1>7, <2>1 DEF GoNext, GoPrevious, GoFirst, GoLast, OnPageSizeChange
  <1>8. CASE OnRetryList
    BY <1>0, <1>8, <1>p DEF OnRetryList
  <1>9. ASSUME NEW q \in sent, ListFails(q) \/ \E n \in 0..MaxRecords : ListArrives(q, n)
        PROVE  ShownIsAsked'
    <2>1. list.isLoading /\ q = Requested(list) /\ UNCHANGED table
      BY <1>0, <1>9 DEF SentIsLast, ListFails, ListArrives
    <2>2. /\ Requested(list') = Requested(list) /\ Orderable(list') /\ list'.text = list.text
          /\ ListFails(q) => list'.hasError
      BY <1>0, <1>9 DEF ListFails, ListArrives, ListState, Requested, UsesNameSearch, Orderable
    <2>3. CASE ListFails(q)
      BY <1>0, <2>1, <2>2, <2>3 DEF ShownIsAsked, AtRest
    <2>4. ASSUME NEW n \in 0..MaxRecords, ListArrives(q, n)
          PROVE  ShownIsAsked'
      <3>1. PICK total \in Totals(q, n) :
              shown' = [answers |-> {q}, matching |-> n, total |-> total]
        BY <2>4 DEF ListArrives
      <3>2. shown'.answers = {q} /\ shown'.total \in Totals(q, shown'.matching)
        BY <3>1
      <3> QED
        BY <1>0, <2>1, <2>2, <3>2 DEF ShownIsAsked
    <2> QED
      BY <1>9, <2>3, <2>4
  <1>10. CASE UNCHANGED listVars
    BY <1>10 DEF listVars, ShownIsAsked, AtRest, Orderable, Requested, UsesNameSearch, Totals
  <1> QED
    BY <1>1, <1>2, <1>3, <1>4, <1>5, <1>7, <1>8, <1>9, <1>10 DEF ListNext, ListEnds

LEMMA ListInvariant ==
  ASSUME ListAssumption
  PROVE  ListSafe => [](ListInv /\ ShownIsAsked)
  <1>1. ListInit => ShownIsAsked
    BY DEF ListInit, ShownIsAsked, AtRest, Orderable
  <1>2. ListInit => ListInv
    BY ListInvInit
  <1>3. ListInv /\ ShownIsAsked /\ [ListNext]_listVars => (ListInv /\ ShownIsAsked)'
    BY ListStep, ShownStep
  <1> QED
    BY <1>1, <1>2, <1>3, PTL DEF ListSafe

(* At rest the rows answer what the controls on screen say: page, size, arrow, filter, *)
(* and the text in the box.                                                            *)
THEOREM ControlsAreAnswered ==
  ASSUME ListAssumption
  PROVE  ListSafe => []RowsAnswerTheControls
  <1>1. ListInv /\ ShownIsAsked => RowsAnswerTheControls
    <2> SUFFICES ASSUME ListInv, ShownIsAsked, AtRest
                 PROVE  /\ shown.answers = {[page |-> table.page, size |-> table.size,
                                              text |-> list.text, status |-> list.status,
                                              order |-> table.sort]}
                        /\ ~table.due => table.box = list.text
      BY DEF RowsAnswerTheControls
    <2>1. list \in ListState /\ TableFollows
      BY DEF ListInv, ListTypeOK, ListState
    <2>2. Requested(list).order = list.sort
      BY <2>1, SettledIsOrderable DEF ShownIsAsked
    <2> QED
      BY <2>1, <2>2 DEF ShownIsAsked, TableFollows, Requested
  <1> QED
    BY <1>1, ListInvariant, PTL

(* Every record that matches can be paged to, whether or not the endpoint knows how *)
(* many there are, and however the list has shrunk below the page on screen.        *)
THEOREM RecordsStayInReach ==
  ASSUME ListAssumption
  PROVE  ListSafe => []RecordsAreInReach
  <1>1. ListInv /\ ShownIsAsked => RecordsAreInReach
    <2> SUFFICES ASSUME ListInv, ShownIsAsked, AtRest
                 PROVE  RecordsAreInReach
      BY DEF RecordsAreInReach
    <2> DEFINE p == table.page
               s == table.size
               n == shown.matching
               last == LastPageIndex(s)
    <2>1. /\ p \in Nat /\ s \in Nat \ {0} /\ n \in Nat /\ shown.total \in Nat
          /\ p = list.page /\ s = list.size
      <3>1. MaxRecords \in Nat /\ Sizes \subseteq Nat \ {0}
        BY DEF ListAssumption
      <3>2. p \in 0..MaxRecords /\ s \in Sizes /\ n \in 0..MaxRecords /\ shown.total \in Nat
        BY DEF ListInv, ListTypeOK, Pages
      <3> HIDE DEF p, s, n
      <3>3. p \in Nat /\ n \in Nat
        BY <3>1, <3>2
      <3>5. s \in Nat \ {0}
        BY <3>1, <3>2
      <3>4. p = list.page /\ s = list.size
        BY DEF ListInv, TableFollows, p, s
      <3> QED
        BY <3>2, <3>3, <3>4, <3>5
    <2>2. \/ shown.total = n
          \/ shown.total = (p + 1) * s + 1 /\ n > (p + 1) * s
      <3>1. Requested(list).page = p /\ Requested(list).size = s
        BY <2>1 DEF Requested
      <3> QED
        BY <3>1, TotalsReported DEF ShownIsAsked
    <2> HIDE DEF p, s, n
    <2>3. shown.total > 0 =>
            last \in Nat /\ last * s < shown.total /\ shown.total <= (last + 1) * s
      BY <2>1, LastPageIs
    <2>4. ASSUME n > (p + 1) * s
          PROVE  HasNext /\ Target(p + 1) = p + 1
      <3>1. shown.total > (p + 1) * s /\ shown.total > 0
        BY <2>1, <2>2, <2>4
      <3>2. last \in Nat /\ (p + 1) * s < (last + 1) * s
        BY <2>1, <2>3, <3>1
      <3>3. p + 1 < last + 1
        BY <2>1, <3>2, ProductsCompare
      <3>4. p < last /\ ~(p + 1 > last)
        BY <2>1, <3>2, <3>3
      <3> QED
        BY <3>1, <3>4 DEF HasNext, Target, p, s
    <2>5. ASSUME n > 0, n <= p * s
          PROVE  HasPrevious /\ Target(p - 1) * s < n
      <3>1. p * s <= (p + 1) * s
        BY <2>1
      <3>2. shown.total = n
        BY <2>1, <2>2, <2>5, <3>1
      <3>3. p > 0
        BY <2>1, <2>5
      <3>4. last \in Nat /\ last * s < n
        BY <2>3, <2>5, <3>2
      <3>5. Target(p - 1) \in Nat /\ Target(p - 1) <= last
        BY <2>1, <3>3, <3>4 DEF Target, s
      <3>6. Target(p - 1) * s <= last * s
        BY <2>1, <3>4, <3>5
      <3>7. Target(p - 1) * s < n
        BY <2>1, <3>4, <3>5, <3>6
      <3> QED
        BY <3>3, <3>7 DEF HasPrevious, p
    <2> QED
      BY <2>4, <2>5 DEF RecordsAreInReach, p, s, n
  <1> QED
    BY <1>1, ListInvariant, PTL

-----------------------------------------------------------------------------
(* The form of a scheduler job *)

FormState == [loaded : {{}} \cup {{j} : j \in Job}, typed : Job,
              touched : SUBSET Fields, currentlyRunning : BOOLEAN,
              isLoading : BOOLEAN, loadFailed : BOOLEAN, canRetry : BOOLEAN,
              isSaving : BOOLEAN]
SaveState == [stage : Stages, visit : 0..MaxVisits, changes : Partial,
              touched : SUBSET Fields, found : BOOLEAN, started : BOOLEAN,
              version : Nat, moved : BOOLEAN]
JobState == [fields : Job, version : Nat, running : BOOLEAN]

\* The parts of the type that the argument needs; versions are any number.
JobsTypes ==
  /\ visit \in 0..MaxVisits /\ form \in FormState
  /\ save \in [Saves -> SaveState] /\ job \in JobState

(* What a save is before it is begun, and when it is over. *)
LEMMA UnsavedTyped ==
  ASSUME JobsAssumption
  PROVE  /\ Unsaved \in SaveState /\ Unsaved.stage = "unused"
         /\ Over \in SaveState /\ Over.stage = "over"
  <1>1. <<>> \in Partial
    <2>1. <<>> \in [{} -> Values]
      OBVIOUS
    <2> QED
      BY <2>1 DEF Partial
  <1>2. 0 \in 0..MaxVisits
    BY DEF JobsAssumption
  <1>3. Unsaved \in SaveState
    BY <1>1, <1>2 DEF Unsaved, SaveState, Stages
  <1>4. Over = [Unsaved EXCEPT !.stage = "over"]
    BY DEF Over
  <1>5. Over \in SaveState /\ Over.stage = "over"
    BY <1>3, <1>4 DEF SaveState, Stages
  <1>6. Unsaved.stage = "unused"
    BY DEF Unsaved
  <1> QED
    BY <1>3, <1>5, <1>6

LEMMA NoFormTyped == NoForm \in FormState /\ NoForm.loaded = {}
  BY DEF NoForm, FormState, Job, Values

LEMMA ChangesTyped ==
  ASSUME form \in FormState
  PROVE  Changes \in Partial
  <1> DEFINE differs == {f \in Fields : {form.typed[f]} # {j[f] : j \in form.loaded}}
  <1>1. Changes = [f \in differs |-> form.typed[f]]
    BY DEF Changes
  <1>2. Changes \in [differs -> Values] /\ differs \in SUBSET Fields
    BY <1>1 DEF FormState, Job
  <1> QED
    BY <1>2 DEF Partial

-----------------------------------------------------------------------------
\* A field that was not typed in is as it was loaded.
FormAsLoaded ==
  \A f \in Fields \ form.touched : \A j \in form.loaded : form.typed[f] = j[f]

\* A save sends nothing that was not typed, and is about to be sent over a job that
\* runs only if it was found running, or was started since it was found at rest.
SaveIsSound(s, running) ==
  /\ s.stage \in {"checking", "checked", "sent"} => DOMAIN s.changes \subseteq s.touched
  /\ s.stage = "checked" /\ running => s.found \/ s.started
  /\ s.stage = "sent" /\ running => s.started

SavesAreSound == FormAsLoaded /\ \A n \in Saves : SaveIsSound(save[n], job.running)

\* What no step may do to a save that is on its way.
Kept ==
  \A n \in Saves : save[n].stage = "sent" /\ save'[n].stage = "applied" =>
    /\ \A f \in Fields \ save[n].touched : job'.fields[f] = job.fields[f]
    /\ job.running => save[n].started

(* The changes of a form that holds what it loaded are of the fields typed in. *)
LEMMA ChangesAreTouched ==
  ASSUME form \in FormState, FormAsLoaded, form.loaded # {}
  PROVE  DOMAIN Changes \subseteq form.touched
  <1>1. PICK j \in Job : form.loaded = {j}
    BY DEF FormState
  <1>2. \A f \in Fields \ form.touched : form.typed[f] = j[f]
    BY <1>1 DEF FormAsLoaded
  <1>3. \A f \in Fields : {k[f] : k \in form.loaded} = {j[f]}
    BY <1>1
  <1>4. DOMAIN Changes = {f \in Fields : {form.typed[f]} # {j[f]}}
    BY <1>3 DEF Changes
  <1> QED
    BY <1>2, <1>4

JobsInv == JobsTypes /\ SavesAreSound

LEMMA JobsInvInit ==
  ASSUME JobsAssumption, JobsInit
  PROVE  JobsInv
  <1>1. form \in FormState /\ FormAsLoaded
    BY NoFormTyped DEF JobsInit, FormAsLoaded
  <1>2. save \in [Saves -> SaveState] /\ \A n \in Saves : save[n].stage = "unused"
    BY UnsavedTyped DEF JobsInit
  <1>3. job \in JobState
    BY DEF JobsInit, JobState, Job, Values
  <1>4. visit \in 0..MaxVisits
    BY DEF JobsInit, JobsAssumption
  <1> QED
    BY <1>1, <1>2, <1>3, <1>4 DEF JobsInv, JobsTypes, SavesAreSound, SaveIsSound

(* Every step keeps the saves sound, and overwrites nothing newer. *)
LEMMA JobsInvStep ==
  ASSUME JobsAssumption, JobsInv, [JobsNext]_jobsVars
  PROVE  JobsInv' /\ Kept
  <1>0. /\ visit \in 0..MaxVisits /\ form \in FormState /\ FormAsLoaded
        /\ save \in [Saves -> SaveState] /\ job \in JobState
        /\ \A n \in Saves : SaveIsSound(save[n], job.running)
    BY DEF JobsInv, JobsTypes, SavesAreSound
  \* The saves and the job are left alone.
  <1>k. ASSUME visit' \in 0..MaxVisits, form' \in FormState, FormAsLoaded',
               UNCHANGED <<save, job>>
        PROVE  JobsInv' /\ Kept
    <2>1. JobsTypes' /\ SavesAreSound'
      BY <1>0, <1>k DEF JobsTypes, SavesAreSound
    <2> QED
      BY <1>k, <2>1 DEF JobsInv, Kept
  \* One save moves on, and the job is left alone.
  <1>s. ASSUME NEW n \in Saves, NEW s \in SaveState, save' = [save EXCEPT ![n] = s],
               SaveIsSound(s, job.running), s.stage # "applied" \/ save[n].stage # "sent",
               visit' \in 0..MaxVisits, form' \in FormState, FormAsLoaded', UNCHANGED job
        PROVE  JobsInv' /\ Kept
    <2>1. \A m \in Saves : save'[m] = IF m = n THEN s ELSE save[m]
      BY <1>0, <1>s
    <2>2. save' \in [Saves -> SaveState]
      BY <1>0, <1>s
    <2>3. JobsTypes'
      BY <1>0, <1>s, <2>2 DEF JobsTypes
    <2>4. SavesAreSound'
      BY <1>0, <1>s, <2>1 DEF SavesAreSound
    <2>5. Kept
      BY <1>0, <1>s, <2>1 DEF Kept
    <2> QED
      BY <2>3, <2>4, <2>5 DEF JobsInv
  <1>n. NoForm \in FormState /\ (form' = NoForm => FormAsLoaded')
    BY NoFormTyped DEF FormAsLoaded
  <1>1. CASE OpenList
    BY <1>0, <1>1, <1>k, <1>n DEF OpenList, ListOpens
  <1>2. CASE OpenForm
    <2>1. visit' \in 0..MaxVisits
      BY <1>0, <1>2 DEF OpenForm, JobsAssumption
    <2>2. form' = [NoForm EXCEPT !.isLoading = TRUE]
      BY <1>2 DEF OpenForm
    <2>3. form' \in FormState /\ form'.loaded = {}
      BY <2>2, NoFormTyped DEF FormState
    <2>4. FormAsLoaded'
      BY <2>3 DEF FormAsLoaded
    <2> QED
      BY <1>2, <1>k, <2>1, <2>3, <2>4 DEF OpenForm
  <1>3. CASE Leave
    BY <1>0, <1>3, <1>k, <1>n DEF Leave
  <1>4. CASE FormLoads
    <2>1. form' = [NoForm EXCEPT !.loaded = {job.fields}, !.typed = job.fields,
                                 !.currentlyRunning = job.running]
      BY <1>4 DEF FormLoads
    <2>2. job.fields \in Job /\ job.running \in BOOLEAN
      BY <1>0 DEF JobState
    <2>3. form' \in FormState /\ form'.loaded = {job.fields} /\ form'.typed = job.fields
      BY <2>1, <2>2, NoFormTyped DEF FormState
    <2>4. FormAsLoaded'
      BY <2>3 DEF FormAsLoaded
    <2> QED
      BY <1>0, <1>4, <1>k, <2>3, <2>4 DEF FormLoads
  <1>5. ASSUME NEW final \in BOOLEAN, FormLoadFails(final)
        PROVE  JobsInv' /\ Kept
    <2>1. form' = [form EXCEPT !.isLoading = FALSE, !.loadFailed = TRUE, !.canRetry = ~final]
      BY <1>5 DEF FormLoadFails
    <2>2. form' \in FormState /\ form'.loaded = form.loaded /\ form'.typed = form.typed
          /\ form'.touched = form.touched
      BY <1>0, <2>1 DEF FormState
    <2>3. FormAsLoaded'
      BY <1>0, <2>2 DEF FormAsLoaded
    <2> QED
      BY <1>0, <1>5, <1>k, <2>2, <2>3 DEF FormLoadFails
  <1>6. CASE Retry
    <2>1. form' = [form EXCEPT !.isLoading = TRUE, !.loadFailed = FALSE]
      BY <1>6 DEF Retry
    <2>2. form' \in FormState /\ form'.loaded = form.loaded /\ form'.typed = form.typed
          /\ form'.touched = form.touched
      BY <1>0, <2>1 DEF FormState
    <2>3. FormAsLoaded'
      BY <1>0, <2>2 DEF FormAsLoaded
    <2> QED
      BY <1>0, <1>6, <1>k, <2>2, <2>3 DEF Retry
  <1>7. ASSUME NEW f \in Fields, NEW v \in Values, Type(f, v)
        PROVE  JobsInv' /\ Kept
    <2>1. form' = [form EXCEPT !.typed[f] = v, !.touched = form.touched \cup {f}]
      BY <1>7 DEF Type
    <2>2. /\ form' \in FormState /\ form'.loaded = form.loaded
          /\ form'.touched = form.touched \cup {f}
          /\ \A g \in Fields : g # f => form'.typed[g] = form.typed[g]
      BY <1>0, <2>1 DEF FormState, Job
    <2>3. FormAsLoaded'
      BY <1>0, <2>2 DEF FormAsLoaded
    <2> QED
      BY <1>0, <1>7, <1>k, <2>2, <2>3 DEF Type
  <1>8. ASSUME NEW f \in Fields, NEW v \in Values, EditedElsewhere(f, v)
        PROVE  JobsInv' /\ Kept
    <2>1. job' = [job EXCEPT !.fields[f] = v, !.version = job.version + 1]
      BY <1>8 DEF EditedElsewhere
    <2>2. job' \in JobState /\ job'.running = job.running
      <3>1. job.version + 1 \in Nat
        BY <1>0 DEF JobState
      <3>2. [job.fields EXCEPT ![f] = v] \in Job
        BY <1>0 DEF JobState, Job
      <3>3. job' = [job EXCEPT !.fields = [job.fields EXCEPT ![f] = v],
                               !.version = job.version + 1]
        BY <1>0, <2>1 DEF JobState
      <3> QED
        BY <1>0, <3>1, <3>2, <3>3 DEF JobState
    <2>3. UNCHANGED <<visit, form, save>>
      BY <1>8 DEF EditedElsewhere
    <2>4. JobsTypes' /\ SavesAreSound'
      BY <1>0, <2>2, <2>3 DEF JobsTypes, SavesAreSound, FormAsLoaded
    <2> QED
      BY <2>3, <2>4 DEF JobsInv, Kept
  <1>9. ASSUME NEW n \in Saves, OnSubmit(n)
        PROVE  JobsInv' /\ Kept
    <2> DEFINE s == [Unsaved EXCEPT !.stage = FirstStage, !.visit = visit,
                       !.changes = Changes, !.touched = form.touched]
    <2>1. /\ save' = [save EXCEPT ![n] = s] /\ form' = [form EXCEPT !.isSaving = TRUE]
          /\ UNCHANGED <<visit, job>> /\ form.loaded # {}
      BY <1>9 DEF OnSubmit, CanSave
    <2>2. /\ s \in SaveState /\ s.stage = "checking" /\ s.changes = Changes
          /\ s.touched = form.touched
      BY <1>0, UnsavedTyped, ChangesTyped DEF SaveState, FormState, FirstStage, Stages
    <2>3. SaveIsSound(s, job.running)
      BY <1>0, <2>1, <2>2, ChangesAreTouched DEF SaveIsSound
    <2>4. form' \in FormState /\ form'.loaded = form.loaded /\ form'.typed = form.typed
          /\ form'.touched = form.touched
      BY <1>0, <2>1 DEF FormState
    <2>5. FormAsLoaded'
      BY <1>0, <2>4 DEF FormAsLoaded
    <2> QED
      BY <1>0, <1>s, <2>1, <2>2, <2>3, <2>4, <2>5
  \* The component that spins stops.
  <1>t. ASSUME NEW n \in Saves, NEW runs \in BOOLEAN, StopSaving(n, runs)
        PROVE  form' \in FormState /\ FormAsLoaded'
    <2>1. CASE Own(n)
      <3>1. form' = [form EXCEPT !.isSaving = FALSE,
                                 !.currentlyRunning = form.currentlyRunning \/ runs]
        BY <1>t, <2>1 DEF StopSaving
      <3>2. (form.currentlyRunning \/ runs) \in BOOLEAN
        OBVIOUS
      <3>3. form' \in FormState /\ form'.loaded = form.loaded /\ form'.typed = form.typed
            /\ form'.touched = form.touched
        BY <1>0, <3>1, <3>2 DEF FormState
      <3> QED
        BY <1>0, <3>3 DEF FormAsLoaded
    <2>2. CASE ~Own(n)
      <3>1. form' = form
        BY <1>t, <2>2 DEF StopSaving
      <3> QED
        BY <1>0, <3>1 DEF FormAsLoaded
    <2> QED
      BY <2>1, <2>2
  <1>u. UNCHANGED form => form' \in FormState /\ FormAsLoaded'
    BY <1>0 DEF FormAsLoaded
  <1>o. ASSUME NEW n \in Saves
        PROVE  SaveIsSound(Over, job.running)
    BY UnsavedTyped DEF SaveIsSound
  <1>10. ASSUME NEW n \in Saves, CheckEvaluated(n)
         PROVE  JobsInv' /\ Kept
    <2> DEFINE s == [save[n] EXCEPT !.stage = "checked", !.found = job.running]
    <2>1. save[n] \in SaveState /\ SaveIsSound(save[n], job.running)
      BY <1>0
    <2>2. /\ save[n].stage = "checking" /\ save' = [save EXCEPT ![n] = s]
          /\ UNCHANGED <<visit, form, job>>
      BY <1>0, <1>10 DEF CheckEvaluated, SaveState
    <2>3. /\ s \in SaveState /\ s.stage = "checked" /\ s.found = job.running
          /\ s.changes = save[n].changes /\ s.touched = save[n].touched
      BY <1>0, <2>1 DEF SaveState, Stages, JobState
    <2>4. SaveIsSound(s, job.running)
      BY <2>1, <2>2, <2>3 DEF SaveIsSound
    <2> QED
      BY <1>0, <1>s, <1>u, <2>2, <2>3, <2>4
  <1>11. ASSUME NEW n \in Saves, CheckArrives(n)
         PROVE  JobsInv' /\ Kept
    <2>1. /\ save[n] \in SaveState /\ SaveIsSound(save[n], job.running)
          /\ save[n].stage = "checked" /\ UNCHANGED <<visit, job>>
      BY <1>0, <1>11 DEF CheckArrives
    <2>2. CASE ~save[n].found /\ save' = [save EXCEPT ![n].stage = "sent"] /\ UNCHANGED form
      <3> DEFINE s == [save[n] EXCEPT !.stage = "sent"]
      <3>1. save' = [save EXCEPT ![n] = s]
        BY <1>0, <2>2 DEF SaveState
      <3>2. /\ s \in SaveState /\ s.stage = "sent" /\ s.started = save[n].started
            /\ s.changes = save[n].changes /\ s.touched = save[n].touched
        BY <2>1 DEF SaveState, Stages
      <3>3. SaveIsSound(s, job.running)
        BY <2>1, <2>2, <3>2 DEF SaveIsSound
      <3> QED
        BY <1>0, <1>s, <1>u, <2>1, <2>2, <3>1, <3>2, <3>3
    <2>3. CASE save' = [save EXCEPT ![n] = Over] /\ StopSaving(n, TRUE)
      BY <1>0, <1>o, <1>s, <1>t, <2>1, <2>3, UnsavedTyped
    <2> QED
      BY <1>11, <2>2, <2>3 DEF CheckArrives
  <1>12. ASSUME NEW n \in Saves, SaveFails(n)
         PROVE  JobsInv' /\ Kept
    BY <1>0, <1>12, <1>o, <1>s, <1>t, UnsavedTyped DEF SaveFails
  <1>13. ASSUME NEW n \in Saves, SaveSucceeds(n)
         PROVE  JobsInv' /\ Kept
    <2> DEFINE s == IF save[n].stage = "queued" THEN Over
                    ELSE [Unsaved EXCEPT !.stage = "saved", !.moved = (page # "list"),
                                         !.version = save[n].version]
    <2>1. /\ save[n].stage \in {"applied", "queued"} /\ save' = [save EXCEPT ![n] = s]
          /\ UNCHANGED <<visit, job>> /\ (form' = NoForm \/ UNCHANGED form)
      BY <1>0, <1>13 DEF SaveSucceeds, ListOpens
    <2>2. (page # "list") \in BOOLEAN /\ save[n].version \in Nat
      BY <1>0 DEF SaveState
    <2>3. s \in SaveState /\ s.stage \in {"over", "saved"}
      BY <2>2, UnsavedTyped DEF SaveState, Stages
    <2>4. SaveIsSound(s, job.running)
      BY <2>3 DEF SaveIsSound
    <2> QED
      BY <1>0, <1>n, <1>s, <1>u, <2>1, <2>3, <2>4
  <1>14. ASSUME NEW n \in Saves, PutApplied(n)
         PROVE  JobsInv' /\ Kept
    <2> DEFINE s == [save[n] EXCEPT !.stage = "applied", !.version = job.version + 1]
    <2>1. /\ save[n] \in SaveState /\ SaveIsSound(save[n], job.running)
          /\ save[n].stage = "sent" /\ UNCHANGED <<visit, form>>
      BY <1>0, <1>14 DEF PutApplied
    <2>2. job' = [fields |-> [f \in Fields |-> IF f \in DOMAIN save[n].changes
                                                THEN save[n].changes[f] ELSE job.fields[f]],
                  version |-> job.version + 1, running |-> FALSE]
      BY <1>14 DEF PutApplied
    <2>3. save' = [save EXCEPT ![n] = s]
      BY <1>0, <1>14 DEF PutApplied, SaveState
    <2>4. s \in SaveState /\ s.stage = "applied"
      <3>1. job.version + 1 \in Nat
        BY <1>0 DEF JobState
      <3> QED
        BY <2>1, <3>1 DEF SaveState, Stages
    <2>5. \A m \in Saves : save'[m] = IF m = n THEN s ELSE save[m]
      BY <1>0, <2>3
    <2>6. job' \in JobState /\ job'.running = FALSE
      <3>1. PICK S \in SUBSET Fields : save[n].changes \in [S -> Values]
        BY <2>1 DEF SaveState, Partial
      <3>2. [f \in Fields |-> IF f \in DOMAIN save[n].changes
                               THEN save[n].changes[f] ELSE job.fields[f]] \in Job
        BY <1>0, <3>1 DEF Job, JobState
      <3> QED
        BY <1>0, <2>2, <3>2 DEF JobState
    <2>7. JobsTypes'
      BY <1>0, <2>1, <2>3, <2>4, <2>6 DEF JobsTypes
    <2>8. \A m \in Saves : SaveIsSound(save'[m], job'.running)
      BY <1>0, <2>4, <2>5, <2>6 DEF SaveIsSound
    <2>9. SavesAreSound'
      BY <1>u, <2>1, <2>8 DEF SavesAreSound
    <2>10. \A f \in Fields \ save[n].touched : job'.fields[f] = job.fields[f]
      BY <2>1, <2>2 DEF SaveIsSound
    <2>11. Kept
      BY <2>1, <2>5, <2>10 DEF Kept, SaveIsSound
    <2> QED
      BY <2>7, <2>9, <2>11 DEF JobsInv
  <1>15. ASSUME NEW n \in Saves, PutQueued(n)
         PROVE  JobsInv' /\ Kept
    <2> DEFINE s == [save[n] EXCEPT !.stage = "queued"]
    <2>1. save' = [save EXCEPT ![n] = s] /\ UNCHANGED <<visit, form, job>>
      BY <1>0, <1>15 DEF PutQueued, SaveState
    <2>2. s \in SaveState /\ s.stage = "queued"
      BY <1>0 DEF SaveState, Stages
    <2>3. SaveIsSound(s, job.running)
      BY <2>2 DEF SaveIsSound
    <2> QED
      BY <1>0, <1>s, <1>u, <2>1, <2>2, <2>3
  \* The job starts: whatever was found is out of date.
  <1>16. ASSUME Start, UNCHANGED <<visit, form>>
         PROVE  JobsInv' /\ Kept
    <2>1. job' \in JobState
      BY <1>0, <1>16 DEF Start, JobState
    <2>2. \A n \in Saves : save'[n] = IF save[n].stage \in {"checked", "sent"}
                                       THEN [save[n] EXCEPT !.started = TRUE] ELSE save[n]
      BY <1>16 DEF Start
    <2>3. ASSUME NEW n \in Saves
          PROVE  /\ save'[n] \in SaveState /\ save'[n].stage = save[n].stage
                 /\ SaveIsSound(save'[n], job'.running)
      <3>1. save[n] \in SaveState /\ SaveIsSound(save[n], job.running)
        BY <1>0
      <3>2. CASE save[n].stage \in {"checked", "sent"}
        <4>1. save'[n] = [save[n] EXCEPT !.started = TRUE]
          BY <2>2, <3>2
        <4>2. /\ save'[n] \in SaveState /\ save'[n].stage = save[n].stage /\ save'[n].started
              /\ save'[n].changes = save[n].changes /\ save'[n].touched = save[n].touched
          BY <3>1, <4>1 DEF SaveState
        <4> QED
          BY <3>1, <4>2 DEF SaveIsSound
      <3>3. CASE save[n].stage \notin {"checked", "sent"}
        BY <2>2, <3>1, <3>3 DEF SaveIsSound
      <3> QED
        BY <3>2, <3>3
    <2>4. save' \in [Saves -> SaveState]
      BY <1>16, <2>3 DEF Start
    <2>5. JobsTypes' /\ SavesAreSound'
      BY <1>0, <1>16, <1>u, <2>1, <2>3, <2>4 DEF JobsTypes, SavesAreSound
    <2>6. Kept
      BY <2>3 DEF Kept
    <2> QED
      BY <2>5, <2>6 DEF JobsInv
  <1>17. CASE JobEnds
    <2>1. job' \in JobState /\ job'.running = FALSE /\ UNCHANGED <<visit, form, save>>
      BY <1>0, <1>17 DEF JobEnds, JobState
    <2>2. JobsTypes' /\ SavesAreSound'
      BY <1>0, <1>u, <2>1 DEF JobsTypes, SavesAreSound, SaveIsSound
    <2> QED
      BY <2>1, <2>2 DEF JobsInv, Kept
  <1>18. CASE OnRunNow \/ JobStarts
    BY <1>16, <1>18 DEF OnRunNow, JobStarts
  <1>19. CASE ListEvaluated \/ (\E v \in jobsList.read : JobsArrive(v)) \/ JobsFail
    BY <1>0, <1>19, <1>k, <1>u DEF ListEvaluated, JobsArrive, JobsFail
  <1>20. CASE UNCHANGED jobsVars
    BY <1>0, <1>20, <1>k, <1>u DEF jobsVars
  <1> QED
    BY <1>1, <1>2, <1>3, <1>4, <1>5, <1>6, <1>7, <1>8, <1>9, <1>10, <1>11, <1>12, <1>13,
       <1>14, <1>15, <1>17, <1>18, <1>19, <1>20 DEF JobsNext, SaveStep

(* A save overwrites nothing newer than what it was made from, however many saves  *)
(* overlap, whoever edits the job meanwhile, and wherever the form is by then; and *)
(* it is applied to a running job only if that was started after its own check.    *)
THEOREM NothingNewerIsOverwritten ==
  ASSUME JobsAssumption
  PROVE  JobsInit /\ [][JobsNext]_jobsVars => SaveOverwritesNothingNewer
  <1>1. JobsInit => JobsInv
    BY JobsInvInit
  <1>2. JobsInv /\ [JobsNext]_jobsVars => JobsInv'
    BY JobsInvStep
  <1>3. JobsInv /\ [JobsNext]_jobsVars =>
          [\A n \in Saves : save[n].stage = "sent" /\ save'[n].stage = "applied" =>
             /\ \A f \in Fields \ save[n].touched : job'.fields[f] = job.fields[f]
             /\ job.running => save[n].started]_jobsVars
    BY JobsInvStep DEF Kept
  <1> QED
    BY <1>1, <1>2, <1>3, PTL DEF SaveOverwritesNothingNewer

-----------------------------------------------------------------------------
(* The list of the jobs *)

\* The saves that the platform may have applied.
Done == {n \in Saves : save[n].stage \notin {"unused", "checking", "checked", "sent"}}

\* Every version was made by a save that is done or by an edit of another administrator,
\* and no version is seen or reported that has not been made.
VersionsAreMade ==
  /\ page \in {"elsewhere", "list", "form"} /\ edits \in 0..MaxEdits
  /\ jobsList \in [shown : Nat, asked : 0..MaxLoads, read : SUBSET Nat]
  /\ jobsList.shown <= job.version
  /\ \A v \in jobsList.read : 1 <= v /\ v <= job.version
  /\ 1 <= job.version /\ job.version <= 1 + edits + Cardinality(Done)
  /\ \A n \in Saves : save[n].version <= job.version

\* Whatever a list that a save opened has read or shows, the save is in it.
SavesAreListed ==
  \A n \in Saves : save[n].stage = "saved" /\ save[n].moved =>
    /\ jobsList.shown # 0 => jobsList.shown >= save[n].version
    /\ \A v \in jobsList.read : v >= save[n].version

VersionsInv == VersionsAreMade /\ SavesAreListed

LEMMA DoneIsBounded ==
  ASSUME JobsAssumption
  PROVE  IsFiniteSet(Done) /\ Cardinality(Done) \in Nat /\ Cardinality(Done) <= MaxSaves
  <1>0. MaxSaves \in Nat
    BY DEF JobsAssumption
  <1>1. IsFiniteSet(Saves) /\ Cardinality(Saves) <= MaxSaves
    <2>1. 1 \in Int /\ MaxSaves \in Int
      BY <1>0
    <2>2. /\ IsFiniteSet(1..MaxSaves)
          /\ Cardinality(1..MaxSaves) = IF 1 > MaxSaves THEN 0 ELSE MaxSaves - 1 + 1
      BY <2>1, FS_Interval
    <2>3. Cardinality(1..MaxSaves) <= MaxSaves
      BY <1>0, <2>2
    <2> QED
      BY <2>2, <2>3 DEF Saves
  <1>2. Done \in SUBSET Saves
    BY DEF Done
  <1>3. IsFiniteSet(Done) /\ Cardinality(Done) <= Cardinality(Saves)
    BY <1>1, <1>2, FS_Subset
  <1>4. Cardinality(Done) \in Nat /\ Cardinality(Saves) \in Nat
    BY <1>1, <1>3, FS_CardinalityType
  <1> QED
    BY <1>0, <1>1, <1>3, <1>4

(* What more saves that are done leave room for. *)
LEMMA MoreAreDone ==
  ASSUME NEW S, NEW T, IsFiniteSet(T), S \subseteq T,
         NEW v \in Nat, NEW e \in Nat, v <= 1 + e + Cardinality(S)
  PROVE  v <= 1 + e + Cardinality(T)
  <1>1. IsFiniteSet(S) /\ Cardinality(S) <= Cardinality(T)
    BY FS_Subset
  <1>2. Cardinality(S) \in Nat /\ Cardinality(T) \in Nat
    BY <1>1, FS_CardinalityType
  <1> QED
    BY <1>1, <1>2

LEMMA OneMoreIsDone ==
  ASSUME NEW S, NEW T, IsFiniteSet(S), NEW n, n \notin S, T = S \cup {n},
         NEW v \in Nat, NEW e \in Nat, v <= 1 + e + Cardinality(S)
  PROVE  v + 1 <= 1 + e + Cardinality(T)
  <1>1. Cardinality(T) = Cardinality(S) + 1 /\ Cardinality(S) \in Nat
    BY FS_AddElement, FS_CardinalityType
  <1> QED
    BY <1>1

\* How the list may change in a step that makes no version.
ListMoves ==
  /\ jobsList' \in [shown : Nat, asked : 0..MaxLoads, read : SUBSET Nat]
  /\ jobsList'.shown \in {0, jobsList.shown} \cup jobsList.read
  /\ jobsList'.read \subseteq jobsList.read \cup {job.version}

\* The list starts again.
ListStarts == jobsList'.shown = 0 /\ jobsList'.read = {}

LEMMA VersionsInit ==
  ASSUME JobsAssumption, JobsInit
  PROVE  VersionsInv
  <1>1. \A n \in Saves : save[n].stage = "unused" /\ save[n].version = 0
    BY UnsavedTyped DEF JobsInit, Unsaved
  <1>2. job.version = 1 /\ edits = 0 /\ edits \in 0..MaxEdits
    BY DEF JobsInit, JobsAssumption
  <1>3. jobsList \in [shown : Nat, asked : 0..MaxLoads, read : SUBSET Nat]
    BY DEF JobsInit, NoList, JobsAssumption
  <1>4. job.version <= 1 + edits + Cardinality(Done)
    BY <1>2, DoneIsBounded
  <1>5. jobsList.shown = 0 /\ jobsList.read = {} /\ page = "elsewhere"
    BY DEF JobsInit, NoList
  <1> QED
    BY <1>1, <1>2, <1>3, <1>4, <1>5 DEF VersionsInv, VersionsAreMade, SavesAreListed

(* A step that makes no version: saves become done, or say that they were applied while *)
(* the list starts again.                                                               *)
LEMMA VersionsKept ==
  ASSUME JobsAssumption, JobsInv, VersionsInv, JobsInv', page' \in {"elsewhere", "list", "form"},
         job'.version = job.version, edits' = edits, ListMoves, Done \subseteq Done',
         \A m \in Saves : save'[m].version <= job.version,
         \A m \in Saves : save'[m].stage = "saved" /\ save'[m].moved =>
           \/ save[m].stage = "saved" /\ save[m].moved /\ save'[m].version = save[m].version
           \/ ListStarts
  PROVE  VersionsInv'
  <1>0. job.version \in Nat /\ \A m \in Saves : save'[m].version \in Nat
    BY DEF JobsInv, JobsTypes, JobState, SaveState
  <1>1. jobsList \in [shown : Nat, asked : 0..MaxLoads, read : SUBSET Nat]
    BY DEF VersionsInv, VersionsAreMade
  <1>2. jobsList'.shown <= job.version /\ \A v \in jobsList'.read : 1 <= v /\ v <= job.version
    BY <1>0, <1>1 DEF ListMoves, VersionsInv, VersionsAreMade
  <1>3. job.version <= 1 + edits + Cardinality(Done')
    <2>1. IsFiniteSet(Done')
      <3>1. IsFiniteSet(Saves)
        BY FS_Interval DEF Saves, JobsAssumption
      <3>2. Done' \in SUBSET Saves
        BY DEF Done
      <3> QED
        BY <3>1, <3>2, FS_Subset
    <2>2. edits \in Nat /\ job.version <= 1 + edits + Cardinality(Done)
      BY DEF VersionsInv, VersionsAreMade
    <2> QED
      BY <1>0, <2>1, <2>2, MoreAreDone
  <1>4. VersionsAreMade'
    BY <1>2, <1>3 DEF VersionsInv, VersionsAreMade, ListMoves
  <1>5. ASSUME NEW m \in Saves, save'[m].stage = "saved", save'[m].moved
        PROVE  /\ jobsList'.shown # 0 => jobsList'.shown >= save'[m].version
               /\ \A v \in jobsList'.read : v >= save'[m].version
    <2>1. CASE ListStarts
      BY <2>1 DEF ListStarts
    <2>2. CASE save[m].stage = "saved" /\ save[m].moved /\ save'[m].version = save[m].version
      <3>1. /\ jobsList.shown # 0 => jobsList.shown >= save'[m].version
            /\ \A v \in jobsList.read : v >= save'[m].version
            /\ job.version >= save'[m].version
        BY <1>0, <1>1, <2>2 DEF VersionsInv, SavesAreListed
      <3> QED
        BY <3>1 DEF ListMoves
    <2> QED
      BY <1>5, <2>1, <2>2
  <1>6. SavesAreListed'
    BY <1>5 DEF SavesAreListed
  <1> QED
    BY <1>4, <1>6 DEF VersionsInv

(* Every step keeps the versions made, and the saves listed. *)
LEMMA VersionsStep ==
  ASSUME JobsAssumption, JobsInv, VersionsInv, JobsInv', [JobsNext]_jobsVars
  PROVE  VersionsInv'
  <1>0. /\ save \in [Saves -> SaveState] /\ job \in JobState /\ job.version \in Nat
        /\ jobsList \in [shown : Nat, asked : 0..MaxLoads, read : SUBSET Nat]
        /\ page \in {"elsewhere", "list", "form"} /\ edits \in 0..MaxEdits
        /\ \A m \in Saves : save[m].version <= job.version
        /\ MaxLoads \in Nat \ {0} /\ MaxEdits \in Nat
    BY DEF JobsInv, JobsTypes, JobState, VersionsInv, VersionsAreMade, JobsAssumption
  <1>n. ASSUME jobsList' = NoList \/ jobsList' = [NoList EXCEPT !.asked = 1]
        PROVE  ListMoves /\ ListStarts
    BY <1>0, <1>n DEF NoList, ListMoves, ListStarts
  <1>i. UNCHANGED jobsList => ListMoves
    BY <1>0 DEF ListMoves
  \* The saves and the job are left alone.
  <1>k. ASSUME UNCHANGED <<save, job, edits>>, page' \in {"elsewhere", "list", "form"}, ListMoves
        PROVE  VersionsInv'
    <2>1. Done' = Done
      BY <1>k DEF Done
    <2> QED
      BY <1>0, <1>k, <2>1, VersionsKept
  \* One save moves on, and no version is made.
  <1>s. ASSUME NEW n \in Saves, NEW s, save' = [save EXCEPT ![n] = s], UNCHANGED <<job, edits>>,
               page' \in {"elsewhere", "list", "form"}, ListMoves,
               s.version <= job.version, s.stage = "saved" /\ s.moved => ListStarts,
               n \in Done => s.stage \notin {"unused", "checking", "checked", "sent"}
        PROVE  VersionsInv'
    <2>1. \A m \in Saves : save'[m] = IF m = n THEN s ELSE save[m]
      BY <1>0, <1>s
    <2>2. Done \subseteq Done'
      BY <1>s, <2>1 DEF Done
    <2>3. \A m \in Saves : save'[m].version <= job.version
      BY <1>0, <1>s, <2>1
    <2>4. \A m \in Saves : save'[m].stage = "saved" /\ save'[m].moved =>
            \/ save[m].stage = "saved" /\ save[m].moved /\ save'[m].version = save[m].version
            \/ ListStarts
      BY <1>s, <2>1
    <2>5. job'.version = job.version /\ edits' = edits
      BY <1>s
    <2> QED
      BY <1>s, <2>2, <2>3, <2>4, <2>5, VersionsKept
  <1>o. /\ Over.version = 0 /\ Over.stage = "over" /\ Unsaved.version = 0
        /\ Unsaved \in SaveState
    BY UnsavedTyped DEF Over, Unsaved, SaveState
  \* It moves on, but not to its end, and nothing else does.
  <1>t. ASSUME NEW n \in Saves, NEW s, save' = [save EXCEPT ![n] = s],
               UNCHANGED <<page, jobsList, job, edits>>,
               s.version \in {0, save[n].version}, s.stage # "saved",
               n \in Done => s.stage \notin {"unused", "checking", "checked", "sent"}
        PROVE  VersionsInv'
    <2>1. s.version <= job.version
      BY <1>0, <1>t
    <2>2. page' \in {"elsewhere", "list", "form"} /\ ListMoves
      BY <1>0, <1>i, <1>t
    <2> QED
      BY <1>s, <1>t, <2>1, <2>2
  <1>1. CASE OpenList \/ OpenForm \/ Leave
    BY <1>1, <1>k, <1>n DEF OpenList, ListOpens, OpenForm, Leave
  <1>2. CASE FormLoads \/ (\E final \in BOOLEAN : FormLoadFails(final)) \/ Retry
    BY <1>0, <1>2, <1>i, <1>k DEF FormLoads, FormLoadFails, Retry
  <1>3. ASSUME NEW f \in Fields, NEW v \in Values, Type(f, v)
        PROVE  VersionsInv'
    BY <1>0, <1>3, <1>i, <1>k DEF Type
  <1>4. ASSUME NEW f \in Fields, NEW v \in Values, EditedElsewhere(f, v)
        PROVE  VersionsInv'
    <2>1. edits < MaxEdits /\ edits' = edits + 1 /\ UNCHANGED <<page, save, jobsList>>
      BY <1>4 DEF EditedElsewhere
    <2>2. job'.version = job.version + 1
      BY <1>0, <1>4 DEF EditedElsewhere, JobState
    <2>3. Done' = Done /\ edits' \in 0..MaxEdits
      BY <1>0, <2>1 DEF Done
    <2>4. job'.version <= 1 + edits' + Cardinality(Done')
      <3>1. ASSUME NEW v0 \in Nat, NEW e \in Nat, NEW c \in Nat, v0 <= 1 + e + c
            PROVE  v0 + 1 <= 1 + (e + 1) + c
        BY <3>1
      <3>2. edits \in Nat /\ Cardinality(Done) \in Nat /\ job.version <= 1 + edits + Cardinality(Done)
        BY <1>0, DoneIsBounded DEF VersionsInv, VersionsAreMade
      <3>3. job.version + 1 <= 1 + (edits + 1) + Cardinality(Done)
        BY <1>0, <3>1, <3>2
      <3> QED
        BY <2>1, <2>2, <2>3, <3>3
    <2>5. ASSUME NEW w \in Nat, w <= job.version
          PROVE  w <= job'.version
      BY <1>0, <2>2, <2>5
    <2>6. \A m \in Saves : save[m].version \in Nat /\ save[m].version <= job.version
      BY <1>0 DEF SaveState
    <2>7. /\ jobsList.shown <= job'.version
          /\ \A w \in jobsList.read : 1 <= w /\ w <= job'.version
          /\ 1 <= job'.version
      BY <1>0, <2>5 DEF VersionsInv, VersionsAreMade
    <2>8. VersionsAreMade'
      BY <1>0, <2>1, <2>3, <2>4, <2>5, <2>6, <2>7 DEF VersionsAreMade
    <2>9. SavesAreListed'
      BY <2>1 DEF VersionsInv, SavesAreListed
    <2> QED
      BY <2>8, <2>9 DEF VersionsInv
  <1>5. ASSUME NEW n \in Saves, OnSubmit(n)
        PROVE  VersionsInv'
    <2> DEFINE s == [Unsaved EXCEPT !.stage = FirstStage, !.visit = visit,
                       !.changes = Changes, !.touched = form.touched]
    <2>1. s.version = 0 /\ s.stage = "checking"
      BY <1>o DEF SaveState, FirstStage
    <2>2. /\ save[n].stage = "unused" /\ save' = [save EXCEPT ![n] = s]
          /\ UNCHANGED <<page, jobsList, job, edits>>
      BY <1>5 DEF OnSubmit
    <2>3. n \notin Done
      BY <2>2 DEF Done
    <2> HIDE DEF s
    <2> QED
      BY <1>t, <2>1, <2>2, <2>3
  <1>6. ASSUME NEW n \in Saves, CheckEvaluated(n)
        PROVE  VersionsInv'
    <2> DEFINE s == [save[n] EXCEPT !.stage = "checked", !.found = job.running]
    <2>1. /\ save[n].stage = "checking" /\ save' = [save EXCEPT ![n] = s]
          /\ UNCHANGED <<page, jobsList, job, edits>>
      BY <1>0, <1>6 DEF CheckEvaluated, SaveState
    <2>2. s.version = save[n].version /\ s.stage = "checked"
      BY <1>0 DEF SaveState
    <2>3. n \notin Done
      BY <2>1 DEF Done
    <2> HIDE DEF s
    <2> QED
      BY <1>t, <2>1, <2>2, <2>3
  <1>6a. ASSUME NEW n \in Saves, PutQueued(n)
         PROVE  VersionsInv'
    <2> DEFINE s == [save[n] EXCEPT !.stage = "queued"]
    <2>1. /\ save[n].stage = "sent" /\ save' = [save EXCEPT ![n] = s]
          /\ UNCHANGED <<page, jobsList, job, edits>>
      BY <1>0, <1>6a DEF PutQueued, SaveState
    <2>2. s.version = save[n].version /\ s.stage = "queued"
      BY <1>0 DEF SaveState
    <2>3. n \notin Done
      BY <2>1 DEF Done
    <2> HIDE DEF s
    <2> QED
      BY <1>t, <2>1, <2>2, <2>3
  <1>7. ASSUME NEW n \in Saves, CheckArrives(n)
        PROVE  VersionsInv'
    <2>1. save[n].stage = "checked" /\ UNCHANGED <<page, jobsList, job, edits>>
      BY <1>7 DEF CheckArrives
    <2>2. CASE save' = [save EXCEPT ![n].stage = "sent"]
      <3> DEFINE s == [save[n] EXCEPT !.stage = "sent"]
      <3>1. save' = [save EXCEPT ![n] = s] /\ s.version = save[n].version /\ s.stage = "sent"
        BY <1>0, <2>2 DEF SaveState
      <3>2. n \notin Done
        BY <2>1 DEF Done
      <3> HIDE DEF s
      <3> QED
        BY <1>t, <2>1, <3>1, <3>2
    <2>3. CASE save' = [save EXCEPT ![n] = Over]
      BY <1>o, <1>t, <2>1, <2>3
    <2> QED
      BY <1>7, <2>2, <2>3 DEF CheckArrives
  <1>8. ASSUME NEW n \in Saves, SaveFails(n)
        PROVE  VersionsInv'
    <2>1. save' = [save EXCEPT ![n] = Over] /\ UNCHANGED <<page, jobsList, job, edits>>
      BY <1>8 DEF SaveFails
    <2> QED
      BY <1>o, <1>t, <2>1
  <1>9. ASSUME NEW n \in Saves, SaveSucceeds(n)
        PROVE  VersionsInv'
    <2> DEFINE s == IF save[n].stage = "queued" THEN Over
                    ELSE [Unsaved EXCEPT !.stage = "saved", !.moved = (page # "list"),
                                         !.version = save[n].version]
    <2>1. /\ save[n].stage \in {"applied", "queued"} /\ save' = [save EXCEPT ![n] = s]
          /\ UNCHANGED <<job, edits>>
      BY <1>0, <1>9 DEF SaveSucceeds
    <2>2. /\ s.stage \in {"over", "saved"} /\ s.version \in {0, save[n].version}
          /\ s.stage = "saved" /\ s.moved => page # "list"
      BY <1>o DEF SaveState
    <2> HIDE DEF s
    <2>3. s.version <= job.version
      BY <1>0, <2>2
    <2>4. CASE page # "list"
      <3>1. page' = "list" /\ jobsList' = [NoList EXCEPT !.asked = 1]
        BY <1>9, <2>4 DEF SaveSucceeds, ListOpens
      <3> QED
        BY <1>n, <1>s, <2>1, <2>2, <2>3, <3>1
    <2>5. CASE page = "list"
      <3>1. UNCHANGED <<page, jobsList>>
        BY <1>9, <2>5 DEF SaveSucceeds
      <3> QED
        BY <1>0, <1>i, <1>s, <2>1, <2>2, <2>3, <2>5, <3>1
    <2> QED
      BY <2>4, <2>5
  <1>10. ASSUME NEW n \in Saves, PutApplied(n)
         PROVE  VersionsInv'
    <2> DEFINE s == [save[n] EXCEPT !.stage = "applied", !.version = job.version + 1]
    <2>1. /\ save[n].stage = "sent" /\ UNCHANGED <<page, jobsList, edits>>
          /\ job'.version = job.version + 1
      BY <1>10 DEF PutApplied
    <2>2. save' = [save EXCEPT ![n] = s]
      BY <1>0, <1>10 DEF PutApplied, SaveState
    <2>3. s.stage = "applied" /\ s.version = job.version + 1
      BY <1>0 DEF SaveState
    <2> HIDE DEF s
    <2>4. \A m \in Saves : save'[m] = IF m = n THEN s ELSE save[m]
      BY <1>0, <2>2
    <2>5. Done' = Done \cup {n} /\ n \notin Done
      BY <2>1, <2>3, <2>4 DEF Done
    <2>6. job'.version <= 1 + edits' + Cardinality(Done')
      <3>1. IsFiniteSet(Done) /\ edits \in Nat /\ job.version <= 1 + edits + Cardinality(Done)
        BY <1>0, DoneIsBounded DEF VersionsInv, VersionsAreMade
      <3>2. job.version + 1 <= 1 + edits + Cardinality(Done')
        BY <1>0, <2>5, <3>1, OneMoreIsDone
      <3> QED
        BY <2>1, <3>2
    <2>7. ASSUME NEW w \in Nat, w <= job.version
          PROVE  w <= job.version + 1
      BY <1>0, <2>7
    <2>8. \A m \in Saves : save'[m].version <= job.version + 1
      <3>1. ASSUME NEW m \in Saves
            PROVE  save'[m].version <= job.version + 1
        <4>1. CASE m = n
          BY <1>0, <2>3, <2>4, <4>1
        <4>2. CASE m # n
          BY <1>0, <2>4, <2>7, <4>2 DEF SaveState
        <4> QED
          BY <4>1, <4>2
      <3> QED
        BY <3>1
    <2>9. /\ jobsList.shown <= job.version + 1
          /\ \A w \in jobsList.read : 1 <= w /\ w <= job.version + 1
          /\ 1 <= job.version + 1
      BY <1>0, <2>7 DEF VersionsInv, VersionsAreMade
    <2>10. VersionsAreMade'
      BY <1>0, <2>1, <2>6, <2>8, <2>9 DEF VersionsAreMade
    <2>11. SavesAreListed'
      BY <2>1, <2>3, <2>4 DEF VersionsInv, SavesAreListed
    <2> QED
      BY <2>10, <2>11 DEF VersionsInv
  \* The job starts, which changes neither the stage nor the version of a save.
  <1>11. ASSUME Start, UNCHANGED <<page, edits>>, ListMoves
         PROVE  VersionsInv'
    <2>1. ASSUME NEW m \in Saves
          PROVE  /\ save'[m].stage = save[m].stage /\ save'[m].version = save[m].version
                 /\ save'[m].moved = save[m].moved
      BY <1>0, <1>11 DEF Start, SaveState
    <2>2. job'.version = job.version
      BY <1>0, <1>11 DEF Start, JobState
    <2>3. Done' = Done
      BY <2>1 DEF Done
    <2> QED
      BY <1>0, <1>11, <2>1, <2>2, <2>3, VersionsKept
  <1>12. CASE OnRunNow
    <2>1. jobsList' = [jobsList EXCEPT !.asked = @ + 1] /\ jobsList.asked < MaxLoads
      BY <1>12 DEF OnRunNow
    <2>2. jobsList.asked + 1 \in 0..MaxLoads
      BY <1>0, <2>1
    <2>3. ListMoves
      BY <1>0, <2>1, <2>2 DEF ListMoves
    <2> QED
      BY <1>11, <1>12, <2>3 DEF OnRunNow
  <1>13. CASE JobStarts
    BY <1>11, <1>13, <1>i DEF JobStarts
  <1>14. CASE JobEnds
    <2>1. job'.version = job.version /\ UNCHANGED <<page, save, jobsList, edits>>
      BY <1>0, <1>14 DEF JobEnds, JobState
    <2>2. Done' = Done
      BY <2>1 DEF Done
    <2> QED
      BY <1>0, <1>i, <2>1, <2>2, VersionsKept
  <1>15. CASE ListEvaluated \/ JobsFail
    <2>1. /\ jobsList.asked > 0 /\ jobsList.asked - 1 \in 0..MaxLoads
          /\ UNCHANGED <<page, save, job, edits>>
      BY <1>0, <1>15 DEF ListEvaluated, JobsFail
    <2>2. ListMoves
      BY <1>0, <1>15, <2>1 DEF ListEvaluated, JobsFail, ListMoves
    <2> QED
      BY <1>0, <1>k, <2>1, <2>2
  <1>16. ASSUME NEW v \in jobsList.read, JobsArrive(v)
         PROVE  VersionsInv'
    <2>1. ListMoves
      BY <1>0, <1>16 DEF JobsArrive, ListMoves
    <2> QED
      BY <1>0, <1>16, <1>k, <2>1 DEF JobsArrive
  <1>17. CASE UNCHANGED jobsVars
    BY <1>0, <1>17, <1>i, <1>k DEF jobsVars
  <1> QED
    BY <1>1, <1>2, <1>3, <1>4, <1>5, <1>6, <1>6a, <1>7, <1>8, <1>9, <1>10, <1>12, <1>13,
       <1>14, <1>15, <1>16, <1>17 DEF JobsNext, SaveStep

LEMMA JobsInvariant ==
  ASSUME JobsAssumption
  PROVE  JobsInit /\ [][JobsNext]_jobsVars => [](JobsInv /\ VersionsInv)
  <1>1. JobsInit => JobsInv /\ VersionsInv
    BY JobsInvInit, VersionsInit
  <1>2. JobsInv /\ VersionsInv /\ [JobsNext]_jobsVars => JobsInv' /\ VersionsInv'
    BY JobsInvStep, VersionsStep
  <1> QED
    BY <1>1, <1>2, PTL

(* A list that a save opened shows the job as saved, or newer, once it is at rest:     *)
(* however many loads of it answer in whichever order, and whoever edits and runs it.  *)
THEOREM WhatIsSavedIsListed ==
  ASSUME JobsAssumption
  PROVE  JobsInit /\ [][JobsNext]_jobsVars => []SavedIsListed
  <1>1. VersionsInv => SavedIsListed
    BY DEF VersionsInv, SavesAreListed, SavedIsListed
  <1> QED
    BY <1>1, JobsInvariant, PTL

(* Every variable of the list, the form and the job keeps its type: in particular there *)
(* are no more versions of the job than saves and edits.                                *)
THEOREM JobsTypeCorrect ==
  ASSUME JobsAssumption
  PROVE  JobsInit /\ [][JobsNext]_jobsVars => []JobsTypeOK
  <1>1. ASSUME JobsInv, VersionsInv
        PROVE  JobsTypeOK
    <2>1. MaxSaves \in Nat /\ MaxEdits \in Nat /\ job.version \in Nat
      BY <1>1 DEF JobsAssumption, JobsInv, JobsTypes, JobState
    <2>2. edits \in 0..MaxEdits /\ 1 <= job.version /\ job.version <= 1 + edits + Cardinality(Done)
      BY <1>1 DEF VersionsInv, VersionsAreMade
    <2>3. job.version \in 1..MaxVersion /\ MaxVersion \in Nat
      BY <2>1, <2>2, DoneIsBounded DEF MaxVersion
    <2>4. job \in [fields : Job, version : 1..MaxVersion, running : BOOLEAN]
      BY <1>1, <2>3 DEF JobsInv, JobsTypes, JobState
    <2>5. \A n \in Saves : save[n] \in SaveState /\ save[n].version \in 0..MaxVersion
      BY <1>1, <2>1, <2>3 DEF JobsInv, JobsTypes, SaveState, VersionsInv, VersionsAreMade
    <2>6. save \in [Saves -> [stage : Stages, visit : 0..MaxVisits, changes : Partial,
                               touched : SUBSET Fields, found : BOOLEAN, started : BOOLEAN,
                               version : 0..MaxVersion, moved : BOOLEAN]]
      BY <1>1, <2>5 DEF JobsInv, JobsTypes, SaveState
    <2>7. jobsList \in [shown : 0..MaxVersion, asked : 0..MaxLoads, read : SUBSET (1..MaxVersion)]
      BY <1>1, <2>1, <2>3 DEF VersionsInv, VersionsAreMade
    <2> QED
      BY <1>1, <2>2, <2>4, <2>6, <2>7
      DEF JobsTypeOK, JobsInv, JobsTypes, FormState, VersionsInv, VersionsAreMade
  <1> QED
    BY <1>1, JobsInvariant, PTL
=============================================================================
