---------------------------- MODULE CheckerInbox ----------------------------
(***************************************************************************)
(* The checker inbox (features/tasks/checker-inbox): tasks that await a    *)
(* second pair of eyes, each to be approved or rejected.                   *)
(*                                                                         *)
(* The list is one stream of loads: refreshSubject through a switchMap, so *)
(* a new load cancels the one before.  Decisions are posts nobody cancels: *)
(* several may be out at once, also about one task, and they go on when    *)
(* the screen is left.  A load reads what the platform has when it is      *)
(* evaluated there, not when its answer arrives.                           *)
(***************************************************************************)
EXTENDS Naturals

CONSTANTS
  Tasks,       \* maker-checker entries
  MaxPosts,    \* bound: decisions the user starts
  MaxOpenings  \* bound: how often the screen is opened

ASSUME InboxAssumption == MaxPosts \in Nat /\ MaxOpenings \in Nat

VARIABLES
  inbox,       \* the component on screen: its signals, and which visit it is
  inboxRead,   \* the load of its stream
  post,        \* the decisions: one closure of onApprove or onReject each
  task,        \* the platform: where each entry stands
  told         \* history: the visit in which a success was reported, with its task

inboxVars == <<inbox, inboxRead, post, task, told>>

Posts == 1..MaxPosts
Commands == {"approve", "reject"}
PostStages == {"unused", "opening", "open", "sent", "applied", "refused", "over"}

Unposted == [stage |-> "unused", task |-> {}, command |-> "approve", visit |-> 0]
NoRead == [stage |-> "none", value |-> {}]
InboxAsked == [stage |-> "asked", value |-> {}]

InboxTypeOK ==
  /\ inbox \in [open : BOOLEAN, visit : 0..MaxOpenings, tasks : SUBSET Tasks,
                hasError : BOOLEAN]
  /\ inboxRead \in [stage : {"none", "asked", "evaluated", "ended"},
                    value : SUBSET Tasks]
  /\ post \in [Posts -> [stage : PostStages, task : SUBSET Tasks,
                         command : Commands, visit : 0..MaxOpenings]]
  /\ \A n \in Posts : post[n].stage # "unused" => \E t \in Tasks : post[n].task = {t}
  /\ task \in [Tasks -> {"new", "awaiting", "decided"}]
  /\ told \subseteq (1..MaxOpenings) \X Tasks

Awaiting == {t \in Tasks : task[t] = "awaiting"}

InboxInit ==
  /\ inbox = [open |-> FALSE, visit |-> 0, tasks |-> {}, hasError |-> FALSE]
  /\ inboxRead = NoRead
  /\ post = [n \in Posts |-> Unposted]
  /\ task = [t \in Tasks |-> "new"]
  /\ told = {}

-----------------------------------------------------------------------------
(* The list *)

\* The constructor: the stream starts with a load.
OpenInbox ==
  /\ ~inbox.open /\ inbox.visit < MaxOpenings
  /\ inbox' = [open |-> TRUE, visit |-> inbox.visit + 1, tasks |-> {},
               hasError |-> FALSE]
  /\ inboxRead' = InboxAsked
  /\ UNCHANGED <<post, task, told>>

\* The user leaves.  What the old stream still loads is shown nowhere.
CloseInbox ==
  /\ inbox.open
  /\ inbox' = [inbox EXCEPT !.open = FALSE, !.tasks = {}, !.hasError = FALSE]
  /\ inboxRead' = NoRead
  /\ UNCHANGED <<post, task, told>>

\* Mutation: a load under way is let finish instead (exhaustMap).
Refresh_Exhaust(v) ==
  inboxRead' = IF inbox.open /\ inbox.visit = v /\ inboxRead.stage = "none"
                 THEN InboxAsked ELSE inboxRead

\* refreshSubject.next() in the component of visit v: a load is cancelled and
\* another one asked for, if that component is still the one on screen.
Refresh(v) ==
  inboxRead' = IF inbox.open /\ inbox.visit = v /\ inboxRead.stage # "ended"
                 THEN InboxAsked ELSE inboxRead

ReadEvaluated ==
  /\ inboxRead.stage = "asked"
  /\ inboxRead' = [stage |-> "evaluated", value |-> Awaiting]
  /\ UNCHANGED <<inbox, post, task, told>>

ReadArrives ==
  /\ inboxRead.stage = "evaluated"
  /\ inbox' = [inbox EXCEPT !.tasks = inboxRead.value, !.hasError = FALSE]
  /\ inboxRead' = NoRead
  /\ UNCHANGED <<post, task, told>>

\* Mutation: the failure is caught outside the switchMap, and ends the stream.
ReadFails_EndsTheStream ==
  /\ inboxRead.stage \in {"asked", "evaluated"}
  /\ inbox' = [inbox EXCEPT !.tasks = {}, !.hasError = TRUE]
  /\ inboxRead' = [stage |-> "ended", value |-> {}]
  /\ UNCHANGED <<post, task, told>>

\* catchError inside the switchMap: an empty list, and the stream goes on.
ReadFails ==
  /\ inboxRead.stage \in {"asked", "evaluated"}
  /\ inbox' = [inbox EXCEPT !.tasks = {}, !.hasError = TRUE]
  /\ inboxRead' = NoRead
  /\ UNCHANGED <<post, task, told>>

OnRetryInbox ==
  /\ inbox.open /\ inbox.hasError
  /\ Refresh(inbox.visit)
  /\ UNCHANGED <<inbox, post, task, told>>

-----------------------------------------------------------------------------
(* The decisions *)

Uncovered == \A n \in Posts : post[n].stage # "open"
FirstUnused(n) ==
  post[n].stage = "unused" /\ \A m \in 1..(n - 1) : post[m].stage # "unused"

\* A click on a row; an approval is posted at once, a rejection asks first.
Click(n, t, command) ==
  /\ inbox.open /\ t \in inbox.tasks /\ Uncovered /\ FirstUnused(n)
  /\ post' = [post EXCEPT ![n] =
       [stage |-> IF command = "approve" THEN "sent" ELSE "opening",
        task |-> {t}, command |-> command, visit |-> inbox.visit]]
  /\ UNCHANGED <<inbox, inboxRead, task, told>>

OnApprove(n, t) == Click(n, t, "approve")
OnReject(n, t) == Click(n, t, "reject")

ConfirmOpens(n) ==
  /\ post[n].stage = "opening" /\ Uncovered
  /\ post' = [post EXCEPT ![n].stage = "open"]
  /\ UNCHANGED <<inbox, inboxRead, task, told>>

ConfirmAnswered(n, confirmed) ==
  /\ post[n].stage = "open"
  /\ post' = [post EXCEPT ![n].stage = IF confirmed THEN "sent" ELSE "over"]
  /\ UNCHANGED <<inbox, inboxRead, task, told>>

\* The platform decides an entry once; a second decision is refused.
Decide(n) ==
  /\ post[n].stage = "sent"
  /\ LET granted == post[n].task \subseteq Awaiting IN
     /\ post' = [post EXCEPT ![n].stage = IF granted THEN "applied" ELSE "refused"]
     /\ task' = IF granted
                  THEN [t \in Tasks |-> IF t \in post[n].task THEN "decided" ELSE task[t]]
                  ELSE task
  /\ UNCHANGED <<inbox, inboxRead, told>>

\* Another user makes an entry, or decides one.
MadeElsewhere(t) ==
  /\ task[t] # "decided"
  /\ task' = [task EXCEPT ![t] = IF @ = "new" THEN "awaiting" ELSE "decided"]
  /\ UNCHANGED <<inbox, inboxRead, post, told>>

\* next: success is reported and the list is loaded again.
PostSucceeds(n) ==
  /\ post[n].stage = "applied"
  /\ post' = [post EXCEPT ![n].stage = "over"]
  /\ told' = told \cup ({post[n].visit} \X post[n].task)
  /\ Refresh(post[n].visit)
  /\ UNCHANGED <<inbox, task>>

\* error: refused, or lost on the way there or back.  The list is not loaded.
PostFails(n) ==
  /\ post[n].stage \in {"sent", "applied", "refused"}
  /\ post' = [post EXCEPT ![n].stage = "over"]
  /\ UNCHANGED <<inbox, inboxRead, task, told>>

-----------------------------------------------------------------------------
LoadEnds == ReadArrives \/ ReadFails

PostStep(n) ==
  \/ \E t \in Tasks : OnApprove(n, t) \/ OnReject(n, t)
  \/ ConfirmOpens(n) \/ \E confirmed \in BOOLEAN : ConfirmAnswered(n, confirmed)
  \/ Decide(n) \/ PostSucceeds(n) \/ PostFails(n)

InboxNext ==
  \/ OpenInbox \/ CloseInbox \/ OnRetryInbox \/ ReadEvaluated \/ LoadEnds
  \/ \E n \in Posts : PostStep(n)
  \/ \E t \in Tasks : MadeElsewhere(t)

\* Requests end, and nobody clicks Retry for ever before one does.
InboxFairness == WF_inboxVars(LoadEnds)

InboxSpec == InboxInit /\ [][InboxNext]_inboxVars /\ InboxFairness

-----------------------------------------------------------------------------
(***************************************************************************)
(* Properties                                                              *)
(***************************************************************************)

\* What the user was told is decided is off the list once the list is at rest:
\* the load that a success asks for replaces one that read the entry before it.
\* Told by the component on screen, that is: a decision that outlives its visit
\* reports its success without loading the list of the next one.
DecidedIsGone ==
  inbox.open /\ inboxRead.stage = "none" =>
    \A t \in inbox.tasks : <<inbox.visit, t>> \notin told

\* The inbox waits for its list.
InboxWaits == inboxRead.stage # "none"
=============================================================================
