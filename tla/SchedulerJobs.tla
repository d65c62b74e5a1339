---------------------------- MODULE SchedulerJobs ----------------------------
(***************************************************************************)
(* The scheduler jobs: the list and the form that edits one job            *)
(* (features/system/scheduler-jobs), and the platform that runs it.        *)
(*                                                                         *)
(* The form sends only what differs from the job as it loaded it, and asks *)
(* again whether the job runs just before it saves.  Nothing it starts is  *)
(* called off when it is left.  The loads of the list are not ordered.     *)
(***************************************************************************)
EXTENDS Naturals, FiniteSets

CONSTANTS
  Fields,        \* the fields edited: displayName, cronExpression, active
  MaxSaves,      \* bound: how often a save is begun
  MaxVisits,     \* bound: how often the form is opened
  MaxEdits,      \* bound: edits by other administrators
  MaxLoads       \* bound: loads of the list asked for and not evaluated

\* What a field may hold: 0 stands for what the form refuses, an empty name or an
\* expression its parser refuses or that never fires.
Values == 0..2

ASSUME JobsAssumption ==
  /\ Fields \subseteq {"displayName", "cronExpression", "active"}
  /\ {MaxSaves, MaxVisits, MaxEdits} \subseteq Nat /\ MaxLoads \in Nat \ {0}

VARIABLES
  page,        \* the routed screen
  visit,       \* which visit to the form this is, or was last
  form,        \* SchedulerJobFormComponent
  save,        \* the saves: one closure of onSubmit each
  jobsList,    \* SchedulerJobsListComponent: the version of the job it shows
  job,         \* the platform: the job's fields and version, and whether it runs
  edits        \* bound on the edits of others

jobsVars == <<page, visit, form, save, jobsList, job, edits>>

Saves == 1..MaxSaves
MaxVersion == 1 + MaxSaves + MaxEdits
Job == [Fields -> Values]
Partial == UNION {[S -> Values] : S \in SUBSET Fields}
Stages == {"unused", "checking", "checked", "sent", "applied", "queued", "saved",
           "over"}

\* changes: what the save sends.  touched: the fields typed in since the load.
\* found: what its check read.  started: the job was started since that check.
\* version: the version of the job it made.  moved: its answer opened the list.
Unsaved == [stage |-> "unused", visit |-> 0, changes |-> <<>>, touched |-> {},
            found |-> FALSE, started |-> FALSE, version |-> 0, moved |-> FALSE]

Over == [Unsaved EXCEPT !.stage = "over"]

NoForm == [loaded |-> {}, typed |-> [f \in Fields |-> 0], touched |-> {},
           currentlyRunning |-> FALSE, isLoading |-> FALSE, loadFailed |-> FALSE,
           canRetry |-> TRUE, isSaving |-> FALSE]
NoList == [shown |-> 0, asked |-> 0, read |-> {}]

JobsTypeOK ==
  /\ page \in {"elsewhere", "list", "form"} /\ visit \in 0..MaxVisits
  /\ form \in [loaded : {{}} \cup {{j} : j \in Job}, typed : Job,
               touched : SUBSET Fields, currentlyRunning : BOOLEAN,
               isLoading : BOOLEAN, loadFailed : BOOLEAN, canRetry : BOOLEAN,
               isSaving : BOOLEAN]
  /\ save \in [Saves -> [stage : Stages, visit : 0..MaxVisits, changes : Partial,
                         touched : SUBSET Fields, found : BOOLEAN,
                         started : BOOLEAN, version : 0..MaxVersion,
                         moved : BOOLEAN]]
  /\ jobsList \in [shown : 0..MaxVersion, asked : 0..MaxLoads,
                   read : SUBSET (1..MaxVersion)]
  /\ job \in [fields : Job, version : 1..MaxVersion, running : BOOLEAN]
  /\ edits \in 0..MaxEdits

JobsInit ==
  /\ page = "elsewhere" /\ visit = 0 /\ form = NoForm /\ jobsList = NoList
  /\ save = [n \in Saves |-> Unsaved]
  /\ \E stored \in [Fields -> {1}] \cup [Fields \ {"cronExpression"} -> {1}] :
       job = [fields |-> [f \in Fields |-> IF f \in DOMAIN stored THEN 1 ELSE 0],
              version |-> 1, running |-> FALSE]
  /\ edits = 0

-----------------------------------------------------------------------------
(* Moving between screens *)

\* Mutation: the list is shown as it was when it was first loaded.
ListOpens_Cached ==
  /\ page' = "list" /\ jobsList' = [NoList EXCEPT !.shown = 1]
  /\ form' = NoForm

\* The list is created and loads; the form, if it was on screen, is destroyed.
ListOpens ==
  /\ page' = "list" /\ jobsList' = [NoList EXCEPT !.asked = 1]
  /\ form' = NoForm

OpenList == page # "list" /\ ListOpens /\ UNCHANGED <<visit, save, job, edits>>

\* onEdit, or the address of the form: ngOnInit loads the job.
OpenForm ==
  /\ page # "form" /\ visit < MaxVisits
  /\ page' = "form" /\ visit' = visit + 1 /\ jobsList' = NoList
  /\ form' = [NoForm EXCEPT !.isLoading = TRUE]
  /\ UNCHANGED <<save, job, edits>>

Leave ==
  /\ page # "elsewhere"
  /\ page' = "elsewhere" /\ form' = NoForm /\ jobsList' = NoList
  /\ UNCHANGED <<visit, save, job, edits>>

-----------------------------------------------------------------------------
(* The form *)

FormLoads ==
  /\ form.isLoading
  /\ form' = [NoForm EXCEPT !.loaded = {job.fields}, !.typed = job.fields,
                            !.currentlyRunning = job.running]
  /\ UNCHANGED <<page, visit, save, jobsList, job, edits>>

\* A malformed id, a 403 or a 404 does not change on a retry.
FormLoadFails(final) ==
  /\ form.isLoading
  /\ form' = [form EXCEPT !.isLoading = FALSE, !.loadFailed = TRUE,
                          !.canRetry = ~final]
  /\ UNCHANGED <<page, visit, save, jobsList, job, edits>>

Retry ==
  /\ form.loadFailed /\ form.canRetry
  /\ form' = [form EXCEPT !.isLoading = TRUE, !.loadFailed = FALSE]
  /\ UNCHANGED <<page, visit, save, jobsList, job, edits>>

\* The fields are disabled while the job is known to run, not while it is saved.
Type(f, v) ==
  /\ form.loaded # {} /\ ~form.currentlyRunning
  /\ v \in Values /\ (f = "active" => v # 0) /\ v # form.typed[f]
  /\ form' = [form EXCEPT !.typed[f] = v, !.touched = @ \cup {f}]
  /\ UNCHANGED <<page, visit, save, jobsList, job, edits>>

\* Mutation: the whole form is sent.
Changes_All == form.typed

\* changes(): the fields that differ from the job as loaded.
Changes ==
  LET differs == {f \in Fields : {form.typed[f]} # {j[f] : j \in form.loaded}} IN
  [f \in differs |-> form.typed[f]]

\* canSave()
CanSave ==
  /\ form.loaded # {} /\ ~form.isSaving /\ ~form.currentlyRunning
  /\ DOMAIN Changes # {} /\ \A f \in DOMAIN Changes : Changes[f] # 0

\* Mutation: what the form knew of the job when it opened is taken for the check.
FirstStage_Unchecked == "sent"

\* A save begins by asking whether the job runs.
FirstStage == "checking"

OnSubmit(n) ==
  /\ page = "form" /\ CanSave
  /\ save[n].stage = "unused" /\ \A m \in 1..(n - 1) : save[m].stage # "unused"
  /\ save' = [save EXCEPT ![n] = [Unsaved EXCEPT !.stage = FirstStage,
                !.visit = visit, !.changes = Changes, !.touched = form.touched]]
  /\ form' = [form EXCEPT !.isSaving = TRUE]
  /\ UNCHANGED <<page, visit, jobsList, job, edits>>

\* The component of save n, if it is still the one on screen.
Own(n) == page = "form" /\ save[n].visit = visit

\* Mutation: the form that finds the job running goes on spinning.
StopSaving_WhenFailed(n, runs) ==
  form' = IF Own(n)
            THEN [form EXCEPT !.isSaving = runs, !.currentlyRunning = @ \/ runs]
            ELSE form

StopSaving(n, runs) ==
  form' = IF Own(n)
            THEN [form EXCEPT !.isSaving = FALSE, !.currentlyRunning = @ \/ runs]
            ELSE form

CheckEvaluated(n) ==
  /\ save[n].stage = "checking"
  /\ save' = [save EXCEPT ![n].stage = "checked", ![n].found = job.running]
  /\ UNCHANGED <<page, visit, form, jobsList, job, edits>>

CheckArrives(n) ==
  /\ save[n].stage = "checked"
  /\ \/ /\ ~save[n].found
        /\ save' = [save EXCEPT ![n].stage = "sent"] /\ UNCHANGED form
     \/ /\ save[n].found
        /\ save' = [save EXCEPT ![n] = Over] /\ StopSaving(n, TRUE)
  /\ UNCHANGED <<page, visit, jobsList, job, edits>>

\* The check, the save or the answer is lost or refused.
SaveFails(n) ==
  /\ save[n].stage \in {"checking", "checked", "sent", "applied", "queued"}
  /\ save' = [save EXCEPT ![n] = Over]
  /\ StopSaving(n, FALSE)
  /\ UNCHANGED <<page, visit, jobsList, job, edits>>

\* The platform applies the fields present; rescheduling clears the running flag.
PutApplied(n) ==
  /\ save[n].stage = "sent"
  /\ job' = [fields |-> [f \in Fields |-> IF f \in DOMAIN save[n].changes
                                            THEN save[n].changes[f] ELSE job.fields[f]],
             version |-> job.version + 1, running |-> FALSE]
  /\ save' = [save EXCEPT ![n].stage = "applied", ![n].version = job.version + 1]
  /\ UNCHANGED <<page, visit, form, jobsList, edits>>

\* Maker-checker queues the change: nothing is applied yet.
PutQueued(n) ==
  /\ save[n].stage = "sent"
  /\ save' = [save EXCEPT ![n].stage = "queued"]
  /\ UNCHANGED <<page, visit, form, jobsList, job, edits>>

\* Success is reported and the router asked for the list: from wherever the user
\* is by now, and to no effect if that is the list.
SaveSucceeds(n) ==
  /\ save[n].stage \in {"applied", "queued"}
  /\ save' = [save EXCEPT ![n] =
                 IF @.stage = "queued" THEN Over
                 ELSE [Unsaved EXCEPT !.stage = "saved", !.moved = (page # "list"),
                                      !.version = save[n].version]]
  /\ IF page # "list" THEN ListOpens ELSE UNCHANGED <<page, jobsList, form>>
  /\ UNCHANGED <<visit, job, edits>>

-----------------------------------------------------------------------------
(* The list *)

ListEvaluated ==
  /\ jobsList.asked > 0
  /\ jobsList' = [jobsList EXCEPT !.asked = @ - 1, !.read = @ \cup {job.version}]
  /\ UNCHANGED <<page, visit, form, save, job, edits>>

\* Loads are not ordered: whichever answer comes is shown.
JobsArrive(v) ==
  /\ v \in jobsList.read
  /\ jobsList' = [jobsList EXCEPT !.read = @ \ {v}, !.shown = v]
  /\ UNCHANGED <<page, visit, form, save, job, edits>>

\* A failed load is logged, and the rows stay.
JobsFail ==
  /\ jobsList.asked > 0
  /\ jobsList' = [jobsList EXCEPT !.asked = @ - 1]
  /\ UNCHANGED <<page, visit, form, save, job, edits>>

\* The job starts, by its schedule or by somebody's command.
Start ==
  /\ job' = [job EXCEPT !.running = TRUE]
  /\ save' = [n \in Saves |-> IF save[n].stage \in {"checked", "sent"}
                                THEN [save[n] EXCEPT !.started = TRUE] ELSE save[n]]

\* onRunNow, answered: the list is loaded again.
OnRunNow ==
  /\ jobsList.shown # 0 /\ jobsList.asked < MaxLoads
  /\ Start
  /\ jobsList' = [jobsList EXCEPT !.asked = @ + 1]
  /\ UNCHANGED <<page, visit, form, edits>>

JobStarts == ~job.running /\ Start /\ UNCHANGED <<page, visit, form, jobsList, edits>>

JobEnds ==
  /\ job.running /\ job' = [job EXCEPT !.running = FALSE]
  /\ UNCHANGED <<page, visit, form, save, jobsList, edits>>

\* Another administrator edits the job.
EditedElsewhere(f, v) ==
  /\ edits < MaxEdits /\ edits' = edits + 1
  /\ v \in Values \ {0, job.fields[f]}
  /\ job' = [job EXCEPT !.fields[f] = v, !.version = @ + 1]
  /\ UNCHANGED <<page, visit, form, save, jobsList>>

-----------------------------------------------------------------------------
SaveStep(n) ==
  CheckEvaluated(n) \/ CheckArrives(n) \/ SaveFails(n) \/ SaveSucceeds(n)

JobsNext ==
  \/ OpenList \/ OpenForm \/ Leave
  \/ FormLoads \/ (\E final \in BOOLEAN : FormLoadFails(final)) \/ Retry
  \/ \E f \in Fields, v \in Values : Type(f, v) \/ EditedElsewhere(f, v)
  \/ \E n \in Saves : OnSubmit(n) \/ SaveStep(n) \/ PutApplied(n) \/ PutQueued(n)
  \/ ListEvaluated \/ (\E v \in jobsList.read : JobsArrive(v)) \/ JobsFail
  \/ OnRunNow \/ JobStarts \/ JobEnds

\* Requests are answered or fail.
JobsFairness == WF_jobsVars(\E n \in Saves : SaveStep(n))

JobsSpec == JobsInit /\ [][JobsNext]_jobsVars /\ JobsFairness

-----------------------------------------------------------------------------
(***************************************************************************)
(* Properties                                                              *)
(***************************************************************************)

\* A save overwrites nothing newer than what it was made from.  "Sending just what
\* the administrator changed keeps a concurrent edit to another field from being
\* overwritten with a stale value" (scheduler-job.api.ts:37-38): a field that was not
\* typed in since the job was loaded stays as it is.  And a running job is saved over
\* only if it was started in the one round trip after the save's own check, not
\* because the form was open for long.
SaveOverwritesNothingNewer ==
  [][\A n \in Saves : save[n].stage = "sent" /\ save'[n].stage = "applied" =>
       /\ \A f \in Fields \ save[n].touched : job'.fields[f] = job.fields[f]
       /\ job.running => save[n].started]_jobsVars

\* A list that a save opened shows the job as saved, or newer, once it is at rest.
SavedIsListed ==
  page = "list" /\ jobsList.asked = 0 /\ jobsList.read = {} /\ jobsList.shown # 0 =>
    \A n \in Saves : save[n].stage = "saved" /\ save[n].moved =>
      jobsList.shown >= save[n].version

\* The form spins.
SaveWaits == form.isSaving
=============================================================================
