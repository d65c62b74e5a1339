# A verification of the Fineract back-office UI

TLA+ models of the parts of this Angular application where the order of things
decides whether it is right: the session, the inactivity timer, the request
pipeline, the platform date, the screens that wait for the platform, the loan
form, the cron preview and the menu. TLC checks each on small instances; TLAPS
proves, for every value of the constants, every safety property that a passing
run checks.

    tlasany M.tla                         parse a module
    tlc -config X.cfg M                   check a run (PROJECT.json lists them)
    tlapm M_proofs.tla                    check the proofs

Paths below are relative to `src/app/` unless they start with another directory.

## 1. The system

A single-page application over the Fineract REST API. One browser tab is one
JavaScript event loop: a callback runs to its end, and everything the
application has to fear comes between two callbacks - answers that arrive late,
out of order or not at all, timers, modals that take a while to open, lazily
loaded code, navigations, a reload - or from another tab through Web Storage.

| Component | State | Operations | Modelled |
|---|---|---|---|
| Session and sign-in: `core/services/auth.service.ts`, `features/login`, `core/guards/auth.guard.ts`, `core/adapters/storage` | signals `currentUser`, `isAuthenticated`, `twoFactorPending`, `currentTenantId`; the form's `pendingReload`, `isLoading`; `sessionStorage` (per tab), `localStorage` (per profile) | sign in, second factor, cancel, sign out, reload, guard | `AuthSession`, `SessionGate` |
| Credential headers and expiry: `core/interceptors/auth.interceptor.ts`, `error.interceptor.ts` | none of their own | headers of a request, 401 | `AuthSession` |
| Runtime configuration: `core/services/config.service.ts`, `app.config.ts` | `apiUrl`, its override in `localStorage`, `BASE_PATH` | change of endpoint, start-up | the override only, in `AuthSession` |
| Inactivity monitor: `core/services/idle.service.ts`, `layout/inactivity-dialog.component.ts` | throttle window, `timeoutId`, `presentingWarning`, `dialogRef` | activity, warning, answer, sign-out | `IdleMonitor` |
| Request pipeline: `loading`, `idempotency`, `retry` interceptors, `loading.service.ts` | `loadingMap`, `inFlight`, backoff timers | subscribe, collapse, retry, unsubscribe | `RequestPipeline`, `CommandChannel` |
| Platform date: `core/services/platform-date.service.ts`, `server-clock.interceptor.ts` | `_businessDate`, last `Date` header, the shared flag and resolution with their window | `today`, `resolveToday` | `PlatformDate` |
| Work queues: `features/tasks/work-queues` | rows, selection, active queue, office cache, result | load, select, confirm, run, report | `WorkQueues` |
| Checker inbox: `features/tasks/checker-inbox` | tasks, error, the stream of loads | load, retry, approve, reject | `CheckerInbox` |
| Tables and paging: `data-table`, `paginator`, `search-filter` in `shared/components`, `features/clients/clients-list.component.ts` | page, size, sort and text, kept twice; rows, total | type, filter, sort, page, retry | `ClientsList`, `LatestAnswer` |
| Searches: `shared/components/client-search`, `layout/header.component.ts`, `features/search` | the text of a box, its stream, results | type, pick, close | `ClientPicker`, `HeaderSearch`; the search page is not |
| Scheduler jobs: `features/system/scheduler-jobs` | the form's fields and loaded job, saves, the list | load, edit, check, save, run now | `SchedulerJobs` |
| Cron expressions: `core/utils/quartz-cron.ts` | none; the form's clock | parse, next runs | `QuartzCron` |
| Loan application: `features/loans/loan-form.component.ts`, `features/products/loan-schedule-type.ts` | the request, the product's details, the dates | load, pick, type, submit | `LoanForm` |
| Guided tour: `core/services/guidance.service.ts`, `shared/components/guidance-tour` | steps, the step; target, poll, shade, class | start, next, previous, exit | `GuidedTour` |
| Navigation: `core/services/nav-composition.ts`, `navigation-config.service.ts` | the tree, its index, the defects | compose, filter | `Navigation` |
| Permissions, institution features: `core/guards`, `core/utils/permission-matcher.ts` | sets of codes | match | no: set membership; an input of `Navigation` |
| Feature forms, lists and views: the rest of `features/*` | the fields of a form, the rows of a list | load, validate, post | no: see section 5 |
| Notifications, dialogs, overlays, appearance, i18n, titles, error logging, utilities | presentation, or none | - | no: no ordering or shared state |
| Federation, generated API client, build, lint, e2e, deployment | none of the program's own | - | no |

### How they interact

- **Calls.** A request goes through the interceptors in this order
  (`app.config.ts`): correlation id, auth, error, loading, idempotency, server
  clock, retry. Outer ones see one logical request: auth decides the headers
  once, error sees only what the retries could not repair, and a collapsed
  double click counts once at the backend, though the loading interceptor sees
  both subscriptions.
- **Signals.** `isAuthenticated` is read by the guard, the error interceptor and
  (through an effect, a moment later) the inactivity monitor; `twoFactorPending`
  by the sign-in form; `currentUser` and `currentTenantId` by the auth
  interceptor.
- **Shared state.** `sessionStorage` holds a tab's session; `localStorage` holds
  the tenant and the endpoint of *all* tabs. The `inFlight` map and the loading
  map are keyed by request, not by screen.
- **The router.** An expiry, a sign-out, the idle timer and the user all ask for
  navigations; the latest wins, and a component is on screen only some time
  after its guard ran.

### What is hard

1. A session is five variables and three storage entries, written one at a time.
2. A 401 speaks of the session its request was sent in, and arrives in another.
3. A modal is on screen before its handle is held; a dismissed one settles later.
4. A command may be applied although its caller saw a failure, and be replayed.
5. Two screens share one flight, and either may go away.
6. A cached date outlives what it was read from.
7. A list arrives under another queue, another search, another page than the one
   on screen; a selection is confirmed after it changed.
8. A save is checked, and what it was checked against changes before it is sent.
9. Values of several origins - typed, of a record, defaults of this product or of
   the one before - meet in one request object.
10. An effect runs after the signals it reads have changed again; the element it
    points at is another component's and may be gone.
11. The clocks of browser and platform differ.

`PROJECT.json` lists each of these at its line, with the property that would
catch it, or the reason why none does. What makes each component correct is
stated with its properties in section 3.

## 2. The modules

### SessionGate and AuthSession

`SessionGate` is what the session promises: a tab is out, pending or in; only an
accepted password leaves *out*, only an accepted second factor of the same
sign-in goes from *pending* to *in*, and a sign-in that was left never returns.

`AuthSession` is the code. `session`, `authed`, `pending`, `tenant` are the
signals of `AuthService`; `endpoint`, `bound` are `ConfigService.apiUrl` and the
`BASE_PATH` that whoever injects it first freezes; `stored`, `devTenant`,
`devEndpoint` are Web Storage; `reload`, `loading` belong to the sign-in form;
`page`, `nav` to the router; `reqs` are the requests in flight, each with the
headers it left with. An answer may come to any of them, in any order.

| Action | Code |
|---|---|
| `SubmitLogin`, `LoginAccepted` | `LoginComponent.onSubmit`, its `next` with `AuthService.login` and `enterApplication` |
| `SubmitToken`, `TokenAccepted`, `CancelToken` | `TwoFactorStepComponent` and the form's callbacks |
| `UserSignsOut` | `AuthService.logout` from the header or the idle timer |
| `Expire`, `Settle` | `errorInterceptor` on a 401 it takes for an expiry; any other answer |
| `Guard`, `Arrive`, `Navigate` | `authGuard`, `NavigationEnd`, the user's links and history |
| `Refresh`, `Reenter` | F5; the full reload after a change of endpoint |

A credential is its sign-in, tenants and endpoints are model values, permissions
and names are left out. The history variables `home` (the tenant that issued a
sign-in) and `expired` (what was taken for an expiry) exist for the properties.
`StorageMayFail` lets `setItem` throw, in which case the old value stays, as the
storage adapter has it.

### IdleMonitor

One tick of the clock is a fraction of `IDLE_TIMEOUT`. `timer` is the single
`timeoutId` with its callback; `window` the rest of the `throttleTime` window;
`presenting`, `dialog` the two guards; `modal` the modals with their stage
(asked for, handle held) and answer; `dirty` says that Angular's effect on
`isAuthenticated` has not run yet. Whatever is due happens before the clock
moves. Anything may happen between asking for a modal and holding its handle (a
chunk to load, an animation). `fresh` and `quiet` are history: the modals still
in the session and on the page they were raised for, and the silence.

### CommandChannel and RequestPipeline

`CommandChannel` is what a page that sends a command may count on: one submission
of a command is open at a time, and whoever asks for the same meanwhile shares it;
a submission is applied once or not at all, possibly after everybody has gone; a
success is told only of what was applied, and to everybody who waits at once; who
leaves takes nothing from the others. It knows no attempts, keys or networks.

A *call* is one subscription of a page, a *flight* one request at HttpClient's
backend, named after the call that started it; a collapsed call has somebody
else's flight. `inFlight` is the idempotency interceptor's map, `busy` the
loading service's, `wire` and `reply` the network in both directions, `keys` and
`applied` the platform. The key is made outside the retries, so `Key(f, n)` does
not depend on the attempt. `ConnectionDrops` is status 0, with the request
delivered or not; `Replays` lets a proxy deliver twice; `HonoursKeys` says
whether the platform implements `Idempotency-Key` (it is external: modelled as
the interceptor's comments describe it). The per-request timeout is opt-in and no call
site opts in, so a request may hang for ever unless fairness says otherwise.

### PlatformDate

The platform's clock and business date, the browser's clock some ticks `ahead`,
and the service's cache: `flag` (the shared `enabled$`), `resolution`,
`resolvedAt`, `buffer` (what `shareReplay` repeats), the running `flights`, and
`memo`, the browser's date a computed signal keeps until a signal it depends on
changes. `exposed` says whether the browser is shown `Date` headers, `failed` is
history: some read has failed. `Join`, `Replay`, `Create`, `CreateOff` are the ways through
`resolveToday`; `FlagAnswers`, `DateArrives`, `DateFails` its callbacks. A
business date is read from the platform (`PlatformReads`) before it arrives; a
tenant with the feature on may have no row yet.

`DayIn(t, z)` is the calendar day of an instant in a zone. The platform judges in
`tenantZone`; the service formats in `zone`, which is `tenantTimezone` of
`config.json` (Asia/Kolkata unless the deployment says otherwise) or, when that is
empty or no zone, the browser's. Neither follows the tenant, so the two zones are
chosen independently.

### WorkQueues

`rows`, `selected`, `activeQueue`, `isLoading`, `isRunning`, `lastResult`,
`officeNames` are the component's fields; `loads` counts the loads of each queue
at each stage, which nothing cancels; `run` is one use of `onRun` with what its
closure captured; `pending` the records the platform has waiting in each queue.
`readFrom` is history: the queue the rows were read from. `Patient` is the user
who changes queue only when nothing is on its way; `MaxQueueLoads` bounds the
loads of one kind that are.

### CheckerInbox

`inbox` is the component on screen and which visit to it this is, `inboxRead` the
one load its `switchMap` lets live, `post` the decisions, each a closure of
`onApprove` or `onReject` that remembers its visit, `task` the platform. A load
reads the platform when it is evaluated there (`ReadEvaluated`) and is shown when
it arrives; `Decide` decides an entry once, for this user or another. `told` is
history: what was reported as done, and in which visit.

### LatestAnswer and ClientsList

`LatestAnswer` is what a list that searches, sorts and pages at the server
promises: what is shown once the spinner is gone answers the question asked
last, or nothing is shown. `ClientsList` implements it. `list` is
`ClientsListComponent` (its query and signals), `table` the data table's linked
signals with the search box and its debounce, `sent` what the `switchMap`
awaits, `shown` the rows by the question they answer, with the total reported.
`Load`, `Requested` and `UsesNameSearch` are `loadClients`, with its two
endpoints; `Settled` is what a broad search does to the order by office;
`HasNext`, `HasPrevious`, `LastPageIndex`, `Target` are the paginator. How many
records match is the platform's choice at every answer, so lists grow and shrink.

### SchedulerJobs

`page` and `visit` are the router, `form` is `SchedulerJobFormComponent` (what it
loaded, what is typed, what was touched), `save` the closures of `onSubmit`, each
with what it sends and what its check found, `jobsList` the list with its loads,
`job` the platform's job with a version. A save checks (`OnSubmit`,
`CheckEvaluated`, `CheckArrives`), puts (`PutApplied`, or `PutQueued` where a
checker has to approve) and reports (`SaveSucceeds`, `SaveFails`), also after its
form was left. The job starts, ends and is edited by others between any two steps.

### QuartzCron

`cron` is the schedule in the form and the clock it last read. An expression is
modelled as parsed: `ExpandRange` for lists with steps that may wrap,
`MatchingDays` for the six kinds of day rule with `NearestWeekday` at a month's
edges, `DaysFrom`, `TimesAfter` and `NextFireTimes` for the rest of
`nextFireTimes`. `DayRule` is what the two parsers of day fields can return, and
the assumption on the rules typed. The calendar is `Date.UTC`'s, leap years
included: `DaysBefore` counts the days from the first of 2023, a Sunday, and
`Weekday` tabulates them for the years a preview looks at. The property
compares the result with a definition of its own, by distance from the day
instead of by construction.

### ClientPicker and HeaderSearch

Two search boxes with a debounce, `distinctUntilChanged` and a `switchMap`, whose
text is also written without an event: by a name that was read or picked
(`picker`, `NameArrives`, `OnSelected`) or by emptying the box (`box`,
`OnResultSelected`, `ToggleMobileSearch`). `due` is the text waiting for its
debounce, `last` the last that passed, `searching` and `finding` the search under
way. `ClientPicker` adds the form's client (`chosen`) and the reads of names that
nothing orders (`naming`); an error ends its stream (`ended`).

### LoanForm

A value is modelled by where it comes from: typed, of the record, or the default
of a product. `loan` is the request the form binds to with its signals,
`details` the product described, `asked` the requests for details under way.
`RowsArrive`, `SeedArrives`, `RecordArrives`, `DetailsArrive` are the callbacks,
in any order; `Keep`, `FilledIn` are `applyProductDefaults`; `Strategy`, `Copied`,
`KnownProgressive` and `FirstSent` are what `onSubmit` does to the request
object, which stays as it was changed when the request is refused. `request` is
history. `PicksAtRest` is the officer who picks no other product while details
are awaited.

### GuidedTour

`tour` is `GuidanceService`; `effect` says that the component's effect has not
run since its signals changed; `pointer` is `GuidanceTourComponent` (target,
poll, tracking, frame, shade); `dom` which controls are in the document and which
bear the class, and the class on the body; `route` the router. Controls render and
drop out at any time (`Renders`, `Drops`), a navigation may fail, and a poll gives
up after `Patience` attempts.

The component is part of the main layout, and `/login` (`Outside`) is a route
beside it. A sign-out, a 401 or an idle logout destroys the layout before
`NavigationEnd` (`LayoutDestroyed`), so the subscription that ends the tour is
gone; without an `ngOnDestroy`, what the instance had running stays, as an entry
of `left`, and goes on by itself (`LeftActs`). The next sign-in makes another
layout and component (`LayoutCreated`), which does hear the end of the navigation
that brought it. `MaxLeft` bounds the instances that have left something.

### Navigation

`nav` is what `composeNavTree` holds between two steps: the tree, the index from
ids to places (`slot`), the orders given, the defects. `AddItem` and `Override`
are one entry of `nav.items` and `nav.overrides`; `Compose` sorts by the orders
given. `FilterNavItems` and `IsItemVisible` are the filter, for every viewer, whose
permissions and features are one flag. `wish` remembers what the deployment asked
for. The code walks subtrees recursively (`containsId`, `filterNavItems`); the
module says the same as what every set of groups that is closed under nesting
has in it, so that it can be proved about. The code checks the id of an added item,
not that of an entry nested in it: a nested entry may have any destination's id,
also one that is in the menu already, and then overwrites its place in the index.
`wish.repeated` records those ids. That upstream's entries are one tree
without an id twice is assumed, as `scripts/check-nav-ids.mjs` checks it.

### ScreensThatWait and FormsAndMenu

`ScreensThatWait` puts `WorkQueues`, `CheckerInbox`, `ClientsList`,
`SchedulerJobs`, `ClientPicker`, `HeaderSearch` and `GuidedTour` side by side, as
seven initial choices of one specification, so that properties they share are
stated once: what is on screen answers what was asked last, and waits end.
`FormsAndMenu` does the same for `LoanForm`, `QuartzCron` and `Navigation`. The
parts share no state in the code, so only the one in use moves: nothing is
claimed about interaction between them. `MCRequestPipeline` and `MCFormsAndMenu`
give the values a configuration cannot spell.

## 3. What is checked

The passing runs reach every action of their modules between them, and for every
property there is a mutation of the code (`PROJECT.json`, "mutants") under which
TLC finds it violated.

| Run | Shows | Bounds | States |
|---|---|---|---|
| `auth` | the signals agree, a credential stays with its tenant, a reload restores the session on screen or none, signing out revokes the second factor, `SessionGate` is implemented, and a page does not outlive its session | one tab, two tenants of which one asks for a second factor, two endpoints (one foreign), two sign-ins, one data request at a time | 363 k |
| `idle` | an unattended session ends in time; the warning of the present session has its logout timer; only the idle are warned | timeout 6, warning 2, throttle 2 ticks, three modals | 18 k |
| `pipeline` | one flight per command, one application per submission, a progress bar only while somebody waits, `CommandChannel` is implemented; nobody waits for ever | two calls of a read, two commands of one URL (one repeatable) or an upload, one retry, two sign-ins, replays, keys honoured | 187 k |
| `date` | no resolved date is ahead of the platform unless the service's zone is east of the tenant's, a stale row never governs, reads are shared, every screen is answered although reads fail | two screens, four instants in days of two ticks, a window of one, a browser up to two ticks ahead, two zones one tick apart | 299 k |
| `screens` | seven parts: what is on screen answers what was asked last, what was reported done is seen to be done, every record can be paged to, names, saves, batches and the tour's highlight belong to what they are about, waits end, `LatestAnswer` is implemented | two queues, two records, two overlapping runs; two tasks, two decisions, two visits; two texts, statuses and page sizes, three records; two fields, two saves, one visit, one edit by another; three texts and two clients; four texts; two controls, one of them the shell's, two screens and `/login`, one destroyed layout | 285 k |
| `forms` | three parts: deliberate values are kept, and no progressive flag of an earlier product or date of a refused try is sent; the runs listed are the next ones; the menu stays one tree but for the ids an added group repeats, with every wish met or reported | two products of the two schedule types, one term; ten day rules, three month ranges, three clocks; a group in a group, one added item whose nested entry has any destination's id, two overrides | 143 k |

### The properties

Of the session, the idle timer, the pipeline and the date: as in the table, and
each is stated in words where it is defined. Of the others:

- `LatestIsShown` - at rest, the rows of the work queues and of the clients list,
  the offers of the picker and the results of the header's box answer the
  question on screen, arrow, page and size included.
- `ImplementsLatest` - the clients list never shows an answer to anything but the
  last question, not even while it loads.
- `RecordsAreInReach` - with and without a known total, *next* leads on exactly
  while records remain, and from a page the records have shrunk below *previous*
  leads back to some.
- `OwnChangesAreShown` - a decided task is off the inbox once it is at rest, a
  list opened by a save shows the job as saved or newer.
- `SaveOverwritesNothingNewer` - what a save did not touch stays as somebody else
  left it, and a running job is saved over only if it started within the round
  trip the comment accepts.
- `BatchAddressesItsRows`, `FailuresAreNamed` - a batch is of the kind its rows
  are; a partial failure names exactly the refused records.
- `NameIsOfTheClient` - the name in the box is that of the id sent.
- `TourKeepsToItsStep` - target, poll and class are of the card on screen; a tour
  that ended in its layout leaves nothing of its component on the page.
- `WaitsEnd` - every spinner, and the tour's search, ends.
- `DeliberateIsKept`, `ProgressiveIsAdvanced`, `NoFlagOrDateLeftOver` - what the
  officer typed or the record said is changed by the officer only; progressive
  loans are sent with the advanced strategy; the progressive flags of a product
  given up and the first repayment date of a refused try are not sent (the terms
  are: `loan_terms`).
- `NextRunsAreNext` - the preview is the next moments of the schedule, none left
  out.
- `MenuIsOneTree`, `WishesAreMetOrReported` - every entry that no added group
  repeats is in the menu once, where the index says, and shown to whom it and its
  groups are shown; all of upstream stays reachable from the root; what
  `config.json` asks for is done or is a defect.

### Bounds, deadlock, fairness

**Why the bounds are enough.** Two sign-ins are the least for an answer of one
session to arrive in the next; two tenants and a foreign endpoint the least for
headers to be paired wrongly. Two modals can be up at once (one of a session that
ended while it opened), a third shows that it does not get worse. Two calls
collapse, and either may leave the flight they share. Two
ticks a day and a browser two ticks ahead put its date a whole day ahead; a zone
one tick east has its midnight in the middle of the tenant's day; in four instants
the day changes and windows pass. Two records are the
least for a partial failure; two runs overlap because `isRunning` is set only
after the confirmation. Two decisions may be about one task or two; a second
visit separates a decision from its inbox. Three records in pages of one and two
give a last page that is full, and one that is not, and shrink below any page. A second
save follows one whose answer was lost and that may have been applied; saves of
several visits, which overlap, are covered by the proof. A second client is the least for a
name to be of another; one client's name read once at a time is enough for two reads to race.
Of two tour controls one is the screen's and one the shell's, which navigation
keeps; one destroyed layout is what the next one can disturb. Two products are
the least for a default of the wrong one. Day rules and clocks are
chosen at the ends of months, of a leap and a plain February and of a year. A
group in a group is the least for a cycle through what was moved before.
Histories either stop counting past the interesting value or are bounded by the
calls.

**Where a model may stop.** `pipeline`, `screens` and `forms` run with
`CHECK_DEADLOCK FALSE`: the number of calls, runs, visits and entries is bounded,
and a page that asks for nothing more, a loan that was sent, or a composed menu is
a legitimate end. Everywhere else deadlock is checked.

**Fairness.** Nothing is ever assumed of the user.

| Where | Assumed | Why |
|---|---|---|
| `AuthSession` | weak: the guard, a requested reload; strong: a navigation's end | the guard is synchronous and reloading is the browser's; each single navigation can be interrupted by another click, but not all of them for ever |
| `RequestPipeline` | weak: a connection ends, with an answer or without, and a backoff timer fires | an assumption about the network, since the code sets no timeout: browsers and proxies do |
| `PlatformDate`, `WorkQueues`, `CheckerInbox`, `ClientsList`, `SchedulerJobs` | weak: a request under way settles, with an answer or a failure | the same. In `CheckerInbox`, `ClientsList` and `SchedulerJobs` a user can ask again for ever, so fairness is of *some* request ending; the work queues cancel nothing, and it is of each |
| `GuidedTour` | weak: the effect or the poll | both are the browser's timers |

`ScreensFairness` asks this of the work queues only while they are the part in
use: a queue at rest stays as it opens, with a list under way, and fairness of a
step that cannot be taken would leave the specification no behaviour at all.

### Conditions some properties carry

- `SignedOutLeavesApp` is checked for tenants that ask for no second factor.
  With one, a user who signs in over a session that `authGuard` has just admitted
  turns it into a pending one before the page arrives, and the page stays.
- `CredentialKeepsTenant` is for one tab: a reload after another tab signed in to
  another tenant does pair the stored credential with that tenant, which
  `security.md` of the repository describes (`localStorage` is shared by tabs).
- `RestoredOrForgotten` is for writes that succeed.
- `ResolvedIsNeverAhead` is for behaviours in which no read has failed and `Date`
  headers are seen: the fall-back on the browser's clock is deliberate and tested.
  It also asks that the service's zone is not east of the tenant's, unless a
  business date governs (`ZonesAgree`). Where it is - the default Asia/Kolkata
  (`config.service.ts:268`) for a tenant in UTC - the service formats the
  platform's own instant as tomorrow from 18:30Z on
  (`platform-date.service.ts:119-136`), the guess that the comment at lines 50-53
  says is removed. The setting is documented as the zone of the tenant's backend
  (`config.service.ts:109-112`); nothing checks that it is.
- `TourKeepsToItsStep` promises that nothing is left of a tour that ended in its
  layout. One that a sign-out, a 401 or an idle logout interrupts is ended by
  nobody: shade, listeners, a poll and the body's class stay
  (`guidance-tour.component.ts:336-341` with `app.routes.ts:27-36`, and no
  `ngOnDestroy`). The next layout ends the tour and takes the body's class off; the
  shade and the listeners stay even then, and a poll may mark a control of that
  layout.
- `MenuIsOneTree` is about the ids that no added group repeats. `addDeploymentItems`
  pushes nested entries unchecked (`nav-composition.ts:230-235`), so a nested id of
  an entry that is there puts it in the menu twice, with the index at the later
  copy, although the comment at lines 193-194 refuses an id that is taken.
- `BatchAddressesItsRows` and the rows in `LatestIsShown` are for a user who
  changes queue at rest (`Patient`); `queues_stale` is about any other.
- `NameIsOfTheClient` is for users who do not pick while a name is being read
  (`PicksWait`): of two reads the older may arrive last.
- `ProgressiveIsAdvanced` and `NoFlagOrDateLeftOver` are for officers who pick no
  other product while details are awaited (`PicksAtRest`): details are not
  matched with the product they were asked for. `DeliberateIsKept` needs no such
  condition; it does not promise a typed date on a new application, which the
  platform's late date does replace. `NoFlagOrDateLeftOver` is about the
  progressive flags and the first repayment date only: the terms of an earlier
  product are sent (`loan_terms`), and so may be a strategy that a refused try
  left, for a cumulative product.
- `WaitsEnd` excepts an office list that fails, for which the code has no
  error handler.
- `OwnChangesAreShown` is about the inbox that made the decision and the list the
  save opened.
- `ImplementsChannel` is for a platform that knows keys (or no replays and no
  repeatable commands, see section 4); `AppliedOnce` asks for keys only of a command
  declared repeatable. A new submission after a lost answer is a new command to the code.

### Disagreements between comments and code

Six runs state what a comment says and are refuted; `PROJECT.json`, "findings",
quotes each comment.

| Run | What TLC shows |
|---|---|
| `auth_burst` | The first 401 of a burst ends the session, the user signs in again, the second 401 ends the new session. |
| `idle_late` | Landing on the sign-in form while the modal opens clears `presentingWarning`; activity then replaces the logout timer under a warning that appears anyway. |
| `pipeline_session` | The fingerprint knows neither tenant nor user, and the map survives the sign-out. |
| `date_stale` | Every call renews `resolvedAt`, so asked often enough the service repeats its first answer for ever. |
| `queues_stale` | A list that arrives after its queue was left is shown under another queue, and the batch is built for that one. |
| `loan_terms` | A default of the product picked first is kept, as if it had been typed, when another product is picked: the application goes out on the first one's terms. |

## 4. What is proved

Type correctness and the following hold for every value of the constants, under
the assumptions on constants that the modules name (`AuthAssumption` and so on: sets
of the right kind, bounds that are numbers). Where a theorem assumes more, it says so.

- `SignalsNeverDisagree` - `Spec => []SignalsAgree`, for any number of tabs, and
  also when storage fails. A step that restores signals from storage agrees by
  construction of the restored values, and one that changes `session` writes all
  three signals; `TokenAccepted` needs that the session it confirms was accepted.
  The inductive invariant `AuthInv` is type correctness, `SignalsAgree`, that a
  session on screen belongs to a used sign-in, and that reliable storage shadows
  the signals.
- `GateImplemented` - `~StorageMayFail => (Spec => ImplementsGate)`: `AuthSession`
  implements `SessionGate`. By step simulation under `AuthInv`: `LoginAccepted`
  is an `Accept`, `TokenAccepted` a `Confirm` (or a stutter when the sign-in was
  complete already), sign-outs and expiries are a `Leave`, a reload is a stutter
  because what is stored is what is on screen - which is where storage that
  fails breaks it - and everything else stutters.
- `OneTabKeepsTenant` - with one tab and reliable storage,
  `Spec => []CredentialKeepsTenant`. `TenantInv` adds that the stored tenant is
  the one of the signal, and that of the session on screen.
- `ReloadRestores` - with reliable storage, `Spec => RestoredOrForgotten`, for any
  number of tabs: what is stored is a copy of the session on screen, and its key
  is per tab.
- `TokensAreRevoked` - with one tab and reliable storage,
  `Spec => TokenRevokedOnSignOut`: whatever ends a session with a second factor
  posts its token under the credential and the tenant that issued it. Over
  `TenantInv`, and that a token belongs to a sign-in (`TokensHaveSignIns`).
- `UnattendedEnds` - `Spec => []UnattendedSessionEnds` for every timeout, warning
  time and throttle. The property is not inductive: a timer could be missing or
  too long. `IdleInv` says why it never is: while a session is on and the effect
  has run, there is a timer (`Covered`), and its remaining time - for the first
  one together with the warning time behind it - plus the silence so far stays
  within the timeout; before the effect has run the silence is nought; a
  warning answered by *stay* was answered just now; and while a warning is
  coming the timer is not the first one.
- `OnlyTheIdle` - `Spec => OnlyTheIdleAreWarned`, for every timeout and throttle: a
  user is silent for the time to the warning, less the throttle, when one is
  raised. `WarnsLate`: a timer for the warning was set no longer ago than the
  user has been silent, but for the activity inside a throttle window, and the
  window was opened no later than the timer.
- `WarningsAreTimed` - `Spec => WarningHasItsTimer`, if the throttle is no longer
  than the wait for the warning (the code's are 5 seconds and 13 minutes).
  `WarningInv`: a warning of this session and page is the only one that can be
  answered, and until it is, `presentingWarning` keeps activity from its timer
  (`FreshIsGuarded`); that needs that nothing answered is still to be heard when
  it is raised (`NothingHeardLate`), as an answer is activity that renews a timer
  that has run out - unless the throttle swallows it. Beyond the hypothesis TLC
  has a counterexample (timeout 6, warning 2, throttle 5).
- `NeverASecondFlight` - `Spec => []OneFlightPerCommand`. `FlightInv` adds that an
  idle call has no flight, an answer travels only to an attempt that is out, a
  backoff has a try left (`Started`); that every call made has a flight of its
  own command (`Carried`); and that the map holds none that has settled
  (`Mapped`), without which a new call could join a flight nobody ends. What
  `Settle` and a transient failure keep is stated once, as lemmas.
- `AppliedAtMostOnce` - `Spec => []AppliedOnce`, if the platform honours keys *or*
  the network does not replay: each alone is enough. With keys, whatever was
  applied is remembered under the one key of its flight (`KeyedOnce`). Without
  them, a command that is not declared repeatable never backs off, so only its
  first attempt is ever on the wire, and only until it is applied (`SentOnce`).
  The property also covers commands declared repeatable where keys are honoured.
- `SuccessMeansApplied` - `Spec => []SuccessIsApplied`. Known keys and answers
  "ok" on their way stand for something applied; a call that shares a flight has
  the flight's command. No run lists this invariant:
  `ImplementsChannel`, which one does, implies it.
- `ChannelImplemented` - `Spec => ImplementsChannel`, if the platform honours keys,
  or nothing is replayed and no call site declares a command repeatable (with
  neither, a repeated command is applied twice and no channel is implemented). By
  step simulation under `FlightInv`, `OnceInv`, `SuccessInv`, `AppliedAtMostOnce`
  and `Asked` (an idle call asks for nothing, any other has a flight that was
  started). A flight of a command is a submission, open until it settles;
  `Subscribe` is a `Submit` or a `Join`, `Settle` a `Tell`, whatever caused it, and
  `PlatformAnswers` an `Apply` exactly when it changes `applied`; attempts, backoffs,
  drops, sign-ins and everything about reads are stutters. That a `Submit` finds no
  open submission of its command is `NeverASecondFlight`; that a `Tell` of a success
  finds it applied is `SuccessMeansApplied`.
- `BusyOnlyWhileWaiting` - `Spec => []BusyMeansWaiting`: an end takes its URL down
  even if another call of that URL waits, so the converse does not hold.
- `DateTypeCorrect`, `OnlyEnabledRows`, `NeverAhead`, `ReadsShared` - the four
  invariants of `PlatformDate`, from one inductive invariant. That no resolved
  date is ahead needs that every clock the service has heard, and every row it
  has read, is in the platform's past (`HeardInThePast`, `RowsAreEnabled`), and
  that of what `shareReplay` repeats as well as of the answer (`NotAhead`); that
  a calendar day decreases neither with time nor to the east is the lemma
  `DayInMonotone`. It is proved under the property's own condition on the two
  zones, without which it is false. That
  reads are shared needs that the resolution later callers are given is running
  or has emitted (`ResolutionRuns`).
- `RefusedAreNamed` - `QueuesSafe => []FailuresAreNamed`. The invariant
  `Reported` says that an executed run was refused by the request ids of what it
  was denied; that these determine the records is the lemma `RequestIdInjective`
  (a position among the smaller ids of a finite set), cited from the library's
  facts on cardinality.
- `PatientBatchesAddress` - for a `Patient` user, `[]BatchAddressesItsRows`.
  `OneQueue`: whatever is loaded, on screen or being run is of the active queue;
  a change of queue finds nothing on its way. `queues_stale` shows that the
  assumption is needed. `PatientRowsAreOfTheQueue` says the same of the rows on
  screen. `QueuesTypeCorrect` is the type invariant of the module.
- `OnlyTheLatestIsShown` - `ListSafe => ImplementsLatest`: the clients list
  implements `LatestAnswer` for every question, by step simulation under
  `ListInv`. What is awaited is the answer to the question on screen, exactly
  while the spinner turns (`SentIsLast`, which is `switchMap`'s doing); page,
  size and arrow of the table follow those of the list (`TableFollows`); and a
  page on screen begins within the records (`PageIsInRange`).
- `ControlsAreAnswered`, `RecordsStayInReach` - what the list shows at rest. Both
  follow from `ShownIsAsked`: at rest the rows are of the question the list holds,
  whose order its endpoint can give, and the reported total is exact or one more
  than what the page ends with. `RecordsStayInReach` then needs the arithmetic of
  pages: `LastPageIs` says between which multiples of the size a total lies.
  `ControlsAreAnswered` is about the clients' part of the run property
  `LatestIsShown`.
- `DecidedGoesAway` - `[]DecidedIsGone`, the inbox's part of `OwnChangesAreShown`.
  `InboxInv`: the stream of loads never ends, and loads nothing for a closed inbox
  (`StreamIsOfTheInbox`); what was reported is decided (`ReportsAreDecided`); and
  a list that was read does not hold what was reported in this visit
  (`ReadIsLater`), since every report starts the load again. `InboxTypeCorrect` is
  the type invariant.
- `NothingNewerIsOverwritten` - `SaveOverwritesNothingNewer`, for any fields,
  saves, visits and edits by others. `SavesAreSound`: a field of the form that
  was not touched is as loaded, so what a save sends is within what was touched;
  a save on its way found the job at rest, and if it runs by now it was started
  since.
- `WhatIsSavedIsListed` - `[]SavedIsListed`, the list's part of
  `OwnChangesAreShown`. `VersionsInv`: no version is seen or reported that was not
  made (`VersionsAreMade`), and whatever a list that a save opened has read or
  shows has the save in it (`SavesAreListed`). That versions stay within the type
  (`JobsTypeCorrect`) is a count: no more than the saves done and the edits.
- `OffersAreOfTheSearch`, `ResultsAreOfTheBox` - the picker's and the header's part
  of `LatestIsShown`, for any texts. A search under way is of the last text that
  passed (`SearchIsLast`); while the header's results are open the text in the box
  is the one due, or the last that passed (`BoxIsFollowed`).
- `TheClientIsNamed` - under `PicksWait`, `[]NameIsOfTheClient`: whatever name is
  being read is the form's client's (`NamesAreOfTheClient`).
- `OnlyTheOfficerChanges` - `LoanSpec => DeliberateIsKept`, without condition.
  `Untouched`: a form that still loads has no term yet, and only an edited loan
  has a record's date.
- `ProgressiveAlwaysAdvanced`, `NoFlagOrDateLeftIsSent` - under `PicksAtRest`. By
  `OfOneProduct`: details that are there or awaited are of the product picked, the
  record of a progressive loan names the advanced strategy, and a ticked checkbox
  is of a progressive product. Without the condition details of the product
  before may arrive last, and TLC finds that.
- `TourIsOfItsStep` - `[]TourKeepsToItsStep`, for any controls, screens, routes
  beside the layout and patience. With the types the property is inductive:
  whatever changes the step asks for the effect, and the effect lets go of what it
  pointed at before it looks for anything else. What destroyed instances point at
  is part of it, as they go on marking controls (`LeftOne`).
- `ScreensTypeCorrect`, `TheLatestIsShown`, `OwnChangesAppear`,
  `EachPartKeepsItsPromise` - the same of the seven screens together, as the run
  checks it: `ScreensSpec` implies the specification of each part (`EachPart`),
  since only the part in use moves.
- `MenuStaysOneTree` - `NavSpec => []MenuIsOneTree`, for any upstream tree,
  additions, moves and viewers, for the entries whose id no added group repeats.
  The inductive invariant `OneTree` says of the tree and the index: such an entry
  is listed once, where the index says, and any other at least there (`Listed`);
  what is placed is in the root or a placed group (`Housed`), and a group that is
  not placed has nothing in it (`Bare`); and no groups are
  nested only in one another (`Rooted`: every set of them has one that sits
  outside it). `Rooted` is what `containsId` is for: a move of a group below
  itself would be a set of groups cut off from the root, and neither `Listed` nor
  `Housed` would notice. `Placing`, `Moving`, `Sorting` show what each step keeps;
  that sorting loses nothing rests on `RanksAreAll`: in a total order of a finite
  set the elements have the ranks 1 to n, once each. That the filter shows
  what is visible all the way up is then an argument by least closed sets, from
  both ends: the lists it opens from the root (`OpenedAbove`) and those above an
  entry (`AboveGoesUp`).
- `WishesAreKept` - `NavSpec => []WishesAreMetOrReported`. `MetSoFar` is the property
  before the composition is over; what was placed stays placed, and an entry is
  moved by its own override only.
- `PreviewIsNext` - `CronSpec => []NextRunsAreNext`, for every rule a day field can
  hold, every range and step of months, every set of times, and every reading of
  the clock from 2023 on. `WeekGoesRound`: weekdays of a month are a step of one
  around the week. From that, `NearestIsOne`: the day `nearestWeekday` computes by
  cases is the only nearest working day; `WeeksBefore`: the day divided by seven
  counts the same weekdays before it; `DaysAreMeant`: `matchingDays` finds what
  each kind of rule means. `RangeIsOnTheWay`: a range that wraps holds what is met
  going round by its steps. `FoundIsMeant`: what `daysFrom` and `timesAfter`
  go through is what is meant and to come. `FirstOfTheFound`: the preview is the
  beginning of it, by `RanksAreAll` again, as `Before` is a total order
  (`DayKeyIsOne`, `FoundIsOrdered`).
- `FormsTypeCorrect`, `EachFormKeepsItsPromise` - the types, and all of this, of the
  loan form, the preview and the menu together.
- `TypeCorrect`, `IdleTypeCorrect`, `PipelineTypeCorrect` - type correctness of
  these modules.

Each argument is laid out the same way: the invariant holds initially, one step
per action shows that it is kept, it implies the property, and the temporal rule
comes last. Facts used by several actions (what `Writes`, `Outgoing`,
`SetSession`, `SignOut`, `Boot`, `Stir`, `Settle`, `Reselect` or `Emit`
keep) are lemmas.

**Only model-checked.** Liveness (`SignedOutLeavesApp`, `EveryoneIsTold`,
`EveryScreenIsAnswered`, `WaitsEnd`) is out of the prover's reach, as it needs
ENABLED and fairness; and that the six refuted claims fail is shown by TLC's
counterexamples. The library's induction over naturals takes an operator as a
parameter, which the installed provers cannot instantiate; where an argument
needed one, it was made over sets (a least closed set, the rank in an order, a
count) instead.

## 5. What is left out

- *Data*: names, permissions, amounts, texts, translations, the wording of error
  toasts. None of the properties tells them apart.
- *The other forms, lists and views* of `features/`: some hundreds of
  components that load, validate and post one record. They are built on the table,
  pickers, interceptors and dates modelled here; each would need a model of its
  own, and the ones chosen are those whose comments promise something about order.
- *The global search page*, which does not cancel its searches: nothing in its
  code or comments orders two answers, so there is no property to hold it to.
- *Permissions* (`permission-matcher.ts`, the guards): set membership without
  order or state. Whether a gate is open is an input of `Navigation`.
- *Of the menu*: labels, icons, search over routes; an entry nested in an added
  group is a single destination, not a group. A group
  whose entries are all hidden but a divider stays in the menu, since dividers
  always pass the filter.
- *Of cron*: reading the text of an expression, and the year field.
- *Of the loan form*: terms that are not required, charges, collateral; the client
  is `ClientPicker`'s.
- *Of scheduler jobs*: switching the scheduler on and off, running a selection.
- *Of the tour*: where the card is placed, what has focus; a control is known by
  its name, not as one element after another.
- *The machine's sleep*: `setTimeout` stands still; `IdleMonitor` counts the time
  the browser runs.
- *A modal that cannot be presented* (`present()` rejecting).
- *The clock skew of `serverNow()`* and `refresh()` of the platform date, which
  no screen calls.
- *Layers of `config.json`* other than the endpoint override.
- *Generated code* (`api/`), federation, build, deployment, presentation.

## 6. Plan

Done, in this order: `SessionGate` and `AuthSession`, `IdleMonitor`,
`RequestPipeline`, `PlatformDate`, `WorkQueues`; then `CheckerInbox`,
`LatestAnswer` and `ClientsList`, `SchedulerJobs`, `ClientPicker`, `HeaderSearch`,
`GuidedTour`, `LoanForm`, `QuartzCron`, `Navigation`, and the proofs about
`PlatformDate`, `WorkQueues`, in `Lists_proofs` about `CheckerInbox`, `ClientsList`
and `SchedulerJobs`, in `ScreensThatWait_proofs` about `GuidedTour`, `ClientPicker`,
`HeaderSearch` and the screens together, in `FormsAndMenu_proofs` about `LoanForm`,
`QuartzCron`, `Navigation` and the three together; then `CommandChannel`, which
`RequestPipeline` is proved to implement.

What is left, most important first:

| What | Aim | Note |
|---|---|---|
| The layers of `config.json` | the endpoint in use is the one last set or the deployment's | composes with `AuthSession` |
| The savings and deposit forms | as `LoanForm` | same shape, other comments |
