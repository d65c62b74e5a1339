---------------------------- MODULE PlatformDate ----------------------------
(***************************************************************************)
(* The date the forms are seeded with                                      *)
(* (core/services/platform-date.service.ts and                             *)
(* core/interceptors/server-clock.interceptor.ts).                         *)
(*                                                                         *)
(* The platform refuses a date ahead of its own: its business date when    *)
(* that feature is enabled, its clock otherwise.  The service asks whether *)
(* the feature is enabled once, reads the business date, shares the answer *)
(* between the screens that ask within a window, and falls back on the     *)
(* last Date header, then on the browser's clock.                          *)
(*                                                                         *)
(* A day is a function of an instant and a zone (DayIn).  The platform     *)
(* judges in the tenant's zone.  The service formats an instant in the     *)
(* zone the deployment is configured with, Asia/Kolkata by default, or in  *)
(* the browser's when there is none or it is not a zone: whichever it is,  *)
(* nothing makes it the tenant's.  `refresh()` is called by no screen and  *)
(* is left out; so is an injector without the business-date adapter.       *)
(***************************************************************************)
EXTENDS Integers

CONSTANTS
  Screens,          \* screens that seed a date from resolveToday()
  Window,           \* RESOLUTION_TTL_MS, in ticks
  DayLength,        \* ticks in a day
  Horizon,          \* bound: the last instant modelled
  MaxAhead,         \* bound: how many ticks the browser's clock may be ahead
  MaxZone           \* bound: ticks from the westernmost zone to the easternmost

ASSUME DateAssumption ==
  /\ Window \in Nat /\ Horizon \in Nat /\ MaxAhead \in Nat
  /\ MaxZone \in Nat
  /\ DayLength \in Nat \ {0}

None == -1

Instants == 0..Horizon
Zones == 0..MaxZone

\* The calendar day of an instant in a zone, z ticks east of the westernmost.
DayIn(t, z) == (t + z) \div DayLength

Days == 0..DayIn(Horizon + MaxAhead, MaxZone)

VARIABLES
  now,          \* the platform's clock
  ahead,        \* how far the browser's clock is ahead of it
  enabled,      \* the tenant has the business-date feature on
  bizDate,      \* the BUSINESS_DATE row on the platform, None if there is none
  tenantZone,   \* the zone the platform judges in
  zone,         \* the zone the service formats in
  exposed,      \* the browser is shown the Date header of every response
  businessDate, \* _businessDate
  serverTime,   \* the last Date header
  memo,         \* the browser's date the `today` signal has memoised
  flag,         \* enabled$: "unasked", "asking", "on" or "off"
  resolution,   \* resolution$: when it was created, or None
  resolvedAt,   \* resolvedAt
  buffer,       \* what resolution$ replays once it has emitted
  flights,      \* the resolutions still running
  waiting,      \* the resolution each screen waits on, or None
  answer,       \* the last answer a screen was given
  failed        \* history: a read has failed

platform == <<now, ahead, enabled, bizDate, tenantZone, zone, exposed>>
cache == <<flag, resolution, resolvedAt, buffer, flights>>
vars == <<platform, businessDate, serverTime, memo, cache, waiting, answer,
          failed>>

Answers == [date: Days, read: Instants, at: Instants]
NoAnswer == [date |-> None, read |-> None, at |-> None]
Flights == [id: Instants, stage: {"flag", "date", "read"},
            row: Days \cup {None}, read: Instants \cup {None}]

TypeOK ==
  /\ now \in Instants /\ ahead \in 0..MaxAhead /\ enabled \in BOOLEAN
  /\ bizDate \in Days \cup {None} /\ tenantZone \in Zones /\ zone \in Zones
  /\ exposed \in BOOLEAN /\ failed \in BOOLEAN
  /\ businessDate \in Days \cup {None} /\ memo \in Days \cup {None}
  /\ serverTime \in Instants \cup {None}
  /\ flag \in {"unasked", "asking", "on", "off"}
  /\ resolution \in Instants \cup {None} /\ resolvedAt \in Instants
  /\ buffer \in Answers \cup {NoAnswer} /\ answer \in Answers \cup {NoAnswer}
  /\ flights \subseteq Flights
  /\ waiting \in [Screens -> Instants \cup {None}]

\* A row of a tenant that switched the feature off may be as old as day 0; one
\* that never closed a business day may have no row.
Init ==
  /\ now = 0 /\ ahead \in 0..MaxAhead /\ enabled \in BOOLEAN
  /\ bizDate \in {0, None} /\ tenantZone \in Zones /\ zone \in Zones
  /\ exposed \in BOOLEAN /\ failed = FALSE
  /\ businessDate = None /\ serverTime = None /\ memo = None
  /\ flag = "unasked" /\ resolution = None /\ resolvedAt = 0
  /\ buffer = NoAnswer /\ flights = {}
  /\ waiting = [s \in Screens |-> None] /\ answer = NoAnswer

-----------------------------------------------------------------------------
(***************************************************************************)
(* The date, synchronously.  `today` is a computed signal: it reads the    *)
(* browser's clock only when nothing better is known, and that reading is  *)
(* kept until one of the signals it depends on changes.                    *)
(***************************************************************************)

BrowserToday == IF memo # None THEN memo ELSE DayIn(now + ahead, zone)

\* Mutation: the browser's clock is preferred to the platform's.
Today_Browser(biz, heard) == IF biz # None THEN biz ELSE BrowserToday

Today(biz, heard) ==
  IF biz # None THEN biz
  ELSE IF heard # None THEN DayIn(heard, zone) ELSE BrowserToday

\* Mutation: the instant is memoised, not its day.
Memoised_Instant(biz, heard) ==
  IF biz = None /\ heard = None THEN now + ahead ELSE None

\* What evaluating `today` leaves memoised.
Memoised(biz, heard) ==
  IF biz = None /\ heard = None THEN BrowserToday ELSE None

\* recordServerTime: every successful response whose Date header is exposed.
Heard == IF exposed THEN now ELSE serverTime

-----------------------------------------------------------------------------
(* The platform *)

Tick ==
  /\ now < Horizon /\ now' = now + 1
  /\ UNCHANGED <<ahead, enabled, bizDate, tenantZone, zone, exposed, businessDate,
                 serverTime, memo, cache, waiting, answer, failed>>

\* Close of business moves the business date while the feature is on; the row
\* of a tenant that has it off is no longer maintained.
CloseOfBusiness ==
  /\ enabled /\ bizDate # None
  /\ bizDate < DayIn(now, tenantZone) /\ bizDate' = bizDate + 1
  /\ UNCHANGED <<now, ahead, enabled, tenantZone, zone, exposed, businessDate,
                 serverTime, memo, cache, waiting, answer, failed>>

\* Any other response the application receives.
OtherResponse ==
  /\ serverTime' = Heard
  /\ memo' = IF Heard = serverTime THEN memo ELSE None
  /\ UNCHANGED <<platform, businessDate, cache, waiting, answer, failed>>

\* A screen seeds a date with `today()`.
Seed ==
  /\ memo' = Memoised(businessDate, serverTime)
  /\ UNCHANGED <<platform, businessDate, serverTime, cache, waiting, answer, failed>>

-----------------------------------------------------------------------------
(* resolveToday *)

\* The resolutions in R emit: the date each found is set, and `today` is
\* evaluated, buffered for later callers and handed to the screens waiting.
Emit(R, biz, heard, read) ==
  LET found == [date |-> Today(biz, heard), read |-> read, at |-> now] IN
  /\ businessDate' = biz /\ serverTime' = heard
  /\ memo' = Memoised(biz, heard)
  /\ flights' = flights \ R
  /\ buffer' = IF \E f \in R : f.id = resolution THEN found ELSE buffer
  /\ answer' = IF \E s \in Screens, f \in R : waiting[s] = f.id
               THEN found ELSE answer
  /\ waiting' = [s \in Screens |-> IF \E f \in R : waiting[s] = f.id
                                   THEN None ELSE waiting[s]]

\* Mutation: the window is closed one tick early.
Kept_TooShort == IF resolution # None /\ now - resolvedAt >= Window
                 THEN None ELSE resolution

\* What of the cached resolution is still to be used.
Kept == IF resolution # None /\ now - resolvedAt > Window
        THEN None ELSE resolution

\* The cached resolution is running: the screen waits on it too.
Join(s) ==
  /\ Kept # None /\ buffer = NoAnswer
  /\ waiting' = [waiting EXCEPT ![s] = resolution]
  /\ UNCHANGED <<businessDate, serverTime, memo, flag, resolution, buffer,
                 flights, answer>>

\* It has emitted: the screen is given what it emitted.
Replay(s) ==
  /\ Kept # None /\ buffer # NoAnswer
  /\ answer' = [buffer EXCEPT !.at = now]
  /\ UNCHANGED <<businessDate, serverTime, memo, flag, resolution, buffer,
                 flights, waiting>>

\* There is none: one is created, and the flag is asked for the first time.
Create(s) ==
  /\ Kept = None
  /\ flag # "off"
  /\ flag' = IF flag = "unasked" THEN "asking" ELSE flag
  /\ resolution' = now /\ buffer' = NoAnswer
  /\ flights' = flights \cup {[id |-> now, row |-> None, read |-> None,
                   stage |-> IF flag = "on" THEN "date" ELSE "flag"]}
  /\ waiting' = [waiting EXCEPT ![s] = now]
  /\ UNCHANGED <<businessDate, serverTime, memo, answer>>

\* The feature is known to be off: the new resolution emits at once.
CreateOff(s) ==
  /\ Kept = None /\ flag = "off"
  /\ LET found == [date |-> Today(None, serverTime), read |-> now, at |-> now]
     IN buffer' = found /\ answer' = found
  /\ businessDate' = None /\ memo' = Memoised(None, serverTime)
  /\ resolution' = now
  /\ UNCHANGED <<serverTime, flag, flights, waiting>>

ResolveToday(s) ==
  /\ waiting[s] = None
  /\ Join(s) \/ Replay(s) \/ Create(s) \/ CreateOff(s)
  /\ resolvedAt' = now
  /\ UNCHANGED <<platform, failed>>

-----------------------------------------------------------------------------
(* The answers *)

\* Mutation: the row is taken unasked.
Resolved_Assumed(ok) == IF ok THEN "on" ELSE "off"

\* isBusinessDateEnabled answers, or fails and is taken as "off" for good.
Resolved(ok) == IF ok /\ enabled THEN "on" ELSE "off"

FlagAnswers(ok) ==
  LET asked == {f \in flights : f.stage = "flag"} IN
  /\ flag = "asking" /\ flag' = Resolved(ok)
  /\ failed' = (failed \/ ~ok)
  /\ LET heard == IF ok THEN Heard ELSE serverTime IN
     IF Resolved(ok) = "off"
     THEN Emit(asked, None, heard, now)
     ELSE /\ serverTime' = heard
          /\ memo' = IF heard = serverTime THEN memo ELSE None
          /\ flights' = (flights \ asked)
                        \cup {[f EXCEPT !.stage = "date"] : f \in asked}
          /\ UNCHANGED <<businessDate, buffer, waiting, answer>>
  /\ UNCHANGED <<platform, resolution, resolvedAt>>

\* The platform serves getBusinessDates.
PlatformReads(f) ==
  /\ f.stage = "date"
  /\ flights' = (flights \ {f})
        \cup {[f EXCEPT !.stage = "read", !.row = bizDate, !.read = now]}
  /\ UNCHANGED <<platform, businessDate, serverTime, memo, flag, resolution,
                 resolvedAt, buffer, waiting, answer, failed>>

\* The row, or null when the platform has none: `today` is then the clock's.
DateArrives(f) ==
  /\ f.stage = "read"
  /\ Emit({f}, f.row, IF exposed THEN f.read ELSE serverTime, f.read)
  /\ UNCHANGED <<platform, flag, resolution, resolvedAt, failed>>

\* Mutation: a failed read is not caught: nothing is emitted.
DateFails_Uncaught(f) ==
  /\ f.stage \in {"date", "read"} /\ failed' = TRUE
  /\ flights' = flights \ {f}
  /\ UNCHANGED <<platform, businessDate, serverTime, memo, flag, resolution,
                 resolvedAt, buffer, waiting, answer>>

\* A failed read forgets the business date that was known.
DateFails(f) ==
  /\ f.stage \in {"date", "read"} /\ failed' = TRUE
  /\ Emit({f}, None, serverTime, now)
  /\ UNCHANGED <<platform, flag, resolution, resolvedAt>>

-----------------------------------------------------------------------------
Next ==
  \/ Tick \/ CloseOfBusiness \/ OtherResponse \/ Seed
  \/ \E s \in Screens : ResolveToday(s)
  \/ \E ok \in BOOLEAN : FlagAnswers(ok)
  \/ \E f \in flights : PlatformReads(f) \/ DateArrives(f) \/ DateFails(f)

Spec == Init /\ [][Next]_vars

\* Requests settle, with an answer or a failure.
FairSpec ==
  /\ Spec
  /\ WF_vars(\E ok \in BOOLEAN : FlagAnswers(ok))
  /\ WF_vars(\E f \in flights :
               PlatformReads(f) \/ DateArrives(f) \/ DateFails(f))

-----------------------------------------------------------------------------
(***************************************************************************)
(* Properties                                                              *)
(***************************************************************************)

\* The latest date the platform accepts.
Governing == IF enabled /\ bizDate # None THEN bizDate ELSE DayIn(now, tenantZone)

\* The service's zone is not east of the tenant's, or a business date governs and
\* no instant is formatted.
ZonesAgree == zone <= tenantZone \/ (enabled /\ bizDate # None)

\* While the reads succeed and Date headers are seen, no date resolveToday()
\* has given a screen is ahead of the one that governs the platform: "Being
\* behind the platform is safe and being ahead is not"
\* (platform-date.service.ts:56-58).  It takes the order of the fallbacks, the
\* header recorded before the answer it came with is used, and a browser whose
\* clock is ahead, to get this wrong.  The condition on the zones is needed:
\* where no business date governs, a zone east of the tenant's (the default,
\* Asia/Kolkata, for a tenant in UTC: config.service.ts:268) gives tomorrow's
\* date for the part of the day between the two midnights, which is the guess
\* that the comment at platform-date.service.ts:50-53 says is removed.
ResolvedIsNeverAhead ==
  /\ exposed /\ ~failed /\ answer # NoAnswer
  /\ ZonesAgree
  => answer.date <= Governing

\* A row left behind by a feature that was switched off never seeds a date
\* (platform-date.service.ts:39-43), whichever resolution set it and however
\* the answers are ordered.
OnlyAnEnabledRowGoverns == businessDate # None => enabled

\* The screens share the reads: whatever runs at the same time was created
\* more than a window apart, and what a screen waits on is running.
ReadsAreShared ==
  /\ \A f, g \in flights : f # g => f.id - g.id > Window \/ g.id - f.id > Window
  /\ \A s \in Screens : waiting[s] # None => \E f \in flights : f.id = waiting[s]

\* Every screen that asks is answered, though either read may fail: the service
\* turns each failure into a date (platform-date.service.ts:177-191).
EveryScreenIsAnswered == \A s \in Screens : waiting[s] # None ~> waiting[s] = None

\* What a screen is given was read from the platform within the window:
\* "Re-resolved after the window has passed ... a value fetched at 09:00 would
\* still be offered at 18:00" (platform-date.service.ts:164-166).
AnswersAreFresh == answer # NoAnswer => answer.at - answer.read <= Window
=============================================================================
