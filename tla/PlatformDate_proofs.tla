------------------------- MODULE PlatformDate_proofs -------------------------
(***************************************************************************)
(* Proofs about PlatformDate, for any screens, window, length of the day,  *)
(* horizon, advance of the browser's clock and zones.                      *)
(***************************************************************************)
EXTENDS PlatformDate, TLAPS

(* The day of a later instant is no earlier, in the same zone or in one further east. *)
LEMMA DayInMonotone ==
  ASSUME DateAssumption, NEW t \in Nat, NEW u \in Nat, t <= u,
         NEW y \in Nat, NEW z \in Nat, y <= z
  PROVE  DayIn(t, y) \in Nat /\ DayIn(u, z) \in Nat /\ DayIn(t, y) <= DayIn(u, z)
  <1> DEFINE v == t + y
             w == u + z
             a == v \div DayLength
             b == w \div DayLength
             c == v % DayLength
             d == w % DayLength
  <1>1. DayLength \in Nat /\ DayLength > 0
    BY DEF DateAssumption
  <1>2. v \in Nat /\ w \in Nat /\ v <= w
    OBVIOUS
  <1>3. /\ a \in Int /\ b \in Int /\ c \in 0..(DayLength - 1) /\ d \in 0..(DayLength - 1)
        /\ v = DayLength * a + c /\ w = DayLength * b + d
    <2> HIDE DEF v, w
    <2> QED
      BY <1>1, <1>2
  <1>4. DayIn(t, y) = a /\ DayIn(u, z) = b
    BY DEF DayIn
  <1> HIDE DEF v, w, a, b, c, d
  <1>5. a >= 0 /\ b >= 0 /\ a <= b
    BY <1>1, <1>2, <1>3
  <1> QED
    BY <1>3, <1>4, <1>5

LEMMA DaysOfInstants ==
  ASSUME DateAssumption
  PROVE  /\ Days \subseteq Nat /\ None \notin Days /\ 0 \in Days
         /\ Instants \subseteq Nat /\ None \notin Instants
         /\ Zones \subseteq Nat /\ 0 \in Zones
         /\ \A t \in 0..(Horizon + MaxAhead), z \in Zones : DayIn(t, z) \in Days
         /\ \A d \in Nat, e \in Days : d <= e => d \in Days
  <1>1. Horizon + MaxAhead \in Nat /\ MaxZone \in Nat
    BY DEF DateAssumption
  <1>2. DayIn(Horizon + MaxAhead, MaxZone) \in Nat
    BY <1>1, DayInMonotone
  <1>3. \A t \in 0..(Horizon + MaxAhead), z \in Zones : DayIn(t, z) \in Days
    <2>1. ASSUME NEW t \in 0..(Horizon + MaxAhead), NEW z \in Zones
          PROVE  /\ DayIn(t, z) \in Nat
                 /\ DayIn(t, z) <= DayIn(Horizon + MaxAhead, MaxZone)
      BY <1>1, DayInMonotone DEF Zones
    <2> QED
      BY <1>2, <2>1 DEF Days
  <1>4. Days \subseteq Nat /\ None \notin Days /\ 0 \in Days
    BY <1>2 DEF Days, None
  <1>5. Instants \subseteq Nat /\ None \notin Instants /\ Zones \subseteq Nat /\ 0 \in Zones
    BY DEF Instants, Zones, None, DateAssumption
  <1>6. \A d \in Nat, e \in Days : d <= e => d \in Days
    BY <1>2 DEF Days
  <1> QED
    BY <1>3, <1>4, <1>5, <1>6

-----------------------------------------------------------------------------
(* The invariant *)

\* Only an enabled feature's row is asked for; what was read of it is in the past, and
\* the flag is right while nothing has failed.
RowsAreEnabled ==
  /\ businessDate # None => enabled
  /\ flag = "on" => enabled
  /\ \A f \in flights : f.stage \in {"date", "read"} => enabled
  /\ \A f \in flights : f.stage = "read" =>
       /\ f.row \in Days \cup {None} /\ f.read \in Instants /\ f.read <= now
       /\ f.row # None => f.row <= bizDate
       /\ f.row = None => bizDate = None

\* No clock the service has heard is ahead of the platform's.
HeardInThePast ==
  /\ bizDate <= DayIn(now, tenantZone)
  /\ serverTime # None => serverTime <= now
  /\ flag = "off" /\ ~failed => ~enabled /\ (exposed => serverTime # None)

NotAhead(a) ==
  exposed /\ ~failed /\ a # NoAnswer /\ ZonesAgree => a.date <= Governing

\* The resolution that later callers share is running, or has emitted.
ResolutionRuns ==
  /\ resolution # None /\ buffer = NoAnswer => \E f \in flights : f.id = resolution
  /\ resolution = None => flights = {}
  /\ resolvedAt <= now /\ \A f \in flights : f.id <= resolvedAt

Inv ==
  /\ TypeOK /\ RowsAreEnabled /\ HeardInThePast /\ NotAhead(answer) /\ NotAhead(buffer)
  /\ ResolutionRuns /\ ReadsAreShared

(* What a date is when it is asked for: one of the days, and the row's if there is one. *)
LEMMA TodayTyped ==
  ASSUME DateAssumption, TypeOK, NEW biz \in Days \cup {None},
         NEW heard \in Instants \cup {None}
  PROVE  /\ Today(biz, heard) \in Days /\ Memoised(biz, heard) \in Days \cup {None}
         /\ biz # None => Today(biz, heard) = biz
         /\ biz = None /\ heard # None => Today(biz, heard) = DayIn(heard, zone)
  <1>1. now + ahead \in 0..(Horizon + MaxAhead)
    BY DEF TypeOK, Instants, DateAssumption
  <1>2. BrowserToday \in Days
    BY <1>1, DaysOfInstants DEF BrowserToday, TypeOK
  <1>3. heard # None => DayIn(heard, zone) \in Days
    BY DaysOfInstants DEF TypeOK, Instants, DateAssumption
  <1> QED
    BY <1>2, <1>3 DEF Today, Memoised

(* A resolution that emits: types, and what is handed out is one answer. *)
LEMMA EmitTyped ==
  ASSUME DateAssumption, Inv, NEW R \in SUBSET flights, NEW biz \in Days \cup {None},
         NEW heard \in Instants \cup {None}, NEW read \in Instants,
         Emit(R, biz, heard, read), UNCHANGED <<platform, resolution, resolvedAt>>,
         flag' \in {"unasked", "asking", "on", "off"}, failed' \in BOOLEAN
  PROVE  /\ TypeOK' /\ businessDate' = biz /\ serverTime' = heard /\ flights' = flights \ R
         /\ answer' = answer \/ answer'.date = Today(biz, heard)
         /\ buffer' = buffer \/ buffer'.date = Today(biz, heard)
         /\ ResolutionRuns' /\ ReadsAreShared'
  <1> DEFINE found == [date |-> Today(biz, heard), read |-> read, at |-> now]
  <1>1. Today(biz, heard) \in Days /\ Memoised(biz, heard) \in Days \cup {None}
    BY TodayTyped DEF Inv
  <1>2. found \in Answers /\ found.date = Today(biz, heard)
    BY <1>1 DEF Answers, Inv, TypeOK
  <1>3. found # NoAnswer
    BY <1>1, <1>2, DaysOfInstants DEF NoAnswer
  <1>4. /\ businessDate' = biz /\ serverTime' = heard /\ memo' = Memoised(biz, heard)
        /\ flights' = flights \ R
        /\ buffer' = IF \E f \in R : f.id = resolution THEN found ELSE buffer
        /\ answer' = IF \E s \in Screens, f \in R : waiting[s] = f.id THEN found ELSE answer
        /\ waiting' = [s \in Screens |-> IF \E f \in R : waiting[s] = f.id
                                          THEN None ELSE waiting[s]]
    BY DEF Emit
  <1>5. waiting' \in [Screens -> Instants \cup {None}]
    BY <1>4 DEF Inv, TypeOK
  <1>6. TypeOK'
    BY <1>1, <1>2, <1>4, <1>5 DEF Inv, TypeOK, platform
  <1>7. ResolutionRuns'
    <2>1. resolution # None /\ buffer' = NoAnswer => \E f \in flights' : f.id = resolution
      BY <1>3, <1>4 DEF Inv, ResolutionRuns
    <2> QED
      BY <1>4, <2>1 DEF Inv, ResolutionRuns, platform
  <1>8. ReadsAreShared'
    <2>1. ASSUME NEW s \in Screens, waiting'[s] # None
          PROVE  \E f \in flights' : f.id = waiting'[s]
      <3>1. waiting'[s] = waiting[s] /\ ~ \E f \in R : waiting[s] = f.id
        BY <1>4, <2>1
      <3> QED
        BY <1>4, <2>1, <3>1 DEF Inv, ReadsAreShared
    <2> QED
      BY <1>4, <2>1 DEF Inv, ReadsAreShared
  <1> QED
    BY <1>2, <1>4, <1>6, <1>7, <1>8

LEMMA InvInit ==
  ASSUME DateAssumption, Init
  PROVE  Inv
  <1>1. 0 \in Instants /\ 0 \in Days /\ 0 \in 0..MaxAhead
    BY DaysOfInstants DEF Instants, DateAssumption
  <1>2. TypeOK
    BY <1>1 DEF Init, TypeOK
  <1>3. bizDate <= DayIn(now, tenantZone)
    <2>1. DayIn(0, tenantZone) \in Nat
      BY <1>1, DaysOfInstants, DayInMonotone DEF Init
    <2> QED
      BY <2>1 DEF Init, None
  <1>4. RowsAreEnabled /\ HeardInThePast
    BY <1>3 DEF Init, RowsAreEnabled, HeardInThePast
  <1>5. NotAhead(answer) /\ NotAhead(buffer)
    BY DEF Init, NotAhead
  <1>6. ResolutionRuns /\ ReadsAreShared
    BY DEF Init, ResolutionRuns, ReadsAreShared
  <1> QED
    BY <1>2, <1>4, <1>5, <1>6 DEF Inv

(* The facts about the numbers that the steps below rest on. *)
LEMMA Numbers ==
  ASSUME DateAssumption, TypeOK
  PROVE  /\ now \in Nat /\ resolvedAt \in Nat /\ bizDate \in Int /\ Window \in Nat
         /\ bizDate # None => bizDate \in Nat
         /\ tenantZone \in Nat /\ zone \in Nat
         /\ DayIn(now, tenantZone) \in Nat /\ DayIn(now, tenantZone) \in Days
         /\ resolution # None => resolution \in Nat
         /\ serverTime # None => serverTime \in Nat /\ DayIn(serverTime, zone) \in Nat
         /\ \A f \in flights : f.id \in Nat
         /\ answer # NoAnswer => answer.date \in Nat
         /\ buffer # NoAnswer => buffer \in Answers /\ buffer.date \in Nat
  <1>1. /\ now \in Nat /\ resolvedAt \in Nat /\ bizDate \in Int /\ Window \in Nat
        /\ bizDate # None => bizDate \in Nat
        /\ tenantZone \in Nat /\ zone \in Nat
    BY DaysOfInstants DEF TypeOK, DateAssumption, None
  <1>2. DayIn(now, tenantZone) \in Nat /\ DayIn(now, tenantZone) \in Days
    <2>1. now \in 0..(Horizon + MaxAhead)
      BY DEF TypeOK, Instants, DateAssumption
    <2> QED
      BY <1>1, <2>1, DaysOfInstants DEF TypeOK
  <1>3. serverTime # None => serverTime \in Nat /\ DayIn(serverTime, zone) \in Nat
    BY <1>1, DaysOfInstants, DayInMonotone DEF TypeOK
  <1>4. \A f \in flights : f.id \in Nat
    BY DaysOfInstants DEF TypeOK, Flights
  <1>5. answer # NoAnswer => answer.date \in Nat
    BY DaysOfInstants DEF TypeOK, Answers
  <1>6. buffer # NoAnswer => buffer \in Answers /\ buffer.date \in Nat
    BY DaysOfInstants DEF TypeOK, Answers
  <1>7. resolution # None => resolution \in Nat
    BY DaysOfInstants DEF TypeOK
  <1> QED
    BY <1>1, <1>2, <1>3, <1>4, <1>5, <1>6, <1>7

(* The platform's own steps, and the dates that screens read at once. *)
LEMMA PlatformStep ==
  ASSUME DateAssumption, Inv, Tick \/ CloseOfBusiness \/ OtherResponse \/ Seed
  PROVE  Inv'
  <1>0. /\ TypeOK /\ RowsAreEnabled /\ HeardInThePast /\ NotAhead(answer)
        /\ NotAhead(buffer) /\ ResolutionRuns /\ ReadsAreShared
    BY DEF Inv
  <1>n. /\ now \in Nat /\ resolvedAt \in Nat /\ bizDate \in Int
        /\ bizDate # None => bizDate \in Nat
        /\ tenantZone \in Nat /\ zone \in Nat
        /\ DayIn(now, tenantZone) \in Nat /\ DayIn(now, tenantZone) \in Days
        /\ serverTime # None => serverTime \in Nat /\ DayIn(serverTime, zone) \in Nat
        /\ \A f \in flights : f.id \in Nat
        /\ answer # NoAnswer => answer.date \in Nat
        /\ buffer # NoAnswer => buffer.date \in Nat
    BY <1>0, Numbers
  <1>1. CASE Tick
    <2>1. now' = now + 1 /\ now' \in Instants /\ UNCHANGED <<ahead, enabled, bizDate,
             tenantZone, zone, exposed, businessDate, serverTime, memo, cache, waiting, answer,
             failed>>
      BY <1>0, <1>1, <1>n DEF Tick, Instants, DateAssumption
    <2>2. DayIn(now', tenantZone) \in Nat /\ DayIn(now, tenantZone) <= DayIn(now', tenantZone)
      BY <1>n, <2>1, DayInMonotone
    <2>3. TypeOK'
      BY <1>0, <2>1 DEF TypeOK, cache
    <2>4. RowsAreEnabled'
      <3>1. \A f \in flights : f.stage = "read" => f.read <= now + 1
        BY <1>0, <1>n, DaysOfInstants DEF RowsAreEnabled
      <3> QED
        BY <1>0, <2>1, <3>1 DEF RowsAreEnabled, cache
    <2>5. HeardInThePast'
      BY <1>0, <1>n, <2>1, <2>2 DEF HeardInThePast, cache
    <2>6. NotAhead(answer)' /\ NotAhead(buffer)'
      BY <1>0, <1>n, <2>1, <2>2 DEF NotAhead, Governing, ZonesAgree, cache
    <2>7. ResolutionRuns' /\ ReadsAreShared'
      BY <1>0, <1>n, <2>1 DEF ResolutionRuns, ReadsAreShared, cache
    <2> QED
      BY <2>3, <2>4, <2>5, <2>6, <2>7 DEF Inv
  <1>2. CASE CloseOfBusiness
    <2>1. /\ bizDate' = bizDate + 1 /\ bizDate # None /\ bizDate < DayIn(now, tenantZone)
          /\ UNCHANGED <<now, ahead, enabled, tenantZone, zone,
             exposed, businessDate, serverTime, memo, cache, waiting, answer, failed>>
      BY <1>2 DEF CloseOfBusiness
    <2>2. bizDate' \in Days /\ bizDate' # None /\ bizDate' <= DayIn(now, tenantZone)
      BY <1>n, <2>1, DaysOfInstants
    <2>3. TypeOK'
      BY <1>0, <2>1, <2>2 DEF TypeOK, cache
    <2>4. RowsAreEnabled'
      BY <1>0, <1>n, <2>1, DaysOfInstants DEF RowsAreEnabled, cache
    <2>5. HeardInThePast'
      BY <1>0, <1>n, <2>1, <2>2 DEF HeardInThePast, cache
    <2>6. NotAhead(answer)' /\ NotAhead(buffer)'
      BY <1>0, <1>n, <2>1 DEF NotAhead, Governing, ZonesAgree, cache
    <2>7. ResolutionRuns' /\ ReadsAreShared'
      BY <1>0, <2>1 DEF ResolutionRuns, ReadsAreShared, cache
    <2> QED
      BY <2>3, <2>4, <2>5, <2>6, <2>7 DEF Inv
  <1>3. CASE OtherResponse \/ Seed
    <2>1. UNCHANGED <<platform, businessDate, cache, waiting, answer, failed>>
      BY <1>3 DEF OtherResponse, Seed
    <2>2. serverTime' = serverTime \/ serverTime' = now
      BY <1>3 DEF OtherResponse, Seed, Heard
    <2>3. memo' \in Days \cup {None}
      <3>1. memo \in Days \cup {None} /\ businessDate \in Days \cup {None}
            /\ serverTime \in Instants \cup {None}
        BY <1>0 DEF TypeOK
      <3>2. Memoised(businessDate, serverTime) \in Days \cup {None}
        BY <1>0, <3>1, TodayTyped
      <3> QED
        BY <1>3, <3>1, <3>2 DEF OtherResponse, Seed
    <2>4. TypeOK'
      BY <1>0, <2>1, <2>2, <2>3 DEF TypeOK, platform, cache
    <2>5. RowsAreEnabled'
      BY <1>0, <2>1 DEF RowsAreEnabled, platform, cache
    <2>6. HeardInThePast'
      <3>1. now # None
        BY <1>0, DaysOfInstants DEF TypeOK
      <3>2. serverTime' # None => serverTime' <= now
        BY <1>0, <1>n, <2>2 DEF HeardInThePast
      <3>3. serverTime # None => serverTime' # None
        BY <2>2, <3>1
      <3> QED
        BY <1>0, <2>1, <3>2, <3>3 DEF HeardInThePast, platform, cache
    <2>7. NotAhead(answer)' /\ NotAhead(buffer)'
      BY <1>0, <2>1 DEF NotAhead, Governing, ZonesAgree, platform, cache
    <2>8. ResolutionRuns' /\ ReadsAreShared'
      BY <1>0, <2>1 DEF ResolutionRuns, ReadsAreShared, platform, cache
    <2> QED
      BY <2>4, <2>5, <2>6, <2>7, <2>8 DEF Inv
  <1> QED
    BY <1>1, <1>2, <1>3

(* A screen asks: it joins what runs, is replayed what was emitted, or begins anew. *)
LEMMA ResolveStep ==
  ASSUME DateAssumption, Inv, NEW s \in Screens, ResolveToday(s)
  PROVE  Inv'
  <1>0. /\ TypeOK /\ RowsAreEnabled /\ HeardInThePast /\ NotAhead(answer)
        /\ NotAhead(buffer) /\ ResolutionRuns /\ ReadsAreShared
    BY DEF Inv
  <1>n. /\ now \in Nat /\ resolvedAt \in Nat /\ bizDate \in Int /\ Window \in Nat
        /\ bizDate # None => bizDate \in Nat
        /\ tenantZone \in Nat /\ zone \in Nat
        /\ DayIn(now, tenantZone) \in Nat /\ DayIn(now, tenantZone) \in Days
        /\ serverTime # None => serverTime \in Nat /\ DayIn(serverTime, zone) \in Nat
        /\ \A f \in flights : f.id \in Nat
        /\ answer # NoAnswer => answer.date \in Nat
        /\ buffer # NoAnswer => buffer \in Answers /\ buffer.date \in Nat
    BY <1>0, Numbers
  <1>r. waiting[s] = None /\ resolvedAt' = now /\ UNCHANGED <<platform, failed>>
    BY DEF ResolveToday
  <1>p. UNCHANGED <<now, ahead, enabled, bizDate, tenantZone, zone, exposed, failed>>
    BY <1>r DEF platform
  <1>i. now \in Instants /\ now # None
    BY <1>0, DaysOfInstants DEF TypeOK
  <1>1. CASE Join(s)
    <2>1. /\ resolution # None /\ buffer = NoAnswer
          /\ waiting' = [waiting EXCEPT ![s] = resolution]
          /\ UNCHANGED <<businessDate, serverTime, memo, flag, resolution, buffer, flights,
                         answer>>
      BY <1>1 DEF Join, Kept
    <2>2. TypeOK'
      BY <1>0, <1>i, <1>p, <1>r, <2>1 DEF TypeOK
    <2>3. RowsAreEnabled' /\ HeardInThePast' /\ NotAhead(answer)' /\ NotAhead(buffer)'
      BY <1>0, <1>p, <2>1 DEF RowsAreEnabled, HeardInThePast, NotAhead, Governing, ZonesAgree
    <2>4. ResolutionRuns'
      BY <1>0, <1>n, <1>p, <1>r, <2>1 DEF ResolutionRuns
    <2>5. PICK f \in flights : f.id = resolution
      BY <1>0, <2>1 DEF ResolutionRuns
    <2>6. \A t \in Screens : waiting'[t] # None => \E g \in flights : g.id = waiting'[t]
      BY <1>0, <2>1, <2>5 DEF ReadsAreShared, TypeOK
    <2>7. ReadsAreShared'
      BY <1>0, <2>1, <2>6 DEF ReadsAreShared
    <2> QED
      BY <2>2, <2>3, <2>4, <2>7 DEF Inv
  <1>2. CASE Replay(s)
    <2>1. /\ buffer # NoAnswer /\ answer' = [buffer EXCEPT !.at = now]
          /\ UNCHANGED <<businessDate, serverTime, memo, flag, resolution, buffer, flights,
                         waiting>>
      BY <1>2 DEF Replay
    <2>2. answer' \in Answers /\ answer'.date = buffer.date
      BY <1>i, <1>n, <2>1 DEF Answers
    <2>3. TypeOK'
      BY <1>0, <1>i, <1>p, <1>r, <2>1, <2>2 DEF TypeOK
    <2>4. RowsAreEnabled' /\ HeardInThePast' /\ NotAhead(buffer)'
      BY <1>0, <1>p, <2>1 DEF RowsAreEnabled, HeardInThePast, NotAhead, Governing, ZonesAgree
    <2>5. NotAhead(answer)'
      BY <1>0, <1>p, <2>1, <2>2 DEF NotAhead, Governing, ZonesAgree
    <2>6. ResolutionRuns'
      BY <1>0, <1>n, <1>p, <1>r, <2>1 DEF ResolutionRuns
    <2>7. ReadsAreShared'
      BY <1>0, <2>1 DEF ReadsAreShared
    <2> QED
      BY <2>3, <2>4, <2>5, <2>6, <2>7 DEF Inv
  <1>3. CASE Create(s)
    <2> DEFINE new == [id |-> now, row |-> None, read |-> None,
                       stage |-> IF flag = "on" THEN "date" ELSE "flag"]
    <2>1. /\ Kept = None /\ flag # "off"
          /\ flag' = IF flag = "unasked" THEN "asking" ELSE flag
          /\ resolution' = now /\ buffer' = NoAnswer /\ flights' = flights \cup {new}
          /\ waiting' = [waiting EXCEPT ![s] = now]
          /\ UNCHANGED <<businessDate, serverTime, memo, answer>>
      BY <1>3 DEF Create
    <2>2. new \in Flights /\ new.id = now /\ new.stage # "read"
          /\ (new.stage = "date" => flag = "on")
      BY <1>i DEF Flights
    <2>3. \A f \in flights : now - f.id > Window
      <3>1. resolution = None \/ now - resolvedAt > Window
        BY <2>1 DEF Kept
      <3> QED
        BY <1>0, <1>n, <3>1 DEF ResolutionRuns
    <2>4. TypeOK'
      BY <1>0, <1>i, <1>p, <1>r, <2>1, <2>2 DEF TypeOK
    <2>5. RowsAreEnabled'
      BY <1>0, <1>p, <2>1, <2>2 DEF RowsAreEnabled
    <2>6. HeardInThePast' /\ NotAhead(answer)' /\ NotAhead(buffer)'
      BY <1>0, <1>p, <2>1 DEF HeardInThePast, NotAhead, Governing, ZonesAgree
    <2>7. ResolutionRuns'
      BY <1>0, <1>i, <1>n, <1>p, <1>r, <2>1, <2>2 DEF ResolutionRuns
    <2>8. \A f, g \in flights' : f # g => f.id - g.id > Window \/ g.id - f.id > Window
      BY <1>0, <1>n, <2>1, <2>2, <2>3 DEF ReadsAreShared
    <2>9. \A t \in Screens : waiting'[t] # None => \E f \in flights' : f.id = waiting'[t]
      BY <1>0, <2>1, <2>2 DEF ReadsAreShared, TypeOK
    <2> QED
      BY <2>4, <2>5, <2>6, <2>7, <2>8, <2>9 DEF Inv, ReadsAreShared
  <1>4. CASE CreateOff(s)
    <2> DEFINE found == [date |-> Today(None, serverTime), read |-> now, at |-> now]
    <2>1. /\ flag = "off" /\ buffer' = found /\ answer' = found
          /\ businessDate' = None /\ memo' = Memoised(None, serverTime)
          /\ resolution' = now /\ UNCHANGED <<serverTime, flag, flights, waiting>>
      BY <1>4 DEF CreateOff
    <2>2. /\ Today(None, serverTime) \in Days /\ Memoised(None, serverTime) \in Days \cup {None}
          /\ serverTime # None => Today(None, serverTime) = DayIn(serverTime, zone)
      <3>1. serverTime \in Instants \cup {None}
        BY <1>0 DEF TypeOK
      <3> QED
        BY <1>0, <3>1, TodayTyped
    <2>3. found \in Answers /\ found.date = Today(None, serverTime) /\ found # NoAnswer
      BY <1>i, <2>2, DaysOfInstants DEF Answers, NoAnswer
    <2>4. TypeOK'
      BY <1>0, <1>i, <1>p, <1>r, <2>1, <2>2, <2>3 DEF TypeOK
    <2>5. RowsAreEnabled' /\ HeardInThePast'
      BY <1>0, <1>p, <2>1 DEF RowsAreEnabled, HeardInThePast
    <2>6. exposed /\ ~failed /\ ZonesAgree => found.date <= Governing
      <3>1. exposed /\ ~failed => ~enabled /\ serverTime # None /\ serverTime <= now
        BY <1>0, <2>1 DEF HeardInThePast
      <3>2. exposed /\ ~failed /\ ZonesAgree =>
              DayIn(serverTime, zone) <= DayIn(now, tenantZone)
        BY <1>n, <3>1, DayInMonotone DEF ZonesAgree
      <3> QED
        BY <2>2, <2>3, <3>1, <3>2 DEF Governing
    <2>7. NotAhead(answer)' /\ NotAhead(buffer)'
      BY <1>p, <2>1, <2>6 DEF NotAhead, Governing, ZonesAgree
    <2>8. ResolutionRuns'
      BY <1>0, <1>i, <1>n, <1>p, <1>r, <2>1, <2>3 DEF ResolutionRuns
    <2>9. ReadsAreShared'
      BY <1>0, <2>1 DEF ReadsAreShared
    <2> QED
      BY <2>4, <2>5, <2>7, <2>8, <2>9 DEF Inv
  <1> QED
    BY <1>1, <1>2, <1>3, <1>4 DEF ResolveToday

(* Some flights reach another stage: what is shared and what runs are the same. *)
LEMMA FlightsGoOn ==
  ASSUME DateAssumption, Inv, NEW R \in SUBSET flights, NEW S \in SUBSET Flights,
         flights' = (flights \ R) \cup S,
         \A g \in S : \E f \in R : g.id = f.id,
         \A f \in R : \E g \in S : g.id = f.id,
         \A g, h \in S : g.id = h.id => g = h,
         UNCHANGED <<now, resolution, resolvedAt, buffer, waiting>>
  PROVE  ResolutionRuns' /\ ReadsAreShared'
  <1>0. ResolutionRuns /\ ReadsAreShared
    BY DEF Inv
  <1>n. Window \in Nat /\ \A f \in flights : f.id \in Nat
    BY Numbers DEF Inv
  <1>1. \A g \in flights' : \E f \in flights : g.id = f.id
    OBVIOUS
  <1>2. \A f \in flights : \E g \in flights' : g.id = f.id
    OBVIOUS
  <1>3. ResolutionRuns'
    <2>1. resolution' # None /\ buffer' = NoAnswer => \E g \in flights' : g.id = resolution'
      BY <1>0, <1>2 DEF ResolutionRuns
    <2>2. resolution' = None => flights' = {}
      BY <1>0, <1>1 DEF ResolutionRuns
    <2>3. resolvedAt' <= now' /\ \A g \in flights' : g.id <= resolvedAt'
      BY <1>0, <1>1 DEF ResolutionRuns
    <2> QED
      BY <2>1, <2>2, <2>3 DEF ResolutionRuns
  <1>4. ASSUME NEW g \in flights', NEW h \in flights', g # h
        PROVE  g.id - h.id > Window \/ h.id - g.id > Window
    <2>1. ASSUME NEW f \in flights \ R, NEW k \in S
          PROVE  f.id - k.id > Window \/ k.id - f.id > Window
      BY <1>0, <2>1 DEF ReadsAreShared
    <2>2. ASSUME NEW k \in S, NEW l \in S, k # l
          PROVE  k.id - l.id > Window \/ l.id - k.id > Window
      <3>1. PICK e \in R, f \in R : k.id = e.id /\ l.id = f.id
        OBVIOUS
      <3>2. e # f
        BY <2>2, <3>1
      <3> QED
        BY <1>0, <3>1, <3>2 DEF ReadsAreShared
    <2>3. CASE g \in flights \ R /\ h \in flights \ R
      BY <1>0, <1>4, <2>3 DEF ReadsAreShared
    <2> QED
      BY <1>4, <2>1, <2>2, <2>3
  <1>5. ASSUME NEW s \in Screens, waiting'[s] # None
        PROVE  \E g \in flights' : g.id = waiting'[s]
    BY <1>0, <1>2, <1>5 DEF ReadsAreShared
  <1> QED
    BY <1>3, <1>4, <1>5 DEF ReadsAreShared

(* A resolution emits a date that is not ahead, or a read has failed. *)
LEMMA EmitStep ==
  ASSUME DateAssumption, Inv, NEW R \in SUBSET flights, NEW biz \in Days \cup {None},
         NEW heard \in Instants \cup {None}, NEW read \in Instants,
         Emit(R, biz, heard, read), UNCHANGED <<platform, resolution, resolvedAt>>,
         flag' \in {"unasked", "asking", "on", "off"}, failed' \in BOOLEAN,
         failed => failed', biz # None => enabled, flag' = "on" => enabled,
         heard # None => heard <= now,
         flag' = "off" /\ ~failed' => ~enabled /\ (exposed => heard # None),
         exposed /\ ~failed' /\ ZonesAgree => Today(biz, heard) <= Governing
  PROVE  Inv'
  <1>0. /\ TypeOK /\ RowsAreEnabled /\ HeardInThePast /\ NotAhead(answer)
        /\ NotAhead(buffer)
    BY DEF Inv
  <1>1. /\ TypeOK' /\ businessDate' = biz /\ serverTime' = heard /\ flights' = flights \ R
        /\ answer' = answer \/ answer'.date = Today(biz, heard)
        /\ buffer' = buffer \/ buffer'.date = Today(biz, heard)
        /\ ResolutionRuns' /\ ReadsAreShared'
    BY EmitTyped
  <1>p. UNCHANGED <<now, enabled, bizDate, tenantZone, zone, exposed>>
    BY DEF platform
  <1>2. RowsAreEnabled'
    BY <1>0, <1>1, <1>p DEF RowsAreEnabled
  <1>3. HeardInThePast'
    BY <1>0, <1>1, <1>p DEF HeardInThePast
  <1>4. NotAhead(answer)' /\ NotAhead(buffer)'
    BY <1>0, <1>1, <1>p DEF NotAhead, Governing, ZonesAgree
  <1> QED
    BY <1>1, <1>2, <1>3, <1>4 DEF Inv

LEMMA FlagStep ==
  ASSUME DateAssumption, Inv, NEW ok \in BOOLEAN, FlagAnswers(ok)
  PROVE  Inv'
  <1> DEFINE asked == {f \in flights : f.stage = "flag"}
             heard == IF ok THEN Heard ELSE serverTime
             onwards == {[f EXCEPT !.stage = "date"] : f \in asked}
  <1>0. TypeOK /\ RowsAreEnabled /\ HeardInThePast /\ NotAhead(answer) /\ NotAhead(buffer)
    BY DEF Inv
  <1>n. now \in Nat /\ now \in Instants /\ now # None
    BY <1>0, Numbers, DaysOfInstants DEF TypeOK
  <1>1. /\ flag' = Resolved(ok) /\ failed' = (failed \/ ~ok)
        /\ UNCHANGED <<platform, resolution, resolvedAt>>
    BY DEF FlagAnswers
  <1>2. /\ heard \in Instants \cup {None} /\ (heard # None => heard <= now)
        /\ ok /\ exposed => heard = now
    BY <1>0, <1>n DEF Heard, TypeOK, HeardInThePast
  <1>3. /\ Resolved(ok) \in {"on", "off"} /\ (Resolved(ok) = "on" => enabled)
        /\ Resolved(ok) = "off" /\ ok => ~enabled
    BY DEF Resolved
  <1>4. CASE Resolved(ok) = "off"
    <2>1. Emit(asked, None, heard, now)
      BY <1>4 DEF FlagAnswers
    <2>2. exposed /\ ~failed' /\ ZonesAgree => Today(None, heard) <= Governing
      <3>1. exposed /\ ~failed' => heard = now /\ ~enabled
        BY <1>1, <1>2, <1>3, <1>4
      <3>2. heard # None => Today(None, heard) = DayIn(heard, zone)
        BY <1>0, <1>2, TodayTyped
      <3>3. exposed /\ ~failed' /\ ZonesAgree => DayIn(now, zone) <= DayIn(now, tenantZone)
        <4>1. tenantZone \in Nat /\ zone \in Nat
          BY <1>0, Numbers
        <4> QED
          BY <1>n, <3>1, <4>1, DayInMonotone DEF ZonesAgree
      <3> QED
        BY <1>n, <3>1, <3>2, <3>3 DEF Governing
    <2>3. asked \in SUBSET flights /\ failed' \in BOOLEAN /\ (failed => failed')
      BY <1>1
    <2>4. flag' = "off" /\ ~failed' => ~enabled /\ (exposed => heard # None)
      BY <1>1, <1>2, <1>3, <1>4, <1>n
    <2> HIDE DEF asked, heard
    <2> QED
      BY <1>1, <1>2, <1>3, <1>4, <1>n, <2>1, <2>2, <2>3, <2>4, EmitStep
  <1>5. CASE Resolved(ok) = "on"
    <2>1. /\ serverTime' = heard /\ memo' = IF heard = serverTime THEN memo ELSE None
          /\ flights' = (flights \ asked) \cup onwards
          /\ UNCHANGED <<businessDate, buffer, waiting, answer>>
      BY <1>5 DEF FlagAnswers
    <2>2. onwards \in SUBSET Flights /\ \A g \in onwards : g.stage = "date"
      BY <1>0 DEF TypeOK, Flights
    <2>3. /\ \A g \in onwards : \E f \in asked : g.id = f.id
          /\ \A f \in asked : \E g \in onwards : g.id = f.id
      <3>1. \A f \in asked : [f EXCEPT !.stage = "date"].id = f.id
        BY <1>0 DEF TypeOK, Flights
      <3>2. ASSUME NEW f \in asked
            PROVE  \E g \in onwards : g.id = f.id
        <4>1. [f EXCEPT !.stage = "date"] \in onwards
          OBVIOUS
        <4> QED
          BY <3>1, <4>1
      <3>3. ASSUME NEW g \in onwards
            PROVE  \E f \in asked : g.id = f.id
        BY <3>1
      <3> QED
        BY <3>2, <3>3
    <2>4. \A g, h \in onwards : g.id = h.id => g = h
      <3>1. \A f, g \in asked : f.id = g.id => f = g
        <4>1. Window \in Nat /\ \A f \in flights : f.id \in Nat
          BY <1>0, Numbers
        <4> QED
          BY <4>1 DEF Inv, ReadsAreShared
      <3>2. \A f \in asked : [f EXCEPT !.stage = "date"].id = f.id
        BY <1>0 DEF TypeOK, Flights
      <3>3. ASSUME NEW g \in onwards, NEW h \in onwards, g.id = h.id
            PROVE  g = h
        <4>1. PICK e \in asked, f \in asked : /\ g = [e EXCEPT !.stage = "date"]
                                              /\ h = [f EXCEPT !.stage = "date"]
          OBVIOUS
        <4>2. e.id = f.id
          BY <3>2, <3>3, <4>1
        <4>3. e = f
          BY <3>1, <4>2
        <4> QED
          BY <4>1, <4>3
      <3> QED
        BY <3>3
    <2>5. UNCHANGED <<now, ahead, enabled, bizDate, tenantZone, zone, exposed>> /\ enabled
      BY <1>1, <1>3, <1>5 DEF platform
    <2>6. TypeOK'
      BY <1>0, <1>1, <1>2, <1>5, <2>1, <2>2, <2>5 DEF TypeOK
    <2>7. RowsAreEnabled'
      BY <1>0, <2>1, <2>2, <2>5 DEF RowsAreEnabled
    <2>8. HeardInThePast'
      BY <1>0, <1>1, <1>2, <1>5, <2>1, <2>5 DEF HeardInThePast
    <2>9. NotAhead(answer)' /\ NotAhead(buffer)'
      BY <1>0, <1>1, <2>1, <2>5 DEF NotAhead, Governing, ZonesAgree
    <2>10. asked \in SUBSET flights
      OBVIOUS
    <2>11. ResolutionRuns' /\ ReadsAreShared'
      <3> HIDE DEF asked, onwards
      <3> QED
        BY <1>1, <2>1, <2>2, <2>3, <2>4, <2>5, <2>10, FlightsGoOn
    <2> QED
      BY <2>6, <2>7, <2>8, <2>9, <2>11 DEF Inv
  <1> QED
    BY <1>3, <1>4, <1>5

LEMMA FlightStep ==
  ASSUME DateAssumption, Inv, NEW f \in flights,
         PlatformReads(f) \/ DateArrives(f) \/ DateFails(f)
  PROVE  Inv'
  <1>0. TypeOK /\ RowsAreEnabled /\ HeardInThePast /\ NotAhead(answer) /\ NotAhead(buffer)
    BY DEF Inv
  <1>n. now \in Nat /\ now \in Instants /\ bizDate \in Days \cup {None} /\ bizDate \in Int
    BY <1>0, Numbers DEF TypeOK
  <1>t. /\ flag \in {"unasked", "asking", "on", "off"} /\ failed \in BOOLEAN
        /\ serverTime \in Instants \cup {None} /\ (serverTime # None => serverTime <= now)
        /\ flag = "off" /\ ~failed => ~enabled /\ (exposed => serverTime # None)
        /\ (flag = "on" => enabled)
    BY <1>0 DEF TypeOK, HeardInThePast, RowsAreEnabled
  <1>1. CASE PlatformReads(f)
    <2> DEFINE g == [f EXCEPT !.stage = "read", !.row = bizDate, !.read = now]
    <2>1. /\ f.stage = "date" /\ flights' = (flights \ {f}) \cup {g}
          /\ UNCHANGED <<platform, businessDate, serverTime, memo, flag, resolution,
                         resolvedAt, buffer, waiting, answer, failed>>
      BY <1>1 DEF PlatformReads
    <2>2. /\ g \in Flights /\ g.stage = "read" /\ g.row = bizDate /\ g.read = now
          /\ g.id = f.id
      BY <1>0, <1>n DEF TypeOK, Flights
    <2>3. enabled /\ UNCHANGED <<now, ahead, enabled, bizDate, tenantZone, zone, exposed>>
      BY <1>0, <2>1 DEF RowsAreEnabled, platform
    <2>4. TypeOK'
      BY <1>0, <2>1, <2>2, <2>3 DEF TypeOK
    <2>5. RowsAreEnabled'
      <3>1. bizDate <= bizDate /\ now <= now
        BY <1>n, DaysOfInstants
      <3> QED
        BY <1>0, <1>n, <2>1, <2>2, <2>3, <3>1 DEF RowsAreEnabled
    <2>6. HeardInThePast' /\ NotAhead(answer)' /\ NotAhead(buffer)'
      BY <1>0, <2>1, <2>3 DEF HeardInThePast, NotAhead, Governing, ZonesAgree
    <2>7. ResolutionRuns' /\ ReadsAreShared'
      <3>1. {f} \in SUBSET flights /\ {g} \in SUBSET Flights
        BY <2>2
      <3>2. /\ \A h \in {g} : \E k \in {f} : h.id = k.id
            /\ \A k \in {f} : \E h \in {g} : h.id = k.id
        BY <2>2
      <3> HIDE DEF g
      <3> QED
        BY <2>1, <2>3, <3>1, <3>2, FlightsGoOn
    <2> QED
      BY <2>4, <2>5, <2>6, <2>7 DEF Inv
  <1>2. CASE DateArrives(f)
    <2> DEFINE heard == IF exposed THEN f.read ELSE serverTime
    <2>1. /\ f.stage = "read" /\ Emit({f}, f.row, heard, f.read)
          /\ UNCHANGED <<platform, flag, resolution, resolvedAt, failed>>
      BY <1>2 DEF DateArrives
    <2>2. /\ enabled /\ f.row \in Days \cup {None} /\ f.read \in Instants /\ f.read <= now
          /\ f.row # None => f.row <= bizDate
          /\ f.row = None => bizDate = None
      BY <1>0, <2>1 DEF RowsAreEnabled
    <2>3. /\ heard \in Instants \cup {None} /\ (heard # None => heard <= now)
          /\ (exposed => heard # None)
      BY <1>t, <2>2, DaysOfInstants
    <2>4. exposed /\ ~failed' /\ ZonesAgree => Today(f.row, heard) <= Governing
      <3> HIDE DEF heard
      <3>1. CASE f.row # None
        <4>1. Today(f.row, heard) = f.row
          BY <1>0, <2>2, <2>3, <3>1, TodayTyped
        <4>2. bizDate # None
          <5>1. f.row \in Nat /\ f.row <= bizDate
            BY <2>2, <3>1, DaysOfInstants
          <5> QED
            BY <1>n, <5>1 DEF None
        <4> QED
          BY <2>2, <3>1, <4>1, <4>2 DEF Governing
      <3>2. CASE f.row = None
        <4>1. bizDate = None /\ Governing = DayIn(now, tenantZone)
          BY <2>2, <3>2 DEF Governing
        <4>2. /\ tenantZone \in Nat /\ zone \in Nat
              /\ heard # None => heard \in Nat /\ heard <= now
          BY <1>0, <2>3, Numbers, DaysOfInstants
        <4>3. heard # None => Today(f.row, heard) = DayIn(heard, zone)
          BY <1>0, <2>2, <2>3, <3>2, TodayTyped
        <4>4. heard # None /\ ZonesAgree => DayIn(heard, zone) <= DayIn(now, tenantZone)
          BY <1>n, <4>1, <4>2, DayInMonotone DEF ZonesAgree
        <4> QED
          BY <2>3, <4>1, <4>3, <4>4
      <3> QED
        BY <3>1, <3>2
    <2>5. {f} \in SUBSET flights
      OBVIOUS
    <2> HIDE DEF heard
    <2> QED
      BY <1>t, <2>1, <2>2, <2>3, <2>4, <2>5, EmitStep
  <1>3. CASE DateFails(f)
    <2>1. /\ failed' = TRUE /\ Emit({f}, None, serverTime, now)
          /\ UNCHANGED <<platform, flag, resolution, resolvedAt>>
      BY <1>3 DEF DateFails
    <2>2. {f} \in SUBSET flights
      OBVIOUS
    <2> QED
      BY <1>n, <1>t, <2>1, <2>2, EmitStep
  <1> QED
    BY <1>1, <1>2, <1>3

LEMMA InvStep ==
  ASSUME DateAssumption, Inv, [Next]_vars
  PROVE  Inv'
  <1>1. CASE UNCHANGED vars
    BY <1>1 DEF vars, platform, cache, Inv, TypeOK, RowsAreEnabled, HeardInThePast,
       NotAhead, Governing, ZonesAgree, ResolutionRuns, ReadsAreShared
  <1>2. CASE Next
    BY <1>2, PlatformStep, ResolveStep, FlagStep, FlightStep DEF Next
  <1> QED
    BY <1>1, <1>2

LEMMA Invariant == ASSUME DateAssumption PROVE Spec => []Inv
  BY InvInit, InvStep, PTL DEF Spec

-----------------------------------------------------------------------------
(* Type correctness, for any window and horizon: what a screen is given is a day, and *)
(* never the placeholder of a row that was not read.                                  *)
THEOREM DateTypeCorrect ==
  ASSUME DateAssumption
  PROVE  Spec => []TypeOK
  <1>1. Inv => TypeOK
    BY DEF Inv
  <1> QED
    BY <1>1, Invariant, PTL

(* A row left behind by a feature that was switched off never seeds a date. *)
THEOREM OnlyEnabledRows ==
  ASSUME DateAssumption
  PROVE  Spec => []OnlyAnEnabledRowGoverns
  <1>1. Inv => OnlyAnEnabledRowGoverns
    BY DEF Inv, RowsAreEnabled, OnlyAnEnabledRowGoverns
  <1> QED
    BY <1>1, Invariant, PTL

(* While the reads succeed and Date headers are seen, no date that resolveToday() gave  *)
(* a screen is ahead of the one that governs the platform, wherever in the window it    *)
(* was asked for and however far ahead the browser's clock is, if the zone the service  *)
(* formats in is not east of the tenant's or a business date governs.  Without that     *)
(* condition it is false: the default zone is Asia/Kolkata whatever the tenant's is.    *)
THEOREM NeverAhead ==
  ASSUME DateAssumption
  PROVE  Spec => []ResolvedIsNeverAhead
  <1>1. Inv => ResolvedIsNeverAhead
    BY DEF Inv, NotAhead, ZonesAgree, ResolvedIsNeverAhead
  <1> QED
    BY <1>1, Invariant, PTL

(* Whatever resolutions run at the same time were created more than a window apart, and *)
(* what a screen waits on is running.                                                   *)
THEOREM ReadsShared ==
  ASSUME DateAssumption
  PROVE  Spec => []ReadsAreShared
  <1>1. Inv => ReadsAreShared
    BY DEF Inv
  <1> QED
    BY <1>1, Invariant, PTL
=============================================================================
