----------------------- MODULE RequestPipeline_proofs -----------------------
(***************************************************************************)
(* What holds of the request pipeline whatever the calls, the commands,    *)
(* the retries and the network: its types, one flight per command, one     *)
(* application per submission, and a success only of what was applied.     *)
(***************************************************************************)
EXTENDS RequestPipeline, TLAPS

CallStates == [status : Statuses, what : Requests \cup {None},
               flight : Calls \cup {None}, epoch : 0..MaxEpoch]
FlightStates == [phase : Phases, n : Attempts]

(* A flight has something in it only after its call was made, an answer travels only to  *)
(* an attempt that is out, and a backoff has a try left.                                 *)
Started ==
  /\ \A c \in Calls : call[c].status = "idle" => flight[c].phase = "none"
  /\ \A f \in Calls : reply[f] # None => flight[f].phase = "out"
  /\ \A f \in Calls : flight[f].phase = "backoff" => flight[f].n <= Retries

(* Every call that was made has a flight, of the request it asked for. *)
Carried ==
  \A c \in Calls : call[c].status # "idle" =>
    /\ call[c].what \in Requests
    /\ call[c].flight \in Calls
    /\ What(call[c].flight) = call[c].what
    /\ call[call[c].flight].status # "idle"

(* The map holds flights of the command it holds them for, and none that has settled. *)
Mapped ==
  \A q \in Commands : inFlight[q] # None =>
    Unsettled(inFlight[q]) /\ What(inFlight[q]) = q

FlightInv == TypeOK /\ Started /\ Carried /\ Mapped /\ OneFlightPerCommand

LEMMA FlightInit == PipelineAssumption /\ Init => FlightInv
  BY DEF PipelineAssumption, Init, FlightInv, TypeOK, Started, Carried, Mapped,
         OneFlightPerCommand, Unsettled, Statuses, Phases, Attempts, Attempt, Results

-----------------------------------------------------------------------------
(* What the parts of the actions do. *)

(* Calls are named, carried and made as before; some may have ended. *)
CallsKept ==
  \A c \in Calls : /\ call'[c].what = call[c].what
                   /\ call'[c].flight = call[c].flight
                   /\ call'[c].status = "idle" <=> call[c].status = "idle"

LEMMA CarriedKept ==
  ASSUME Carried, CallsKept
  PROVE  Carried'
  BY DEF Carried, CallsKept, What

(* Flights other than f are as they were, and so is whether the map holds them. *)
OthersKept(f) ==
  /\ \A g \in Calls : g # f => flight'[g] = flight[g]
  /\ \A q \in Commands : \/ inFlight'[q] = inFlight[q]
                         \/ inFlight[q] = f /\ inFlight'[q] = None

(* Settling a flight answers the calls that wait for it and takes its entry away. *)
LEMMA SettleKeeps ==
  ASSUME PipelineAssumption, FlightInv, NEW f \in Calls, NEW status \in {"answered", "failed"},
         Settle(f, status)
  PROVE  /\ call' \in [Calls -> CallStates] /\ flight' \in [Calls -> FlightStates]
         /\ inFlight' \in [Commands -> Calls \cup {None}] /\ busy' \subseteq busy
         /\ CallsKept /\ OthersKept(f)
         /\ flight'[f].phase = "settled" /\ \A q \in Commands : inFlight'[q] # f
  <1>1. \A c \in Calls : [call[c] EXCEPT !.status = status] =
          [status |-> status, what |-> call[c].what, flight |-> call[c].flight,
           epoch |-> call[c].epoch]
    BY DEF FlightInv, TypeOK
  <1>2. \A c \in Calls : call'[c] = IF c \in Waiting(f)
          THEN [status |-> status, what |-> call[c].what, flight |-> call[c].flight,
                epoch |-> call[c].epoch]
          ELSE call[c]
    BY <1>1 DEF Settle
  <1>3. call' \in [Calls -> CallStates]
    BY <1>2 DEF Settle, FlightInv, TypeOK, Statuses, CallStates
  <1>4. CallsKept
    <2>1. SUFFICES ASSUME NEW c \in Calls
                   PROVE  /\ call'[c].what = call[c].what /\ call'[c].flight = call[c].flight
                          /\ call'[c].status = "idle" <=> call[c].status = "idle"
      BY DEF CallsKept
    <2>2. CASE c \in Waiting(f)
      <3>1. call'[c] = [status |-> status, what |-> call[c].what, flight |-> call[c].flight,
                        epoch |-> call[c].epoch]
        BY <1>2, <2>2
      <3>2. call[c].status = "waiting" /\ status # "idle"
        BY <2>2 DEF Waiting
      <3> QED
        BY <3>1, <3>2
    <2>3. CASE c \notin Waiting(f)
      BY <1>2, <2>3
    <2> QED
      BY <2>2, <2>3
  <1>5. /\ flight' \in [Calls -> FlightStates] /\ flight'[f].phase = "settled"
        /\ \A g \in Calls : g # f => flight'[g] = flight[g]
    BY DEF Settle, FlightInv, TypeOK, Phases, FlightStates
  <1>6. \A q \in Commands : inFlight'[q] = IF inFlight[q] = f THEN None ELSE inFlight[q]
    BY DEF Settle
  <1>7. inFlight' \in [Commands -> Calls \cup {None}] /\ busy' \subseteq busy
    BY DEF Settle, FlightInv, TypeOK, Idle
  <1> QED
    BY <1>3, <1>4, <1>5, <1>6, <1>7 DEF OthersKept, PipelineAssumption

(* A transient failure: the flight backs off with a try left, or settles. *)
LEMMA FailKeeps ==
  ASSUME PipelineAssumption, FlightInv, NEW f \in Calls, FailTransiently(f),
         flight[f].phase = "out"
  PROVE  /\ call' \in [Calls -> CallStates] /\ flight' \in [Calls -> FlightStates]
         /\ inFlight' \in [Commands -> Calls \cup {None}] /\ busy' \subseteq busy
         /\ CallsKept /\ OthersKept(f)
         /\ \/ flight'[f].phase = "settled" /\ \A q \in Commands : inFlight'[q] # f
            \/ /\ flight'[f].phase = "backoff" /\ flight'[f].n <= Retries
               /\ SafeToRepeat(What(f)) /\ inFlight' = inFlight
  <1>1. CASE MayRepeat(f) /\ flight' = [flight EXCEPT ![f].phase = "backoff"]
             /\ UNCHANGED <<call, inFlight, busy>>
    <2>1. /\ call' \in [Calls -> CallStates] /\ inFlight' \in [Commands -> Calls \cup {None}]
          /\ busy' \subseteq busy /\ CallsKept
      BY <1>1 DEF FlightInv, TypeOK, CallStates, CallsKept
    <2>2. /\ flight' \in [Calls -> FlightStates] /\ OthersKept(f)
          /\ flight'[f].phase = "backoff" /\ flight'[f].n = flight[f].n
      BY <1>1 DEF FlightInv, TypeOK, FlightStates, Phases, OthersKept
    <2> QED
      BY <1>1, <2>1, <2>2 DEF MayRepeat
  <1>2. CASE Settle(f, "failed")
    BY <1>2, SettleKeeps
  <1> QED
    BY <1>1, <1>2 DEF FailTransiently

(* Once a flight has settled or backed off, the invariant follows from what was kept. *)
LEMMA FlightLeaves ==
  ASSUME PipelineAssumption, FlightInv, NEW f \in Calls, CallsKept, OthersKept(f),
         reply' = [reply EXCEPT ![f] = None], call[f].status # "idle",
         inFlight' \in [Commands -> Calls \cup {None}],
         \/ flight'[f].phase = "settled" /\ \A q \in Commands : inFlight'[q] # f
         \/ /\ flight[f].phase = "out" /\ flight'[f].phase = "backoff"
            /\ flight'[f].n <= Retries /\ inFlight' = inFlight
  PROVE  Started' /\ Carried' /\ Mapped' /\ OneFlightPerCommand'
  <1>1. \A g \in Calls : What(g)' = What(g)
    BY DEF CallsKept, What
  <1>2. Started'
    <2>1. \A c \in Calls : call'[c].status = "idle" => flight'[c].phase = "none"
      BY DEF FlightInv, Started, OthersKept, CallsKept
    <2>2. \A g \in Calls : reply'[g] # None => flight'[g].phase = "out"
      BY DEF FlightInv, Started, OthersKept, TypeOK
    <2>3. \A g \in Calls : flight'[g].phase = "backoff" => flight'[g].n <= Retries
      BY DEF FlightInv, Started, OthersKept
    <2> QED
      BY <2>1, <2>2, <2>3 DEF Started
  <1>3. \A q \in Commands : inFlight'[q] # None => inFlight'[q] \in Calls /\ inFlight[q] = inFlight'[q]
    BY DEF OthersKept
  <1>4. Mapped'
    BY <1>1, <1>3 DEF FlightInv, Mapped, OthersKept, Unsettled
  <1>5. OneFlightPerCommand'
    BY <1>1, <1>3 DEF FlightInv, OneFlightPerCommand, OthersKept, Unsettled
  <1> QED
    BY <1>2, <1>4, <1>5, CarriedKept DEF FlightInv

-----------------------------------------------------------------------------
(* One step per action.  The types of what an action writes come first, then the rest. *)

LEMMA SubscribeStep ==
  ASSUME PipelineAssumption, FlightInv, NEW c \in Calls, NEW q \in Requests, Subscribe(c, q)
  PROVE  FlightInv'
  <1>1. /\ call[c].status = "idle" /\ flight[c].phase = "none" /\ reply[c] = None
        /\ Existing(q) \in Calls \cup {None} /\ c # None
    BY DEF Subscribe, FlightInv, Started, TypeOK, Existing, PipelineAssumption
  <1>2. \A f \in Calls : Unsettled(f) => f # c /\ call[f].status # "idle"
    BY <1>1 DEF FlightInv, Started, Unsettled
  <1>3. \A f \in Calls \cup {None} :
          [status |-> "waiting", what |-> q, flight |-> f, epoch |-> epoch] \in CallStates
    BY DEF FlightInv, TypeOK, CallStates, Statuses, PipelineAssumption
  <1>4. busy' \subseteq {Url(p) : p \in Requests}
    BY DEF Subscribe, FlightInv, TypeOK
  <1>5. CASE /\ Existing(q) # None /\ UNCHANGED <<flight, inFlight, wire>>
             /\ call' = [call EXCEPT ![c] = [status |-> "waiting", what |-> q,
                                             flight |-> Existing(q), epoch |-> epoch]]
    <2>1. q \in Commands /\ Existing(q) \in Calls /\ Unsettled(Existing(q))
          /\ What(Existing(q)) = q /\ Existing(q) # c /\ call[Existing(q)].status # "idle"
      BY <1>1, <1>2, <1>5 DEF Existing, FlightInv, Mapped, TypeOK
    <2>2. /\ call' \in [Calls -> CallStates]
          /\ call'[c] = [status |-> "waiting", what |-> q,
                         flight |-> Existing(q), epoch |-> epoch]
          /\ \A d \in Calls : d # c => call'[d] = call[d]
      BY <1>1, <1>3, <1>5 DEF FlightInv, TypeOK, CallStates
    <2>3. TypeOK'
      BY <1>4, <1>5, <2>2 DEF Subscribe, FlightInv, TypeOK, CallStates, platform
    <2>4. Started'
      BY <1>5, <2>2 DEF Subscribe, FlightInv, Started
    <2>5. Carried'
      <3>1. \A d \in Calls : d # c /\ call[d].status # "idle" => call[d].flight # c
        BY <1>1 DEF FlightInv, Carried
      <3>2. \A d \in Calls : d # c => (call'[d].status # "idle" =>
              /\ call'[d].what \in Requests /\ call'[d].flight \in Calls
              /\ call'[call'[d].flight].what = call'[d].what
              /\ call'[call'[d].flight].status # "idle")
        BY <3>1, <2>2 DEF FlightInv, Carried, What
      <3>3. /\ call'[c].what \in Requests /\ call'[c].flight \in Calls
            /\ call'[call'[c].flight].what = call'[c].what
            /\ call'[call'[c].flight].status # "idle"
        BY <2>1, <2>2 DEF What
      <3> QED
        BY <3>2, <3>3 DEF Carried, What
    <2>6. Mapped' /\ OneFlightPerCommand'
      BY <1>1, <1>2, <1>5, <2>2 DEF FlightInv, Mapped, OneFlightPerCommand, Unsettled, What, TypeOK
    <2> QED
      BY <2>3, <2>4, <2>5, <2>6 DEF FlightInv
  <1>6. CASE /\ Existing(q) = None
             /\ call' = [call EXCEPT ![c] = [status |-> "waiting", what |-> q,
                                             flight |-> c, epoch |-> epoch]]
             /\ flight' = [flight EXCEPT ![c] = [phase |-> "out", n |-> 1]]
             /\ inFlight' = IF q \in Commands THEN [inFlight EXCEPT ![q] = c] ELSE inFlight
             /\ wire' = wire \cup {[flight |-> c, n |-> 1]}
    <2>1. /\ call' \in [Calls -> CallStates]
          /\ call'[c] = [status |-> "waiting", what |-> q, flight |-> c, epoch |-> epoch]
          /\ \A d \in Calls : d # c => call'[d] = call[d]
      BY <1>1, <1>3, <1>6 DEF FlightInv, TypeOK, CallStates
    <2>2. /\ flight' \in [Calls -> FlightStates] /\ wire' \subseteq Attempt
          /\ flight'[c] = [phase |-> "out", n |-> 1]
          /\ \A d \in Calls : d # c => flight'[d] = flight[d]
      BY <1>6 DEF FlightInv, TypeOK, FlightStates, Phases, Attempts, Attempt, PipelineAssumption
    <2>3. /\ inFlight' \in [Commands -> Calls \cup {None}]
          /\ \A p \in Commands : inFlight'[p] = IF p = q THEN c ELSE inFlight[p]
      BY <1>6 DEF FlightInv, TypeOK
    <2>4. TypeOK'
      BY <1>4, <2>1, <2>2, <2>3 DEF Subscribe, FlightInv, TypeOK, CallStates, FlightStates, platform
    <2>5. Started'
      BY <2>1, <2>2, <1>1 DEF Subscribe, FlightInv, Started
    <2>6. Carried'
      <3>1. \A d \in Calls : d # c /\ call[d].status # "idle" => call[d].flight # c
        BY <1>1 DEF FlightInv, Carried
      <3> QED
        BY <3>1, <2>1 DEF FlightInv, Carried, What
    <2>7. Mapped'
      BY <1>2, <2>1, <2>2, <2>3 DEF FlightInv, Mapped, Unsettled, What, TypeOK
    <2>8. OneFlightPerCommand'
      <3>1. \A f \in Calls : f # c /\ Unsettled(f) /\ What(f) \in Commands => What(f) # q
        BY <1>6 DEF FlightInv, OneFlightPerCommand, Existing, PipelineAssumption
      <3> QED
        BY <3>1, <2>1, <2>2, <2>3 DEF FlightInv, OneFlightPerCommand, Unsettled, What
    <2> QED
      BY <2>4, <2>5, <2>6, <2>7, <2>8 DEF FlightInv
  <1> QED
    BY <1>5, <1>6 DEF Subscribe

LEMMA UnsubscribeStep ==
  ASSUME PipelineAssumption, FlightInv, NEW c \in Calls, Unsubscribe(c)
  PROVE  FlightInv'
  <1> DEFINE f == call[c].flight
  <1>1. call[c].status = "waiting" /\ f \in Calls /\ call[f].status # "idle"
    BY DEF Unsubscribe, FlightInv, Carried
  <1>2. call' = [call EXCEPT ![c].status = "left"] /\ call' \in [Calls -> CallStates]
        /\ inFlight' = inFlight
    <2>1. [call[c] EXCEPT !.status = "left"] \in CallStates
      <3>1. [call[c] EXCEPT !.status = "left"] =
              [status |-> "left", what |-> call[c].what, flight |-> call[c].flight,
               epoch |-> call[c].epoch]
        BY DEF FlightInv, TypeOK
      <3> QED
        BY <3>1 DEF FlightInv, TypeOK, CallStates, Statuses
    <2>2. call' = [call EXCEPT ![c] = [call[c] EXCEPT !.status = "left"]]
      BY DEF Unsubscribe
    <2> QED
      BY <2>1, <2>2 DEF Unsubscribe, FlightInv, TypeOK, CallStates
  <1>3. CallsKept
    BY <1>1, <1>2 DEF CallsKept, FlightInv, TypeOK
  <1>4. TypeOK' 
    BY <1>1, <1>2 DEF Unsubscribe, FlightInv, TypeOK, CallStates, Phases, Idle, platform
  <1>5. CASE What(f) \in Commands
    <2>1. UNCHANGED <<flight, reply, inFlight>>
      BY <1>5, <1>1 DEF Unsubscribe, FlightInv, TypeOK, FlightStates
    <2>2. \A g \in Calls : What(g)' = What(g)
      BY <1>3 DEF CallsKept, What
    <2>3. Started'
      BY <1>3, <2>1 DEF FlightInv, Started, CallsKept
    <2>4. Mapped' /\ OneFlightPerCommand'
      BY <2>1, <2>2 DEF FlightInv, Mapped, OneFlightPerCommand, Unsettled, TypeOK
    <2> QED
      BY <1>3, <1>4, <2>3, <2>4, CarriedKept DEF FlightInv
  <1>6. CASE What(f) \notin Commands
    <2>1. flight' = [flight EXCEPT ![f].phase = "settled"] /\ reply' = [reply EXCEPT ![f] = None]
      BY <1>6 DEF Unsubscribe
    <2>2. flight'[f].phase = "settled" /\ OthersKept(f)
      BY <1>1, <1>2, <2>1 DEF FlightInv, TypeOK, OthersKept
    <2>3. \A q \in Commands : inFlight'[q] # f
      BY <1>1, <1>2, <1>6 DEF FlightInv, Mapped, PipelineAssumption
    <2>4. inFlight' \in [Commands -> Calls \cup {None}]
      BY <1>2 DEF FlightInv, TypeOK
    <2> QED
      BY <1>1, <1>3, <1>4, <2>1, <2>2, <2>3, <2>4, FlightLeaves DEF FlightInv
  <1> QED
    BY <1>5, <1>6

LEMMA ReplyArrivesStep ==
  ASSUME PipelineAssumption, FlightInv, NEW f \in Calls, ReplyArrives(f)
  PROVE  FlightInv'
  <1>1. /\ flight[f].phase = "out" /\ call[f].status # "idle"
        /\ reply' = [reply EXCEPT ![f] = None] /\ UNCHANGED <<epoch, wire, platform>>
    BY DEF ReplyArrives, FlightInv, Started
  <1>2. \/ Settle(f, "answered") \/ Settle(f, "failed") \/ FailTransiently(f)
    BY DEF ReplyArrives
  <1>3. /\ call' \in [Calls -> CallStates] /\ flight' \in [Calls -> FlightStates]
        /\ inFlight' \in [Commands -> Calls \cup {None}] /\ busy' \subseteq busy
        /\ CallsKept /\ OthersKept(f)
        /\ \/ flight'[f].phase = "settled" /\ \A q \in Commands : inFlight'[q] # f
           \/ /\ flight'[f].phase = "backoff" /\ flight'[f].n <= Retries /\ inFlight' = inFlight
    BY <1>1, <1>2, SettleKeeps, FailKeeps
  <1>4. TypeOK'
    BY <1>1, <1>3 DEF FlightInv, TypeOK, CallStates, FlightStates, platform
  <1> QED
    BY <1>1, <1>3, <1>4, FlightLeaves DEF FlightInv

LEMMA ConnectionDropsStep ==
  ASSUME PipelineAssumption, FlightInv, NEW f \in Calls, ConnectionDrops(f)
  PROVE  FlightInv'
  <1>1. /\ flight[f].phase = "out" /\ call[f].status # "idle"
        /\ reply' = [reply EXCEPT ![f] = None] /\ UNCHANGED <<epoch, platform>>
        /\ wire' \subseteq wire /\ FailTransiently(f)
    BY DEF ConnectionDrops, FlightInv, Started
  <1>2. /\ call' \in [Calls -> CallStates] /\ flight' \in [Calls -> FlightStates]
        /\ inFlight' \in [Commands -> Calls \cup {None}] /\ busy' \subseteq busy
        /\ CallsKept /\ OthersKept(f)
        /\ \/ flight'[f].phase = "settled" /\ \A q \in Commands : inFlight'[q] # f
           \/ /\ flight'[f].phase = "backoff" /\ flight'[f].n <= Retries /\ inFlight' = inFlight
    BY <1>1, FailKeeps
  <1>3. TypeOK'
    BY <1>1, <1>2 DEF FlightInv, TypeOK, CallStates, FlightStates, platform
  <1> QED
    BY <1>1, <1>2, <1>3, FlightLeaves DEF FlightInv

LEMMA ResendStep ==
  ASSUME PipelineAssumption, FlightInv, NEW f \in Calls, Resend(f)
  PROVE  FlightInv'
  <1>1. /\ flight[f].phase = "backoff" /\ flight[f].n <= Retries /\ flight[f].n \in Nat
        /\ flight[f].n >= 1 /\ call[f].status # "idle" /\ Retries \in Nat
    BY DEF Resend, FlightInv, Started, TypeOK, Attempts, PipelineAssumption
  <1>2. [phase |-> "out", n |-> flight[f].n + 1] \in FlightStates
        /\ [flight |-> f, n |-> flight[f].n + 1] \in Attempt
    BY <1>1 DEF FlightStates, Phases, Attempts, Attempt
  <1>3. /\ flight' \in [Calls -> FlightStates] /\ wire' \subseteq Attempt
        /\ flight'[f].phase = "out" /\ \A g \in Calls : g # f => flight'[g] = flight[g]
        /\ UNCHANGED <<call, inFlight, busy, epoch, reply, platform>>
    BY <1>2 DEF Resend, FlightInv, TypeOK, FlightStates
  <1>4. TypeOK'
    BY <1>3 DEF FlightInv, TypeOK, FlightStates, platform
  <1>5. Started'
    BY <1>1, <1>3 DEF FlightInv, Started
  <1>6. Carried'
    BY <1>3 DEF FlightInv, Carried, What
  <1>7. \A g \in Calls : Unsettled(g)' <=> Unsettled(g)
    BY <1>1, <1>3 DEF Unsettled
  <1>8. Mapped' /\ OneFlightPerCommand'
    BY <1>3, <1>7 DEF FlightInv, Mapped, OneFlightPerCommand, What, TypeOK
  <1> QED
    BY <1>4, <1>5, <1>6, <1>8 DEF FlightInv

LEMMA PlatformAnswersStep ==
  ASSUME PipelineAssumption, FlightInv, NEW a \in wire, PlatformAnswers(a)
  PROVE  FlightInv'
  <1>1. a.flight \in Calls /\ UNCHANGED <<call, flight, inFlight, busy, epoch>> /\ wire' \subseteq wire
    BY DEF PlatformAnswers, FlightInv, TypeOK, Attempt, browser
  <1>2. \/ reply' = reply
        \/ /\ flight[a.flight].phase = "out"
           /\ \E result \in Results : reply' = [reply EXCEPT ![a.flight] = result]
    BY DEF PlatformAnswers
  <1>3. applied' \in [Calls -> Nat]
    BY <1>1 DEF PlatformAnswers, FlightInv, TypeOK, platform
  <1>4. TypeOK'
    BY <1>1, <1>2, <1>3 DEF FlightInv, TypeOK
  <1>5. Started'
    BY <1>1, <1>2 DEF FlightInv, Started, TypeOK
  <1>6. Carried' /\ Mapped' /\ OneFlightPerCommand'
    BY <1>1 DEF FlightInv, Carried, Mapped, OneFlightPerCommand, Unsettled, What
  <1> QED
    BY <1>4, <1>5, <1>6 DEF FlightInv

LEMMA FlightStep ==
  ASSUME PipelineAssumption, FlightInv, [Next]_vars
  PROVE  FlightInv'
  <1>1. CASE SignInAgain
    BY <1>1 DEF SignInAgain, browser, platform, FlightInv, TypeOK, Started, Carried, Mapped,
                OneFlightPerCommand, Unsettled, What, PipelineAssumption
  <1>2. CASE UNCHANGED vars
    BY <1>2 DEF vars, browser, platform, FlightInv, TypeOK, Started, Carried, Mapped,
                OneFlightPerCommand, Unsettled, What
  <1> QED
    BY <1>1, <1>2, SubscribeStep, UnsubscribeStep, ReplyArrivesStep, ConnectionDropsStep,
       ResendStep, PlatformAnswersStep DEF Next

LEMMA FlightInvariant == Spec => []FlightInv
  <1>1. Init => FlightInv
    BY PipelineAssumption, FlightInit
  <1>2. FlightInv /\ [Next]_vars => FlightInv'
    BY PipelineAssumption, FlightStep
  <1> QED
    BY <1>1, <1>2, PTL DEF Spec

(* The types of the pipeline, for any calls, commands and number of retries.             *)
THEOREM PipelineTypeCorrect == Spec => []TypeOK
  <1>1. FlightInv => TypeOK
    BY DEF FlightInv
  <1> QED
    BY <1>1, FlightInvariant, PTL

(* The map of idempotencyInterceptor holds the flight of a command as long as it is not  *)
(* settled, whoever leaves and however often it is retried: there is never a second.     *)
THEOREM NeverASecondFlight == Spec => []OneFlightPerCommand
  <1>1. FlightInv => OneFlightPerCommand
    BY DEF FlightInv
  <1> QED
    BY <1>1, FlightInvariant, PTL

-----------------------------------------------------------------------------
(* What the network and the platform do with a flight. *)

(* What every action but Subscribe, Resend and PlatformAnswers leaves in place: attempts *)
(* only disappear, and a flight that backs off is one that may be sent again.            *)
Quiet ==
  /\ wire' \subseteq wire /\ UNCHANGED platform
  /\ \A c \in Calls : What(c)' = What(c)
  /\ \A g \in Calls : flight'[g].phase = "none" => flight[g].phase = "none"
  /\ \A g \in Calls : flight'[g].phase = "backoff" =>
       flight[g].phase = "backoff" \/ SafeToRepeat(What(g))

LEMMA QuietSteps ==
  ASSUME PipelineAssumption, FlightInv,
         \/ \E c \in Calls : Unsubscribe(c)
         \/ \E f \in Calls : ReplyArrives(f) \/ ConnectionDrops(f)
         \/ SignInAgain \/ UNCHANGED vars
  PROVE  Quiet
  <1>1. CASE \E c \in Calls : Unsubscribe(c)
    <2> PICK c \in Calls : Unsubscribe(c)
      BY <1>1
    <2>1. call' = [call EXCEPT ![c].status = "left"] /\ call[c].flight \in Calls
      BY DEF Unsubscribe, FlightInv, Carried
    <2>2. \A d \in Calls : What(d)' = What(d)
      BY <2>1 DEF What, FlightInv, TypeOK
    <2>3. UNCHANGED <<wire, platform>>
      BY DEF Unsubscribe
    <2>4. \A g \in Calls : flight'[g].phase \in {flight[g].phase, "settled"}
      BY <2>1 DEF Unsubscribe, FlightInv, TypeOK
    <2> QED
      BY <2>2, <2>3, <2>4 DEF Quiet
  <1>2. CASE \E f \in Calls : ReplyArrives(f) \/ ConnectionDrops(f)
    <2> PICK f \in Calls : ReplyArrives(f) \/ ConnectionDrops(f)
      BY <1>2
    <2>1. flight[f].phase = "out" /\ wire' \subseteq wire /\ UNCHANGED platform
      BY DEF ReplyArrives, ConnectionDrops, FlightInv, Started
    <2>2. Settle(f, "answered") \/ Settle(f, "failed") \/ FailTransiently(f)
      BY DEF ReplyArrives, ConnectionDrops
    <2>3. /\ CallsKept /\ OthersKept(f)
          /\ \/ flight'[f].phase = "settled"
             \/ flight'[f].phase = "backoff" /\ SafeToRepeat(What(f))
      BY <2>1, <2>2, SettleKeeps, FailKeeps
    <2> QED
      BY <2>1, <2>3 DEF Quiet, CallsKept, OthersKept, What
  <1>3. CASE SignInAgain \/ UNCHANGED vars
    BY <1>3 DEF SignInAgain, vars, browser, platform, Quiet, What
  <1> QED
    BY <1>1, <1>2, <1>3

(* What a flight that was never sent, a read, and a command that must not be repeated    *)
(* may have behind them, as long as the network does not replay.                         *)
Unsent ==
  \A f \in Calls : flight[f].phase = "none" =>
    applied[f] = 0 /\ \A a \in wire : a.flight # f

SentOnce ==
  \A f \in Calls : What(f) \notin Repeatable =>
    /\ What(f) \notin Reads =>
         /\ flight[f].phase # "backoff"
         /\ \A a \in wire : a.flight = f => a.n = 1 /\ applied[f] = 0
    /\ applied[f] <= (IF What(f) \in Reads THEN 0 ELSE 1)

(* A platform that honours keys remembers the key of whatever it has applied. *)
KeyedOnce == \A f \in Calls : applied[f] = 0 \/ (applied[f] = 1 /\ <<f, 1>> \in keys)

(* The two ways to apply a submission once; whoever implements keys may be replayed to.  *)
OnceInv == Unsent /\ (Replays \/ SentOnce) /\ (HonoursKeys => KeyedOnce)

LEMMA OnceInit == PipelineAssumption /\ Init => OnceInv
  <1> SUFFICES ASSUME PipelineAssumption, Init
               PROVE  OnceInv
    OBVIOUS
  <1>1. wire = {} /\ \A f \in Calls : flight[f].phase = "none" /\ applied[f] = 0
    BY DEF Init
  <1>2. Unsent
    BY <1>1 DEF Unsent
  <1>3. SentOnce
    BY <1>1 DEF SentOnce
  <1>4. KeyedOnce
    BY <1>1 DEF KeyedOnce
  <1> QED
    BY <1>2, <1>3, <1>4 DEF OnceInv

LEMMA OnceQuiet ==
  ASSUME FlightInv, OnceInv, Quiet
  PROVE  OnceInv'
  <1>1. UNCHANGED <<keys, applied>>
    BY DEF Quiet, platform
  <1>2. Unsent'
    BY <1>1 DEF Quiet, OnceInv, Unsent
  <1>3. SentOnce => SentOnce'
    BY <1>1 DEF Quiet, SentOnce, SafeToRepeat
  <1>4. KeyedOnce => KeyedOnce'
    BY <1>1 DEF KeyedOnce
  <1> QED
    BY <1>2, <1>3, <1>4 DEF OnceInv

LEMMA OnceSubscribe ==
  ASSUME PipelineAssumption, FlightInv, OnceInv, NEW c \in Calls, NEW q \in Requests,
         Subscribe(c, q)
  PROVE  OnceInv'
  <1>1. /\ flight[c].phase = "none" /\ applied[c] = 0 /\ \A a \in wire : a.flight # c
        /\ UNCHANGED <<keys, applied>>
    BY DEF Subscribe, FlightInv, Started, OnceInv, Unsent, platform
  <1>2. \A d \in Calls : d # c => What(d)' = What(d)
    BY DEF Subscribe, FlightInv, TypeOK, What
  <1>3. \/ flight' = flight /\ wire' = wire
        \/ /\ flight' = [flight EXCEPT ![c] = [phase |-> "out", n |-> 1]]
           /\ wire' = wire \cup {[flight |-> c, n |-> 1]}
    BY DEF Subscribe
  <1>4. /\ \A d \in Calls : d # c => flight'[d] = flight[d]
        /\ flight'[c].phase \in {"none", "out"}
        /\ flight'[c].phase = "none" => wire' = wire
    BY <1>3, <1>1 DEF FlightInv, TypeOK
  <1>5. \A a \in wire' : a \in wire \/ (a.flight = c /\ a.n = 1)
    BY <1>3
  <1>6. Unsent'
    BY <1>1, <1>4, <1>5 DEF OnceInv, Unsent
  <1>7. SentOnce => SentOnce'
    BY <1>1, <1>2, <1>4, <1>5 DEF SentOnce
  <1>8. KeyedOnce => KeyedOnce'
    BY <1>1 DEF KeyedOnce
  <1> QED
    BY <1>6, <1>7, <1>8 DEF OnceInv

LEMMA OnceResend ==
  ASSUME PipelineAssumption, FlightInv, OnceInv, NEW f \in Calls, Resend(f)
  PROVE  OnceInv'
  <1>1. /\ flight[f].phase = "backoff" /\ flight'[f].phase = "out"
        /\ \A g \in Calls : g # f => flight'[g] = flight[g]
        /\ \A a \in wire' : a \in wire \/ a.flight = f
        /\ UNCHANGED <<call, keys, applied>>
    BY DEF Resend, FlightInv, TypeOK, platform
  <1>2. Unsent'
    BY <1>1 DEF OnceInv, Unsent
  <1>3. SentOnce => SentOnce'
    BY <1>1 DEF SentOnce, What
  <1>4. KeyedOnce => KeyedOnce'
    BY <1>1 DEF KeyedOnce
  <1> QED
    BY <1>2, <1>3, <1>4 DEF OnceInv

LEMMA OnceAnswers ==
  ASSUME PipelineAssumption, FlightInv, OnceInv, NEW a \in wire, PlatformAnswers(a)
  PROVE  OnceInv'
  <1> DEFINE f == a.flight
  <1>1. /\ f \in Calls /\ UNCHANGED <<call, flight>> /\ wire' \subseteq wire
        /\ ~Replays => wire' = wire \ {a}
    BY DEF PlatformAnswers, FlightInv, TypeOK, Attempt, browser
  <1>2. flight[f].phase # "none"
    BY <1>1 DEF OnceInv, Unsent
  <1>3. CASE UNCHANGED platform
    <2>1. UNCHANGED <<keys, applied>>
      BY <1>3 DEF platform
    <2>2. Unsent' /\ (SentOnce => SentOnce') /\ (KeyedOnce => KeyedOnce')
      BY <1>1, <2>1 DEF OnceInv, Unsent, SentOnce, KeyedOnce, What
    <2> QED
      BY <2>2 DEF OnceInv
  <1>4. CASE /\ What(f) \notin Reads /\ ~(<<f, 1>> \in keys /\ HonoursKeys)
             /\ keys' = keys \cup {<<f, 1>>} /\ applied' = [applied EXCEPT ![f] = @ + 1]
    <2>1. /\ applied'[f] = applied[f] + 1 /\ applied[f] \in Nat
          /\ \A g \in Calls : g # f => applied'[g] = applied[g]
      BY <1>1, <1>4 DEF FlightInv, TypeOK
    <2>2. Unsent'
      BY <1>1, <1>2, <2>1 DEF OnceInv, Unsent
    <2>3. ASSUME SentOnce, ~Replays
          PROVE  SentOnce'
      <3>1. \A g \in Calls : What(g)' = What(g)
        BY <1>1 DEF What
      <3>2. What(f) \notin Repeatable => applied[f] = 0 /\ a.n = 1 /\
              \A b \in wire : b.flight = f => b.n = 1
        BY <1>1, <1>4, <2>3 DEF SentOnce
      <3>3. What(f) \notin Repeatable => \A b \in wire' : b.flight # f
        BY <1>1, <2>3, <3>2 DEF FlightInv, TypeOK, Attempt
      <3> QED
        BY <1>1, <1>4, <2>1, <2>3, <3>1, <3>2, <3>3 DEF SentOnce
    <2>4. ASSUME HonoursKeys, KeyedOnce
          PROVE  KeyedOnce'
      <3>1. applied[f] = 0 /\ applied'[f] = 1 /\ <<f, 1>> \in keys'
        BY <1>1, <1>4, <2>1, <2>4 DEF KeyedOnce
      <3>2. keys \subseteq keys'
        BY <1>4
      <3> QED
        BY <2>1, <2>4, <3>1, <3>2 DEF KeyedOnce
    <2> QED
      BY <2>2, <2>3, <2>4 DEF OnceInv, PipelineAssumption
  <1> QED
    BY <1>3, <1>4 DEF PlatformAnswers, Key

LEMMA OnceInvariant == Spec => []OnceInv
  <1>1. Init => OnceInv
    BY PipelineAssumption, OnceInit
  <1>2. FlightInv /\ OnceInv /\ [Next]_vars => OnceInv'
    BY PipelineAssumption, QuietSteps, OnceQuiet, OnceSubscribe, OnceResend, OnceAnswers DEF Next
  <1> QED
    BY <1>1, <1>2, FlightInvariant, PTL DEF Spec

(* A submission is applied once: a platform that honours the key of idempotencyInterceptor *)
(* may be sent it again by retries and proxies alike; without keys, a network that does   *)
(* not replay and retryInterceptor's refusal to repeat a command are enough.              *)
THEOREM AppliedAtMostOnce ==
  ASSUME HonoursKeys \/ ~Replays
  PROVE  Spec => []AppliedOnce
  <1>1. FlightInv /\ OnceInv => AppliedOnce
    <2>1. KeyedOnce /\ FlightInv => AppliedOnce
      <3>1. KeyedOnce => \A f \in Calls : applied[f] \in {0, 1}
        BY DEF KeyedOnce
      <3>2. \A n \in {0, 1} : n <= 1
        OBVIOUS
      <3> QED
        BY <3>1, <3>2 DEF AppliedOnce
    <2>2. SentOnce /\ ~HonoursKeys /\ FlightInv => AppliedOnce
      BY DEF SentOnce, AppliedOnce, FlightInv, TypeOK
    <2> QED
      BY <2>1, <2>2, PipelineAssumption DEF OnceInv, PipelineAssumption
  <1> QED
    BY <1>1, FlightInvariant, OnceInvariant, PTL

-----------------------------------------------------------------------------
(* Success: the keys the platform knows and the answers on their way stand for what it   *)
(* has applied.                                                                          *)
KnownApplied == \A f \in Calls : <<f, 1>> \in keys => applied[f] >= 1
ReplyApplied == \A f \in Calls : reply[f] = "ok" /\ What(f) \notin Reads => applied[f] >= 1

SuccessInv == KnownApplied /\ ReplyApplied /\ SuccessIsApplied

LEMMA SuccessInit == PipelineAssumption /\ Init => SuccessInv
  BY DEF PipelineAssumption, Init, SuccessInv, KnownApplied, ReplyApplied, SuccessIsApplied

(* A step that applies nothing, and answers only calls whose flight has been told "ok".  *)
LEMMA SuccessKept ==
  ASSUME PipelineAssumption, FlightInv, SuccessInv, CallsKept, UNCHANGED <<keys, applied>>,
         \A f \in Calls : reply'[f] \in {reply[f], None},
         \A c \in Calls : call'[c].status = "answered" =>
           \/ call[c].status = "answered"
           \/ call[c].status = "waiting" /\ reply[call[c].flight] = "ok"
  PROVE  SuccessInv'
  <1>1. \A c \in Calls : What(c)' = What(c)
    BY DEF CallsKept, What
  <1>2. KnownApplied' /\ ReplyApplied'
    BY <1>1 DEF SuccessInv, KnownApplied, ReplyApplied, PipelineAssumption
  <1>3. \A c \in Calls : call'[c].status = "answered" /\ call[c].what \notin Reads =>
          /\ call[c].flight \in Calls /\ What(call[c].flight) = call[c].what
          /\ applied[call[c].flight] >= 1
    BY DEF SuccessInv, SuccessIsApplied, ReplyApplied, FlightInv, Carried
  <1>4. SuccessIsApplied'
    BY <1>1, <1>3 DEF SuccessIsApplied, CallsKept
  <1> QED
    BY <1>2, <1>4 DEF SuccessInv

LEMMA SuccessSubscribe ==
  ASSUME PipelineAssumption, FlightInv, SuccessInv, NEW c \in Calls, NEW q \in Requests,
         Subscribe(c, q)
  PROVE  SuccessInv'
  <1>1. /\ reply[c] = None /\ call[c].status = "idle" /\ call'[c].status = "waiting"
        /\ \A d \in Calls : d # c => call'[d] = call[d]
        /\ UNCHANGED <<reply, keys, applied>>
    BY DEF Subscribe, FlightInv, Started, TypeOK, platform
  <1>2. KnownApplied' /\ ReplyApplied'
    BY <1>1 DEF SuccessInv, KnownApplied, ReplyApplied, What, PipelineAssumption
  <1>3. \A d \in Calls : call[d].status # "idle" => call[d].flight # c
    BY <1>1 DEF FlightInv, Carried
  <1>4. SuccessIsApplied'
    BY <1>1, <1>3 DEF SuccessInv, SuccessIsApplied, FlightInv, Carried, What
  <1> QED
    BY <1>2, <1>4 DEF SuccessInv

LEMMA SuccessUnsubscribe ==
  ASSUME PipelineAssumption, FlightInv, SuccessInv, NEW c \in Calls, Unsubscribe(c)
  PROVE  SuccessInv'
  <1>1. call[c].status = "waiting" /\ call' = [call EXCEPT ![c].status = "left"]
    BY DEF Unsubscribe
  <1>2. CallsKept /\ \A d \in Calls : call'[d].status = "answered" => call[d].status = "answered"
    BY <1>1 DEF CallsKept, FlightInv, TypeOK
  <1>3. UNCHANGED <<keys, applied>> /\ \A f \in Calls : reply'[f] \in {reply[f], None}
    BY DEF Unsubscribe, FlightInv, TypeOK, platform
  <1> QED
    BY <1>2, <1>3, SuccessKept

LEMMA SuccessSettles ==
  ASSUME PipelineAssumption, FlightInv, SuccessInv, NEW f \in Calls,
         ReplyArrives(f) \/ ConnectionDrops(f)
  PROVE  SuccessInv'
  <1>1. /\ flight[f].phase = "out" /\ reply' = [reply EXCEPT ![f] = None]
        /\ UNCHANGED <<keys, applied>>
    BY DEF ReplyArrives, ConnectionDrops, FlightInv, Started, platform
  <1>2. \A g \in Calls : reply'[g] \in {reply[g], None}
    BY <1>1 DEF FlightInv, TypeOK
  <1>3. \/ reply[f] = "ok" /\ Settle(f, "answered")
        \/ Settle(f, "failed") \/ FailTransiently(f)
    BY DEF ReplyArrives, ConnectionDrops
  <1>4. CallsKept
    BY <1>1, <1>3, SettleKeeps, FailKeeps
  <1>5. ASSUME NEW c \in Calls, NEW status, Settle(f, status), call'[c].status = "answered"
        PROVE  \/ call[c].status = "answered"
               \/ status = "answered" /\ call[c].status = "waiting" /\ call[c].flight = f
    <2>1. CASE c \in Waiting(f)
      <3>1. call'[c].status = status
        BY <1>5, <2>1 DEF Settle, FlightInv, TypeOK
      <3> QED
        BY <1>5, <2>1, <3>1 DEF Waiting
    <2>2. CASE c \notin Waiting(f)
      BY <1>5, <2>2 DEF Settle
    <2> QED
      BY <2>1, <2>2
  <1>6. \A c \in Calls : call'[c].status = "answered" =>
          \/ call[c].status = "answered"
          \/ call[c].status = "waiting" /\ reply[call[c].flight] = "ok"
    BY <1>3, <1>5 DEF FailTransiently
  <1> QED
    BY <1>1, <1>2, <1>4, <1>6, SuccessKept

LEMMA SuccessAnswers ==
  ASSUME PipelineAssumption, FlightInv, SuccessInv, NEW a \in wire, PlatformAnswers(a)
  PROVE  SuccessInv'
  <1> DEFINE f == a.flight
  <1>1. f \in Calls /\ UNCHANGED call
    BY DEF PlatformAnswers, FlightInv, TypeOK, Attempt, browser
  <1>2. PICK result \in Results :
          /\ \/ reply' = reply \/ reply' = [reply EXCEPT ![f] = result]
          /\ \/ /\ keys' = keys \cup {<<f, 1>>} /\ applied' = [applied EXCEPT ![f] = @ + 1]
             \/ /\ result # "ok" \/ What(f) \in Reads \/ <<f, 1>> \in keys
                /\ UNCHANGED <<keys, applied>>
    BY DEF PlatformAnswers, Key, platform
  <1>3. /\ \A g \in Calls : applied'[g] >= applied[g] /\ applied[g] \in Nat /\ applied'[g] \in Nat
        /\ \A g \in Calls : <<g, 1>> \in keys' =>
             <<g, 1>> \in keys \/ (g = f /\ applied'[g] >= 1)
    BY <1>1, <1>2 DEF FlightInv, TypeOK
  <1>4. KnownApplied'
    BY <1>3 DEF SuccessInv, KnownApplied
  <1>5. result = "ok" /\ What(f) \notin Reads => applied'[f] >= 1
    BY <1>1, <1>2, <1>3 DEF SuccessInv, KnownApplied, FlightInv, TypeOK
  <1>6. ReplyApplied'
    <2>1. \A g \in Calls : reply'[g] = reply[g] \/ (g = f /\ reply'[g] = result)
      BY <1>2 DEF FlightInv, TypeOK
    <2> QED
      BY <1>1, <1>3, <1>5, <2>1 DEF SuccessInv, ReplyApplied, What
  <1>7. SuccessIsApplied'
    BY <1>1, <1>3 DEF SuccessInv, SuccessIsApplied, FlightInv, Carried, What
  <1> QED
    BY <1>4, <1>6, <1>7 DEF SuccessInv

LEMMA SuccessStep ==
  ASSUME PipelineAssumption, FlightInv, SuccessInv, [Next]_vars
  PROVE  SuccessInv'
  <1>1. CASE (\E f \in Calls : Resend(f)) \/ SignInAgain \/ UNCHANGED vars
    BY <1>1 DEF Resend, SignInAgain, vars, browser, platform, SuccessInv, KnownApplied,
                ReplyApplied, SuccessIsApplied, What
  <1> QED
    BY <1>1, SuccessSubscribe, SuccessUnsubscribe, SuccessSettles, SuccessAnswers DEF Next

LEMMA SuccessInvariant == Spec => []SuccessInv
  <1>1. Init => SuccessInv
    BY PipelineAssumption, SuccessInit
  <1>2. FlightInv /\ SuccessInv /\ [Next]_vars => SuccessInv'
    BY PipelineAssumption, SuccessStep
  <1> QED
    BY <1>1, <1>2, FlightInvariant, PTL DEF Spec

(* Whoever is told that a command succeeded shares a flight of that command, and the     *)
(* platform has applied it: collapsing, retries and remembered keys never make it up.    *)
THEOREM SuccessMeansApplied == Spec => []SuccessIsApplied
  <1>1. SuccessInv => SuccessIsApplied
    BY DEF SuccessInv
  <1> QED
    BY <1>1, SuccessInvariant, PTL

-----------------------------------------------------------------------------
(* The progress bar. *)

(* A step that ends some calls takes down the URLs of exactly those. *)
LEMMA BusyKept ==
  ASSUME BusyMeansWaiting, CallsKept, NEW ended \in SUBSET Calls, busy' \subseteq Idle(ended),
         \A c \in Calls : call[c].status = "waiting" /\ c \notin ended =>
           call'[c].status = "waiting"
  PROVE  BusyMeansWaiting'
  <1>1. SUFFICES ASSUME NEW u \in busy'
                 PROVE  \E c \in Calls : call'[c].status = "waiting" /\ Url(call'[c].what) = u
    BY DEF BusyMeansWaiting, What
  <1>2. u \in busy /\ \A c \in ended : Url(What(c)) # u
    BY <1>1 DEF Idle
  <1>3. PICK c \in Calls : call[c].status = "waiting" /\ Url(What(c)) = u
    BY <1>2 DEF BusyMeansWaiting
  <1>4. call'[c].status = "waiting" /\ call'[c].what = call[c].what
    BY <1>2, <1>3 DEF CallsKept
  <1> QED
    BY <1>3, <1>4 DEF What

LEMMA BusySettles ==
  ASSUME PipelineAssumption, FlightInv, BusyMeansWaiting, NEW f \in Calls,
         NEW status \in {"answered", "failed"}, Settle(f, status)
  PROVE  BusyMeansWaiting'
  <1>1. CallsKept /\ Waiting(f) \in SUBSET Calls /\ busy' = Idle(Waiting(f))
    BY SettleKeeps DEF Settle, Waiting
  <1>2. \A c \in Calls : c \notin Waiting(f) => call'[c] = call[c]
    BY DEF Settle
  <1> QED
    BY <1>1, <1>2, BusyKept

LEMMA BusyStep ==
  ASSUME PipelineAssumption, FlightInv, BusyMeansWaiting, [Next]_vars
  PROVE  BusyMeansWaiting'
  <1>1. ASSUME NEW c \in Calls, NEW q \in Requests, Subscribe(c, q)
        PROVE  BusyMeansWaiting'
    <2>1. /\ busy' = busy \cup {Url(q)} /\ call[c].status = "idle"
          /\ call'[c].status = "waiting" /\ call'[c].what = q
          /\ \A d \in Calls : d # c => call'[d] = call[d]
      BY <1>1 DEF Subscribe, FlightInv, TypeOK
    <2> QED
      BY <2>1 DEF BusyMeansWaiting, What
  <1>2. ASSUME NEW c \in Calls, Unsubscribe(c)
        PROVE  BusyMeansWaiting'
    <2>1. call' = [call EXCEPT ![c].status = "left"] /\ busy' = Idle({c})
          /\ call[c].status = "waiting"
      BY <1>2 DEF Unsubscribe
    <2>2. CallsKept /\ \A d \in Calls : d # c => call'[d] = call[d]
      BY <2>1 DEF CallsKept, FlightInv, TypeOK
    <2> QED
      BY <2>1, <2>2, BusyKept
  <1>3. ASSUME NEW f \in Calls, ReplyArrives(f) \/ ConnectionDrops(f)
        PROVE  BusyMeansWaiting'
    <2>1. CASE \E status \in {"answered", "failed"} : Settle(f, status)
      BY <2>1, BusySettles
    <2>2. CASE UNCHANGED <<call, busy>>
      BY <2>2 DEF BusyMeansWaiting, What
    <2> QED
      BY <1>3, <2>1, <2>2 DEF ReplyArrives, ConnectionDrops, FailTransiently
  <1>4. CASE UNCHANGED <<call, busy>>
    BY <1>4 DEF BusyMeansWaiting, What
  <1>5. (\E f \in Calls : Resend(f)) \/ SignInAgain \/ (\E a \in wire : PlatformAnswers(a))
          \/ UNCHANGED vars => UNCHANGED <<call, busy>>
    BY DEF Resend, SignInAgain, PlatformAnswers, vars, browser
  <1> QED
    BY <1>1, <1>2, <1>3, <1>4, <1>5 DEF Next

(* A URL is busy in loadingMap only while a page waits for it, however calls of the same *)
(* URL share it, end in any order, or walk away.                                         *)
THEOREM BusyOnlyWhileWaiting == Spec => []BusyMeansWaiting
  <1>1. Init => BusyMeansWaiting
    BY DEF Init, BusyMeansWaiting
  <1>2. FlightInv /\ BusyMeansWaiting /\ [Next]_vars => BusyMeansWaiting'
    BY PipelineAssumption, BusyStep
  <1> QED
    BY <1>1, <1>2, FlightInvariant, PTL DEF Spec

-----------------------------------------------------------------------------
(* The channel. *)

(* A call that was not made asks for nothing; one that was has a flight that was started. *)
Asked ==
  \A c \in Calls : /\ call[c].status = "idle" => call[c].what = None
                   /\ call[c].status # "idle" => flight[call[c].flight].phase # "none"

LEMMA AskedInit == PipelineAssumption /\ Init => Asked
  BY DEF Init, Asked

LEMMA AskedStep ==
  ASSUME PipelineAssumption, FlightInv, Asked, [Next]_vars
  PROVE  Asked'
  <1>1. ASSUME NEW c \in Calls, NEW q \in Requests, Subscribe(c, q)
        PROVE  Asked'
    <2>1. /\ call[c].status = "idle" /\ call'[c].status = "waiting"
          /\ \A d \in Calls : d # c => call'[d] = call[d]
          /\ \A d \in Calls : d # c => flight'[d] = flight[d]
      BY <1>1 DEF Subscribe, FlightInv, TypeOK
    <2>2. \A d \in Calls : call[d].status # "idle" => call[d].flight \in Calls \ {c}
      BY <2>1 DEF FlightInv, Carried
    <2>3. flight'[call'[c].flight].phase # "none"
      <3>1. CASE Existing(q) # None
        <4>1. Existing(q) \in Calls /\ Unsettled(Existing(q)) /\ call'[c].flight = Existing(q)
              /\ flight' = flight
          BY <1>1, <3>1 DEF Subscribe, Existing, FlightInv, Mapped, TypeOK
        <4> QED
          BY <4>1 DEF Unsettled
      <3>2. CASE Existing(q) = None
        <4>1. call'[c].flight = c /\ flight'[c].phase = "out"
          BY <1>1, <3>2 DEF Subscribe, FlightInv, TypeOK
        <4> QED
          BY <4>1
      <3> QED
        BY <3>1, <3>2
    <2> QED
      BY <2>1, <2>2, <2>3 DEF Asked
  <1>2. ASSUME CallsKept, \A g \in Calls : flight'[g].phase = "none" => flight[g].phase = "none"
        PROVE  Asked'
    BY <1>2 DEF Asked, CallsKept, FlightInv, Carried
  <1>3. ASSUME NEW c \in Calls, Unsubscribe(c)
        PROVE  Asked'
    <2>1. call' = [call EXCEPT ![c].status = "left"] /\ call[c].status = "waiting"
      BY <1>3 DEF Unsubscribe
    <2>2. CallsKept
      BY <2>1 DEF CallsKept, FlightInv, TypeOK
    <2>3. Quiet
      BY <1>3, QuietSteps
    <2> QED
      BY <1>2, <2>2, <2>3 DEF Quiet
  <1>4. ASSUME NEW f \in Calls, ReplyArrives(f) \/ ConnectionDrops(f)
        PROVE  Asked'
    <2>1. flight[f].phase = "out"
      BY <1>4 DEF ReplyArrives, ConnectionDrops, FlightInv, Started
    <2>2. Settle(f, "answered") \/ Settle(f, "failed") \/ FailTransiently(f)
      BY <1>4 DEF ReplyArrives, ConnectionDrops
    <2>3. CallsKept
      BY <2>1, <2>2, SettleKeeps, FailKeeps
    <2>4. Quiet
      BY <1>4, QuietSteps
    <2> QED
      BY <1>2, <2>3, <2>4 DEF Quiet
  <1>5. ASSUME NEW f \in Calls, Resend(f)
        PROVE  Asked'
    <2>1. UNCHANGED call /\ \A g \in Calls : flight'[g].phase \in {flight[g].phase, "out"}
      BY <1>5 DEF Resend, FlightInv, TypeOK
    <2> QED
      BY <2>1 DEF Asked, FlightInv, Carried
  <1>6. CASE UNCHANGED <<call, flight>>
    BY <1>6 DEF Asked
  <1>7. SignInAgain \/ (\E a \in wire : PlatformAnswers(a)) \/ UNCHANGED vars
          => UNCHANGED <<call, flight>>
    BY DEF SignInAgain, PlatformAnswers, vars, browser
  <1> QED
    BY <1>1, <1>3, <1>4, <1>5, <1>6, <1>7 DEF Next

(* What the mapping makes of a call and of a flight, before a step and after it. *)
LEMMA CallerIs ==
  ASSUME NEW c \in Calls
  PROVE  /\ Mutates(call[c].what) =>
              CallerOf(c) = [status |-> call[c].status, what |-> call[c].what,
                             of |-> call[c].flight]
         /\ ~Mutates(call[c].what) => CallerOf(c) = [status |-> "idle", what |-> None, of |-> None]
         /\ Mutates(call'[c].what) =>
              CallerOf(c)' = [status |-> call'[c].status, what |-> call'[c].what,
                              of |-> call'[c].flight]
         /\ ~Mutates(call'[c].what) =>
              CallerOf(c)' = [status |-> "idle", what |-> None, of |-> None]
  BY DEF CallerOf, Mutates

LEMMA SubmissionIs ==
  ASSUME NEW f \in Calls
  PROVE  /\ flight[f].phase # "none" /\ Mutates(What(f)) =>
              SubmissionOf(f) = [what |-> What(f), open |-> Unsettled(f), applied |-> applied[f]]
         /\ ~(flight[f].phase # "none" /\ Mutates(What(f))) =>
              SubmissionOf(f) = [what |-> None, open |-> FALSE, applied |-> applied[f]]
         /\ flight'[f].phase # "none" /\ Mutates(What(f)') =>
              SubmissionOf(f)' = [what |-> What(f)', open |-> Unsettled(f)',
                                  applied |-> applied'[f]]
         /\ ~(flight'[f].phase # "none" /\ Mutates(What(f)')) =>
              SubmissionOf(f)' = [what |-> None, open |-> FALSE, applied |-> applied'[f]]
  BY DEF SubmissionOf, Mutates, What

(* One field of one record of a function. *)
LEMMA StatusSet ==
  ASSUME NEW S, NEW F, NEW G, NEW c \in S, NEW q, NEW s, NEW old, NEW new,
         F = [d \in S |-> F[d]], G = [d \in S |-> G[d]], \A d \in S : d # c => G[d] = F[d],
         F[c] = [status |-> old, what |-> q, of |-> s],
         G[c] = [status |-> new, what |-> q, of |-> s]
  PROVE  G = [F EXCEPT ![c].status = new]
  OBVIOUS

LEMMA OpenSet ==
  ASSUME NEW S, NEW F, NEW G, NEW f \in S, NEW q, NEW n, NEW old, NEW new,
         F = [d \in S |-> F[d]], G = [d \in S |-> G[d]], \A d \in S : d # f => G[d] = F[d],
         F[f] = [what |-> q, open |-> old, applied |-> n],
         G[f] = [what |-> q, open |-> new, applied |-> n]
  PROVE  G = [F EXCEPT ![f].open = new]
  OBVIOUS

LEMMA AppliedSet ==
  ASSUME NEW S, NEW F, NEW G, NEW f \in S, NEW q, NEW o, NEW old, NEW new,
         F = [d \in S |-> F[d]], G = [d \in S |-> G[d]], \A d \in S : d # f => G[d] = F[d],
         F[f] = [what |-> q, open |-> o, applied |-> old],
         G[f] = [what |-> q, open |-> o, applied |-> new]
  PROVE  G = [F EXCEPT ![f].applied = new]
  OBVIOUS

(* The two functions that the channel reads, pointwise. *)
Seen == [d \in Calls |-> CallerOf(d)]
Made == [d \in Calls |-> SubmissionOf(d)]

LEMMA Pointwise ==
  /\ Seen = [d \in Calls |-> Seen[d]] /\ Seen' = [d \in Calls |-> Seen'[d]]
  /\ Made = [d \in Calls |-> Made[d]] /\ Made' = [d \in Calls |-> Made'[d]]
  /\ \A d \in Calls : /\ Seen[d] = CallerOf(d) /\ Seen'[d] = CallerOf(d)'
                       /\ Made[d] = SubmissionOf(d) /\ Made'[d] = SubmissionOf(d)'
  BY DEF Seen, Made

(* A step that a page sees nothing of. *)
LEMMA Unseen ==
  ASSUME \A c \in Calls : CallerOf(c)' = CallerOf(c),
         \A f \in Calls : SubmissionOf(f)' = SubmissionOf(f)
  PROVE  UNCHANGED Channel!channelVars
  BY DEF Channel!channelVars

(* As long as calls, phases and applications stay, nothing is seen. *)
LEMMA UnseenFlight ==
  ASSUME UNCHANGED <<call, applied>>,
         \A f \in Calls : /\ flight'[f].phase = "none" <=> flight[f].phase = "none"
                          /\ Unsettled(f)' <=> Unsettled(f)
  PROVE  UNCHANGED Channel!channelVars
  <1>1. \A c \in Calls : CallerOf(c)' = CallerOf(c)
    BY DEF CallerOf
  <1>2. \A f \in Calls : Unsettled(f) \in BOOLEAN /\ Unsettled(f)' \in BOOLEAN
    BY DEF Unsettled
  <1>3. \A f \in Calls : SubmissionOf(f)' = SubmissionOf(f)
    BY <1>2 DEF SubmissionOf, What
  <1> QED
    BY <1>1, <1>3, Unseen

(* Requests are read, or they mutate. *)
LEMMA ReadOrMutate ==
  ASSUME PipelineAssumption, NEW q \in Requests
  PROVE  (Mutates(q) <=> q \notin Reads) /\ q # None /\ ~Mutates(None)
  BY DEF PipelineAssumption, Requests, Mutates

LEMMA ChannelSubscribe ==
  ASSUME PipelineAssumption, FlightInv, OnceInv, Asked, NEW c \in Calls, NEW q \in Requests,
         Subscribe(c, q)
  PROVE  Channel!Step \/ UNCHANGED Channel!channelVars
  <1>1. /\ call[c].status = "idle" /\ call[c].what = None
        /\ flight[c].phase = "none" /\ applied[c] = 0 /\ applied' = applied
        /\ \A d \in Calls : d # c => call'[d] = call[d]
    BY DEF Subscribe, FlightInv, TypeOK, Started, Asked, OnceInv, Unsent, platform
  <1>2. /\ CallerOf(c) = [status |-> "idle", what |-> None, of |-> None]
        /\ SubmissionOf(c) = [what |-> None, open |-> FALSE, applied |-> 0]
    BY <1>1, ReadOrMutate DEF CallerOf, SubmissionOf
  <1>3. \A d \in Calls : d # c => CallerOf(d)' = CallerOf(d)
    BY <1>1 DEF CallerOf
  <1>4. CASE Existing(q) # None
    <2> DEFINE s == inFlight[q]
    <2>1. /\ q \in Commands /\ s \in Calls /\ Unsettled(s) /\ What(s) = q
          /\ call'[c] = [status |-> "waiting", what |-> q, flight |-> s, epoch |-> epoch]
          /\ flight' = flight
      BY <1>4 DEF Subscribe, Existing, FlightInv, Mapped, TypeOK
    <2>2. CallerOf(c)' = [status |-> "waiting", what |-> q, of |-> s]
      BY <2>1 DEF CallerOf, Mutates
    <2>3. \A f \in Calls : SubmissionOf(f)' = SubmissionOf(f)
      <3>1. SubmissionOf(c)' = SubmissionOf(c)
        BY <1>1, <1>2, <2>1 DEF SubmissionOf
      <3>2. \A f \in Calls : f # c => SubmissionOf(f)' = SubmissionOf(f)
        BY <1>1, <2>1 DEF SubmissionOf, What, Unsettled
      <3> QED
        BY <3>1, <3>2
    <2>4. SubmissionOf(s).open /\ SubmissionOf(s).what = q
      BY <2>1 DEF SubmissionOf, Mutates, Unsettled
    <2> HIDE DEF s
    <2>5. Channel!Join(c, s)
      BY <1>2, <1>3, <2>1, <2>2, <2>3, <2>4 DEF Channel!Join, Channel!Silent, Channel!Asks
    <2> QED
      BY <2>1, <2>5 DEF Channel!Step
  <1>5. CASE Existing(q) = None
    <2>1. /\ call'[c] = [status |-> "waiting", what |-> q, flight |-> c, epoch |-> epoch]
          /\ flight'[c] = [phase |-> "out", n |-> 1]
          /\ \A d \in Calls : d # c => flight'[d] = flight[d]
      BY <1>5 DEF Subscribe, FlightInv, TypeOK
    <2>2. \A f \in Calls : f # c => SubmissionOf(f)' = SubmissionOf(f)
      BY <1>1, <2>1 DEF SubmissionOf, What, Unsettled
    <2>3. CASE ~Mutates(q)
      <3>1. CallerOf(c)' = CallerOf(c)
        BY <1>2, <2>1, <2>3, CallerIs
      <3>2. What(c)' = q
        BY <2>1 DEF What
      <3>3. SubmissionOf(c)' = SubmissionOf(c)
        BY <1>1, <1>2, <2>3, <3>2, SubmissionIs
      <3> QED
        BY <1>3, <2>2, <3>1, <3>3, Unseen
    <2>4. CASE Mutates(q)
      <3>1. /\ CallerOf(c)' = [status |-> "waiting", what |-> q, of |-> c]
            /\ SubmissionOf(c)' = [what |-> q, open |-> TRUE, applied |-> 0]
        <4>1. What(c)' = q /\ Unsettled(c)' = TRUE /\ flight'[c].phase # "none"
          BY <2>1 DEF What, Unsettled
        <4>2. Mutates(call'[c].what) /\ Mutates(What(c)')
          BY <2>1, <2>4, <4>1
        <4> QED
          BY <1>1, <2>1, <4>1, <4>2, CallerIs, SubmissionIs
      <3>2. ASSUME q \in Commands, NEW s \in Calls
            PROVE  ~(SubmissionOf(s).open /\ SubmissionOf(s).what = q)
        <4>1. inFlight[q] = None
          BY <1>5, <3>2 DEF Existing
        <4>2. SubmissionOf(s).open => Unsettled(s) /\ SubmissionOf(s).what = What(s)
          BY DEF SubmissionOf
        <4> QED
          BY <3>2, <4>1, <4>2 DEF FlightInv, OneFlightPerCommand, PipelineAssumption
      <3>3. Channel!Submit(c, q)
        BY <1>2, <1>3, <2>2, <3>1, <3>2
           DEF Channel!Submit, Channel!Silent, Channel!Unmade, Channel!Asks
      <3> QED
        BY <2>4, <3>3 DEF Channel!Step, Mutates
    <2> QED
      BY <2>3, <2>4
  <1> QED
    BY <1>4, <1>5

LEMMA ChannelUnsubscribe ==
  ASSUME PipelineAssumption, FlightInv, Asked, NEW c \in Calls, Unsubscribe(c)
  PROVE  Channel!Step \/ UNCHANGED Channel!channelVars
  <1>0. PICK f, q : f = call[c].flight /\ q = call[c].what
    OBVIOUS
  <1>1. /\ call[c].status = "waiting" /\ q \in Requests /\ f \in Calls /\ What(f) = q
        /\ flight[f].phase # "none"
    BY <1>0 DEF Unsubscribe, FlightInv, Carried, Asked
  <1>2. /\ call'[c] = [status |-> "left", what |-> q, flight |-> f, epoch |-> call[c].epoch]
        /\ \A d \in Calls : d # c => call'[d] = call[d]
        /\ \A d \in Calls : What(d)' = What(d)
    BY <1>0 DEF Unsubscribe, FlightInv, TypeOK, What
  <1>3. /\ \A d \in Calls : d # f => flight'[d] = flight[d]
        /\ q \in Commands => flight'[f] = flight[f]
        /\ q \notin Commands => flight'[f].phase = "settled"
        /\ applied' = applied
    BY <1>0, <1>1 DEF Unsubscribe, FlightInv, TypeOK, platform
  <1>4. \A d \in Calls : d # f => SubmissionOf(d)' = SubmissionOf(d)
    BY <1>2, <1>3 DEF SubmissionOf, Unsettled
  <1>5. \A d \in Calls : d # c => CallerOf(d)' = CallerOf(d)
    BY <1>2 DEF CallerOf
  <1>6. CASE ~Mutates(q)
    <2>1. CallerOf(c)' = CallerOf(c)
      BY <1>0, <1>2, <1>6 DEF CallerOf
    <2>2. SubmissionOf(f)' = SubmissionOf(f)
      BY <1>1, <1>2, <1>3, <1>6 DEF SubmissionOf
    <2>3. \A d \in Calls : CallerOf(d)' = CallerOf(d)
      BY <1>5, <2>1
    <2>4. \A d \in Calls : SubmissionOf(d)' = SubmissionOf(d)
      BY <1>4, <2>2
    <2> QED
      BY ONLY <2>3, <2>4, Unseen
  <1>7. CASE Mutates(q)
    <2>1. /\ CallerOf(c) = [status |-> "waiting", what |-> q, of |-> f]
          /\ CallerOf(c)' = [status |-> "left", what |-> q, of |-> f]
      BY <1>0, <1>1, <1>2, <1>7 DEF CallerOf
    <2>2. SubmissionOf(f) = [what |-> q, open |-> Unsettled(f), applied |-> applied[f]]
      BY <1>1, <1>7 DEF SubmissionOf
    <2>3. SubmissionOf(f)' = [what |-> q, open |-> (Unsettled(f) /\ q \in Commands),
                              applied |-> applied[f]]
      <3>1. flight'[f].phase # "none" /\ (Unsettled(f)' <=> Unsettled(f) /\ q \in Commands)
        <4>1. CASE q \in Commands
          BY <1>1, <1>3, <4>1 DEF Unsettled
        <4>2. CASE q \notin Commands
          BY <1>3, <4>2 DEF Unsettled
        <4> QED
          BY <4>1, <4>2
      <3>2. Unsettled(f)' \in BOOLEAN
        BY DEF Unsettled
      <3>3. SubmissionOf(f)' = [what |-> q, open |-> Unsettled(f)', applied |-> applied[f]]
        BY <1>1, <1>2, <1>3, <1>7, <3>1 DEF SubmissionOf
      <3> QED
        BY <3>1, <3>2, <3>3
    <2>4. Seen' = [Seen EXCEPT ![c].status = "left"]
      BY <1>5, <2>1, Pointwise, StatusSet
    <2>5. Made' = [Made EXCEPT ![f].open = Unsettled(f) /\ q \in Commands]
      <3>1. \A d \in Calls : d # f => Made'[d] = Made[d]
        BY <1>4, Pointwise
      <3>2. Made[f] = [what |-> q, open |-> Unsettled(f), applied |-> applied[f]]
        BY <1>1, <2>2, Pointwise
      <3>3. Made'[f] = [what |-> q, open |-> (Unsettled(f) /\ q \in Commands),
                        applied |-> applied[f]]
        BY <1>1, <2>3, Pointwise
      <3> QED
        BY <1>1, <3>1, <3>2, <3>3, Pointwise, OpenSet
    <2>6. /\ Seen[c] = [status |-> "waiting", what |-> q, of |-> f]
          /\ Made[f].open = Unsettled(f)
      BY <1>1, <2>1, <2>2, Pointwise
    <2>7. Made' = [Made EXCEPT ![Seen[c].of].open = @ /\ Seen[c].what \in Commands]
      <3>1. Seen[c].of = f /\ Seen[c].what = q
        BY <2>6
      <3>2. [Made EXCEPT ![Seen[c].of].open = @ /\ Seen[c].what \in Commands]
              = [Made EXCEPT ![f].open = @ /\ q \in Commands]
        BY ONLY <3>1, Zenon
      <3>3. (Made[f].open /\ q \in Commands) = (Unsettled(f) /\ q \in Commands)
        BY ONLY <2>6, Zenon
      <3>4. [Made EXCEPT ![f].open = @ /\ q \in Commands]
              = [Made EXCEPT ![f].open = Unsettled(f) /\ q \in Commands]
        BY ONLY <3>3, Zenon
      <3> QED
        BY ONLY <2>5, <3>2, <3>4, Zenon
    <2>8. Seen[c].status = "waiting"
      BY <2>6
    <2>9. Channel!Leave(c)
      BY <2>4, <2>7, <2>8 DEF Channel!Leave, Seen, Made
    <2> QED
      BY <2>9 DEF Channel!Step
  <1> QED
    BY <1>6, <1>7

(* Settling a flight of a command tells everybody who waits for the submission. *)
LEMMA ChannelSettles ==
  ASSUME PipelineAssumption, FlightInv, NEW f \in Calls, NEW status \in {"answered", "failed"},
         Settle(f, status), flight[f].phase = "out", UNCHANGED applied,
         status = "answered" /\ What(f) \notin Reads => applied[f] = 1
  PROVE  Channel!Step \/ UNCHANGED Channel!channelVars
  <1>1. call[f].status # "idle" /\ What(f) \in Requests
    BY DEF FlightInv, Started, Carried, What
  <1>2. /\ \A c \in Calls : c \in Waiting(f) =>
             call'[c] = [status |-> status, what |-> call[c].what, flight |-> f,
                         epoch |-> call[c].epoch]
        /\ \A c \in Calls : c \notin Waiting(f) => call'[c] = call[c]
    BY DEF Settle, Waiting, FlightInv, TypeOK
  <1>3. \A c \in Waiting(f) : call[c].what = What(f) /\ call[c].flight = f
                              /\ call[c].status = "waiting" /\ c \in Calls
    BY DEF Waiting, FlightInv, Carried
  <1>4. CallsKept /\ OthersKept(f) /\ flight'[f].phase = "settled"
    BY SettleKeeps
  <1>5. \A g \in Calls : What(g)' = What(g)
    BY <1>4 DEF CallsKept, What
  <1>6. \A g \in Calls : g # f => SubmissionOf(g)' = SubmissionOf(g)
    BY <1>4, <1>5 DEF SubmissionOf, Unsettled, OthersKept
  <1>7. \A c \in Calls : c \notin Waiting(f) => CallerOf(c)' = CallerOf(c)
    BY <1>2 DEF CallerOf
  <1>8. CASE ~Mutates(What(f))
    <2>1. ASSUME NEW c \in Calls, c \in Waiting(f)
          PROVE  CallerOf(c)' = CallerOf(c)
      <3>0. /\ call[c].what = What(f) /\ call[c].flight = f /\ call[c].status = "waiting"
            /\ call'[c] = [status |-> status, what |-> call[c].what, flight |-> f,
                           epoch |-> call[c].epoch]
        <4>1. call[c].what = What(f) /\ call[c].flight = f /\ call[c].status = "waiting"
          BY <1>3, <2>1
        <4>2. call'[c] = [status |-> status, what |-> call[c].what, flight |-> f,
                          epoch |-> call[c].epoch]
          BY <1>2, <2>1
        <4> QED
          BY <4>1, <4>2
      <3>1. call[c].what = What(f) /\ call'[c].what = What(f)
        BY <3>0
      <3> QED
        BY <1>8, <3>1, CallerIs
    <2>2. SubmissionOf(f)' = SubmissionOf(f)
      BY <1>5, <1>8 DEF SubmissionOf
    <2> QED
      BY <1>6, <1>7, <2>1, <2>2, Unseen
  <1>9. CASE Mutates(What(f))
    <2>1. /\ SubmissionOf(f) = [what |-> What(f), open |-> TRUE, applied |-> applied[f]]
          /\ SubmissionOf(f)' = [what |-> What(f), open |-> FALSE, applied |-> applied[f]]
      <3>1. /\ Unsettled(f) = TRUE /\ Unsettled(f)' = FALSE
            /\ flight[f].phase # "none" /\ flight'[f].phase # "none"
        BY <1>4 DEF Unsettled
      <3>2. What(f)' = What(f) /\ Mutates(What(f)')
        BY <1>5, <1>9
      <3> QED
        BY <1>9, <3>1, <3>2, SubmissionIs
    <2>2. ASSUME NEW c \in Calls, c \in Waiting(f)
          PROVE  /\ CallerOf(c) = [status |-> "waiting", what |-> What(f), of |-> f]
                 /\ CallerOf(c)' = [status |-> status, what |-> What(f), of |-> f]
      <3>0. /\ call[c].what = What(f) /\ call[c].flight = f /\ call[c].status = "waiting"
            /\ call'[c] = [status |-> status, what |-> call[c].what, flight |-> f,
                           epoch |-> call[c].epoch]
        <4>1. call[c].what = What(f) /\ call[c].flight = f /\ call[c].status = "waiting"
          BY <1>3, <2>2
        <4>2. call'[c] = [status |-> status, what |-> call[c].what, flight |-> f,
                          epoch |-> call[c].epoch]
          BY <1>2, <2>2
        <4> QED
          BY <4>1, <4>2
      <3>1. /\ call[c].what = What(f) /\ call[c].status = "waiting" /\ call[c].flight = f
            /\ call'[c].what = What(f) /\ call'[c].status = status /\ call'[c].flight = f
        BY <3>0
      <3> QED
        BY <1>9, <3>1, CallerIs
    <2>3. \A c \in Calls : CallerOf(c).status = "waiting" /\ CallerOf(c).of = f
                             <=> c \in Waiting(f)
      BY <2>2 DEF CallerOf, Waiting
    <2>4. status = "answered" => applied[f] = 1
      BY <1>1, <1>9, ReadOrMutate
    <2>5. \A c \in Calls : CallerOf(c)' = IF CallerOf(c).status = "waiting" /\ CallerOf(c).of = f
                                          THEN [CallerOf(c) EXCEPT !.status = status]
                                          ELSE CallerOf(c)
      BY <1>7, <2>2, <2>3
    <2>6. Made' = [Made EXCEPT ![f].open = FALSE]
      <3>1. \A d \in Calls : d # f => Made'[d] = Made[d]
        BY <1>6, Pointwise
      <3>2. /\ Made[f] = [what |-> What(f), open |-> TRUE, applied |-> applied[f]]
            /\ Made'[f] = [what |-> What(f), open |-> FALSE, applied |-> applied[f]]
        BY <2>1, Pointwise
      <3> QED
        BY <3>1, <3>2, Pointwise, OpenSet
    <2>7. Seen' = [c \in Calls |-> IF Seen[c].status = "waiting" /\ Seen[c].of = f
                                    THEN [Seen[c] EXCEPT !.status = status]
                                    ELSE Seen[c]]
      BY <2>5, Pointwise
    <2>8. Made[f].open /\ Made[f].applied = applied[f]
      BY <2>1, Pointwise
    <2>9. Channel!Tell(f, status)
      BY <2>4, <2>6, <2>7, <2>8 DEF Channel!Tell, Seen, Made
    <2> QED
      BY <2>9 DEF Channel!Step
  <1> QED
    BY <1>8, <1>9

LEMMA ChannelEnds ==
  ASSUME PipelineAssumption, FlightInv, SuccessInv, NEW f \in Calls,
         ReplyArrives(f) \/ ConnectionDrops(f), applied[f] <= 1
  PROVE  Channel!Step \/ UNCHANGED Channel!channelVars
  <1>1. flight[f].phase = "out" /\ applied' = applied
    BY DEF ReplyArrives, ConnectionDrops, FlightInv, Started, platform
  <1>2. CASE reply[f] = "ok" /\ Settle(f, "answered")
    <2>1. What(f) \notin Reads => applied[f] = 1
      BY <1>2 DEF SuccessInv, ReplyApplied, FlightInv, TypeOK
    <2> QED
      BY <1>1, <1>2, <2>1, ChannelSettles
  <1>3. CASE Settle(f, "failed")
    BY <1>1, <1>3, ChannelSettles
  <1>4. CASE flight' = [flight EXCEPT ![f].phase = "backoff"] /\ UNCHANGED call
    <2>1. /\ \A g \in Calls : g # f => flight'[g] = flight[g]
          /\ flight'[f].phase = "backoff"
      BY <1>4 DEF FlightInv, TypeOK
    <2>2. \A g \in Calls : /\ flight'[g].phase = "none" <=> flight[g].phase = "none"
                           /\ Unsettled(g)' <=> Unsettled(g)
      BY <1>1, <2>1 DEF Unsettled
    <2> QED
      BY <1>1, <1>4, <2>2, UnseenFlight
  <1> QED
    BY <1>2, <1>3, <1>4 DEF ReplyArrives, ConnectionDrops, FailTransiently

LEMMA ChannelAnswers ==
  ASSUME PipelineAssumption, FlightInv, OnceInv, Asked, NEW a \in wire, PlatformAnswers(a),
         applied'[a.flight] <= 1
  PROVE  Channel!Step \/ UNCHANGED Channel!channelVars
  <1> DEFINE f == a.flight
  <1>1. f \in Calls /\ UNCHANGED <<call, flight>>
    BY DEF PlatformAnswers, FlightInv, TypeOK, Attempt, browser
  <1>2. flight[f].phase # "none" /\ call[f].status # "idle" /\ What(f) \in Requests
    BY <1>1 DEF OnceInv, Unsent, FlightInv, Started, Carried, What
  <1>3. CASE UNCHANGED platform
    <2>1. \A g \in Calls : /\ flight'[g].phase = "none" <=> flight[g].phase = "none"
                           /\ Unsettled(g)' <=> Unsettled(g)
      BY <1>1 DEF Unsettled
    <2> QED
      BY <1>1, <1>3, <2>1, UnseenFlight DEF platform
  <1>4. CASE What(f) \notin Reads /\ applied' = [applied EXCEPT ![f] = @ + 1]
    <2>1. /\ applied[f] = 0 /\ applied'[f] = 1
          /\ \A g \in Calls : g # f => applied'[g] = applied[g]
      BY <1>1, <1>4 DEF FlightInv, TypeOK
    <2>2. Mutates(What(f)) /\ What(f) # None
      BY <1>2, <1>4, ReadOrMutate
    <2>3. /\ SubmissionOf(f) = [what |-> What(f), open |-> Unsettled(f), applied |-> 0]
          /\ SubmissionOf(f)' = [what |-> What(f), open |-> Unsettled(f), applied |-> 1]
      BY <1>1, <1>2, <2>1, <2>2 DEF SubmissionOf, What, Unsettled
    <2>4. \A g \in Calls : g # f => SubmissionOf(g)' = SubmissionOf(g)
      BY <1>1, <2>1 DEF SubmissionOf, What, Unsettled
    <2>5. \A c \in Calls : CallerOf(c)' = CallerOf(c)
      BY <1>1 DEF CallerOf
    <2> HIDE DEF f
    <2>6. Made' = [Made EXCEPT ![f].applied = 1]
      <3>1. \A d \in Calls : d # f => Made'[d] = Made[d]
        BY <2>4, Pointwise
      <3>2. /\ Made[f] = [what |-> What(f), open |-> Unsettled(f), applied |-> 0]
            /\ Made'[f] = [what |-> What(f), open |-> Unsettled(f), applied |-> 1]
        BY <1>1, <2>3, Pointwise
      <3> QED
        BY <1>1, <3>1, <3>2, Pointwise, AppliedSet
    <2>7. Seen' = Seen /\ Made[f].what # None /\ Made[f].applied = 0
      BY <1>1, <2>2, <2>3, <2>5, Pointwise
    <2>8. Channel!Apply(f)
      BY <2>6, <2>7 DEF Channel!Apply, Seen, Made
    <2> QED
      BY <1>1, <2>8 DEF Channel!Step
  <1> QED
    BY <1>3, <1>4 DEF PlatformAnswers

LEMMA ChannelSteps ==
  ASSUME PipelineAssumption, HonoursKeys \/ Repeatable = {}, FlightInv, OnceInv, SuccessInv, Asked,
         AppliedOnce, AppliedOnce', [Next]_vars
  PROVE  Channel!Step \/ UNCHANGED Channel!channelVars
  <1>1. \A f \in Calls : applied[f] <= 1 /\ applied'[f] <= 1
    BY DEF AppliedOnce
  <1>2. ASSUME NEW f \in Calls, Resend(f)
        PROVE  UNCHANGED Channel!channelVars
    <2>1. /\ UNCHANGED <<call, applied>> /\ flight[f].phase = "backoff"
          /\ flight'[f].phase = "out" /\ \A g \in Calls : g # f => flight'[g] = flight[g]
      BY <1>2 DEF Resend, FlightInv, TypeOK, platform
    <2>2. \A g \in Calls : /\ flight'[g].phase = "none" <=> flight[g].phase = "none"
                           /\ Unsettled(g)' <=> Unsettled(g)
      BY <2>1 DEF Unsettled
    <2> QED
      BY <2>1, <2>2, UnseenFlight
  <1>3. SignInAgain \/ UNCHANGED vars => UNCHANGED Channel!channelVars
    <2>1. SUFFICES ASSUME UNCHANGED <<call, flight, applied>>
                   PROVE  UNCHANGED Channel!channelVars
      BY DEF SignInAgain, vars, browser, platform
    <2>2. \A g \in Calls : /\ flight'[g].phase = "none" <=> flight[g].phase = "none"
                           /\ Unsettled(g)' <=> Unsettled(g)
      BY <2>1 DEF Unsettled
    <2> QED
      BY <2>1, <2>2, UnseenFlight
  <1>4. ASSUME NEW a \in wire
        PROVE  a.flight \in Calls
    BY DEF FlightInv, TypeOK, Attempt
  <1> QED
    BY <1>1, <1>2, <1>3, <1>4, ChannelSubscribe, ChannelUnsubscribe, ChannelEnds, ChannelAnswers
       DEF Next

(* Whatever the network loses and the retries repeat: to the pages the pipeline is a      *)
(* channel that applies each submission at most once, where the platform honours keys, or *)
(* where nothing is replayed and no call site declares a command repeatable.              *)
THEOREM ChannelImplemented ==
  ASSUME HonoursKeys \/ (~Replays /\ Repeatable = {})
  PROVE  Spec => ImplementsChannel
  <1>1. Init => Channel!ChannelInit
    BY PipelineAssumption
       DEF Init, Channel!ChannelInit, Channel!Silent, Channel!Unmade, CallerOf, SubmissionOf,
           Mutates, PipelineAssumption, Requests
  <1>2. Spec => []Asked
    <2>1. FlightInv /\ Asked /\ [Next]_vars => Asked'
      BY PipelineAssumption, AskedStep
    <2> QED
      BY <2>1, PipelineAssumption, AskedInit, FlightInvariant, PTL DEF Spec
  <1>3. Spec => []AppliedOnce
    BY AppliedAtMostOnce
  <1>4. FlightInv /\ OnceInv /\ SuccessInv /\ Asked /\ AppliedOnce /\ AppliedOnce' /\ [Next]_vars
          => [Channel!ChannelNext]_(Channel!channelVars)
    BY PipelineAssumption, ChannelSteps DEF Channel!ChannelNext
  <1> QED
    BY <1>1, <1>2, <1>3, <1>4, FlightInvariant, OnceInvariant, SuccessInvariant, PTL
       DEF Spec, ImplementsChannel, Channel!ChannelSpec
=============================================================================
