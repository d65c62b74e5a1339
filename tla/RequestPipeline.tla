-------------------------- MODULE RequestPipeline --------------------------
(***************************************************************************)
(* What becomes of a request below authInterceptor: loadingInterceptor     *)
(* marks its URL busy, idempotencyInterceptor collapses identical commands *)
(* in flight and gives each submission a key, retryInterceptor sends again *)
(* what may be sent again, and an unreliable network lies in between.      *)
(*                                                                         *)
(* A call is one subscription made by a page.  A flight is one request as  *)
(* HttpClient's backend sees it, named after the call that started it; a   *)
(* collapsed call has somebody else's flight.                              *)
(***************************************************************************)
EXTENDS Naturals, FiniteSets

CONSTANTS
  Calls,          (* subscriptions; bounds how many are made                *)
  Reads,          (* GET requests                                           *)
  Commands,       (* mutating requests, by fingerprint                      *)
  Uploads,        (* mutating requests whose body cannot be compared        *)
  Repeatable,     (* commands whose call site says idempotent()             *)
  Url(_),         (* the URL of a request, without its query                *)
  Retries,        (* DEFAULT_RETRY_COUNT                                    *)
  MaxEpoch,       (* bounds the sign-ins of the tab                         *)
  Replays,        (* whether a proxy may deliver a request twice            *)
  HonoursKeys,    (* whether the platform implements Idempotency-Key        *)
  None

Requests == Reads \cup Commands \cup Uploads

ASSUME PipelineAssumption ==
  /\ Repeatable \subseteq Commands
  /\ Reads \cap (Commands \cup Uploads) = {} /\ Commands \cap Uploads = {}
  /\ None \notin Calls \cup Requests \cup {"ok", "transient", "fatal"}
  /\ Retries \in Nat /\ MaxEpoch \in Nat \ {0}
  /\ Replays \in BOOLEAN /\ HonoursKeys \in BOOLEAN

VARIABLES
  call,       (* per call: its status, request, flight and the session it was made in *)
  flight,     (* per flight: where it stands, and which attempt is out      *)
  inFlight,   (* the interceptor's map: per command, the flight to share    *)
  busy,       (* LoadingService.loadingMap                                  *)
  epoch,      (* which sign-in of the tab this is                           *)
  wire,       (* attempts on their way to the platform                      *)
  reply,      (* per flight: the answer on its way back to the attempt that is out *)
  keys,       (* platform: the keys it has seen                             *)
  applied     (* platform: how often the command of a flight was applied    *)

browser == <<call, flight, inFlight, busy>>
platform == <<keys, applied>>
vars == <<browser, epoch, wire, reply, platform>>

Statuses == {"idle", "waiting", "answered", "failed", "left"}
Phases == {"none", "out", "backoff", "settled"}
Results == {"ok", "transient", "fatal"}
Attempts == 1..(Retries + 1)
Attempt == [flight : Calls, n : Attempts]

What(f) == call[f].what
Unsettled(f) == flight[f].phase \in {"out", "backoff"}
Waiting(f) == {c \in Calls : call[c].status = "waiting" /\ call[c].flight = f}

(* isSafeToRepeat *)
SafeToRepeat(q) == q \in Reads \cup Repeatable

(* The key an attempt carries: the interceptor that makes it sits outside the retries. *)
Key_PerAttempt(f, n) == <<f, n>>
Key(f, n) == <<f, 1>>

-----------------------------------------------------------------------------
Init ==
  /\ call = [c \in Calls |-> [status |-> "idle", what |-> None, flight |-> None, epoch |-> 0]]
  /\ flight = [c \in Calls |-> [phase |-> "none", n |-> 1]]
  /\ inFlight = [q \in Commands |-> None]
  /\ busy = {} /\ epoch = 1
  /\ wire = {} /\ reply = [c \in Calls |-> None]
  /\ keys = {} /\ applied = [c \in Calls |-> 0]

(* The entry for a command, if a call of q is to share one. *)
Existing_ByUrl(q) ==
  LET same == {inFlight[p] : p \in {p \in Commands : Url(p) = Url(q)}} \ {None}
  IN  IF q \notin Commands \/ same = {} THEN None ELSE CHOOSE f \in same : TRUE

Existing(q) == IF q \in Commands THEN inFlight[q] ELSE None

(* A page subscribes: loading, then the map, then the backend. *)
Subscribe(c, q) ==
  /\ call[c].status = "idle"
  /\ busy' = busy \cup {Url(q)}
  /\ \/ /\ Existing(q) # None
        /\ call' = [call EXCEPT ![c] = [status |-> "waiting", what |-> q,
                                         flight |-> Existing(q), epoch |-> epoch]]
        /\ UNCHANGED <<flight, inFlight, wire>>
     \/ /\ Existing(q) = None
        /\ call' = [call EXCEPT ![c] = [status |-> "waiting", what |-> q,
                                         flight |-> c, epoch |-> epoch]]
        /\ flight' = [flight EXCEPT ![c] = [phase |-> "out", n |-> 1]]
        /\ inFlight' = IF q \in Commands THEN [inFlight EXCEPT ![q] = c] ELSE inFlight
        /\ wire' = wire \cup {[flight |-> c, n |-> 1]}
  /\ UNCHANGED <<epoch, reply, platform>>

(* Removing a URL that several calls share: setLoading(false, url). *)
Idle(cs) == busy \ {Url(What(c)) : c \in cs}

(* The page is destroyed and unsubscribes.  A shared flight is not cancelled; any other  *)
(* is aborted in the browser, which does not call back what is already on the wire.      *)
Unsubscribe_Forgets(c) ==
  /\ call[c].status = "waiting"
  /\ LET f == call[c].flight
         shared == What(f) \in Commands
     IN
       /\ call' = [call EXCEPT ![c].status = "left"]
       /\ busy' = Idle({c})
       /\ flight' = [flight EXCEPT ![f].phase = IF shared THEN @ ELSE "settled"]
       /\ reply' = [reply EXCEPT ![f] = IF shared THEN @ ELSE None]
       /\ inFlight' = [q \in Commands |-> IF inFlight[q] = c THEN None ELSE inFlight[q]]
  /\ UNCHANGED <<epoch, wire, platform>>

Unsubscribe_StaysBusy(c) ==
  /\ call[c].status = "waiting"
  /\ LET f == call[c].flight
         shared == What(f) \in Commands
     IN
       /\ call' = [call EXCEPT ![c].status = "left"]
       /\ flight' = [flight EXCEPT ![f].phase = IF shared THEN @ ELSE "settled"]
       /\ reply' = [reply EXCEPT ![f] = IF shared THEN @ ELSE None]
  /\ UNCHANGED <<inFlight, busy, epoch, wire, platform>>

Unsubscribe(c) ==
  /\ call[c].status = "waiting"
  /\ LET f == call[c].flight
         shared == What(f) \in Commands
     IN
       /\ call' = [call EXCEPT ![c].status = "left"]
       /\ busy' = Idle({c})
       /\ flight' = [flight EXCEPT ![f].phase = IF shared THEN @ ELSE "settled"]
       /\ reply' = [reply EXCEPT ![f] = IF shared THEN @ ELSE None]
  /\ UNCHANGED <<inFlight, epoch, wire, platform>>

(* The backend completes or fails a flight: everybody who waits is told, then finalize   *)
(* clears the map, all in one callback.                                                  *)
Settle_FirstOnly(f, status) ==
  /\ flight' = [flight EXCEPT ![f].phase = "settled"]
  /\ call' = [call EXCEPT ![f].status = IF @ = "waiting" THEN status ELSE @]
  /\ inFlight' = [q \in Commands |-> IF inFlight[q] = f THEN None ELSE inFlight[q]]
  /\ busy' = Idle({f})

Settle(f, status) ==
  /\ flight' = [flight EXCEPT ![f].phase = "settled"]
  /\ call' = [c \in Calls |-> IF c \in Waiting(f) THEN [call[c] EXCEPT !.status = status]
                               ELSE call[c]]
  /\ inFlight' = [q \in Commands |-> IF inFlight[q] = f THEN None ELSE inFlight[q]]
  /\ busy' = Idle(Waiting(f))

(* A transient failure: back off if the request may be repeated and has tries left. *)
MayRepeat_OneMore(f) == SafeToRepeat(What(f)) /\ flight[f].n <= Retries + 1
MayRepeat(f) == SafeToRepeat(What(f)) /\ flight[f].n <= Retries

FailTransiently(f) ==
  \/ /\ MayRepeat(f)
     /\ flight' = [flight EXCEPT ![f].phase = "backoff"]
     /\ UNCHANGED <<call, inFlight, busy>>
  \/ /\ ~MayRepeat(f)
     /\ Settle(f, "failed")

(* The answer to the attempt that is out. *)
ReplyArrives(f) ==
  /\ reply[f] # None
  /\ \/ reply[f] = "ok" /\ Settle(f, "answered")
     \/ reply[f] = "fatal" /\ Settle(f, "failed")
     \/ reply[f] = "transient" /\ FailTransiently(f)
  /\ reply' = [reply EXCEPT ![f] = None]
  /\ UNCHANGED <<epoch, wire, platform>>

(* Status 0: the connection goes, with the request or with its answer. *)
ConnectionDrops(f) ==
  /\ flight[f].phase = "out"
  /\ FailTransiently(f)
  /\ wire' \in {wire, wire \ {[flight |-> f, n |-> flight[f].n]}}
  /\ reply' = [reply EXCEPT ![f] = None]
  /\ UNCHANGED <<epoch, platform>>

(* The backoff timer of retry() ends. *)
Resend(f) ==
  /\ flight[f].phase = "backoff"
  /\ flight' = [flight EXCEPT ![f] = [phase |-> "out", n |-> @.n + 1]]
  /\ wire' = wire \cup {[flight |-> f, n |-> flight[f].n + 1]}
  /\ UNCHANGED <<call, inFlight, busy, epoch, reply, platform>>

(* Another user signs in, or the same one again, in the same document. *)
SignInAgain ==
  /\ epoch < MaxEpoch
  /\ epoch' = epoch + 1
  /\ UNCHANGED <<browser, wire, reply, platform>>

-----------------------------------------------------------------------------
(* The platform, as the interceptors' comments describe it: a command under a key it has *)
(* seen is answered from memory; anything else is applied, refused, or not served now.   *)
(* Its answer goes to the connection the request came on, if that is still open.         *)
PlatformAnswers(a) ==
  LET f == a.flight
      k == Key(f, a.n)
      known == k \in keys /\ HonoursKeys
      open == flight[f] = [phase |-> "out", n |-> a.n] /\ reply[f] = None
  IN
  /\ wire' \in {wire \ {a}} \cup (IF Replays THEN {wire} ELSE {})
  /\ \E result \in Results :
       /\ reply' = IF open THEN [reply EXCEPT ![f] = result] ELSE reply
       /\ \/ /\ result = "ok" /\ What(f) \notin Reads /\ ~known
             /\ keys' = keys \cup {k}
             /\ applied' = [applied EXCEPT ![f] = @ + 1]
          \/ /\ result # "ok" \/ What(f) \in Reads \/ known
             /\ UNCHANGED platform
  /\ UNCHANGED <<browser, epoch>>

Next ==
  \/ \E c \in Calls : \E q \in Requests : Subscribe(c, q)
  \/ \E c \in Calls : Unsubscribe(c)
  \/ \E f \in Calls : ReplyArrives(f)
  \/ \E f \in Calls : ConnectionDrops(f)
  \/ \E f \in Calls : Resend(f)
  \/ SignInAgain
  \/ \E a \in wire : PlatformAnswers(a)

Spec == Init /\ [][Next]_vars

(* A connection ends sooner or later, with an answer or without; a timer fires. *)
Fairness ==
  \A f \in Calls :
    /\ WF_vars(ConnectionDrops(f) \/ ReplyArrives(f))
    /\ WF_vars(Resend(f))

FairSpec == Spec /\ Fairness

-----------------------------------------------------------------------------
(* TYPE INVARIANT *)
TypeOK ==
  /\ call \in [Calls -> [status : Statuses, what : Requests \cup {None},
                         flight : Calls \cup {None}, epoch : 0..MaxEpoch]]
  /\ flight \in [Calls -> [phase : Phases, n : Attempts]]
  /\ inFlight \in [Commands -> Calls \cup {None}]
  /\ busy \subseteq {Url(q) : q \in Requests}
  /\ epoch \in 1..MaxEpoch
  /\ wire \subseteq Attempt /\ reply \in [Calls -> Results \cup {None}]
  /\ applied \in [Calls -> Nat]

(* The map holds the flight of a command exactly while it is unsettled, so that there is *)
(* never a second one: not after the first caller walked away, nor during the retries.   *)
OneFlightPerCommand ==
  \A f \in Calls : Unsettled(f) /\ What(f) \in Commands => inFlight[What(f)] = f

(* However often a request is clicked, sent or retried, the platform applies one         *)
(* submission once: by its key, or, where keys are ignored, because it was not sent      *)
(* again.  A command whose call site vouches for repeating it needs the key.             *)
AppliedOnce == \A f \in Calls : HonoursKeys \/ What(f) \notin Repeatable => applied[f] <= 1

(* Whoever was told that a command succeeded, a collapsed second click included, shares  *)
(* a flight of that very command, and the platform has applied it.                       *)
SuccessIsApplied ==
  \A c \in Calls : call[c].status = "answered" /\ call[c].what \notin Reads =>
    What(call[c].flight) = call[c].what /\ applied[call[c].flight] >= 1

(* The progress bar shows a URL only while somebody waits for it: answers, failures,     *)
(* pages that leave and flights that are shared all take it down.                        *)
BusyMeansWaiting == \A u \in busy : \E c \in Calls : call[c].status = "waiting" /\ Url(What(c)) = u

(* What a page that sends commands sees of the pipeline; reads are no part of it.        *)
Mutates(q) == q \in Commands \/ q \in Uploads

CallerOf(c) ==
  LET k == call[c] IN
  IF Mutates(k.what) THEN [status |-> k.status, what |-> k.what, of |-> k.flight]
  ELSE [status |-> "idle", what |-> None, of |-> None]

SubmissionOf(f) ==
  IF flight[f].phase # "none" /\ Mutates(What(f))
    THEN [what |-> What(f), open |-> Unsettled(f), applied |-> applied[f]]
    ELSE [what |-> None, open |-> FALSE, applied |-> applied[f]]

Channel == INSTANCE CommandChannel WITH
  Callers <- Calls, Shared <- Commands, Alone <- Uploads,
  caller <- [c \in Calls |-> CallerOf(c)],
  submission <- [f \in Calls |-> SubmissionOf(f)]

(* To that page the pipeline is a CommandChannel: whatever is retried, lost or delivered *)
(* twice, a submission is applied once at most; a second click has its share of the      *)
(* first; a success was applied; and one who leaves takes nothing from the others.       *)
ImplementsChannel == Channel!ChannelSpec

(* Nobody waits for ever: every subscription is answered, fails, or is given up.         *)
EveryoneIsTold ==
  \A c \in Calls : call[c].status = "waiting" ~> call[c].status # "waiting"

-----------------------------------------------------------------------------
(* What a comment of the code says of it, and a run refutes.                             *)

(* idempotency.interceptor.ts: the fingerprint is "what this request would do"; requests *)
(* collapsed would have done the same, so they were made by the same signed-in user.     *)
CollapsedWithinSession ==
  \A c \in Calls : call[c].status = "waiting" => call[c].epoch = call[call[c].flight].epoch
=============================================================================
