---------------------------- MODULE IdleMonitor ----------------------------
(***************************************************************************)
(* IdleService: the activity throttle, the one timer it keeps, the warning *)
(* it raises WarningTime before the end, and the modal behind the warning, *)
(* which Ionic puts on screen some time after it was asked for.            *)
(*                                                                         *)
(* Time is counted in ticks, whose number in a quarter of an hour is a     *)
(* constant.  Whatever is due happens before the clock moves: a timer that *)
(* ran out, Angular's effect on a changed signal, an answered modal.       *)
(***************************************************************************)
EXTENDS Integers

CONSTANTS
  IdleTimeout,   (* IDLE_TIMEOUT                                            *)
  WarningTime,   (* WARNING_TIME                                            *)
  Throttle,      (* the window of throttleTime                              *)
  MaxModals      (* bounds the warnings that exist at once                  *)

ASSUME IdleAssumption ==
  /\ WarningTime \in Nat \ {0} /\ IdleTimeout \in Nat /\ IdleTimeout > WarningTime
  /\ Throttle \in Nat
  /\ MaxModals \in Nat \ {0}

VARIABLES
  authed,       (* AuthService.isAuthenticated                              *)
  dirty,        (* the effect on it is still to run                         *)
  page,         (* whether the sign-in form is on screen                    *)
  listening,    (* idleSubscription is open                                 *)
  window,       (* what is left of the throttle window                      *)
  timer,        (* timeoutId: which callback, and the time to it            *)
  presenting,   (* presentingWarning                                        *)
  dialog,       (* dialogRef                                                *)
  modal,        (* the modals: their stage and how they were answered       *)
  fresh,        (* history: modals whose session and page are still those   *)
                (* they were raised in                                      *)
  quiet         (* history: time since the session began or the user stirred *)

service == <<listening, window, timer, presenting, dialog>>
vars == <<authed, dirty, page, service, modal, fresh, quiet>>

(* Modals are numbered from the bottom of Ionic's stack; 0 is none. *)
Modals == 1..MaxModals
NoModal == 0

Stages == {"none", "opening", "open"}
Answers == {"none", "stay", "leave"}
Closed == [stage |-> "none", answer |-> "none"]
TimerOff == [kind |-> "off", left |-> 0]
UntilWarning_Swapped == [kind |-> "warn", left |-> WarningTime - IdleTimeout]
UntilWarning == [kind |-> "warn", left |-> IdleTimeout - WarningTime]
UntilLogout == [kind |-> "logout", left |-> WarningTime]

OnScreen(m) == modal[m].stage # "none" /\ modal[m].answer = "none"
Above(m) == {k \in Modals : k > m /\ modal[k] # Closed}
Free == {m \in Modals : modal[m] = Closed /\ Above(m) = {}}
Opening == {m \in Modals : modal[m].stage = "opening"}
Answered == {m \in Modals : modal[m].answer # "none"}
Settling == {m \in Answered : modal[m].stage = "open"}

(* A dismissed modal resolves in a microtask: no other callback runs before it. *)
NoMicrotask == Settling = {}

(* closeDialog: only a modal whose handle is held can be taken down, and a modal taken   *)
(* down so resolves with no value, which its subscriber reads as "leave".                *)
CloseDialog ==
  /\ presenting' = FALSE
  /\ dialog' = NoModal
  /\ modal' = [m \in Modals |-> IF m = dialog /\ OnScreen(m)
                                 THEN [modal[m] EXCEPT !.answer = "leave"] ELSE modal[m]]

Settled(m) == [modal EXCEPT ![m] = Closed]

-----------------------------------------------------------------------------
Init ==
  /\ authed \in BOOLEAN /\ dirty = TRUE
  /\ page = IF authed THEN "app" ELSE "login"
  /\ listening = FALSE /\ window = 0 /\ timer = TimerOff
  /\ presenting = FALSE /\ dialog = NoModal
  /\ modal = [m \in Modals |-> Closed] /\ fresh = {}
  /\ quiet = 0

(* The constructor's effect: startMonitoring or stopMonitoring. *)
SessionEffect ==
  /\ NoMicrotask /\ dirty /\ dirty' = FALSE
  /\ listening' = authed
  /\ window' = 0
  /\ timer' = IF authed THEN UntilWarning ELSE TimerOff
  /\ CloseDialog
  /\ UNCHANGED <<authed, page, fresh, quiet>>

(* An event on the window.  Every event is activity; one in a throttle window is heard,  *)
(* and resets the timer unless a warning is up or on its way.                            *)
Stir_Unguarded ==
  /\ quiet' = 0
  /\ \/ /\ listening /\ window = 0
        /\ window' = Throttle
        /\ timer' = UntilWarning
     \/ /\ ~(listening /\ window = 0)
        /\ UNCHANGED <<window, timer>>

Stir_Debounced ==
  /\ quiet' = 0
  /\ \/ /\ listening
        /\ window' = Throttle
        /\ timer' = IF presenting \/ window # 0 THEN timer ELSE UntilWarning
     \/ /\ ~listening
        /\ UNCHANGED <<window, timer>>

Stir ==
  /\ quiet' = 0
  /\ \/ /\ listening /\ window = 0
        /\ window' = Throttle
        /\ timer' = IF presenting THEN timer ELSE UntilWarning
     \/ /\ ~(listening /\ window = 0)
        /\ UNCHANGED <<window, timer>>

Activity ==
  /\ NoMicrotask /\ Stir
  /\ UNCHANGED <<authed, dirty, page, listening, presenting, dialog, modal, fresh>>

(* showInactivityWarning, from its timer. *)
ShowWarning_NoLogoutTimer ==
  /\ NoMicrotask /\ timer.kind = "warn" /\ timer.left = 0
  /\ presenting' = TRUE
  /\ \E m \in Modals :
       /\ m \in Free /\ \A k \in Free : m <= k
       /\ modal' = [modal EXCEPT ![m].stage = "opening"]
       /\ fresh' = IF authed /\ ~dirty THEN fresh \cup {m} ELSE fresh
  /\ timer' = TimerOff
  /\ UNCHANGED <<authed, dirty, page, listening, window, dialog, quiet>>

ShowWarning ==
  /\ NoMicrotask /\ timer.kind = "warn" /\ timer.left = 0
  /\ \/ /\ presenting
        /\ timer' = TimerOff
        /\ UNCHANGED <<presenting, modal, fresh>>
     \/ /\ ~presenting
        /\ presenting' = TRUE
        /\ \E m \in Modals :
             /\ m \in Free /\ \A k \in Free : m <= k
             /\ modal' = [modal EXCEPT ![m].stage = "opening"]
             /\ fresh' = IF authed /\ ~dirty THEN fresh \cup {m} ELSE fresh
        /\ timer' = UntilLogout
  /\ UNCHANGED <<authed, dirty, page, listening, window, dialog, quiet>>

(* present() resolves: the handle is kept, or the modal of a dead session taken down. *)
HandleArrives(m) ==
  /\ NoMicrotask /\ modal[m].stage = "opening"
  /\ \/ /\ ~authed
        /\ presenting' = FALSE /\ timer' = TimerOff
        /\ modal' = Settled(m) /\ fresh' = fresh \ {m}
        /\ UNCHANGED dialog
     \/ /\ authed
        /\ dialog' = m
        /\ modal' = [modal EXCEPT ![m].stage = "open"]
        /\ UNCHANGED <<presenting, timer, fresh>>
  /\ UNCHANGED <<authed, dirty, page, listening, window, quiet>>

(* The user answers the topmost warning, from the first frame of its animation on. *)
Answer(m, a) ==
  /\ NoMicrotask /\ OnScreen(m) /\ Above(m) = {}
  /\ modal' = [modal EXCEPT ![m].answer = a]
  /\ Stir
  /\ UNCHANGED <<authed, dirty, page, listening, presenting, dialog, fresh>>

(* authService.logout and the navigation to the sign-in form. *)
SignedOut == authed' = FALSE /\ dirty' = TRUE /\ fresh' = {}

(* handle.result resolves; logoutDueToInactivity finds no dialog left to close. *)
ResultArrives_KeepTimer(m) ==
  /\ m \in Settling
  /\ dialog' = NoModal /\ presenting' = FALSE
  /\ modal' = Settled(m)
  /\ \/ /\ modal[m].answer = "leave" /\ authed
        /\ SignedOut
     \/ /\ modal[m].answer = "stay" \/ ~authed
        /\ fresh' = fresh \ {m}
        /\ UNCHANGED <<authed, dirty>>
  /\ UNCHANGED <<page, listening, window, timer, quiet>>

ResultArrives(m) ==
  /\ m \in Settling
  /\ dialog' = NoModal /\ presenting' = FALSE
  /\ modal' = Settled(m)
  /\ timer' = IF modal[m].answer = "stay" THEN UntilWarning ELSE timer
  /\ \/ /\ modal[m].answer = "leave" /\ authed
        /\ SignedOut
     \/ /\ modal[m].answer = "stay" \/ ~authed
        /\ fresh' = fresh \ {m}
        /\ UNCHANGED <<authed, dirty>>
  /\ UNCHANGED <<page, listening, window, quiet>>

(* logoutDueToInactivity, from the timer. *)
LogoutDueToInactivity ==
  /\ NoMicrotask /\ timer.kind = "logout" /\ timer.left = 0
  /\ timer' = TimerOff
  /\ \/ /\ authed /\ SignedOut
        /\ CloseDialog
     \/ /\ ~authed
        /\ UNCHANGED <<authed, dirty, presenting, dialog, modal, fresh>>
  /\ UNCHANGED <<page, listening, window, quiet>>

-----------------------------------------------------------------------------
(* A sign-in is accepted, which takes longer than the effect on the one before. *)
SignIn ==
  /\ NoMicrotask /\ ~authed /\ ~dirty /\ page = "login"
  /\ authed' = TRUE /\ dirty' = TRUE
  /\ fresh' = {}
  /\ quiet' = 0
  /\ UNCHANGED <<page, service, modal>>

(* The session ends for a reason of its own: a 401, the header's sign-out. *)
SessionEnds ==
  /\ NoMicrotask /\ authed
  /\ SignedOut
  /\ UNCHANGED <<page, service, modal, quiet>>

(* NavigationEnd on the sign-in form, which a signed-in user may also visit. *)
LandOnLogin ==
  /\ NoMicrotask /\ page = "app"
  /\ page' = "login"
  /\ CloseDialog
  /\ fresh' = {}
  /\ UNCHANGED <<authed, dirty, listening, window, timer, quiet>>

LandOnApp ==
  /\ NoMicrotask /\ authed /\ page = "login"
  /\ page' = "app"
  /\ UNCHANGED <<authed, dirty, service, modal, fresh, quiet>>

(* The clock moves once nothing is due.  The history stops counting past the timeout. *)
Tick ==
  /\ ~dirty /\ Answered = {}
  /\ timer.kind = "off" \/ timer.left > 0
  /\ quiet' = IF quiet > IdleTimeout THEN quiet ELSE quiet + 1
  /\ timer' = IF timer.kind = "off" THEN timer ELSE [timer EXCEPT !.left = @ - 1]
  /\ window' = IF window = 0 THEN 0 ELSE window - 1
  /\ UNCHANGED <<authed, dirty, page, listening, presenting, dialog, modal, fresh>>

Next ==
  \/ SessionEffect \/ Activity \/ ShowWarning \/ LogoutDueToInactivity
  \/ SignIn \/ SessionEnds \/ LandOnLogin \/ LandOnApp
  \/ \E m \in Modals : HandleArrives(m) \/ ResultArrives(m)
  \/ \E m \in Modals, a \in {"stay", "leave"} : Answer(m, a)
  \/ Tick

Spec == Init /\ [][Next]_vars

-----------------------------------------------------------------------------
(* TYPE INVARIANT *)
TypeOK ==
  /\ authed \in BOOLEAN /\ dirty \in BOOLEAN /\ page \in {"app", "login"}
  /\ listening \in BOOLEAN /\ window \in 0..Throttle
  /\ timer \in [kind : {"off", "warn", "logout"}, left : 0..IdleTimeout]
  /\ presenting \in BOOLEAN /\ dialog \in 0..MaxModals
  /\ modal \in [Modals -> [stage : Stages, answer : Answers]]
  /\ fresh \subseteq Modals
  /\ quiet \in 0..(IdleTimeout + 1)

(* No session is left unattended longer than IDLE_TIMEOUT, whatever warnings are on      *)
(* screen, half open or abandoned.                                                       *)
UnattendedSessionEnds == authed => quiet <= IdleTimeout

(* A user is warned only after as long a silence as the throttle lets the service miss.  *)
OnlyTheIdleAreWarned ==
  [][\A m \in Modals : modal[m] = Closed /\ modal'[m] # Closed /\ authed /\ ~dirty =>
       quiet >= IdleTimeout - WarningTime - Throttle]_vars

(* A warning still in the session and on the page it was raised for. *)
WarningIsTimed == \A m \in fresh : OnScreen(m) /\ ~dirty => timer.kind = "logout"

(* Warning and countdown go together.  A warning still in its session and on its page    *)
(* has the logout timer running behind it, so ignoring it ends the session; and the timer *)
(* ends a session only under a warning that has not resolved yet, so whoever chose to    *)
(* stay is not signed out by the countdown the warning started.                          *)
WarningHasItsTimer ==
  /\ []WarningIsTimed
  /\ [][authed /\ ~authed' /\ timer.kind = "logout" /\ timer'.kind = "off" =>
          \E m \in Modals : modal[m] # Closed]_vars

-----------------------------------------------------------------------------
(* What a comment of the code says of it, and a run refutes.                             *)

(* idle.service.ts, the comment on presentingWarning: no warning on screen is left "with *)
(* nothing left to time it out", whatever session or page it was raised for.             *)
EveryWarningIsTimed ==
  authed /\ ~dirty => \A m \in Modals : OnScreen(m) => timer.kind = "logout"
=============================================================================
