------------------------ MODULE IdleMonitor_proofs ------------------------
(***************************************************************************)
(* Proofs about IdleMonitor, for every timeout, warning time and throttle. *)
(***************************************************************************)
EXTENDS IdleMonitor, TLAPS

ModalState == [stage : Stages, answer : Answers]
TimerState == [kind : {"off", "warn", "logout"}, left : 0..IdleTimeout]

(* What the actions write into a modal or the timer is a modal or a timer. *)
LEMMA ModalStates ==
  ASSUME NEW mo \in ModalState, NEW s \in Stages, NEW a \in Answers
  PROVE  [mo EXCEPT !.stage = s] \in ModalState /\ [mo EXCEPT !.answer = a] \in ModalState
  BY DEF ModalState

LEMMA ClosedState == Closed \in ModalState
  BY DEF Closed, ModalState, Stages, Answers

LEMMA TimerStates ==
  ASSUME IdleAssumption
  PROVE  UntilWarning \in TimerState /\ UntilLogout \in TimerState /\ TimerOff \in TimerState
  BY DEF IdleAssumption, UntilWarning, UntilLogout, TimerOff, TimerState

LEMMA TypeInit ==
  ASSUME IdleAssumption, Init
  PROVE  TypeOK
  <1>1. timer \in TimerState /\ modal \in [Modals -> ModalState]
    BY ClosedState, TimerStates DEF Init
  <1>2. quiet \in 0..(IdleTimeout + 1) /\ window \in 0..Throttle /\ dialog \in 0..MaxModals
    BY DEF Init, IdleAssumption, NoModal
  <1>3. page \in {"app", "login"}
    BY DEF Init
  <1> QED
    BY <1>1, <1>2, <1>3 DEF Init, TypeOK, ModalState, TimerState

(* Every step keeps the types. *)
LEMMA TypeStep ==
  ASSUME IdleAssumption, TypeOK, [Next]_vars
  PROVE  TypeOK'
  <1>0. /\ timer \in TimerState /\ modal \in [Modals -> ModalState]
        /\ quiet \in 0..(IdleTimeout + 1) /\ window \in 0..Throttle /\ dialog \in 0..MaxModals
        /\ NoModal \in 0..MaxModals
    BY DEF TypeOK, ModalState, TimerState, NoModal, IdleAssumption
  <1>t. UntilWarning \in TimerState /\ UntilLogout \in TimerState /\ TimerOff \in TimerState
    BY TimerStates
  <1>e. ASSUME NEW m \in Modals, NEW s \in Stages, NEW a \in Answers
        PROVE  /\ [modal EXCEPT ![m].stage = s] \in [Modals -> ModalState]
               /\ [modal EXCEPT ![m].answer = a] \in [Modals -> ModalState]
               /\ [modal[m] EXCEPT !.answer = a] \in ModalState
    <2>1. modal[m] \in ModalState
      BY <1>0
    <2>2. [modal[m] EXCEPT !.stage = s] \in ModalState /\ [modal[m] EXCEPT !.answer = a] \in ModalState
      BY <2>1, ModalStates
    <2> QED
      BY <1>0, <2>2
  <1>c. ASSUME CloseDialog
        PROVE  presenting' \in BOOLEAN /\ dialog' \in 0..MaxModals /\ modal' \in [Modals -> ModalState]
    <2>1. ASSUME NEW m \in Modals
          PROVE  [modal[m] EXCEPT !.answer = "leave"] \in ModalState /\ modal[m] \in ModalState
      BY <1>0, <1>e DEF Answers, Stages
    <2> QED
      BY <1>0, <1>c, <2>1 DEF CloseDialog
  <1>s. ASSUME Stir
        PROVE  quiet' \in 0..(IdleTimeout + 1) /\ window' \in 0..Throttle /\ timer' \in TimerState
    BY <1>0, <1>s, <1>t DEF Stir, IdleAssumption
  <1>m. ASSUME NEW m \in Modals
        PROVE  Settled(m) \in [Modals -> ModalState]
    BY <1>0, ClosedState DEF Settled
  <1>k. ASSUME timer' \in TimerState, modal' \in [Modals -> ModalState],
               quiet' \in 0..(IdleTimeout + 1), window' \in 0..Throttle, dialog' \in 0..MaxModals,
               presenting' \in BOOLEAN, authed' \in BOOLEAN, dirty' \in BOOLEAN,
               page' \in {"app", "login"}, listening' \in BOOLEAN, fresh' \subseteq Modals
        PROVE  TypeOK'
    BY <1>k DEF TypeOK, ModalState, TimerState
  <1>1. CASE SessionEffect
    <2>1. listening' \in BOOLEAN /\ dirty' \in BOOLEAN
      BY <1>1 DEF SessionEffect, TypeOK
    <2>2. timer' \in TimerState /\ window' \in 0..Throttle
      BY <1>0, <1>1, <1>t DEF SessionEffect, IdleAssumption
    <2> QED
      BY <1>0, <1>1, <1>c, <1>k, <2>1, <2>2 DEF SessionEffect, TypeOK
  <1>2. CASE Activity
    BY <1>0, <1>2, <1>s, <1>k DEF Activity, TypeOK
  <1>3. CASE ShowWarning
    <2>1. modal' \in [Modals -> ModalState]
      BY <1>0, <1>3, <1>e DEF ShowWarning, Stages, Answers
    <2> QED
      BY <1>0, <1>3, <1>t, <1>k, <2>1 DEF ShowWarning, TypeOK
  <1>4. CASE LogoutDueToInactivity
    BY <1>0, <1>4, <1>c, <1>t, <1>k DEF LogoutDueToInactivity, TypeOK, SignedOut
  <1>5. CASE SignIn
    BY <1>0, <1>5, <1>k DEF SignIn, TypeOK, service, IdleAssumption
  <1>6. CASE SessionEnds
    BY <1>0, <1>6, <1>k DEF SessionEnds, SignedOut, TypeOK, service
  <1>7. CASE LandOnLogin
    BY <1>0, <1>7, <1>c, <1>k DEF LandOnLogin, TypeOK
  <1>8. CASE LandOnApp
    BY <1>0, <1>8, <1>k DEF LandOnApp, TypeOK, service
  <1>9. ASSUME NEW m \in Modals, HandleArrives(m)
        PROVE  TypeOK'
    <2>1. m \in 0..MaxModals
      BY DEF Modals, IdleAssumption
    <2>o. "open" \in Stages /\ "none" \in Answers
      BY DEF Stages, Answers
    <2>2. modal' \in [Modals -> ModalState]
      <3>1. [modal EXCEPT ![m].stage = "open"] \in [Modals -> ModalState]
        BY <1>e, <2>o
      <3> QED
        BY <1>9, <1>m, <3>1 DEF HandleArrives
    <2> QED
      BY <1>0, <1>9, <1>t, <1>k, <2>1, <2>2 DEF HandleArrives, TypeOK
  <1>10. ASSUME NEW m \in Modals, ResultArrives(m)
         PROVE  TypeOK'
    <2>1. /\ timer' \in TimerState /\ modal' \in [Modals -> ModalState] /\ fresh' \subseteq Modals
          /\ authed' \in BOOLEAN /\ dirty' \in BOOLEAN
      BY <1>0, <1>10, <1>m, <1>t DEF ResultArrives, SignedOut, TypeOK
    <2> QED
      BY <1>0, <1>10, <1>k, <2>1 DEF ResultArrives, TypeOK
  <1>11. ASSUME NEW m \in Modals, NEW a \in {"stay", "leave"}, Answer(m, a)
         PROVE  TypeOK'
    <2>1. modal' \in [Modals -> ModalState]
      BY <1>11, <1>e DEF Answer, Answers, Stages
    <2> QED
      BY <1>0, <1>11, <1>s, <1>k, <2>1 DEF Answer, TypeOK
  <1>12. CASE Tick
    <2>1. timer' \in TimerState
      BY <1>0, <1>12 DEF Tick, TimerState
    <2>2. quiet' \in 0..(IdleTimeout + 1) /\ window' \in 0..Throttle
      BY <1>0, <1>12 DEF Tick, IdleAssumption
    <2> QED
      BY <1>0, <1>12, <1>k, <2>1, <2>2 DEF Tick, TypeOK
  <1>13. CASE UNCHANGED vars
    BY <1>0, <1>13, <1>k DEF vars, service, TypeOK
  <1> QED
    BY <1>1, <1>2, <1>3, <1>4, <1>5, <1>6, <1>7, <1>8, <1>9, <1>10, <1>11, <1>12, <1>13
    DEF Next

(* The types hold whatever the timeouts are: in particular no timer runs below zero. *)
THEOREM IdleTypeCorrect == Spec => []TypeOK
  <1>1. Init => TypeOK
    BY IdleAssumption, TypeInit
  <1>2. TypeOK /\ [Next]_vars => TypeOK'
    BY IdleAssumption, TypeStep
  <1> QED
    BY <1>1, <1>2, PTL DEF Spec

-----------------------------------------------------------------------------
(* Why the session ends in time.  Once the effect has run, the timer of a session covers *)
(* what is left of its silence; a session whose effect is still due has just begun; an   *)
(* answer that is still to be heard was given a moment ago; and the warning timer never  *)
(* runs out while a warning is up, where showInactivityWarning would return early.       *)
Covered ==
  \/ timer.kind = "warn" /\ quiet + timer.left + WarningTime <= IdleTimeout
  \/ timer.kind = "logout" /\ quiet + timer.left <= IdleTimeout

IdleInv ==
  /\ authed /\ ~dirty => Covered
  /\ authed /\ dirty => quiet = 0
  /\ \A m \in Modals : modal[m].answer = "stay" => quiet = 0
  /\ authed /\ ~dirty /\ presenting => timer.kind # "warn"

LEMMA IdleInitially ==
  ASSUME Init
  PROVE  IdleInv
  BY DEF Init, IdleInv, Closed

(* What the history makes of a step that leaves the timer and the modals alone. *)
LEMMA StirKeepsCovered ==
  ASSUME IdleAssumption, TypeOK, IdleInv, Stir, authed, ~dirty
  PROVE  Covered'
  <1>0. /\ quiet \in Nat /\ timer.left \in Nat /\ IdleTimeout \in Nat /\ WarningTime \in Nat
        /\ IdleTimeout > WarningTime
    BY DEF TypeOK, IdleAssumption
  <1>1. CASE timer' = timer
    BY <1>0, <1>1 DEF Stir, IdleInv, Covered
  <1>2. CASE timer' = UntilWarning
    BY <1>0, <1>2 DEF Stir, Covered, UntilWarning
  <1> QED
    BY <1>1, <1>2 DEF Stir

LEMMA IdleStep ==
  ASSUME IdleAssumption, TypeOK, IdleInv, [Next]_vars
  PROVE  IdleInv'
  <1>0. /\ quiet \in Nat /\ timer.left \in Nat /\ IdleTimeout \in Nat /\ WarningTime \in Nat
        /\ IdleTimeout > WarningTime /\ timer.kind \in {"off", "warn", "logout"}
    BY DEF TypeOK, IdleAssumption
  <1>1. CASE SessionEffect
    <2>1. \A m \in Modals : modal'[m].answer = "stay" => modal[m].answer = "stay"
      BY <1>1 DEF SessionEffect, CloseDialog, TypeOK
    <2>2. authed' /\ ~dirty' => Covered' /\ ~presenting'
      BY <1>0, <1>1 DEF SessionEffect, CloseDialog, IdleInv, Covered, UntilWarning
    <2> QED
      BY <1>1, <2>1, <2>2 DEF SessionEffect, IdleInv
  <1>2. CASE Activity
    <2>1. authed /\ ~dirty => Covered'
      BY <1>2, StirKeepsCovered DEF Activity
    <2>2. authed /\ ~dirty /\ presenting => timer'.kind # "warn"
      BY <1>2 DEF Activity, Stir, IdleInv
    <2> QED
      BY <1>2, <2>1, <2>2 DEF Activity, Stir, IdleInv
  <1>3. CASE ShowWarning
    <2>1. \A m \in Modals : modal'[m].answer = "stay" => modal[m].answer = "stay"
      BY <1>3 DEF ShowWarning, TypeOK
    <2>2. authed /\ ~dirty => ~presenting
      BY <1>3 DEF ShowWarning, IdleInv
    <2>3. authed /\ ~dirty => Covered' /\ timer'.kind # "warn"
      BY <1>0, <1>3, <2>2 DEF ShowWarning, IdleInv, Covered, UntilLogout
    <2> QED
      BY <1>3, <2>1, <2>3 DEF ShowWarning, IdleInv
  <1>4. CASE LogoutDueToInactivity
    <2>1. \A m \in Modals : modal'[m].answer = "stay" => modal[m].answer = "stay"
      BY <1>4 DEF LogoutDueToInactivity, CloseDialog, TypeOK
    <2> QED
      BY <1>4, <2>1 DEF LogoutDueToInactivity, SignedOut, IdleInv
  <1>5. CASE SignIn
    BY <1>5 DEF SignIn, service, IdleInv
  <1>6. CASE SessionEnds
    BY <1>6 DEF SessionEnds, SignedOut, service, IdleInv
  <1>7. CASE LandOnLogin
    <2>1. \A m \in Modals : modal'[m].answer = "stay" => modal[m].answer = "stay"
      BY <1>7 DEF LandOnLogin, CloseDialog, TypeOK
    <2> QED
      BY <1>7, <2>1 DEF LandOnLogin, CloseDialog, IdleInv, Covered
  <1>8. CASE LandOnApp
    BY <1>8 DEF LandOnApp, service, IdleInv, Covered
  <1>9. ASSUME NEW m \in Modals, HandleArrives(m)
        PROVE  IdleInv'
    <2>1. \A k \in Modals : modal'[k].answer = "stay" => modal[k].answer = "stay"
      BY <1>9 DEF HandleArrives, Settled, Closed, TypeOK
    <2> QED
      BY <1>9, <2>1 DEF HandleArrives, IdleInv, Covered
  <1>10. ASSUME NEW m \in Modals, ResultArrives(m)
         PROVE  IdleInv'
    <2>1. \A k \in Modals : modal'[k].answer = "stay" => modal[k].answer = "stay"
      BY <1>10 DEF ResultArrives, Settled, Closed, TypeOK
    <2>2. CASE modal[m].answer = "stay"
      <3>1. quiet = 0 /\ timer' = UntilWarning /\ quiet' = quiet /\ ~presenting'
        BY <1>10, <2>2 DEF ResultArrives, IdleInv
      <3>2. Covered'
        BY <1>0, <3>1 DEF Covered, UntilWarning
      <3> QED
        BY <3>1, <3>2 DEF IdleInv
    <2>3. CASE modal[m].answer # "stay"
      <3>1. timer' = timer /\ quiet' = quiet /\ ~authed' /\ ~presenting'
        BY <1>10, <2>3 DEF ResultArrives, SignedOut
      <3> QED
        BY <2>1, <3>1 DEF IdleInv
    <2> QED
      BY <2>2, <2>3
  <1>11. ASSUME NEW m \in Modals, NEW a \in {"stay", "leave"}, Answer(m, a)
         PROVE  IdleInv'
    <2>1. authed /\ ~dirty => Covered'
      BY <1>11, StirKeepsCovered DEF Answer
    <2>2. authed /\ ~dirty /\ presenting => timer'.kind # "warn"
      BY <1>11 DEF Answer, Stir, IdleInv
    <2> QED
      BY <1>11, <2>1, <2>2 DEF Answer, Stir, IdleInv
  <1>12. CASE Tick
    <2>1. ~dirty /\ \A m \in Modals : modal[m].answer # "stay"
      BY <1>12 DEF Tick, Answered
    <2>2. authed => Covered' /\ timer'.kind = timer.kind
      <3> SUFFICES ASSUME authed
                   PROVE  Covered' /\ timer'.kind = timer.kind
        OBVIOUS
      <3>1. Covered /\ timer.left > 0
        BY <1>12, <2>1 DEF Tick, IdleInv, Covered
      <3>2. timer' = [timer EXCEPT !.left = @ - 1] /\ quiet <= IdleTimeout
        BY <1>0, <1>12, <3>1 DEF Tick, Covered
      <3>3. timer'.kind = timer.kind /\ timer'.left = timer.left - 1
        BY <3>2 DEF TypeOK
      <3>4. quiet' = quiet + 1
        BY <1>0, <1>12, <3>2 DEF Tick
      <3> QED
        BY <1>0, <3>1, <3>3, <3>4 DEF Covered
    <2> QED
      BY <1>12, <2>1, <2>2 DEF Tick, IdleInv
  <1>13. CASE UNCHANGED vars
    BY <1>13 DEF vars, service, IdleInv, Covered
  <1> QED
    BY <1>1, <1>2, <1>3, <1>4, <1>5, <1>6, <1>7, <1>8, <1>9, <1>10, <1>11, <1>12, <1>13
    DEF Next

LEMMA CoveredEnds ==
  ASSUME IdleAssumption, TypeOK, IdleInv
  PROVE  UnattendedSessionEnds
  BY DEF UnattendedSessionEnds, IdleInv, Covered, TypeOK, IdleAssumption

(* Whatever the timeouts, however many warnings pile up and however late their modals    *)
(* open, no session is left unattended longer than IDLE_TIMEOUT.                         *)
THEOREM UnattendedEnds == Spec => []UnattendedSessionEnds
  <1>1. Init => TypeOK /\ IdleInv
    BY IdleAssumption, TypeInit, IdleInitially
  <1>2. TypeOK /\ IdleInv /\ [Next]_vars => (TypeOK /\ IdleInv)'
    BY IdleAssumption, TypeStep, IdleStep
  <1>3. TypeOK /\ IdleInv => UnattendedSessionEnds
    BY IdleAssumption, CoveredEnds
  <1> QED
    BY <1>1, <1>2, <1>3, PTL DEF Spec

-----------------------------------------------------------------------------
(* Why nobody is warned early.  The service listens to the session it has, and its timer *)
(* was set no longer ago than the user has been silent, but for the activity that falls  *)
(* into a throttle window - which was opened when the timer was set, or before.          *)
WarnsLate ==
  /\ ~dirty => listening = authed
  /\ authed /\ ~dirty /\ timer.kind = "warn" =>
       /\ quiet + timer.left + Throttle >= IdleTimeout - WarningTime
       /\ window > 0 => timer.left + (Throttle - window) >= IdleTimeout - WarningTime

LEMMA StirWarnsLate ==
  ASSUME IdleAssumption, TypeOK, IdleInv, WarnsLate, Stir, authed, ~dirty, timer'.kind = "warn"
  PROVE  /\ quiet' + timer'.left + Throttle >= IdleTimeout - WarningTime
         /\ window' > 0 => timer'.left + (Throttle - window') >= IdleTimeout - WarningTime
  <1>0. /\ quiet \in Nat /\ timer.left \in Nat /\ IdleTimeout \in Nat /\ WarningTime \in Nat
        /\ Throttle \in Nat /\ window \in 0..Throttle /\ listening
    BY DEF TypeOK, IdleAssumption, WarnsLate
  <1>1. CASE window = 0 /\ timer' = UntilWarning
    BY <1>0, <1>1 DEF Stir, UntilWarning
  <1>2. CASE window = 0 /\ timer' = timer
    BY <1>0, <1>1, <1>2 DEF IdleInv, Stir
  <1>3. CASE window # 0
    <2>1. window > 0 /\ UNCHANGED <<window, timer>> /\ quiet' = 0
      BY <1>0, <1>3 DEF Stir
    <2> QED
      BY <1>0, <2>1 DEF WarnsLate
  <1> QED
    BY <1>0, <1>1, <1>2, <1>3 DEF Stir

LEMMA WarnsLateStep ==
  ASSUME IdleAssumption, TypeOK, IdleInv, WarnsLate, [Next]_vars
  PROVE  WarnsLate'
  <1>0. /\ quiet \in Nat /\ timer.left \in Nat /\ IdleTimeout \in Nat /\ WarningTime \in Nat
        /\ Throttle \in Nat /\ window \in 0..Throttle /\ IdleTimeout > WarningTime
    BY DEF TypeOK, IdleAssumption
  \* What is set to the warning anew is in time, whatever the window.
  <1>u. ASSUME timer' = UntilWarning, quiet' \in Nat, window' \in 0..Throttle
        PROVE  /\ quiet' + timer'.left + Throttle >= IdleTimeout - WarningTime
               /\ window' > 0 => timer'.left + (Throttle - window') >= IdleTimeout - WarningTime
    <2>1. timer'.left = IdleTimeout - WarningTime
      BY <1>u DEF UntilWarning
    <2> DEFINE d == IdleTimeout - WarningTime
    <2>2. ASSUME NEW q \in Nat, NEW w \in 0..Throttle
          PROVE  q + d + Throttle >= d /\ d + (Throttle - w) >= d
      BY <1>0
    <2> QED
      BY <1>u, <2>1, <2>2
  \* What leaves the clock alone, in a session that goes on.
  <1>k. ASSUME ~dirty' => ~dirty /\ authed' = authed /\ listening' = listening,
               UNCHANGED <<timer, window, quiet>> \/ timer'.kind # "warn"
        PROVE  WarnsLate'
    BY <1>k DEF WarnsLate
  <1>s. ASSUME Stir, UNCHANGED <<authed, dirty, listening>>
        PROVE  WarnsLate'
    BY <1>s, StirWarnsLate DEF WarnsLate
  <1>1. CASE SessionEffect
    <2>1. /\ listening' = authed' /\ quiet' = quiet /\ window' = 0
          /\ authed' => timer' = UntilWarning
      BY <1>1 DEF SessionEffect
    <2> QED
      BY <1>0, <1>u, <2>1 DEF WarnsLate
  <1>2. CASE Activity
    BY <1>2, <1>s DEF Activity
  <1>3. CASE ShowWarning
    BY <1>3, <1>k DEF ShowWarning, TimerOff, UntilLogout
  <1>4. CASE LogoutDueToInactivity
    BY <1>4, <1>k DEF LogoutDueToInactivity, SignedOut, TimerOff
  <1>5. CASE SignIn
    BY <1>5 DEF SignIn, WarnsLate
  <1>6. CASE SessionEnds
    BY <1>6, <1>k DEF SessionEnds, SignedOut, service
  <1>7. CASE LandOnLogin
    BY <1>7, <1>k DEF LandOnLogin
  <1>8. CASE LandOnApp
    BY <1>8, <1>k DEF LandOnApp, service
  <1>9. ASSUME NEW m \in Modals, HandleArrives(m)
        PROVE  WarnsLate'
    BY <1>9, <1>k DEF HandleArrives, TimerOff
  <1>10. ASSUME NEW m \in Modals, ResultArrives(m)
         PROVE  WarnsLate'
    <2>1. CASE modal[m].answer = "stay"
      <3>1. timer' = UntilWarning /\ UNCHANGED <<authed, dirty, listening, window, quiet>>
        BY <1>10, <2>1 DEF ResultArrives
      <3> QED
        BY <1>0, <1>u, <3>1 DEF WarnsLate
    <2>2. CASE modal[m].answer # "stay"
      BY <1>10, <1>k, <2>2 DEF ResultArrives, SignedOut
    <2> QED
      BY <2>1, <2>2
  <1>11. ASSUME NEW m \in Modals, NEW a \in {"stay", "leave"}, Answer(m, a)
         PROVE  WarnsLate'
    BY <1>11, <1>s DEF Answer
  <1>12. CASE Tick
    <2>1. UNCHANGED <<authed, dirty, listening>> /\ ~dirty
      BY <1>12 DEF Tick
    <2>2. window' = IF window = 0 THEN 0 ELSE window - 1
      BY <1>12 DEF Tick
    <2>3. ASSUME authed, timer'.kind = "warn"
          PROVE  timer.kind = "warn" /\ timer'.left = timer.left - 1
      BY <1>12, <2>3 DEF Tick, TypeOK
    <2>4. quiet' = quiet + 1 \/ quiet' > IdleTimeout
      BY <1>0, <1>12 DEF Tick
    <2>5. ASSUME authed, timer'.kind = "warn"
          PROVE  /\ quiet' + timer'.left + Throttle >= IdleTimeout - WarningTime
                 /\ window' > 0 => timer'.left + (Throttle - window') >= IdleTimeout - WarningTime
      <3>1. timer.kind = "warn" /\ timer'.left = timer.left - 1 /\ timer.left > 0
        BY <1>0, <1>12, <2>3, <2>5 DEF Tick
      <3>2. /\ quiet + timer.left + Throttle >= IdleTimeout - WarningTime
            /\ window > 0 => timer.left + (Throttle - window) >= IdleTimeout - WarningTime
        BY <2>1, <2>5, <3>1 DEF WarnsLate
      <3>3. quiet' \in Nat
        BY <1>0, <1>12 DEF Tick
      <3> QED
        BY <1>0, <2>2, <2>4, <3>1, <3>2, <3>3
    <2> QED
      BY <2>1, <2>5 DEF WarnsLate
  <1>13. CASE UNCHANGED vars
    BY <1>13, <1>k DEF vars, service
  <1> QED
    BY <1>1, <1>2, <1>3, <1>4, <1>5, <1>6, <1>7, <1>8, <1>9, <1>10, <1>11, <1>12, <1>13
    DEF Next

(* Only showInactivityWarning puts a modal up, and in a session the effect has heard of  *)
(* its timer has waited for as long a silence as the throttle lets the service miss.     *)
LEMMA WarnedLate ==
  ASSUME IdleAssumption, TypeOK, WarnsLate, [Next]_vars,
         NEW m \in Modals, modal[m] = Closed, modal'[m] # Closed, authed, ~dirty
  PROVE  quiet >= IdleTimeout - WarningTime - Throttle
  <1>0. /\ quiet \in Nat /\ timer.left \in Nat /\ IdleTimeout \in Nat /\ WarningTime \in Nat
        /\ Throttle \in Nat /\ modal \in [Modals -> [stage : Stages, answer : Answers]]
    BY DEF TypeOK, IdleAssumption
  <1>c. ~CloseDialog
    BY DEF CloseDialog, OnScreen, Closed
  <1>m. ASSUME NEW k \in Modals, k # m
        PROVE  /\ modal' # Settled(k)
               /\ \A s, a : modal' # [modal EXCEPT ![k].stage = s] /\ modal' # [modal EXCEPT ![k].answer = a]
    BY <1>0, <1>m DEF Settled
  <1>n. modal' # modal /\ modal[m].stage = "none" /\ modal' # Settled(m)
    BY <1>0 DEF Closed, Settled
  <1>1. ShowWarning
    <2>1. ASSUME NEW k \in Modals, HandleArrives(k)
          PROVE  FALSE
      BY <1>m, <1>n, <2>1 DEF HandleArrives
    <2>2. ASSUME NEW k \in Modals, ResultArrives(k)
          PROVE  FALSE
      BY <1>m, <1>n, <2>2 DEF ResultArrives
    <2>3. ASSUME NEW k \in Modals, NEW a \in {"stay", "leave"}, Answer(k, a)
          PROVE  FALSE
      BY <1>m, <1>n, <2>3 DEF Answer, OnScreen
    <2> QED
      BY <1>c, <1>n, <2>1, <2>2, <2>3
      DEF Next, SessionEffect, Activity, LogoutDueToInactivity, SignIn, SessionEnds,
          LandOnLogin, LandOnApp, Tick, vars, service
  <1> QED
    BY <1>0, <1>1 DEF ShowWarning, WarnsLate

(* For every timeout and every throttle, nobody is warned after a shorter silence than   *)
(* the throttle may hide.                                                                *)
THEOREM OnlyTheIdle == Spec => OnlyTheIdleAreWarned
  <1>1. Init => TypeOK /\ IdleInv /\ WarnsLate
    BY IdleAssumption, TypeInit, IdleInitially DEF Init, WarnsLate
  <1>2. TypeOK /\ IdleInv /\ WarnsLate /\ [Next]_vars => (TypeOK /\ IdleInv /\ WarnsLate)'
    BY IdleAssumption, TypeStep, IdleStep, WarnsLateStep
  <1>3. TypeOK /\ WarnsLate /\ [Next]_vars =>
          [\A m \in Modals : modal[m] = Closed /\ modal'[m] # Closed /\ authed /\ ~dirty =>
             quiet >= IdleTimeout - WarningTime - Throttle]_vars
    BY IdleAssumption, WarnedLate
  <1> QED
    BY <1>1, <1>2, <1>3, PTL DEF Spec, OnlyTheIdleAreWarned

-----------------------------------------------------------------------------
(* Why a warning has its timer.  A warning of this session and page is the only one      *)
(* that can be answered, and until it is, presentingWarning keeps activity from the      *)
(* timer.  That needs that nothing answered is still to be heard when it is raised: an   *)
(* answer is activity, which sets a warning timer that has run out - provided that the   *)
(* throttle has let it through, as it has if its window is no longer than that timer.    *)
ModalsInOrder ==
  /\ \A m \in Modals : modal[m].stage = "none" => modal[m] = Closed
  /\ dialog # NoModal => modal[dialog].stage = "open"

FreshIsGuarded ==
  /\ fresh # {} => authed /\ ~dirty
  /\ \A k \in fresh : OnScreen(k) =>
       /\ presenting /\ timer.kind = "logout" /\ Above(k) = {}
       /\ \A m \in Modals \ {k} : modal[m].answer = "none"

NothingHeardLate ==
  authed /\ ~dirty /\ timer.kind = "warn" /\ timer.left = 0 =>
    \A m \in Opening : modal[m].answer = "none"

CountdownHasModal ==
  /\ authed /\ timer.kind = "logout" => \E m \in Modals : modal[m] # Closed
  /\ ~authed /\ ~dirty /\ timer.kind = "logout" => Opening # {}

WarningInv == ModalsInOrder /\ FreshIsGuarded /\ NothingHeardLate /\ CountdownHasModal

(* What the steps do to the modals: each is left alone, answered, opened or resolved.    *)
LEMMA ClosedDialogs ==
  ASSUME IdleAssumption, TypeOK, ModalsInOrder, CloseDialog
  PROVE  /\ ModalsInOrder'
         /\ \A m \in Modals : /\ modal'[m].stage = modal[m].stage
                              /\ modal[m].stage # "open" => modal'[m] = modal[m]
                              /\ modal[m] # Closed => modal'[m] # Closed
  <1>1. ASSUME NEW m \in Modals
        PROVE  /\ modal[m] \in [stage : Stages, answer : Answers]
               /\ modal'[m] = IF m = dialog /\ OnScreen(m)
                               THEN [modal[m] EXCEPT !.answer = "leave"] ELSE modal[m]
    BY DEF TypeOK, CloseDialog
  <1>2. ASSUME NEW m \in Modals
        PROVE  /\ modal'[m].stage = modal[m].stage
               /\ modal[m].stage # "open" => modal'[m] = modal[m]
               /\ modal[m] # Closed => modal'[m] # Closed
               /\ modal'[m].stage = "none" => modal'[m] = Closed
    <2>1. CASE m = dialog /\ OnScreen(m)
      <3>1. dialog # NoModal
        BY <2>1 DEF Modals, NoModal, IdleAssumption
      <3>2. modal[m].stage = "open"
        BY <2>1, <3>1 DEF ModalsInOrder
      <3>3. modal'[m].stage = "open"
        BY <1>1, <2>1, <3>2
      <3> QED
        BY <3>2, <3>3 DEF Closed
    <2>2. CASE ~(m = dialog /\ OnScreen(m))
      BY <1>1, <2>2 DEF ModalsInOrder
    <2> QED
      BY <2>1, <2>2
  <1> QED
    BY <1>2 DEF ModalsInOrder, CloseDialog

LEMMA SettledModals ==
  ASSUME TypeOK, ModalsInOrder, NEW m \in Modals, modal' = Settled(m)
  PROVE  \A k \in Modals : modal'[k] = IF k = m THEN Closed ELSE modal[k]
  BY DEF TypeOK, Settled

LEMMA ModalsInOrderStep ==
  ASSUME IdleAssumption, TypeOK, ModalsInOrder, [Next]_vars
  PROVE  ModalsInOrder'
  <1>0. /\ modal \in [Modals -> [stage : Stages, answer : Answers]]
        /\ dialog \in 0..MaxModals /\ NoModal \notin Modals
        /\ dialog # NoModal => dialog \in Modals
    BY DEF TypeOK, Modals, NoModal, IdleAssumption
  <1>1. CASE SessionEffect
    BY <1>1, ClosedDialogs DEF SessionEffect
  <1>2. CASE Activity
    BY <1>2 DEF Activity, ModalsInOrder
  <1>3. CASE ShowWarning
    <2>1. CASE UNCHANGED <<modal, dialog>>
      BY <2>1 DEF ModalsInOrder
    <2>2. CASE ~UNCHANGED <<modal, dialog>>
      <3>1. PICK m \in Free : modal' = [modal EXCEPT ![m].stage = "opening"]
        BY <1>3, <2>2 DEF ShowWarning
      <3>2. m \in Modals /\ modal[m] = Closed
        BY DEF Free
      <3>3. \A k \in Modals : modal'[k].stage = IF k = m THEN "opening" ELSE modal[k].stage
        BY <1>0, <3>1, <3>2
      <3>4. \A k \in Modals : k # m => modal'[k] = modal[k]
        BY <1>0, <3>1, <3>2
      <3>5. dialog' = dialog /\ dialog # m
        BY <1>3, <3>2 DEF ShowWarning, ModalsInOrder, Closed, NoModal, Modals
      <3> QED
        BY <1>0, <3>3, <3>4, <3>5 DEF ModalsInOrder
    <2> QED
      BY <2>1, <2>2
  <1>4. CASE LogoutDueToInactivity
    BY <1>4, ClosedDialogs DEF LogoutDueToInactivity, ModalsInOrder
  <1>5. CASE SignIn \/ SessionEnds \/ LandOnApp \/ Tick \/ UNCHANGED vars
    BY <1>5 DEF SignIn, SessionEnds, LandOnApp, Tick, vars, service, ModalsInOrder
  <1>7. CASE LandOnLogin
    BY <1>7, ClosedDialogs DEF LandOnLogin
  <1>9. ASSUME NEW m \in Modals, HandleArrives(m)
        PROVE  ModalsInOrder'
    <2>0. modal[m].stage = "opening"
      BY <1>9 DEF HandleArrives
    <2>1. CASE modal' = Settled(m) /\ UNCHANGED dialog
      <3>1. dialog # m
        BY <2>0 DEF ModalsInOrder, NoModal, Modals
      <3> QED
        BY <1>0, <2>1, <3>1, SettledModals DEF ModalsInOrder
    <2>2. CASE modal' = [modal EXCEPT ![m].stage = "open"] /\ dialog' = m
      BY <1>0, <2>2 DEF ModalsInOrder
    <2> QED
      BY <1>9, <2>1, <2>2 DEF HandleArrives
  <1>10. ASSUME NEW m \in Modals, ResultArrives(m)
         PROVE  ModalsInOrder'
    <2>1. modal' = Settled(m) /\ dialog' = NoModal
      BY <1>10 DEF ResultArrives
    <2> QED
      BY <2>1, SettledModals DEF ModalsInOrder, Closed
  <1>11. ASSUME NEW m \in Modals, NEW a \in {"stay", "leave"}, Answer(m, a)
         PROVE  ModalsInOrder'
    <2>1. modal' = [modal EXCEPT ![m].answer = a] /\ dialog' = dialog /\ modal[m].stage # "none"
      BY <1>11 DEF Answer, OnScreen
    <2>2. \A k \in Modals : modal'[k].stage = modal[k].stage /\ (k # m => modal'[k] = modal[k])
      BY <1>0, <2>1
    <2> QED
      BY <1>0, <2>1, <2>2 DEF ModalsInOrder
  <1> QED
    BY <1>1, <1>2, <1>3, <1>4, <1>5, <1>7, <1>9, <1>10, <1>11 DEF Next

LEMMA CountdownStep ==
  ASSUME IdleAssumption, TypeOK, ModalsInOrder, CountdownHasModal, [Next]_vars
  PROVE  CountdownHasModal'
  <1>0. modal \in [Modals -> [stage : Stages, answer : Answers]]
    BY DEF TypeOK
  <1>o. ASSUME timer'.kind # "logout" \/ (~authed' /\ dirty')
        PROVE  CountdownHasModal'
    BY <1>o DEF CountdownHasModal
  \* A step of the session that goes on, under modals that stay.
  <1>k. ASSUME authed' = authed, dirty' = dirty, timer'.kind = "logout" => timer.kind = "logout",
               \A k \in Modals : /\ modal[k] # Closed => modal'[k] # Closed
                                 /\ modal'[k].stage = modal[k].stage
        PROVE  CountdownHasModal'
    BY <1>k DEF CountdownHasModal, Opening
  <1>1. CASE SessionEffect
    BY <1>1, <1>o DEF SessionEffect, UntilWarning, TimerOff
  <1>2. ASSUME Stir, UNCHANGED <<authed, dirty>>,
               \A k \in Modals : /\ modal[k] # Closed => modal'[k] # Closed
                                 /\ modal'[k].stage = modal[k].stage
        PROVE  CountdownHasModal'
    BY <1>2, <1>k DEF Stir, UntilWarning
  <1>3. CASE ShowWarning
    <2>1. CASE timer' = TimerOff
      BY <1>o, <2>1 DEF TimerOff
    <2>2. CASE timer' # TimerOff
      <3>1. PICK m \in Free : modal' = [modal EXCEPT ![m].stage = "opening"]
        BY <1>3, <2>2 DEF ShowWarning
      <3>2. m \in Modals /\ modal'[m].stage = "opening"
        BY <1>0, <3>1 DEF Free
      <3> QED
        BY <3>2 DEF CountdownHasModal, Opening, Closed
    <2> QED
      BY <2>1, <2>2
  <1>4. CASE LogoutDueToInactivity
    BY <1>4, <1>o DEF LogoutDueToInactivity, TimerOff
  <1>5. CASE SignIn
    BY <1>0, <1>5 DEF SignIn, service, CountdownHasModal, Opening, Closed
  <1>6. CASE SessionEnds
    BY <1>6, <1>o DEF SessionEnds, SignedOut
  <1>7. CASE LandOnLogin
    <2>1. CloseDialog /\ UNCHANGED <<authed, dirty, timer>>
      BY <1>7 DEF LandOnLogin
    <2>2. CloseDialog
      BY <2>1
    <2>3. \A k \in Modals : /\ modal'[k].stage = modal[k].stage
                            /\ modal[k].stage # "open" => modal'[k] = modal[k]
                            /\ modal[k] # Closed => modal'[k] # Closed
      BY <2>2, ClosedDialogs
    <2>4. timer'.kind = "logout" => timer.kind = "logout"
      BY <2>1
    <2> QED
      BY <2>1, <2>3, <2>4 DEF CountdownHasModal, Opening
  <1>8. CASE LandOnApp \/ UNCHANGED vars
    BY <1>8, <1>k DEF LandOnApp, service, vars
  <1>9. ASSUME NEW m \in Modals, HandleArrives(m)
        PROVE  CountdownHasModal'
    <2>1. CASE authed
      <3>1. modal'[m].stage = "open" /\ authed'
        BY <1>0, <1>9, <2>1 DEF HandleArrives
      <3> QED
        BY <3>1 DEF CountdownHasModal, Closed
    <2>2. CASE ~authed
      BY <1>9, <1>o, <2>2 DEF HandleArrives, TimerOff
    <2> QED
      BY <2>1, <2>2
  <1>10. ASSUME NEW m \in Modals, ResultArrives(m)
         PROVE  CountdownHasModal'
    <2>1. CASE modal[m].answer = "stay"
      BY <1>10, <1>o, <2>1 DEF ResultArrives, UntilWarning
    <2>2. CASE modal[m].answer # "stay" /\ authed
      BY <1>10, <1>o, <2>2 DEF ResultArrives, SignedOut
    <2>3. CASE modal[m].answer # "stay" /\ ~authed
      <3>1. modal[m].stage = "open" /\ UNCHANGED <<authed, dirty, timer>>
        BY <1>10, <2>3 DEF ResultArrives, Settling
      <3>2. \A k \in Opening : k # m /\ modal'[k] = modal[k]
        BY <1>10, <3>1, SettledModals DEF ResultArrives, Opening
      <3> QED
        BY <2>3, <3>1, <3>2 DEF CountdownHasModal, Opening
    <2> QED
      BY <2>1, <2>2, <2>3
  <1>11. ASSUME NEW m \in Modals, NEW a \in {"stay", "leave"}, Answer(m, a)
         PROVE  CountdownHasModal'
    <2>1. modal' = [modal EXCEPT ![m].answer = a]
      BY <1>11 DEF Answer
    <2>2. \A k \in Modals : modal'[k].stage = modal[k].stage /\ (k # m => modal'[k] = modal[k])
      BY <1>0, <2>1
    <2>3. modal'[m] # Closed
      BY <1>0, <2>1 DEF Closed
    <2> QED
      BY <1>2, <1>11, <2>2, <2>3 DEF Answer
  <1>12. CASE Tick
    <2>1. timer'.kind = timer.kind
      BY <1>12 DEF Tick, TypeOK
    <2> QED
      BY <1>12, <1>k, <2>1 DEF Tick
  <1> QED
    BY <1>1, <1>2, <1>3, <1>4, <1>5, <1>6, <1>7, <1>8, <1>9, <1>10, <1>11, <1>12
    DEF Next, Activity

(* While a warning timer that has run out waits, an answer sets it anew.                 *)
LEMMA StirSetsTimer ==
  ASSUME IdleAssumption, Throttle <= IdleTimeout - WarningTime,
         TypeOK, IdleInv, WarnsLate, Stir, authed, ~dirty,
         timer.kind = "warn", timer.left = 0
  PROVE  timer' = UntilWarning
  <1>1. listening /\ ~presenting
    BY DEF WarnsLate, IdleInv
  <1>2. window = 0
    BY DEF WarnsLate, TypeOK, IdleAssumption
  <1> QED
    BY <1>1, <1>2 DEF Stir

LEMMA HeardStep ==
  ASSUME IdleAssumption, Throttle <= IdleTimeout - WarningTime,
         TypeOK, IdleInv, WarnsLate, ModalsInOrder, NothingHeardLate, [Next]_vars
  PROVE  NothingHeardLate'
  <1>0. modal \in [Modals -> [stage : Stages, answer : Answers]]
    BY DEF TypeOK
  <1>u. UntilWarning.left > 0
    BY DEF UntilWarning, IdleAssumption
  <1>o. ASSUME timer' = UntilWarning \/ timer'.kind # "warn" \/ ~authed' \/ dirty'
        PROVE  NothingHeardLate'
    BY <1>o, <1>u DEF NothingHeardLate
  <1>k. ASSUME UNCHANGED <<authed, dirty, timer>>,
               \A k \in Modals : modal'[k].stage = "opening" => modal'[k] = modal[k]
        PROVE  NothingHeardLate'
    BY <1>k DEF NothingHeardLate, Opening
  <1>1. CASE SessionEffect
    BY <1>1, <1>o DEF SessionEffect
  <1>2. CASE Activity
    BY <1>2, <1>k, <1>o DEF Activity, Stir
  <1>3. CASE ShowWarning
    BY <1>3, <1>o DEF ShowWarning, TimerOff, UntilLogout
  <1>4. CASE LogoutDueToInactivity
    BY <1>4, <1>o DEF LogoutDueToInactivity, TimerOff
  <1>5. CASE SignIn \/ SessionEnds
    BY <1>5, <1>o DEF SignIn, SessionEnds, SignedOut
  <1>7. CASE LandOnLogin
    <2>1. CloseDialog /\ UNCHANGED <<authed, dirty, timer>>
      BY <1>7 DEF LandOnLogin
    <2>2. CloseDialog
      BY <2>1
    <2>3. \A k \in Modals : /\ modal'[k].stage = modal[k].stage
                            /\ modal[k].stage # "open" => modal'[k] = modal[k]
                            /\ modal[k] # Closed => modal'[k] # Closed
      BY <2>2, ClosedDialogs
    <2>4. \A k \in Modals : modal'[k].stage = "opening" => modal'[k] = modal[k]
      <3>1. ASSUME NEW k \in Modals, modal'[k].stage = "opening"
            PROVE  modal'[k] = modal[k]
        BY <2>3, <3>1
      <3> QED
        BY <3>1
    <2> QED
      BY <1>k, <2>1, <2>4
  <1>8. CASE LandOnApp \/ UNCHANGED vars
    BY <1>8, <1>k DEF LandOnApp, service, vars
  <1>9. ASSUME NEW m \in Modals, HandleArrives(m)
        PROVE  NothingHeardLate'
    <2>1. CASE ~authed
      BY <1>9, <1>o, <2>1 DEF HandleArrives
    <2>2. CASE authed
      <3>1. modal' = [modal EXCEPT ![m].stage = "open"] /\ UNCHANGED <<authed, dirty, timer>>
        BY <1>9, <2>2 DEF HandleArrives
      <3>2. \A k \in Modals : modal'[k].stage = "opening" => modal'[k] = modal[k]
        BY <1>0, <3>1
      <3> QED
        BY <1>k, <3>1, <3>2
    <2> QED
      BY <2>1, <2>2
  <1>10. ASSUME NEW m \in Modals, ResultArrives(m)
         PROVE  NothingHeardLate'
    <2>1. CASE modal[m].answer = "stay" \/ authed
      BY <1>10, <1>o, <2>1 DEF ResultArrives, SignedOut
    <2>2. CASE modal[m].answer # "stay" /\ ~authed
      BY <1>10, <1>o, <2>2 DEF ResultArrives
    <2> QED
      BY <2>1, <2>2
  <1>11. ASSUME NEW m \in Modals, NEW a \in {"stay", "leave"}, Answer(m, a)
         PROVE  NothingHeardLate'
    <2>1. Stir /\ UNCHANGED <<authed, dirty>>
      BY <1>11 DEF Answer
    <2>2. CASE authed /\ ~dirty /\ timer.kind = "warn" /\ timer.left = 0
      BY <1>o, <2>1, <2>2, StirSetsTimer
    <2>3. CASE ~(authed /\ ~dirty /\ timer.kind = "warn" /\ timer.left = 0)
      BY <1>o, <2>1, <2>3 DEF Stir, NothingHeardLate
    <2> QED
      BY <2>2, <2>3
  <1>12. CASE Tick
    <2>1. Answered = {} /\ modal' = modal
      BY <1>12 DEF Tick
    <2>2. \A m \in Modals : modal'[m].answer = "none"
      BY <2>1 DEF Answered
    <2> QED
      BY <2>2 DEF NothingHeardLate, Opening
  <1> QED
    BY <1>1, <1>2, <1>3, <1>4, <1>5, <1>7, <1>8, <1>9, <1>10, <1>11, <1>12 DEF Next

LEMMA FreshStep ==
  ASSUME IdleAssumption, TypeOK, IdleInv, ModalsInOrder, FreshIsGuarded, NothingHeardLate,
         [Next]_vars
  PROVE  FreshIsGuarded'
  <1>0. /\ modal \in [Modals -> [stage : Stages, answer : Answers]] /\ fresh \subseteq Modals
        /\ Modals \subseteq Nat
    BY DEF TypeOK, Modals
  <1>e. ASSUME fresh' = {}
        PROVE  FreshIsGuarded'
    BY <1>e DEF FreshIsGuarded
  \* A step in which nothing is answered that was not, and nothing raised.
  <1>k. ASSUME fresh' \subseteq fresh, UNCHANGED <<authed, dirty, presenting>>,
               timer'.kind = timer.kind,
               \A m \in Modals : modal'[m].answer = modal[m].answer,
               \A m \in Modals : modal'[m] = Closed \/ (modal[m].stage # "none" /\ modal'[m].stage # "none")
        PROVE  FreshIsGuarded'
    <2>1. \A m \in Modals : OnScreen(m)' => OnScreen(m)
      BY <1>k DEF OnScreen, Closed
    <2>2. \A m \in Modals : modal[m] = Closed => modal'[m] = Closed
      BY <1>k DEF Closed
    <2>3. \A m \in Modals : Above(m)' \subseteq Above(m)
      BY <2>2 DEF Above
    <2> QED
      BY <1>0, <1>k, <2>1, <2>3 DEF FreshIsGuarded
  <1>s. ASSUME UNCHANGED <<fresh, authed, dirty, presenting, modal>>, timer' = timer \/ ~presenting
        PROVE  FreshIsGuarded'
    BY <1>0, <1>s DEF FreshIsGuarded, OnScreen, Above
  <1>1. CASE SessionEffect
    BY <1>1, <1>e DEF SessionEffect, FreshIsGuarded
  <1>2. CASE Activity
    BY <1>2, <1>s DEF Activity, Stir
  <1>3. CASE ShowWarning
    <2>1. CASE presenting \/ ~authed \/ dirty
      <3>1. fresh = {}
        BY <1>3, <2>1 DEF ShowWarning, IdleInv, FreshIsGuarded
      <3> QED
        BY <1>3, <1>e, <2>1, <3>1 DEF ShowWarning
    <2>2. CASE ~presenting /\ authed /\ ~dirty
      <3>1. PICK m \in Free : /\ modal' = [modal EXCEPT ![m].stage = "opening"]
                              /\ fresh' = fresh \cup {m}
        BY <1>3, <2>2 DEF ShowWarning
      <3>2. m \in Modals /\ modal[m] = Closed /\ Above(m) = {}
        BY <3>1 DEF Free
      <3>3. \A k \in Modals : k # m => modal'[k] = modal[k]
        BY <1>0, <3>1
      <3>4. \A k \in Modals : modal[k].answer = "none"
        <4>1. ASSUME NEW k \in Modals, modal[k].answer # "none"
              PROVE  modal[k].stage \notin {"none", "opening", "open"}
          <5>1. modal[k].stage # "none"
            BY <4>1 DEF ModalsInOrder, Closed
          <5>2. modal[k].stage # "open"
            BY <1>3, <4>1 DEF ShowWarning, NoMicrotask, Settling, Answered
          <5>3. modal[k].stage # "opening"
            BY <1>3, <2>2, <4>1 DEF ShowWarning, NothingHeardLate, Opening
          <5> QED
            BY <5>1, <5>2, <5>3
        <4> QED
          BY <1>0, <4>1 DEF Stages
      <3>5. \A k \in fresh : ~OnScreen(k)
        BY <1>3, <2>2 DEF ShowWarning, FreshIsGuarded
      <3>6. Above(m)' = {}
        <4>1. \A k \in Modals : k > m => modal[k] = Closed
          BY <3>2 DEF Above
        <4>2. \A k \in Modals : k > m => k # m
          BY <1>0, <3>2
        <4>3. \A k \in Modals : k > m => modal'[k] = Closed
          BY <3>3, <4>1, <4>2
        <4> QED
          BY <4>3 DEF Above
      <3>7. presenting' /\ timer'.kind = "logout" /\ authed' /\ ~dirty'
        BY <1>3, <2>2 DEF ShowWarning, UntilLogout
      <3>8. \A k \in fresh \ {m} : ~OnScreen(k)'
        BY <1>0, <3>3, <3>5 DEF OnScreen
      <3>9. \A k \in Modals \ {m} : modal'[k].answer = "none"
        BY <3>3, <3>4
      <3> QED
        BY <3>1, <3>6, <3>7, <3>8, <3>9 DEF FreshIsGuarded
    <2> QED
      BY <2>1, <2>2
  <1>4. CASE LogoutDueToInactivity
    BY <1>4, <1>e DEF LogoutDueToInactivity, SignedOut, FreshIsGuarded
  <1>5. CASE SignIn \/ SessionEnds \/ LandOnLogin
    BY <1>5, <1>e DEF SignIn, SessionEnds, SignedOut, LandOnLogin
  <1>8. CASE LandOnApp \/ UNCHANGED vars
    BY <1>8, <1>s DEF LandOnApp, service, vars
  <1>9. ASSUME NEW m \in Modals, HandleArrives(m)
        PROVE  FreshIsGuarded'
    <2>1. CASE ~authed
      BY <1>9, <1>e, <2>1 DEF HandleArrives, FreshIsGuarded
    <2>2. CASE authed
      <3>1. /\ modal' = [modal EXCEPT ![m].stage = "open"] /\ modal[m].stage = "opening"
            /\ UNCHANGED <<fresh, authed, dirty, presenting, timer>>
        BY <1>9, <2>2 DEF HandleArrives
      <3>2. \A k \in Modals : modal'[k].answer = modal[k].answer
        BY <1>0, <3>1
      <3>3. \A k \in Modals : modal'[k] = Closed \/ (modal[k].stage # "none" /\ modal'[k].stage # "none")
        BY <1>0, <3>1 DEF ModalsInOrder
      <3> QED
        BY <1>k, <3>1, <3>2, <3>3
    <2> QED
      BY <2>1, <2>2
  <1>10. ASSUME NEW m \in Modals, ResultArrives(m)
         PROVE  FreshIsGuarded'
    <2>0. m \in Modals /\ modal[m].answer # "none" /\ modal' = Settled(m)
      BY <1>10 DEF ResultArrives, Settling, Answered
    <2>1. \A k \in fresh : ~OnScreen(k)
      BY <1>0, <2>0 DEF FreshIsGuarded, OnScreen
    <2>2. \A k \in Modals : OnScreen(k)' => OnScreen(k)
      BY <2>0, SettledModals DEF OnScreen, Closed
    <2>3. fresh' = {} \/ (fresh' \subseteq fresh /\ UNCHANGED <<authed, dirty>>)
      BY <1>10 DEF ResultArrives, SignedOut
    <2>4. CASE fresh' \subseteq fresh /\ UNCHANGED <<authed, dirty>>
      <3>1. \A k \in fresh' : ~OnScreen(k)'
        BY <1>0, <2>1, <2>2, <2>4
      <3>2. fresh' # {} => authed' /\ ~dirty'
        BY <2>4 DEF FreshIsGuarded
      <3> QED
        BY <3>1, <3>2 DEF FreshIsGuarded
    <2> QED
      BY <1>e, <2>3, <2>4
  <1>11. ASSUME NEW m \in Modals, NEW a \in {"stay", "leave"}, Answer(m, a)
         PROVE  FreshIsGuarded'
    <2>1. /\ modal' = [modal EXCEPT ![m].answer = a] /\ OnScreen(m) /\ Above(m) = {} /\ Stir
          /\ UNCHANGED <<fresh, authed, dirty, presenting>>
      BY <1>11 DEF Answer
    <2>2. \A k \in Modals : /\ k # m => modal'[k] = modal[k]
                            /\ modal'[k].stage = modal[k].stage
      BY <1>0, <2>1
    <2>3. modal[m] # Closed /\ modal'[m].answer # "none"
      BY <1>0, <2>1 DEF OnScreen, Closed
    <2>4. ASSUME NEW k \in fresh, OnScreen(k)'
          PROVE  FALSE
      <3>1. k \in Modals /\ k # m /\ OnScreen(k) /\ modal[k] # Closed
        BY <1>0, <2>2, <2>3, <2>4 DEF OnScreen, Closed
      <3>2. Above(k) = {}
        BY <3>1 DEF FreshIsGuarded
      <3>3. ~(k > m) /\ ~(m > k)
        BY <2>1, <2>3, <3>1, <3>2 DEF Above
      <3> QED
        BY <1>0, <3>1, <3>3
    <2> QED
      BY <2>1, <2>4 DEF FreshIsGuarded
  <1>12. CASE Tick
    <2>1. timer'.kind = timer.kind
      BY <1>12 DEF Tick, TypeOK
    <2> QED
      BY <1>12, <1>k, <2>1 DEF Tick, ModalsInOrder
  <1> QED
    BY <1>1, <1>2, <1>3, <1>4, <1>5, <1>8, <1>9, <1>10, <1>11, <1>12 DEF Next

(* Every timeout, and every throttle that is no longer than the wait for the warning     *)
(* (the code's are 5 seconds and 13 minutes): a warning that was raised in the session   *)
(* and on the page that are still there is timed, and the timer ends a session only      *)
(* under a warning.                                                                      *)
THEOREM WarningsAreTimed ==
  ASSUME Throttle <= IdleTimeout - WarningTime
  PROVE  Spec => WarningHasItsTimer
  <1> DEFINE Inv == TypeOK /\ IdleInv /\ WarnsLate /\ WarningInv
  <1>1. Init => Inv
    <2> SUFFICES ASSUME Init
                 PROVE  Inv
      OBVIOUS
    <2>1. TypeOK /\ IdleInv /\ WarnsLate
      BY IdleAssumption, TypeInit, IdleInitially DEF Init, WarnsLate
    <2>2. ModalsInOrder /\ FreshIsGuarded
      BY DEF Init, ModalsInOrder, FreshIsGuarded
    <2>3. NothingHeardLate /\ CountdownHasModal
      BY DEF Init, NothingHeardLate, CountdownHasModal, TimerOff
    <2> QED
      BY <2>1, <2>2, <2>3 DEF WarningInv
  <1>2. Inv /\ [Next]_vars => Inv'
    BY IdleAssumption, TypeStep, IdleStep, WarnsLateStep, ModalsInOrderStep, FreshStep,
       HeardStep, CountdownStep DEF WarningInv
  <1>3. Inv => WarningIsTimed
    BY DEF WarningInv, FreshIsGuarded, WarningIsTimed
  <1>4. Inv /\ [Next]_vars =>
          [authed /\ ~authed' /\ timer.kind = "logout" /\ timer'.kind = "off" =>
             \E m \in Modals : modal[m] # Closed]_vars
    BY DEF WarningInv, CountdownHasModal
  <1> QED
    BY <1>1, <1>2, <1>3, <1>4, PTL DEF Spec, WarningHasItsTimer
=============================================================================
