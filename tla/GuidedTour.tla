----------------------------- MODULE GuidedTour -----------------------------
(***************************************************************************)
(* The guided tour (core/services/guidance.service, shared/components/     *)
(* guidance-tour): cards about the screen, each pointing at a control.     *)
(*                                                                         *)
(* The service's signals change at once; the component hears of them in an *)
(* effect that runs later, and looks for the control by polling, while the *)
(* view renders, reloads or is left.  A class is put on an element of      *)
(* another component, and strips of shade on the body.                     *)
(*                                                                         *)
(* The component is part of the main layout, and /login is a route beside  *)
(* it: a sign-out, a 401 or an idle logout destroys both before the router *)
(* reports the end of the navigation, and there is no ngOnDestroy.  The    *)
(* service, the body's class and what the component left running (`left`)  *)
(* outlive it; the next sign-in makes another layout and component.        *)
(***************************************************************************)
EXTENDS Naturals

CONSTANTS
  Last,       \* controls are 1..Last, in reading order
  Shell,      \* those of the header and the sidebar, as long as the layout lives
  Screens,    \* routes
  Outside,    \* those beside the main layout: /login
  Patience,   \* TARGET_LOOKUP_TIMEOUT_MS in intervals of the poll
  MaxLeft     \* bound: destroyed components that have left something

Controls == 1..Last

ASSUME TourAssumption ==
  /\ Last \in Nat /\ Shell \subseteq Controls /\ Outside \subseteq Screens
  /\ Patience \in Nat \ {0} /\ MaxLeft \in Nat

VARIABLES
  tour,      \* GuidanceService: the steps and the one shown; step 0 has no control
  effect,    \* the component's effect has not run since they changed
  pointer,   \* GuidanceTourComponent: activeTarget, the poll, the scrim and its frame
  left,      \* the pointers of the instances destroyed with their layout
  dom,       \* the controls in the document, those that bear the class, and the
             \* body's class
  route      \* the router

tourVars == <<tour, effect, pointer, left, dom, route>>

NoTour == [isPlaying |-> FALSE, steps |-> {}, step |-> 0, of |-> {}]
AtNothing == [target |-> {}, lookup |-> {}, waited |-> 0, tracking |-> FALSE,
              frame |-> FALSE, scrim |-> FALSE]

Pointers == [target : SUBSET Controls, lookup : SUBSET Controls, waited : 0..Patience,
             tracking : BOOLEAN, frame : BOOLEAN, scrim : BOOLEAN]

\* The layout, with the component in it, is on screen.
LayoutUp == route.at \notin Outside

TourTypeOK ==
  /\ tour \in [isPlaying : BOOLEAN, steps : SUBSET Controls, step : 0..Last,
               of : SUBSET Screens]
  /\ tour.step \in tour.steps \cup {0}
  /\ effect \in BOOLEAN
  /\ pointer \in Pointers /\ left \in [1..MaxLeft -> Pointers]
  /\ dom \in [present : SUBSET Controls, marked : SUBSET Controls, active : BOOLEAN]
  /\ dom.marked \subseteq dom.present /\ (~LayoutUp => dom.present = {})
  /\ route \in [at : Screens, to : SUBSET Screens]

TourInit ==
  /\ tour = NoTour /\ effect = FALSE /\ pointer = AtNothing
  /\ left = [i \in 1..MaxLeft |-> AtNothing]
  /\ \E s \in Screens : route = [at |-> s, to |-> {}]
  /\ dom = [present |-> IF LayoutUp THEN Shell ELSE {}, marked |-> {}, active |-> FALSE]

-----------------------------------------------------------------------------
(* The service *)

\* A signal that is set to what it holds notifies nobody.
Set(t) ==
  /\ tour' = t
  /\ effect' = (effect \/ t.isPlaying # tour.isPlaying \/ t.step # tour.step
                  \/ t.steps # tour.steps)

EndTour == Set(NoTour)

\* composeTour(): the controls of the screen that are there, or those of the shell.
Composed ==
  LET here == dom.present \ Shell IN IF here = {} THEN Shell ELSE here

\* startTour(), from the header or by a key of the layout: a written tour names what it
\* likes.
StartTour(steps) ==
  /\ LayoutUp
  /\ Set([isPlaying |-> TRUE, steps |-> steps, step |-> 0, of |-> {route.at}])
  /\ UNCHANGED <<pointer, left, dom, route>>

Later == {t \in tour.steps : t > tour.step}
Earlier == {t \in tour.steps \cup {0} : t < tour.step}

NextStep ==
  /\ LayoutUp /\ tour.isPlaying
  /\ IF Later = {} THEN EndTour
     ELSE \E t \in Later : (\A u \in Later : t <= u) /\ Set([tour EXCEPT !.step = t])
  /\ UNCHANGED <<pointer, left, dom, route>>

PreviousStep ==
  /\ LayoutUp /\ tour.isPlaying
  /\ \E t \in Earlier : (\A u \in Earlier : u <= t) /\ Set([tour EXCEPT !.step = t])
  /\ UNCHANGED <<pointer, left, dom, route>>

OnExit ==
  /\ LayoutUp /\ tour.isPlaying /\ EndTour
  /\ UNCHANGED <<pointer, left, dom, route>>

-----------------------------------------------------------------------------
(* The component *)

\* attempt() succeeds: the control is marked, followed, and measured in a frame.
PointsAt(t) == [AtNothing EXCEPT !.target = {t}, !.tracking = TRUE, !.frame = TRUE]

\* Mutation: the control before keeps its class.
Cleared_Kept == dom.marked

\* clearHighlight(): the class comes off the control it was put on.
Cleared == dom.marked \ pointer.target

\* Mutation: a poll under way is let run.
NotFound_Polling(t) == [pointer EXCEPT !.target = {}, !.tracking = FALSE,
                          !.frame = FALSE, !.scrim = FALSE, !.lookup = @ \cup ({t} \ {0})]

\* cancelLookup(), clearHighlight(), and a poll for a control that is not there yet.
NotFound(t) == [AtNothing EXCEPT !.lookup = {t} \ {0}]

\* The effect runs: what it pointed at is let go, the body's class follows the tour, and
\* the step's control is looked for.
EffectRuns ==
  /\ LayoutUp /\ effect /\ effect' = FALSE
  /\ LET wanted == IF tour.isPlaying THEN tour.step ELSE 0
         found == {wanted} \cap dom.present IN
     /\ pointer' = IF found = {} THEN NotFound(wanted) ELSE PointsAt(wanted)
     /\ dom' = [present |-> dom.present, marked |-> Cleared \cup found,
                active |-> tour.isPlaying]
  /\ UNCHANGED <<tour, left, route>>

(***************************************************************************)
(* What runs by itself: the poll, the listeners and the frame, of the      *)
(* component on screen (p = pointer) or of one that was destroyed.         *)
(***************************************************************************)

\* Mutation: every attempt starts the count again.
Waited_Again(p) == 1

Waited(p) == p.waited + 1

\* The interval's attempt for control t: found, given up, or waited for.
Polled(p, t) ==
  IF t \in dom.present THEN PointsAt(t)
  ELSE IF Waited(p) >= Patience THEN [p EXCEPT !.lookup = {}, !.waited = 0]
  ELSE [p EXCEPT !.waited = Waited(p)]

Attempted(t) == [dom EXCEPT !.marked = @ \cup ({t} \cap dom.present)]

PollFires(t) ==
  /\ t \in pointer.lookup
  /\ pointer' = Polled(pointer, t) /\ dom' = Attempted(t)
  /\ UNCHANGED <<tour, effect, left, route>>

LeftPollFires(i, t) ==
  /\ t \in left[i].lookup
  /\ left' = [left EXCEPT ![i] = Polled(left[i], t)] /\ dom' = Attempted(t)
  /\ UNCHANGED <<tour, effect, pointer, route>>

\* The view scrolls or the window is resized: whoever listens asks for a frame.
Scrolled(p) == IF p.tracking THEN [p EXCEPT !.frame = TRUE] ELSE p

ViewportChanges ==
  /\ pointer' = Scrolled(pointer)
  /\ left' = [i \in 1..MaxLeft |-> Scrolled(left[i])]
  /\ UNCHANGED <<tour, effect, dom, route>>

\* scheduleReposition(), in its frame: the strips are laid around the control, though it
\* may be off the document by now.
Framed(p) == [p EXCEPT !.frame = FALSE, !.scrim = p.scrim \/ p.target # {}]

FrameFires ==
  /\ pointer.frame /\ pointer' = Framed(pointer)
  /\ UNCHANGED <<tour, effect, left, dom, route>>

LeftFrameFires(i) ==
  /\ left[i].frame /\ left' = [left EXCEPT ![i] = Framed(left[i])]
  /\ UNCHANGED <<tour, effect, pointer, dom, route>>

-----------------------------------------------------------------------------
(* The page *)

Renders(t) ==
  /\ LayoutUp /\ t \notin dom.present
  /\ dom' = [dom EXCEPT !.present = @ \cup {t}]
  /\ UNCHANGED <<tour, effect, pointer, left, route>>

\* The view drops the element, with its class; another one may be rendered for it.
Drops(t) ==
  /\ t \in dom.present \ Shell
  /\ dom' = [dom EXCEPT !.present = @ \ {t}, !.marked = @ \ {t}]
  /\ UNCHANGED <<tour, effect, pointer, left, route>>

\* Mutation: the tour is ended where the navigation starts.
EndsTour_Start == {"start"}

\* The router event that ends the tour.
EndsTour == {"end"}

\* The component on screen hears it, if there is one.
Heard(event) ==
  IF LayoutUp /\ event \in EndsTour THEN EndTour ELSE UNCHANGED <<tour, effect>>

Navigate(s) ==
  /\ route.to = {} /\ route' = [route EXCEPT !.to = {s}]
  /\ Heard("start")
  /\ UNCHANGED <<pointer, left, dom>>

Arrives(s) == route.to = {s} /\ route' = [at |-> s, to |-> {}]

\* NavigationEnd, between two screens of the layout: the view of the screen before is
\* gone by then, unless only the query changed.
Arrived(s) ==
  /\ LayoutUp /\ s \notin Outside /\ Arrives(s)
  /\ Heard("end")
  /\ dom' = IF s = route.at THEN dom
            ELSE [dom EXCEPT !.present = Shell, !.marked = @ \cap Shell]
  /\ UNCHANGED <<pointer, left>>

\* To /login: the layout is destroyed before NavigationEnd, and takeUntilDestroyed has
\* unsubscribed.  The tour plays on, and what the component had running is left.
LayoutDestroyed(s) ==
  /\ LayoutUp /\ s \in Outside /\ Arrives(s)
  /\ IF pointer = AtNothing THEN UNCHANGED left
     ELSE \E i \in 1..MaxLeft : /\ left[i] = AtNothing
                                /\ left' = [left EXCEPT ![i] = pointer]
  /\ pointer' = AtNothing /\ effect' = FALSE
  /\ dom' = [dom EXCEPT !.present = {}, !.marked = {}]
  /\ UNCHANGED tour

\* From /login: a new component has subscribed by NavigationEnd, and its effect is to
\* run for the first time.
LayoutCreated(s) ==
  /\ ~LayoutUp /\ s \notin Outside /\ Arrives(s)
  /\ tour' = (IF "end" \in EndsTour THEN NoTour ELSE tour) /\ effect' = TRUE
  /\ dom' = [dom EXCEPT !.present = Shell]
  /\ UNCHANGED <<pointer, left>>

\* Between two routes beside the layout.
ArrivedOutside(s) ==
  /\ ~LayoutUp /\ s \in Outside /\ Arrives(s)
  /\ UNCHANGED <<tour, effect, pointer, left, dom>>

NavigationFails ==
  /\ route.to # {} /\ route' = [route EXCEPT !.to = {}]
  /\ UNCHANGED <<tour, effect, pointer, left, dom>>

-----------------------------------------------------------------------------
Polls == \E t \in Controls : PollFires(t)

\* What the instances that were destroyed still do.
LeftActs ==
  \E i \in 1..MaxLeft : LeftFrameFires(i) \/ \E t \in Controls : LeftPollFires(i, t)

Routed ==
  \E s \in Screens : \/ Navigate(s) \/ Arrived(s) \/ LayoutDestroyed(s)
                     \/ LayoutCreated(s) \/ ArrivedOutside(s)

TourNext ==
  \/ StartTour(Composed) \/ (\E steps \in SUBSET Controls : StartTour(steps))
  \/ NextStep \/ PreviousStep \/ OnExit
  \/ EffectRuns \/ Polls \/ ViewportChanges \/ FrameFires \/ LeftActs
  \/ \E t \in Controls : Renders(t) \/ Drops(t)
  \/ Routed \/ NavigationFails

\* Angular runs its effects, and the interval fires.
TourFairness == WF_tourVars(EffectRuns \/ Polls)

TourSpec == TourInit /\ [][TourNext]_tourVars /\ TourFairness

-----------------------------------------------------------------------------
(***************************************************************************)
(* Properties                                                              *)
(***************************************************************************)

\* The controls that instances destroyed with their layout still point at.
LeftTargets == UNION {left[i].target : i \in 1..MaxLeft}

\* What the tour does to the page is about the card on screen.  In a layout in which the
\* effect has run, the control pointed at, or looked for, is the one of the tour's step,
\* and the body's class says whether it plays; a tour that ended in this layout, by its
\* last card, by Exit or because the screen was left, leaves no shade, listener, poll or
\* frame of this component, and no class but what an instance destroyed earlier put
\* there; and "a tour describes one screen, so it cannot outlive being on it", also one
\* that was started while the navigation away was under way, or that was playing when a
\* layout was destroyed.  The condition is that layout: a sign-out, a 401 or an idle
\* logout with the tour open ends no tour, and the shade, the listeners, a poll and the
\* body's class are left (guidance-tour.component.ts:336-341 without an ngOnDestroy).
TourKeepsToItsStep ==
  /\ dom.marked \subseteq pointer.target \cup LeftTargets
  /\ pointer.target = {} \/ pointer.lookup = {}
  /\ \A i \in 1..MaxLeft : left[i].target = {} \/ left[i].lookup = {}
  /\ LayoutUp /\ ~effect =>
       /\ pointer.target \cup pointer.lookup \subseteq {tour.step}
       /\ dom.active = tour.isPlaying
       /\ ~tour.isPlaying => pointer = AtNothing
  /\ LayoutUp /\ tour.isPlaying => tour.of = {route.at}
  /\ ~LayoutUp => pointer = AtNothing

\* The tour polls for the control of its card.
TourWaits == pointer.lookup # {} /\ ~effect
=============================================================================
