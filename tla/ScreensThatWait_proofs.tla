----------------------- MODULE ScreensThatWait_proofs ------------------------
(***************************************************************************)
(* Proofs about the guided tour, the client picker and the search box of   *)
(* the header, and about the seven parts of ScreensThatWait together, for  *)
(* any controls, screens, texts and clients.                               *)
(***************************************************************************)
EXTENDS ScreensThatWait, WorkQueues_proofs, Lists_proofs

-----------------------------------------------------------------------------
(* The guided tour *)

Tour == [isPlaying : BOOLEAN, steps : SUBSET Controls, step : 0..Last,
         of : SUBSET Screens]
Document == [present : SUBSET Controls, marked : SUBSET Controls, active : BOOLEAN]

(* The pointer that points at nothing, at a control, or looks for one. *)
LEMMA PointersTyped ==
  ASSUME TourAssumption, NEW T \in SUBSET Controls
  PROVE  /\ AtNothing \in Pointers /\ [AtNothing EXCEPT !.lookup = T] \in Pointers
         /\ [AtNothing EXCEPT !.lookup = {}] = AtNothing
         /\ \A t \in Controls : PointsAt(t) \in Pointers
  <1>1. 0 \in 0..Patience
    BY DEF TourAssumption
  <1>2. AtNothing \in Pointers /\ [AtNothing EXCEPT !.lookup = T] \in Pointers
    BY <1>1 DEF AtNothing, Pointers
  <1>3. [AtNothing EXCEPT !.lookup = {}] = AtNothing
    BY DEF AtNothing
  <1>4. \A t \in Controls : PointsAt(t) \in Pointers
    BY <1>1 DEF PointsAt, AtNothing, Pointers
  <1> QED
    BY <1>2, <1>3, <1>4

(* What runs by itself keeps a pointer's type, and what it points at or looks for: it *)
(* may find the control it looks for, and then looks for nothing.                      *)
LEMMA RunsByItself ==
  ASSUME TourAssumption, NEW p \in Pointers
  PROVE  /\ \A t \in Controls : Polled(p, t) \in Pointers
         /\ \A t \in Controls : t \in dom.present =>
              Polled(p, t).target = {t} /\ Polled(p, t).lookup = {}
         /\ \A t \in Controls : t \notin dom.present =>
              Polled(p, t).target = p.target /\ Polled(p, t).lookup \subseteq p.lookup
         /\ Scrolled(p) \in Pointers /\ Scrolled(p).target = p.target
         /\ Scrolled(p).lookup = p.lookup /\ (p = AtNothing => Scrolled(p) = AtNothing)
         /\ Framed(p) \in Pointers /\ Framed(p).target = p.target
         /\ Framed(p).lookup = p.lookup
  <1>1. 0 \in 0..Patience /\ p.waited \in 0..Patience /\ Patience \in Nat
    BY DEF TourAssumption, Pointers
  <1>2. ASSUME NEW t \in Controls, t \in dom.present
        PROVE  /\ Polled(p, t) \in Pointers
               /\ Polled(p, t).target = {t} /\ Polled(p, t).lookup = {}
    <2>1. Polled(p, t) = PointsAt(t)
      BY <1>2 DEF Polled
    <2>2. PointsAt(t) \in Pointers
      BY PointersTyped
    <2> QED
      BY <2>1, <2>2 DEF PointsAt, AtNothing
  <1>3. ASSUME NEW t \in Controls, t \notin dom.present
        PROVE  /\ Polled(p, t) \in Pointers
               /\ Polled(p, t).target = p.target /\ Polled(p, t).lookup \subseteq p.lookup
    <2>1. CASE Waited(p) >= Patience
      <3>1. Polled(p, t) = [p EXCEPT !.lookup = {}, !.waited = 0]
        BY <1>3, <2>1 DEF Polled
      <3> QED
        BY <1>1, <3>1 DEF Pointers
    <2>2. CASE ~(Waited(p) >= Patience)
      <3>1. Polled(p, t) = [p EXCEPT !.waited = Waited(p)]
        BY <1>3, <2>2 DEF Polled
      <3>2. Waited(p) \in 0..Patience
        BY <1>1, <2>2 DEF Waited
      <3> QED
        BY <3>1, <3>2 DEF Pointers
    <2> QED
      BY <2>1, <2>2
  <1>4. p.tracking \in BOOLEAN /\ p.frame \in BOOLEAN /\ p.scrim \in BOOLEAN
    BY DEF Pointers
  <1>5. /\ Scrolled(p) \in Pointers /\ Scrolled(p).target = p.target
        /\ Scrolled(p).lookup = p.lookup
    BY <1>4 DEF Scrolled, Pointers
  <1>6. /\ Framed(p) \in Pointers /\ Framed(p).target = p.target
        /\ Framed(p).lookup = p.lookup
    BY <1>4 DEF Framed, Pointers
  <1>7. p = AtNothing => Scrolled(p) = AtNothing
    BY DEF Scrolled, AtNothing
  <1> QED
    BY <1>2, <1>3, <1>5, <1>6, <1>7

(* What an attempt of a poll does to the document. *)
LEMMA AttemptedTyped ==
  ASSUME NEW t \in Controls, dom \in Document, dom.marked \subseteq dom.present
  PROVE  /\ Attempted(t) \in Document /\ Attempted(t).marked \subseteq Attempted(t).present
         /\ Attempted(t).present = dom.present /\ Attempted(t).active = dom.active
         /\ Attempted(t).marked = dom.marked \cup ({t} \cap dom.present)
  BY DEF Attempted, Document

(* What a step of the tour may set the service to. *)
LEMMA SetTyped ==
  ASSUME TourTypeOK, NEW t \in Tour, t.step \in t.steps \cup {0}, Set(t)
  PROVE  tour' \in Tour /\ tour'.step \in tour'.steps \cup {0} /\ effect' \in BOOLEAN
  BY DEF TourTypeOK, Set

LEMMA NoTourTyped ==
  ASSUME TourAssumption
  PROVE  NoTour \in Tour /\ NoTour.step \in NoTour.steps \cup {0}
  BY DEF NoTour, Tour, TourAssumption

(* The parts of the type are kept by each action. *)
LEMMA TourTypeStep ==
  ASSUME TourAssumption, TourTypeOK, [TourNext]_tourVars
  PROVE  TourTypeOK'
  <1>0. /\ tour \in Tour /\ tour.step \in tour.steps \cup {0} /\ effect \in BOOLEAN
        /\ pointer \in Pointers /\ left \in [1..MaxLeft -> Pointers]
        /\ dom \in Document /\ dom.marked \subseteq dom.present
        /\ (route.at \in Outside => dom.present = {})
        /\ route \in [at : Screens, to : SUBSET Screens]
    BY DEF TourTypeOK, Tour, Document, LayoutUp
  <1>k. ASSUME tour' \in Tour, tour'.step \in tour'.steps \cup {0}, effect' \in BOOLEAN,
               pointer' \in Pointers, left' \in [1..MaxLeft -> Pointers],
               dom' \in Document, dom'.marked \subseteq dom'.present,
               route'.at \in Outside => dom'.present = {},
               route' \in [at : Screens, to : SUBSET Screens]
        PROVE  TourTypeOK'
    BY <1>k DEF TourTypeOK, Tour, Pointers, Document, LayoutUp
  <1>s. ASSUME NEW steps \in SUBSET Controls, StartTour(steps)
        PROVE  TourTypeOK'
    <2> DEFINE t == [isPlaying |-> TRUE, steps |-> steps, step |-> 0, of |-> {route.at}]
    <2>1. t \in Tour /\ t.step \in t.steps \cup {0}
      BY <1>0 DEF Tour, TourAssumption
    <2>2. Set(t) /\ UNCHANGED <<pointer, left, dom, route>>
      BY <1>s DEF StartTour
    <2> QED
      BY <1>0, <1>k, <2>1, <2>2, SetTyped
  <1>e. ASSUME EndTour
        PROVE  tour' \in Tour /\ tour'.step \in tour'.steps \cup {0} /\ effect' \in BOOLEAN
    BY <1>e, NoTourTyped, SetTyped DEF EndTour
  <1>h. ASSUME NEW event, Heard(event)
        PROVE  tour' \in Tour /\ tour'.step \in tour'.steps \cup {0} /\ effect' \in BOOLEAN
    BY <1>0, <1>e, <1>h DEF Heard
  <1>1. CASE StartTour(Composed)
    <2>1. Composed \in SUBSET Controls
      BY <1>0 DEF Composed, Document, TourAssumption
    <2> QED
      BY <1>1, <1>s, <2>1
  <1>2. CASE \E steps \in SUBSET Controls : StartTour(steps)
    BY <1>2, <1>s
  <1>3. CASE NextStep
    <2>1. CASE Later = {}
      BY <1>0, <1>3, <1>e, <1>k, <2>1 DEF NextStep
    <2>2. CASE Later # {}
      <3>1. PICK t \in Later : Set([tour EXCEPT !.step = t])
        BY <1>3, <2>2 DEF NextStep
      <3>2. t \in tour.steps /\ t \in 0..Last
        BY <1>0 DEF Later, Tour, Controls, TourAssumption
      <3>3. /\ [tour EXCEPT !.step = t] \in Tour
            /\ [tour EXCEPT !.step = t].step \in [tour EXCEPT !.step = t].steps \cup {0}
        BY <1>0, <3>2 DEF Tour
      <3> QED
        BY <1>0, <1>3, <1>k, <3>1, <3>3, SetTyped DEF NextStep
    <2> QED
      BY <2>1, <2>2
  <1>4. CASE PreviousStep
    <2>1. PICK t \in Earlier : Set([tour EXCEPT !.step = t])
      BY <1>4 DEF PreviousStep
    <2>2. t \in tour.steps \cup {0} /\ t \in 0..Last
      BY <1>0 DEF Earlier, Tour, Controls, TourAssumption
    <2>3. /\ [tour EXCEPT !.step = t] \in Tour
          /\ [tour EXCEPT !.step = t].step \in [tour EXCEPT !.step = t].steps \cup {0}
      BY <1>0, <2>2 DEF Tour
    <2> QED
      BY <1>0, <1>4, <1>k, <2>1, <2>3, SetTyped DEF PreviousStep
  <1>5. CASE OnExit
    BY <1>0, <1>5, <1>e, <1>k DEF OnExit
  <1>6. CASE EffectRuns
    <2>1. PICK wanted \in 0..Last :
            /\ pointer' = IF {wanted} \cap dom.present = {} THEN NotFound(wanted)
                          ELSE PointsAt(wanted)
            /\ dom' = [present |-> dom.present, marked |-> Cleared \cup ({wanted} \cap dom.present),
                       active |-> tour.isPlaying]
      <3>1. (IF tour.isPlaying THEN tour.step ELSE 0) \in 0..Last
        BY <1>0 DEF Tour, TourAssumption
      <3> QED
        BY <1>6, <3>1 DEF EffectRuns
    <2>2. {wanted} \ {0} \in SUBSET Controls
      BY DEF Controls, TourAssumption
    <2>3. NotFound(wanted) \in Pointers
      BY <2>2, PointersTyped DEF NotFound
    <2>4. {wanted} \cap dom.present # {} => PointsAt(wanted) \in Pointers
      <3>1. {wanted} \cap dom.present # {} => wanted \in Controls
        BY <1>0 DEF Document
      <3> QED
        BY <3>1, PointersTyped
    <2>5. pointer' \in Pointers
      BY <2>1, <2>3, <2>4
    <2>6. dom' \in Document /\ dom'.marked \subseteq dom'.present /\ dom'.present = dom.present
      <3>1. tour.isPlaying \in BOOLEAN
        BY <1>0 DEF Tour
      <3> QED
        BY <1>0, <2>1, <3>1 DEF Document, Cleared
    <2> QED
      BY <1>0, <1>6, <1>k, <2>5, <2>6 DEF EffectRuns
  <1>7. CASE Polls
    <2>1. PICK t \in Controls : PollFires(t)
      BY <1>7 DEF Polls
    <2>2. /\ pointer' \in Pointers /\ dom' \in Document /\ dom'.marked \subseteq dom'.present
          /\ dom'.present = dom.present
      BY <1>0, <2>1, RunsByItself, AttemptedTyped DEF PollFires
    <2> QED
      BY <1>0, <1>k, <2>1, <2>2 DEF PollFires
  <1>8. CASE ViewportChanges
    <2>1. pointer' \in Pointers
      BY <1>0, <1>8, RunsByItself DEF ViewportChanges
    <2>2. \A i \in 1..MaxLeft : Scrolled(left[i]) \in Pointers
      BY <1>0, RunsByItself
    <2>3. left' \in [1..MaxLeft -> Pointers]
      BY <1>8, <2>2 DEF ViewportChanges
    <2> QED
      BY <1>0, <1>8, <1>k, <2>1, <2>3 DEF ViewportChanges
  <1>9. CASE FrameFires
    <2>1. pointer' \in Pointers
      BY <1>0, <1>9, RunsByItself DEF FrameFires
    <2> QED
      BY <1>0, <1>9, <1>k, <2>1 DEF FrameFires
  <1>10. CASE LeftActs
    <2>1. PICK i \in 1..MaxLeft : LeftFrameFires(i) \/ \E t \in Controls : LeftPollFires(i, t)
      BY <1>10 DEF LeftActs
    <2>2. left[i] \in Pointers
      BY <1>0
    <2>3. CASE LeftFrameFires(i)
      <3>1. Framed(left[i]) \in Pointers
        BY <2>2, RunsByItself
      <3>2. left' \in [1..MaxLeft -> Pointers]
        BY <1>0, <2>3, <3>1 DEF LeftFrameFires
      <3> QED
        BY <1>0, <1>k, <2>3, <3>2 DEF LeftFrameFires
    <2>4. ASSUME NEW t \in Controls, LeftPollFires(i, t)
          PROVE  TourTypeOK'
      <3>1. Polled(left[i], t) \in Pointers
        BY <2>2, RunsByItself
      <3>2. left' \in [1..MaxLeft -> Pointers]
        BY <1>0, <2>4, <3>1 DEF LeftPollFires
      <3>3. /\ dom' \in Document /\ dom'.marked \subseteq dom'.present
            /\ dom'.present = dom.present
        BY <1>0, <2>4, AttemptedTyped DEF LeftPollFires
      <3> QED
        BY <1>0, <1>k, <2>4, <3>2, <3>3 DEF LeftPollFires
    <2> QED
      BY <2>1, <2>3, <2>4
  <1>11. CASE \E t \in Controls : Renders(t) \/ Drops(t)
    <2>1. /\ dom' \in Document /\ dom'.marked \subseteq dom'.present
          /\ (route.at \in Outside => dom'.present = {})
      <3>1. PICK t \in Controls : Renders(t) \/ Drops(t)
        BY <1>11
      <3>2. CASE Renders(t)
        BY <1>0, <3>2 DEF Renders, Document, LayoutUp
      <3>3. CASE Drops(t)
        BY <1>0, <3>3 DEF Drops, Document
      <3> QED
        BY <3>1, <3>2, <3>3
    <2>2. UNCHANGED <<tour, effect, pointer, left, route>>
      BY <1>11 DEF Renders, Drops
    <2> QED
      BY <1>0, <1>k, <2>1, <2>2
  <1>12. CASE Routed
    <2>1. PICK s \in Screens : \/ Navigate(s) \/ Arrived(s) \/ LayoutDestroyed(s)
                               \/ LayoutCreated(s) \/ ArrivedOutside(s)
      BY <1>12 DEF Routed
    <2>2. route' \in [at : Screens, to : SUBSET Screens]
      BY <1>0, <2>1 DEF Navigate, Arrived, LayoutDestroyed, LayoutCreated, ArrivedOutside,
         Arrives
    <2>3. CASE Navigate(s)
      <3>1. route'.at = route.at
        BY <1>0, <2>3 DEF Navigate
      <3>2. tour' \in Tour /\ tour'.step \in tour'.steps \cup {0} /\ effect' \in BOOLEAN
        BY <1>h, <2>3 DEF Navigate
      <3> QED
        BY <1>0, <1>k, <2>2, <2>3, <3>1, <3>2 DEF Navigate
    <2>4. CASE Arrived(s)
      <3>1. dom' \in Document /\ dom'.marked \subseteq dom'.present
        <4>1. CASE s = route.at
          BY <1>0, <2>4, <4>1 DEF Arrived
        <4>2. CASE s # route.at
          BY <1>0, <2>4, <4>2 DEF Arrived, Document, TourAssumption
        <4> QED
          BY <4>1, <4>2
      <3>2. route'.at \notin Outside /\ UNCHANGED <<pointer, left>>
        BY <2>4 DEF Arrived, Arrives
      <3>3. tour' \in Tour /\ tour'.step \in tour'.steps \cup {0} /\ effect' \in BOOLEAN
        BY <1>h, <2>4 DEF Arrived
      <3> QED
        BY <1>0, <1>k, <2>2, <3>1, <3>2, <3>3
    <2>5. CASE LayoutDestroyed(s)
      <3>1. left' \in [1..MaxLeft -> Pointers]
        BY <1>0, <2>5 DEF LayoutDestroyed
      <3>2. dom' \in Document /\ dom'.marked \subseteq dom'.present /\ dom'.present = {}
        BY <1>0, <2>5 DEF LayoutDestroyed, Document
      <3>3. AtNothing \in Pointers
        BY PointersTyped
      <3> QED
        BY <1>0, <1>k, <2>2, <2>5, <3>1, <3>2, <3>3 DEF LayoutDestroyed
    <2>6. CASE LayoutCreated(s)
      <3>1. dom' \in Document
        BY <1>0, <2>6 DEF LayoutCreated, Document, TourAssumption
      <3>2. dom'.marked \subseteq dom'.present
        BY <1>0, <2>6 DEF LayoutCreated, LayoutUp, Document
      <3>3. tour' \in Tour /\ tour'.step \in tour'.steps \cup {0}
        BY <1>0, <2>6, NoTourTyped DEF LayoutCreated, EndsTour
      <3>4. route'.at \notin Outside
        BY <2>6 DEF LayoutCreated, Arrives
      <3> QED
        BY <1>0, <1>k, <2>2, <2>6, <3>1, <3>2, <3>3, <3>4 DEF LayoutCreated
    <2>7. CASE ArrivedOutside(s)
      <3>1. route.at \in Outside /\ UNCHANGED <<tour, effect, pointer, left, dom>>
        BY <2>7 DEF ArrivedOutside, LayoutUp
      <3> QED
        BY <1>0, <1>k, <2>2, <3>1
    <2> QED
      BY <2>1, <2>3, <2>4, <2>5, <2>6, <2>7
  <1>13. CASE NavigationFails
    <2>1. route' \in [at : Screens, to : SUBSET Screens] /\ route'.at = route.at
      BY <1>0, <1>13 DEF NavigationFails
    <2> QED
      BY <1>0, <1>13, <1>k, <2>1 DEF NavigationFails
  <1>14. CASE UNCHANGED tourVars
    BY <1>14 DEF tourVars, TourTypeOK, LayoutUp
  <1> QED
    BY <1>1, <1>2, <1>3, <1>4, <1>5, <1>6, <1>7, <1>8, <1>9, <1>10, <1>11, <1>12, <1>13,
       <1>14 DEF TourNext

LEMMA TourTypeInit ==
  ASSUME TourAssumption, TourInit
  PROVE  TourTypeOK
  <1>1. tour \in Tour /\ tour.step \in tour.steps \cup {0} /\ pointer \in Pointers
    BY NoTourTyped, PointersTyped DEF TourInit
  <1>2. left \in [1..MaxLeft -> Pointers]
    BY PointersTyped DEF TourInit
  <1>3. route \in [at : Screens, to : SUBSET Screens]
    BY DEF TourInit
  <1>4. dom \in Document /\ dom.marked \subseteq dom.present /\ (~LayoutUp => dom.present = {})
    BY DEF TourInit, Document, TourAssumption
  <1> QED
    BY <1>1, <1>2, <1>3, <1>4 DEF TourInit, TourTypeOK, Tour, Document

-----------------------------------------------------------------------------
(* The tour keeps to its step: the property is inductive on the types. *)

(* What the destroyed instances point at, when one of them changes. *)
LEMMA LeftOne ==
  ASSUME NEW i \in 1..MaxLeft, NEW p \in Pointers, left \in [1..MaxLeft -> Pointers],
         left' = [left EXCEPT ![i] = p]
  PROVE  /\ p.target \subseteq LeftTargets'
         /\ left[i].target \subseteq p.target => LeftTargets \subseteq LeftTargets'
  <1>1. left'[i] = p /\ \A j \in 1..MaxLeft : j # i => left'[j] = left[j]
    OBVIOUS
  <1>2. p.target \subseteq LeftTargets'
    BY <1>1 DEF LeftTargets
  <1>3. ASSUME left[i].target \subseteq p.target, NEW t \in LeftTargets
        PROVE  t \in LeftTargets'
    <2>1. PICK j \in 1..MaxLeft : t \in left[j].target
      BY DEF LeftTargets
    <2>2. t \in left'[j].target
      BY <1>1, <1>3, <2>1
    <2> QED
      BY <2>2 DEF LeftTargets
  <1> QED
    BY <1>2, <1>3

LEMMA TourKeepsStep ==
  ASSUME TourAssumption, TourTypeOK, TourKeepsToItsStep, [TourNext]_tourVars
  PROVE  TourKeepsToItsStep'
  <1>0. /\ tour \in Tour /\ pointer \in Pointers /\ dom \in Document /\ effect \in BOOLEAN
        /\ left \in [1..MaxLeft -> Pointers] /\ dom.marked \subseteq dom.present
        /\ (~LayoutUp => dom.present = {})
        /\ route \in [at : Screens, to : SUBSET Screens]
    BY DEF TourTypeOK, Tour, Document
  <1>1. /\ dom.marked \subseteq pointer.target \cup LeftTargets
        /\ pointer.target = {} \/ pointer.lookup = {}
        /\ \A i \in 1..MaxLeft : left[i].target = {} \/ left[i].lookup = {}
        /\ LayoutUp /\ ~effect =>
             /\ pointer.target \cup pointer.lookup \subseteq {tour.step}
             /\ dom.active = tour.isPlaying
             /\ ~tour.isPlaying => pointer = AtNothing
        /\ LayoutUp /\ tour.isPlaying => tour.of = {route.at}
        /\ ~LayoutUp => pointer = AtNothing
    BY DEF TourKeepsToItsStep
  <1>n. AtNothing.target = {} /\ AtNothing.lookup = {} /\ NoTour.isPlaying = FALSE
    BY DEF AtNothing, NoTour
  \* A step of the service: what is on screen stays, and the effect is asked for.
  <1>s. ASSUME NEW t, Set(t), UNCHANGED <<pointer, left>>, dom'.marked \subseteq dom.marked,
               dom'.active = dom.active, LayoutUp, LayoutUp',
               t.isPlaying => t.of = {route'.at}
        PROVE  TourKeepsToItsStep'
    <2>1. tour' = t
      BY <1>s DEF Set
    <2>2. ~effect' => ~effect /\ t.isPlaying = tour.isPlaying /\ t.step = tour.step
      BY <1>s DEF Set
    <2>3. LeftTargets' = LeftTargets
      BY <1>s DEF LeftTargets
    <2> QED
      BY <1>1, <1>s, <2>1, <2>2, <2>3 DEF TourKeepsToItsStep
  \* The document, the frames or what was left change; the layout does not.
  <1>u. ASSUME UNCHANGED <<tour, effect>>, dom'.active = dom.active,
               dom'.marked \subseteq pointer'.target \cup LeftTargets',
               route'.at = route.at, pointer'.target = pointer.target,
               pointer'.lookup \subseteq pointer.lookup,
               pointer = AtNothing => pointer' = AtNothing,
               \A i \in 1..MaxLeft : left'[i].target = {} \/ left'[i].lookup = {}
        PROVE  TourKeepsToItsStep'
    <2>1. LayoutUp' = LayoutUp
      BY <1>u DEF LayoutUp
    <2> QED
      BY <1>1, <1>u, <2>1 DEF TourKeepsToItsStep
  <1>l. UNCHANGED left => LeftTargets' = LeftTargets
    BY DEF LeftTargets
  <1>2. ASSUME NEW steps, StartTour(steps)
        PROVE  TourKeepsToItsStep'
    <2> DEFINE t == [isPlaying |-> TRUE, steps |-> steps, step |-> 0, of |-> {route.at}]
    <2>1. Set(t) /\ UNCHANGED <<pointer, left, dom, route>> /\ LayoutUp
      BY <1>2 DEF StartTour
    <2>2. t.of = {route.at}
      OBVIOUS
    <2>3. LayoutUp'
      BY <2>1 DEF LayoutUp
    <2> HIDE DEF t
    <2> QED
      BY <1>s, <2>1, <2>2, <2>3
  <1>3. CASE NextStep
    <2>1. UNCHANGED <<pointer, left, dom, route>> /\ tour.isPlaying /\ LayoutUp
      BY <1>3 DEF NextStep
    <2>l. LayoutUp'
      BY <2>1 DEF LayoutUp
    <2>2. CASE EndTour
      BY <1>n, <1>s, <2>1, <2>l, <2>2 DEF EndTour
    <2>3. ASSUME NEW t \in Later, Set([tour EXCEPT !.step = t])
          PROVE  TourKeepsToItsStep'
      <3>1. [tour EXCEPT !.step = t].of = {route.at}
        BY <1>0, <1>1, <2>1 DEF Tour
      <3> QED
        BY <1>s, <2>1, <2>l, <2>3, <3>1
    <2> QED
      BY <1>3, <2>2, <2>3 DEF NextStep
  <1>4. CASE PreviousStep
    <2>1. PICK t \in Earlier : Set([tour EXCEPT !.step = t])
      BY <1>4 DEF PreviousStep
    <2>2. UNCHANGED <<pointer, left, dom, route>> /\ tour.isPlaying /\ LayoutUp
      BY <1>4 DEF PreviousStep
    <2>3. [tour EXCEPT !.step = t].of = {route.at}
      BY <1>0, <1>1, <2>2 DEF Tour
    <2>l. LayoutUp'
      BY <2>2 DEF LayoutUp
    <2> QED
      BY <1>s, <2>1, <2>2, <2>3, <2>l
  <1>5. CASE OnExit
    <2>1. UNCHANGED <<pointer, left, dom, route>> /\ LayoutUp /\ LayoutUp'
      BY <1>5 DEF OnExit, LayoutUp
    <2> QED
      BY <1>5, <1>n, <1>s, <2>1 DEF OnExit, EndTour
  <1>6. CASE EffectRuns
    <2>1. PICK wanted : wanted = IF tour.isPlaying THEN tour.step ELSE 0
      OBVIOUS
    <2>2. /\ pointer' = IF {wanted} \cap dom.present = {} THEN NotFound(wanted)
                        ELSE PointsAt(wanted)
          /\ dom' = [present |-> dom.present, marked |-> Cleared \cup ({wanted} \cap dom.present),
                     active |-> tour.isPlaying]
          /\ UNCHANGED <<tour, left, route>> /\ ~effect' /\ LayoutUp
      BY <1>6, <2>1 DEF EffectRuns
    <2>3. Cleared \subseteq LeftTargets /\ LeftTargets' = LeftTargets /\ LayoutUp'
      BY <1>1, <1>l, <2>2 DEF Cleared, LayoutUp
    <2>4. CASE {wanted} \cap dom.present # {}
      <3>1. wanted # 0
        BY <1>0, <2>4 DEF Document, Controls, TourAssumption
      <3>2. tour.isPlaying /\ wanted = tour.step
        BY <2>1, <3>1
      <3>3. pointer'.target = {wanted} /\ pointer'.lookup = {}
        BY <2>2, <2>4 DEF PointsAt, AtNothing
      <3> QED
        BY <1>1, <2>2, <2>3, <3>2, <3>3 DEF TourKeepsToItsStep
    <2>5. CASE {wanted} \cap dom.present = {}
      <3>1. pointer'.target = {} /\ pointer'.lookup = {wanted} \ {0}
        BY <2>2, <2>5 DEF NotFound, AtNothing
      <3>2. dom'.marked \subseteq LeftTargets
        BY <2>2, <2>3, <2>5
      <3>3. {wanted} \ {0} \subseteq {tour.step}
        BY <2>1
      <3>4. ~tour.isPlaying => pointer' = AtNothing
        <4>1. ~tour.isPlaying => {wanted} \ {0} = {}
          BY <2>1
        <4>2. [AtNothing EXCEPT !.lookup = {}] = AtNothing
          BY PointersTyped
        <4> QED
          BY <2>2, <2>5, <4>1, <4>2 DEF NotFound
      <3> QED
        BY <1>1, <2>2, <2>3, <3>1, <3>2, <3>3, <3>4 DEF TourKeepsToItsStep
    <2> QED
      BY <2>4, <2>5
  <1>7. CASE Polls
    <2>1. PICK t \in Controls : PollFires(t)
      BY <1>7 DEF Polls
    <2>2. /\ t \in pointer.lookup /\ pointer.target = {} /\ pointer # AtNothing /\ LayoutUp
          /\ pointer' = Polled(pointer, t) /\ UNCHANGED <<tour, effect, left, route>>
          /\ dom'.active = dom.active
          /\ dom'.marked = dom.marked \cup ({t} \cap dom.present)
      BY <1>0, <1>1, <1>n, <2>1, AttemptedTyped DEF PollFires
    <2>3. ~effect => tour.isPlaying /\ t = tour.step
      BY <1>1, <2>2
    <2>4. LayoutUp' /\ LeftTargets' = LeftTargets
      BY <1>l, <2>2 DEF LayoutUp
    <2>5. CASE t \in dom.present
      <3>1. pointer'.target = {t} /\ pointer'.lookup = {}
        BY <1>0, <2>2, <2>5, RunsByItself
      <3> QED
        BY <1>1, <2>2, <2>3, <2>4, <3>1 DEF TourKeepsToItsStep
    <2>6. CASE t \notin dom.present
      <3>1. pointer'.target = {} /\ pointer'.lookup \subseteq pointer.lookup
        BY <1>0, <2>2, <2>6, RunsByItself
      <3>2. dom'.marked = dom.marked
        BY <2>2, <2>6
      <3> QED
        BY <1>1, <2>2, <2>3, <2>4, <3>1, <3>2 DEF TourKeepsToItsStep
    <2> QED
      BY <2>5, <2>6
  <1>8. CASE ViewportChanges
    <2>1. /\ pointer'.target = pointer.target /\ pointer'.lookup = pointer.lookup
          /\ (pointer = AtNothing => pointer' = AtNothing)
          /\ UNCHANGED <<tour, effect, dom, route>>
      BY <1>0, <1>8, RunsByItself DEF ViewportChanges
    <2>2. \A i \in 1..MaxLeft : /\ left'[i].target = left[i].target
                                 /\ left'[i].lookup = left[i].lookup
      BY <1>0, <1>8, RunsByItself DEF ViewportChanges
    <2>3. LeftTargets' = LeftTargets
      BY <2>2 DEF LeftTargets
    <2> QED
      BY <1>1, <1>u, <2>1, <2>2, <2>3
  <1>9. CASE FrameFires
    <2>1. /\ pointer'.target = pointer.target /\ pointer'.lookup = pointer.lookup
          /\ UNCHANGED <<tour, effect, left, dom, route>>
      BY <1>0, <1>9, RunsByItself DEF FrameFires
    <2>2. pointer # AtNothing
      BY <1>9 DEF FrameFires, AtNothing
    <2> QED
      BY <1>1, <1>l, <1>u, <2>1, <2>2
  <1>10. CASE LeftActs
    <2>1. PICK i \in 1..MaxLeft : LeftFrameFires(i) \/ \E t \in Controls : LeftPollFires(i, t)
      BY <1>10 DEF LeftActs
    <2>2. left[i] \in Pointers
      BY <1>0
    <2>3. CASE LeftFrameFires(i)
      <3>1. PICK p \in Pointers : /\ p = Framed(left[i]) /\ p.target = left[i].target
                                  /\ p.lookup = left[i].lookup
        BY <2>2, RunsByItself
      <3>2. left' = [left EXCEPT ![i] = p] /\ UNCHANGED <<tour, effect, pointer, dom, route>>
        BY <2>3, <3>1 DEF LeftFrameFires
      <3>3. LeftTargets \subseteq LeftTargets'
        BY <1>0, <3>1, <3>2, LeftOne
      <3>4. \A j \in 1..MaxLeft : left'[j].target = {} \/ left'[j].lookup = {}
        BY <1>0, <1>1, <3>1, <3>2
      <3> QED
        BY <1>1, <1>u, <3>2, <3>3, <3>4
    <2>4. ASSUME NEW t \in Controls, LeftPollFires(i, t)
          PROVE  TourKeepsToItsStep'
      <3>1. PICK p \in Pointers :
              /\ p = Polled(left[i], t)
              /\ t \in dom.present => p.target = {t} /\ p.lookup = {}
              /\ t \notin dom.present => /\ p.target = left[i].target
                                        /\ p.lookup \subseteq left[i].lookup
        BY <2>2, RunsByItself
      <3>2. left' = [left EXCEPT ![i] = p] /\ UNCHANGED <<tour, effect, pointer, route>>
        BY <2>4, <3>1 DEF LeftPollFires
      <3>3. /\ dom'.active = dom.active
            /\ dom'.marked = dom.marked \cup ({t} \cap dom.present)
        BY <1>0, <2>4, AttemptedTyped DEF LeftPollFires
      <3>4. p.target \subseteq LeftTargets'
        BY <1>0, <3>2, LeftOne
      <3>5. LeftTargets \subseteq LeftTargets'
        <4>1. left[i].target \subseteq p.target
          BY <1>1, <2>4, <3>1 DEF LeftPollFires
        <4> QED
          BY <1>0, <3>2, <4>1, LeftOne
      <3>6. dom'.marked \subseteq pointer'.target \cup LeftTargets'
        BY <1>1, <3>1, <3>2, <3>3, <3>4, <3>5
      <3>7. \A j \in 1..MaxLeft : left'[j].target = {} \/ left'[j].lookup = {}
        BY <1>0, <1>1, <3>1, <3>2
      <3> QED
        BY <1>u, <3>2, <3>3, <3>6, <3>7
    <2> QED
      BY <2>1, <2>3, <2>4
  <1>11. CASE \E t \in Controls : Renders(t) \/ Drops(t)
    <2>1. /\ dom'.marked \subseteq dom.marked /\ dom'.active = dom.active
          /\ UNCHANGED <<tour, effect, pointer, left, route>>
      BY <1>0, <1>11 DEF Renders, Drops, Document
    <2> QED
      BY <1>1, <1>l, <1>u, <2>1
  <1>12. CASE Routed
    <2>1. PICK s \in Screens : \/ Navigate(s) \/ Arrived(s) \/ LayoutDestroyed(s)
                               \/ LayoutCreated(s) \/ ArrivedOutside(s)
      BY <1>12 DEF Routed
    <2>2. CASE Navigate(s)
      <3>1. UNCHANGED <<tour, effect, pointer, left, dom>> /\ route'.at = route.at
        BY <1>0, <2>2 DEF Navigate, Heard, EndsTour
      <3> QED
        BY <1>1, <1>l, <1>u, <3>1
    <2>3. CASE Arrived(s)
      <3>1. EndTour /\ UNCHANGED <<pointer, left>> /\ LayoutUp /\ LayoutUp'
        BY <2>3 DEF Arrived, Arrives, Heard, EndsTour, LayoutUp
      <3>2. dom'.marked \subseteq dom.marked /\ dom'.active = dom.active
        <4>1. CASE s = route.at
          BY <2>3, <4>1 DEF Arrived
        <4>2. CASE s # route.at
          BY <1>0, <2>3, <4>2 DEF Arrived, Document
        <4> QED
          BY <4>1, <4>2
      <3> QED
        BY <1>n, <1>s, <3>1, <3>2 DEF EndTour
    <2>4. CASE LayoutDestroyed(s)
      <3>1. /\ pointer' = AtNothing /\ dom'.marked = {} /\ UNCHANGED tour
            /\ UNCHANGED left \/ \E i \in 1..MaxLeft : left' = [left EXCEPT ![i] = pointer]
        BY <1>0, <2>4 DEF LayoutDestroyed, Document
      <3>2. ~LayoutUp'
        BY <2>4 DEF LayoutDestroyed, Arrives, LayoutUp
      <3>3. \A j \in 1..MaxLeft : left'[j].target = {} \/ left'[j].lookup = {}
        BY <1>0, <1>1, <3>1
      <3> QED
        BY <1>n, <3>1, <3>2, <3>3 DEF TourKeepsToItsStep
    <2>5. CASE LayoutCreated(s)
      <3>1. /\ tour' = NoTour /\ effect' = TRUE /\ UNCHANGED <<pointer, left>> /\ ~LayoutUp
            /\ dom'.marked = dom.marked
        BY <1>0, <2>5 DEF LayoutCreated, EndsTour, Document
      <3>2. LayoutUp'
        BY <2>5 DEF LayoutCreated, Arrives, LayoutUp
      <3>3. LeftTargets' = LeftTargets
        BY <1>l, <3>1
      <3> QED
        BY <1>1, <1>n, <3>1, <3>2, <3>3 DEF TourKeepsToItsStep
    <2>6. CASE ArrivedOutside(s)
      <3>1. UNCHANGED <<tour, effect, pointer, left, dom>> /\ ~LayoutUp /\ ~LayoutUp'
        BY <2>6 DEF ArrivedOutside, Arrives, LayoutUp
      <3>2. LeftTargets' = LeftTargets
        BY <1>l, <3>1
      <3> QED
        BY <1>1, <3>1, <3>2 DEF TourKeepsToItsStep
    <2> QED
      BY <2>1, <2>2, <2>3, <2>4, <2>5, <2>6
  <1>13. CASE NavigationFails
    <2>1. UNCHANGED <<tour, effect, pointer, left, dom>> /\ route'.at = route.at
      BY <1>0, <1>13 DEF NavigationFails
    <2> QED
      BY <1>1, <1>l, <1>u, <2>1
  <1>14. CASE UNCHANGED tourVars
    <2>1. UNCHANGED <<tour, effect, pointer, left, dom, route>>
      BY <1>14 DEF tourVars
    <2> QED
      BY <1>1, <1>l, <1>u, <2>1
  <1> QED
    BY <1>2, <1>3, <1>4, <1>5, <1>6, <1>7, <1>8, <1>9, <1>10, <1>11, <1>12, <1>13,
       <1>14 DEF TourNext

(* In a layout that is on screen, what the tour does to the page is about the card on   *)
(* screen, however the poll, the effect, the router and the view interleave and however *)
(* often a sign-out destroyed a layout before; a tour that ended in it leaves nothing   *)
(* of its own behind.  It does not say that a sign-out leaves nothing: what it leaves   *)
(* is `left`, which goes on acting.                                                     *)
THEOREM TourIsOfItsStep ==
  ASSUME TourAssumption
  PROVE  TourInit /\ [][TourNext]_tourVars => []TourKeepsToItsStep
  <1>1. TourInit => TourTypeOK /\ TourKeepsToItsStep
    <2>1. ASSUME TourInit
          PROVE  TourKeepsToItsStep
      <3>1. AtNothing.target = {} /\ AtNothing.lookup = {} /\ NoTour.isPlaying = FALSE
        BY DEF AtNothing, NoTour
      <3>2. \A i \in 1..MaxLeft : left[i] = AtNothing
        BY <2>1 DEF TourInit
      <3>3. dom.marked = {} /\ dom.active = FALSE /\ pointer = AtNothing /\ tour = NoTour
        BY <2>1 DEF TourInit
      <3> QED
        BY <3>1, <3>2, <3>3 DEF TourKeepsToItsStep
    <2> QED
      BY <2>1, TourTypeInit
  <1>2. TourTypeOK /\ TourKeepsToItsStep /\ [TourNext]_tourVars
          => TourTypeOK' /\ TourKeepsToItsStep'
    BY TourTypeStep, TourKeepsStep
  <1> QED
    BY <1>1, <1>2, PTL

-----------------------------------------------------------------------------
(* The client picker *)

PickerState == [text : Queries \cup Clients, due : Maybe(Queries), last : Maybe(Queries),
                options : Maybe(Queries), showDropdown : BOOLEAN, isLoading : BOOLEAN,
                ended : BOOLEAN]

\* A search under way is for the last text that passed, and the box spins.
SearchIsLast == searching # {} => searching = picker.last /\ picker.isLoading

PickerInv == PickerTypeOK /\ SearchIsLast /\ OffersAnswerTheSearch

LEMMA PickerInvInit ==
  ASSUME PickerAssumption, PickerInit
  PROVE  PickerInv
  <1>1. picker \in PickerState
    BY DEF PickerInit, PickerState, Maybe, PickerAssumption
  <1>2. searching \in Maybe(Queries \ {Blank}) /\ chosen \in Maybe(Clients) /\ named \in BOOLEAN
    BY DEF PickerInit, Maybe
  <1>3. naming \in [Clients -> 0..MaxNames]
    BY DEF PickerInit, PickerAssumption
  <1>4. SearchIsLast /\ OffersAnswerTheSearch
    BY DEF PickerInit, SearchIsLast, OffersAnswerTheSearch
  <1> QED
    BY <1>1, <1>2, <1>3, <1>4 DEF PickerInv, PickerTypeOK, PickerState

LEMMA NamingTyped ==
  ASSUME PickerAssumption, PickerTypeOK, NEW c \in Clients, naming[c] < MaxNames, ReadName(c)
  PROVE  naming' \in [Clients -> 0..MaxNames]
  <1>1. naming[c] + 1 \in 0..MaxNames
    BY DEF PickerTypeOK, PickerAssumption
  <1> QED
    BY <1>1 DEF PickerTypeOK, ReadName

LEMMA PickerInvStep ==
  ASSUME PickerAssumption, PickerInv, [PickerNext]_pickerVars
  PROVE  PickerInv'
  <1>0. /\ picker \in PickerState /\ searching \in Maybe(Queries \ {Blank})
        /\ chosen \in Maybe(Clients) /\ naming \in [Clients -> 0..MaxNames] /\ named \in BOOLEAN
        /\ SearchIsLast /\ OffersAnswerTheSearch
    BY DEF PickerInv, PickerTypeOK, PickerState
  <1>t. ASSUME picker' \in PickerState, searching' \in Maybe(Queries \ {Blank}),
               chosen' \in Maybe(Clients), naming' \in [Clients -> 0..MaxNames],
               named' \in BOOLEAN, SearchIsLast', OffersAnswerTheSearch'
        PROVE  PickerInv'
    BY <1>t DEF PickerInv, PickerTypeOK, PickerState
  \* What the stream and the list of offers do not notice.
  <1>u. ASSUME picker' \in PickerState, UNCHANGED searching,
               UNCHANGED <<picker.last, picker.isLoading, picker.options, picker.ended>>,
               picker'.showDropdown => picker.showDropdown
        PROVE  SearchIsLast' /\ OffersAnswerTheSearch'
    BY <1>0, <1>u DEF SearchIsLast, OffersAnswerTheSearch
  <1>1. ASSUME NEW q \in Queries, TypeText(q)
        PROVE  PickerInv'
    <2>1. /\ picker' = [picker EXCEPT !.text = q, !.due = IF picker.ended THEN {} ELSE {q}]
          /\ UNCHANGED <<searching, chosen, naming>> /\ named' = FALSE
      BY <1>1 DEF TypeText
    <2>2. /\ picker' \in PickerState
          /\ UNCHANGED <<picker.last, picker.isLoading, picker.options, picker.ended,
                         picker.showDropdown>>
      BY <1>0, <2>1 DEF PickerState, Maybe
    <2> QED
      BY <1>0, <1>t, <1>u, <2>1, <2>2
  <1>2. ASSUME NEW q \in Queries, SearchDue(q)
        PROVE  PickerInv'
    <2>1. UNCHANGED <<chosen, naming, named>>
      BY <1>2 DEF SearchDue
    <2>2. CASE picker.last = {q}
      <3>1. picker' = [picker EXCEPT !.due = {}] /\ UNCHANGED searching
        BY <1>2, <2>2 DEF SearchDue
      <3>2. /\ picker' \in PickerState
            /\ UNCHANGED <<picker.last, picker.isLoading, picker.options, picker.ended,
                           picker.showDropdown>>
        BY <1>0, <3>1 DEF PickerState, Maybe
      <3> QED
        BY <1>0, <1>t, <1>u, <2>1, <3>1, <3>2
    <2>3. CASE picker.last # {q}
      <3>1. /\ picker' = [picker EXCEPT !.due = {}, !.last = {q},
                            !.showDropdown = (q # Blank), !.isLoading = @ \/ q # Blank]
            /\ searching' = {q} \ {Blank}
        BY <1>2, <2>3 DEF SearchDue, SwitchTo
      <3>2. (q # Blank) \in BOOLEAN /\ (picker.isLoading \/ q # Blank) \in BOOLEAN
        OBVIOUS
      <3>3. picker' \in PickerState
        BY <1>0, <3>1, <3>2 DEF PickerState, Maybe
      <3>4. /\ picker'.last = {q} /\ (picker'.showDropdown <=> q # Blank)
            /\ q # Blank => picker'.isLoading
        BY <1>0, <3>1 DEF PickerState
      <3>5. searching' \in Maybe(Queries \ {Blank}) /\ (searching' # {} => q # Blank /\ searching' = {q})
        BY <3>1 DEF Maybe
      <3>6. SearchIsLast' /\ OffersAnswerTheSearch'
        BY <3>4, <3>5 DEF SearchIsLast, OffersAnswerTheSearch
      <3> QED
        BY <1>0, <1>t, <2>1, <3>3, <3>5, <3>6
    <2> QED
      BY <2>2, <2>3
  <1>3. ASSUME NEW q \in Queries, SearchArrives(q)
        PROVE  PickerInv'
    <2>1. /\ picker' = [picker EXCEPT !.options = {q}, !.isLoading = FALSE]
          /\ searching' = searching \ {q} /\ q \in searching /\ UNCHANGED <<chosen, naming, named>>
      BY <1>3 DEF SearchArrives
    <2>2. searching = {q} /\ picker.last = {q}
      BY <1>0, <2>1 DEF Maybe, SearchIsLast
    <2>3. picker' \in PickerState /\ picker'.last = {q} /\ picker'.options = {q}
      BY <1>0, <2>1, <2>2 DEF PickerState, Maybe
    <2>4. searching' = {}
      BY <2>1, <2>2
    <2>5. SearchIsLast' /\ OffersAnswerTheSearch'
      BY <2>3, <2>4 DEF SearchIsLast, OffersAnswerTheSearch
    <2> QED
      BY <1>0, <1>t, <2>1, <2>3, <2>4, <2>5 DEF Maybe
  <1>4. ASSUME NEW q \in Queries, SearchFails(q)
        PROVE  PickerInv'
    <2>1. /\ picker' = [picker EXCEPT !.options = {}, !.due = {}, !.isLoading = FALSE,
                                      !.ended = TRUE]
          /\ searching' = searching \ {q} /\ q \in searching /\ UNCHANGED <<chosen, naming, named>>
      BY <1>4 DEF SearchFails
    <2>2. searching' = {}
      BY <1>0, <2>1 DEF Maybe
    <2>3. picker' \in PickerState /\ picker'.ended
      BY <1>0, <2>1 DEF PickerState, Maybe
    <2>4. SearchIsLast' /\ OffersAnswerTheSearch'
      BY <2>2, <2>3 DEF SearchIsLast, OffersAnswerTheSearch
    <2> QED
      BY <1>0, <1>t, <2>1, <2>2, <2>3, <2>4 DEF Maybe
  <1>5. ASSUME NEW c \in Clients, GivenClient(c)
        PROVE  PickerInv'
    <2>1. /\ UNCHANGED <<picker, searching>> /\ chosen' = {c} /\ named' = FALSE
          /\ naming[c] < MaxNames /\ ReadName(c)
      BY <1>5 DEF GivenClient
    <2>2. naming' \in [Clients -> 0..MaxNames]
      BY <2>1, NamingTyped DEF PickerInv
    <2>3. chosen' \in Maybe(Clients)
      BY <2>1 DEF Maybe
    <2>4. SearchIsLast' /\ OffersAnswerTheSearch'
      BY <1>0, <2>1 DEF SearchIsLast, OffersAnswerTheSearch
    <2> QED
      BY <1>0, <1>t, <2>1, <2>2, <2>3, <2>4
  <1>6. ASSUME NEW c \in Clients, OnSelected(c)
        PROVE  PickerInv'
    <2>1. /\ picker' = [picker EXCEPT !.text = c, !.showDropdown = FALSE] /\ UNCHANGED searching
          /\ chosen' = {c} /\ named' = TRUE /\ naming[c] < MaxNames /\ ReadName(c)
      BY <1>6 DEF OnSelected
    <2>2. naming' \in [Clients -> 0..MaxNames]
      BY <2>1, NamingTyped DEF PickerInv
    <2>3. chosen' \in Maybe(Clients)
      BY <2>1 DEF Maybe
    <2>4. /\ picker' \in PickerState /\ ~picker'.showDropdown
          /\ UNCHANGED <<picker.last, picker.isLoading, picker.options, picker.ended>>
      BY <1>0, <2>1 DEF PickerState
    <2> QED
      BY <1>t, <1>0, <1>u, <2>1, <2>2, <2>3, <2>4
  <1>7. ASSUME NEW c \in Clients, NameArrives(c)
        PROVE  PickerInv'
    <2>1. /\ picker' = [picker EXCEPT !.text = c] /\ naming' = [naming EXCEPT ![c] = @ - 1]
          /\ naming[c] > 0 /\ named' = TRUE /\ UNCHANGED <<searching, chosen>>
      BY <1>7 DEF NameArrives
    <2>2. naming' \in [Clients -> 0..MaxNames]
      <3>1. naming[c] - 1 \in 0..MaxNames
        BY <1>0, <2>1 DEF PickerAssumption
      <3> QED
        BY <1>0, <2>1, <3>1
    <2>3. /\ picker' \in PickerState
          /\ UNCHANGED <<picker.last, picker.isLoading, picker.options, picker.ended,
                         picker.showDropdown>>
      BY <1>0, <2>1 DEF PickerState
    <2> QED
      BY <1>0, <1>t, <1>u, <2>1, <2>2, <2>3
  <1>8. ASSUME NEW c \in Clients, NameFails(c)
        PROVE  PickerInv'
    <2>1. /\ naming' = [naming EXCEPT ![c] = @ - 1] /\ naming[c] > 0
          /\ UNCHANGED <<picker, searching, chosen, named>>
      BY <1>8 DEF NameFails
    <2>2. naming' \in [Clients -> 0..MaxNames]
      <3>1. naming[c] - 1 \in 0..MaxNames
        BY <1>0, <2>1 DEF PickerAssumption
      <3> QED
        BY <1>0, <2>1, <3>1
    <2>3. SearchIsLast' /\ OffersAnswerTheSearch'
      BY <1>0, <2>1 DEF SearchIsLast, OffersAnswerTheSearch
    <2> QED
      BY <1>0, <1>t, <2>1, <2>2, <2>3
  <1>9. CASE UNCHANGED pickerVars
    BY <1>0, <1>9, <1>t DEF pickerVars, SearchIsLast, OffersAnswerTheSearch
  <1> QED
    BY <1>1, <1>2, <1>3, <1>4, <1>5, <1>6, <1>7, <1>8, <1>9 DEF PickerNext

(* Any texts and clients, searches that fail, names that come late: what is on offer is *)
(* what was found for the last text searched for.                                       *)
THEOREM OffersAreOfTheSearch ==
  PickerSpec => []OffersAnswerTheSearch
  <1>1. PickerInit => PickerInv
    BY PickerAssumption, PickerInvInit
  <1>2. PickerInv /\ [PickerNext]_pickerVars => PickerInv'
    BY PickerAssumption, PickerInvStep
  <1>3. PickerInv => OffersAnswerTheSearch
    BY DEF PickerInv
  <1> QED
    BY <1>1, <1>2, <1>3, PTL DEF PickerSpec

\* A name being read is the form's client's, and so is a name in the box.
NamesAreOfTheClient ==
  /\ \A c \in Clients : naming[c] > 0 => chosen = {c}
  /\ named /\ chosen # {} => chosen = {picker.text}

LEMMA NamesStep ==
  ASSUME PickerAssumption, PicksWait, PickerTypeOK, NamesAreOfTheClient, [PickerNext]_pickerVars
  PROVE  NamesAreOfTheClient'
  <1>0. picker \in PickerState /\ naming \in [Clients -> 0..MaxNames] /\ MaxNames \in Nat
    BY DEF PickerTypeOK, PickerState, PickerAssumption
  \* A client is chosen while no name is being read.
  <1>c. ASSUME NEW c \in Clients, ReadName(c), chosen' = {c}, \A d \in Clients : ~(naming[d] > 0),
               named' => picker'.text = c
        PROVE  NamesAreOfTheClient'
    <2>1. \A d \in Clients : d # c => naming'[d] = naming[d]
      BY <1>0, <1>c DEF ReadName
    <2> QED
      BY <1>c, <2>1 DEF NamesAreOfTheClient
  <1>k. ASSUME UNCHANGED <<chosen, naming>>, named' => named /\ picker'.text = picker.text
        PROVE  NamesAreOfTheClient'
    BY <1>k DEF NamesAreOfTheClient
  <1>1. ASSUME NEW q \in Queries, TypeText(q)
        PROVE  NamesAreOfTheClient'
    BY <1>1, <1>k DEF TypeText
  <1>2. ASSUME NEW q \in Queries, SearchDue(q)
        PROVE  NamesAreOfTheClient'
    <2>1. picker'.text = picker.text
      BY <1>0, <1>2 DEF SearchDue, PickerState
    <2> QED
      BY <1>2, <1>k, <2>1 DEF SearchDue
  <1>3. ASSUME NEW q \in Queries, SearchArrives(q) \/ SearchFails(q)
        PROVE  NamesAreOfTheClient'
    <2>1. picker'.text = picker.text
      BY <1>0, <1>3 DEF SearchArrives, SearchFails, PickerState
    <2> QED
      BY <1>3, <1>k, <2>1 DEF SearchArrives, SearchFails
  <1>5. ASSUME NEW c \in Clients, GivenClient(c)
        PROVE  NamesAreOfTheClient'
    <2>1. chosen = {} /\ ReadName(c) /\ chosen' = {c} /\ named' = FALSE
      BY <1>5 DEF GivenClient
    <2>2. \A d \in Clients : ~(naming[d] > 0)
      BY <2>1 DEF NamesAreOfTheClient
    <2> QED
      BY <1>c, <2>1, <2>2
  <1>6. ASSUME NEW c \in Clients, OnSelected(c)
        PROVE  NamesAreOfTheClient'
    <2>1. ReadName(c) /\ chosen' = {c} /\ \A d \in Clients : naming[d] = 0
      BY <1>6 DEF OnSelected
    <2>2. picker'.text = c
      BY <1>0, <1>6 DEF OnSelected, PickerState
    <2>3. \A d \in Clients : ~(naming[d] > 0)
      BY <2>1
    <2> QED
      BY <1>c, <2>1, <2>2, <2>3
  <1>7. ASSUME NEW c \in Clients, NameArrives(c)
        PROVE  NamesAreOfTheClient'
    <2>1. chosen = {c} /\ chosen' = chosen /\ naming' = [naming EXCEPT ![c] = @ - 1]
      BY <1>7 DEF NameArrives, NamesAreOfTheClient
    <2>2. picker'.text = c
      BY <1>0, <1>7 DEF NameArrives, PickerState
    <2>3. \A d \in Clients : naming'[d] > 0 => naming[d] > 0
      BY <1>0, <1>7, <2>1 DEF NameArrives
    <2> QED
      BY <2>1, <2>2, <2>3 DEF NamesAreOfTheClient
  <1>8. ASSUME NEW c \in Clients, NameFails(c)
        PROVE  NamesAreOfTheClient'
    <2>1. /\ naming' = [naming EXCEPT ![c] = @ - 1] /\ naming[c] > 0
          /\ UNCHANGED <<picker, chosen, named>>
      BY <1>8 DEF NameFails
    <2>2. \A d \in Clients : naming'[d] > 0 => naming[d] > 0
      BY <1>0, <2>1
    <2> QED
      BY <2>1, <2>2 DEF NamesAreOfTheClient
  <1>9. CASE UNCHANGED pickerVars
    BY <1>9, <1>k DEF pickerVars
  <1> QED
    BY <1>1, <1>2, <1>3, <1>5, <1>6, <1>7, <1>8, <1>9 DEF PickerNext

(* For a user who does not pick while a name is being read, any number of clients and *)
(* reads: the name in the box is of the client whose id the form sends, unless it was *)
(* typed over.                                                                        *)
THEOREM TheClientIsNamed ==
  ASSUME PicksWait
  PROVE  PickerSpec => []NameIsOfTheClient
  <1>1. PickerInit => PickerInv /\ NamesAreOfTheClient
    <2>1. PickerInit => NamesAreOfTheClient
      BY DEF PickerInit, NamesAreOfTheClient
    <2> QED
      BY <2>1, PickerAssumption, PickerInvInit
  <1>2. PickerInv /\ NamesAreOfTheClient /\ [PickerNext]_pickerVars =>
          PickerInv' /\ NamesAreOfTheClient'
    BY PickerAssumption, PickerInvStep, NamesStep DEF PickerInv
  <1>3. NamesAreOfTheClient => NameIsOfTheClient
    BY DEF NamesAreOfTheClient, NameIsOfTheClient
  <1> QED
    BY <1>1, <1>2, <1>3, PTL DEF PickerSpec

-----------------------------------------------------------------------------
(* The search box of the header *)

BoxState == [text : Wanted, due : Perhaps(Wanted), last : Perhaps(Wanted),
             results : Perhaps(Wanted \ TooShort), showResults : BOOLEAN,
             blurred : BOOLEAN, expanded : BOOLEAN]

\* What is searched for, or was found, is the last text that passed; and under a box
\* whose results are shown that text, or the one that is due, is the one in the box.
BoxIsFollowed ==
  /\ finding \subseteq box.last
  /\ finding = {} => box.results \subseteq box.last
  /\ box.showResults => box.due = {box.text} \/ (box.due = {} /\ box.last = {box.text})

HeaderInv == box \in BoxState /\ finding \in SUBSET (Wanted \ TooShort) /\ BoxIsFollowed

LEMMA HeaderInvInit ==
  ASSUME HeaderAssumption, HeaderInit
  PROVE  HeaderInv
  <1>1. box \in BoxState /\ finding = {}
    BY DEF HeaderInit, BoxState, Perhaps, HeaderAssumption
  <1> QED
    BY <1>1 DEF HeaderInit, HeaderInv, BoxIsFollowed

LEMMA HeaderInvStep ==
  ASSUME HeaderAssumption, HeaderInv, [HeaderNext]_headerVars
  PROVE  HeaderInv'
  <1>0. box \in BoxState /\ finding \in SUBSET (Wanted \ TooShort) /\ BoxIsFollowed
    BY DEF HeaderInv
  <1>1. ASSUME NEW q \in Wanted, OnSearchInput(q)
        PROVE  HeaderInv'
    <2>1. box' = [box EXCEPT !.text = q, !.due = {q}, !.showResults = TRUE] /\ UNCHANGED finding
      BY <1>1 DEF OnSearchInput
    <2>2. /\ box' \in BoxState /\ box'.text = q /\ box'.due = {q}
          /\ UNCHANGED <<box.last, box.results>>
      BY <1>0, <2>1 DEF BoxState, Perhaps
    <2> QED
      BY <1>0, <2>1, <2>2 DEF HeaderInv, BoxIsFollowed
  <1>2. ASSUME NEW q \in Wanted, DueText(q)
        PROVE  HeaderInv'
    <2>1. CASE box.last = {q}
      <3>1. box' = [box EXCEPT !.due = {}] /\ UNCHANGED finding /\ box.due = {q}
        BY <1>2, <2>1 DEF DueText
      <3>2. /\ box' \in BoxState /\ box'.due = {}
            /\ UNCHANGED <<box.text, box.last, box.results, box.showResults>>
        BY <1>0, <3>1 DEF BoxState, Perhaps
      <3>3. box.showResults => box.text = q
        BY <1>0, <3>1 DEF BoxIsFollowed
      <3> QED
        BY <1>0, <2>1, <3>1, <3>2, <3>3 DEF HeaderInv, BoxIsFollowed
    <2>2. CASE box.last # {q}
      <3>1. /\ finding' = {q} \ TooShort /\ box.due = {q}
            /\ box' = [box EXCEPT !.due = {}, !.last = {q},
                         !.results = IF q \in TooShort THEN {} ELSE @]
        BY <1>2, <2>2 DEF DueText, SearchFor
      <3>2. /\ box' \in BoxState /\ box'.due = {} /\ box'.last = {q}
            /\ UNCHANGED <<box.text, box.showResults>>
            /\ q \in TooShort => box'.results = {}
        BY <1>0, <3>1 DEF BoxState, Perhaps
      <3>3. box.showResults => box.text = q
        BY <1>0, <3>1 DEF BoxIsFollowed
      <3>4. finding' \in SUBSET (Wanted \ TooShort) /\ finding' \subseteq {q}
        BY <3>1
      <3>5. finding' = {} => box'.results = {}
        BY <3>1, <3>2
      <3> QED
        BY <3>2, <3>3, <3>4, <3>5 DEF HeaderInv, BoxIsFollowed
    <2> QED
      BY <2>1, <2>2
  <1>3. ASSUME NEW q \in Wanted, Finds(q)
        PROVE  HeaderInv'
    <2>1. q \in finding /\ finding' = finding \ {q} /\ box' = [box EXCEPT !.results = {q}]
      BY <1>3 DEF Finds
    <2>2. q \in box.last /\ q \in Wanted \ TooShort
      BY <1>0, <2>1 DEF BoxIsFollowed
    <2>3. /\ box' \in BoxState /\ box'.results = {q}
          /\ UNCHANGED <<box.text, box.due, box.last, box.showResults>>
      BY <1>0, <2>1, <2>2 DEF BoxState, Perhaps
    <2> QED
      BY <1>0, <2>1, <2>2, <2>3 DEF HeaderInv, BoxIsFollowed
  <1>4. CASE OnSearchBlur \/ Hide
    <2>1. /\ box' \in BoxState /\ UNCHANGED <<finding, box.text, box.due, box.last, box.results>>
          /\ box'.showResults => box.showResults
      BY <1>0, <1>4 DEF OnSearchBlur, Hide, BoxState
    <2> QED
      BY <1>0, <2>1 DEF HeaderInv, BoxIsFollowed
  <1>5. CASE OnResultSelected
    <2>1. NoWords \in Wanted
      BY DEF HeaderAssumption
    <2>2. /\ box' \in BoxState /\ UNCHANGED <<finding, box.due, box.last, box.results>>
          /\ ~box'.showResults
      BY <1>0, <1>5, <2>1 DEF OnResultSelected, BoxState
    <2> QED
      BY <1>0, <2>2 DEF HeaderInv, BoxIsFollowed
  <1>6. CASE ToggleMobileSearch
    <2>1. NoWords \in Wanted
      BY DEF HeaderAssumption
    <2>2. CASE box.expanded
      <3>1. box' = [box EXCEPT !.expanded = FALSE, !.text = NoWords, !.results = {},
                               !.showResults = FALSE] /\ UNCHANGED finding
        BY <1>6, <2>2 DEF ToggleMobileSearch
      <3>2. /\ box' \in BoxState /\ UNCHANGED <<box.due, box.last>>
            /\ ~box'.showResults /\ box'.results = {}
        BY <1>0, <2>1, <3>1 DEF BoxState, Perhaps
      <3> QED
        BY <1>0, <3>1, <3>2 DEF HeaderInv, BoxIsFollowed
    <2>3. CASE ~box.expanded
      <3>1. box' = [box EXCEPT !.expanded = TRUE] /\ UNCHANGED finding
        BY <1>6, <2>3 DEF ToggleMobileSearch
      <3>2. /\ box' \in BoxState
            /\ UNCHANGED <<box.text, box.due, box.last, box.results, box.showResults>>
        BY <1>0, <3>1 DEF BoxState
      <3> QED
        BY <1>0, <3>1, <3>2 DEF HeaderInv, BoxIsFollowed
    <2> QED
      BY <2>2, <2>3
  <1>7. CASE UNCHANGED headerVars
    BY <1>0, <1>7 DEF headerVars, HeaderInv, BoxIsFollowed
  <1> QED
    BY <1>1, <1>2, <1>3, <1>4, <1>5, <1>6, <1>7 DEF HeaderNext

(* Any texts, however they are typed, chosen, blurred and closed: the results on screen *)
(* at rest are of the text in the box.                                                  *)
THEOREM ResultsAreOfTheBox ==
  HeaderSpec => []ResultsAnswerTheBox
  <1>1. HeaderInit => HeaderInv
    BY HeaderAssumption, HeaderInvInit
  <1>2. HeaderInv /\ [HeaderNext]_headerVars => HeaderInv'
    BY HeaderAssumption, HeaderInvStep
  <1>3. HeaderInv => ResultsAnswerTheBox
    <2> SUFFICES ASSUME HeaderInv, box.showResults, box.due = {}, finding = {}
                 PROVE  box.results \subseteq {box.text}
      BY DEF ResultsAnswerTheBox
    <2>1. box.results \subseteq box.last /\ box.last = {box.text}
      BY DEF HeaderInv, BoxIsFollowed
    <2> QED
      BY <2>1
  <1> QED
    BY <1>1, <1>2, <1>3, PTL DEF HeaderSpec
-----------------------------------------------------------------------------
(* The parts together *)

(* A behaviour of the screens is one of every part, of its initial states and steps. *)
LEMMA EachPart ==
  ScreensSpec => /\ QueuesSafe /\ ListSafe /\ PickerSpec /\ HeaderSpec
                 /\ InboxInit /\ [][InboxNext]_inboxVars
                 /\ JobsInit /\ [][JobsNext]_jobsVars
                 /\ TourInit /\ [][TourNext]_tourVars
  <1>1. ScreensInit => /\ QueuesInit /\ InboxInit /\ ListInit /\ JobsInit /\ PickerInit
                       /\ HeaderInit /\ TourInit
    BY DEF ScreensInit
  <1>2. [ScreensNext]_screensVars => /\ [QueuesNext]_queuesVars /\ [InboxNext]_inboxVars
                                     /\ [ListNext]_listVars /\ [JobsNext]_jobsVars
                                     /\ [PickerNext]_pickerVars /\ [HeaderNext]_headerVars
                                     /\ [TourNext]_tourVars
    BY DEF ScreensNext, screensVars
  <1> QED
    BY <1>1, <1>2, PTL DEF ScreensSpec, QueuesSafe, ListSafe, PickerSpec, HeaderSpec

(* Every variable of every part keeps its type, whatever the others do. *)
THEOREM ScreensTypeCorrect == ScreensSpec => []ScreensTypeOK
  <1>1. ScreensInit => inUse \in Parts
    BY DEF ScreensInit
  <1>2. inUse \in Parts /\ [ScreensNext]_screensVars => (inUse \in Parts)'
    BY DEF ScreensNext, screensVars
  <1>3. ScreensSpec => [](inUse \in Parts)
    BY <1>1, <1>2, PTL DEF ScreensSpec
  <1>4. QueuesSafe => []QueuesTypeOK
    BY QueuesAssumption, QueuesTypeCorrect
  <1>5. InboxInit /\ [][InboxNext]_inboxVars => []InboxTypeOK
    BY InboxAssumption, InboxTypeCorrect
  <1>6. ListSafe => []ListTypeOK
    <2>1. ListSafe => [](ListInv /\ ShownIsAsked)
      BY ListAssumption, ListInvariant
    <2>2. ListInv => ListTypeOK
      BY DEF ListInv
    <2> QED
      BY <2>1, <2>2, PTL
  <1>7. JobsInit /\ [][JobsNext]_jobsVars => []JobsTypeOK
    BY JobsAssumption, JobsTypeCorrect
  <1>8. PickerSpec => []PickerTypeOK
    <2>1. PickerInit => PickerInv
      BY PickerAssumption, PickerInvInit
    <2>2. PickerInv /\ [PickerNext]_pickerVars => PickerInv'
      BY PickerAssumption, PickerInvStep
    <2>3. PickerInv => PickerTypeOK
      BY DEF PickerInv
    <2> QED
      BY <2>1, <2>2, <2>3, PTL DEF PickerSpec
  <1>9. HeaderSpec => []HeaderTypeOK
    <2>1. HeaderInit => HeaderInv
      BY HeaderAssumption, HeaderInvInit
    <2>2. HeaderInv /\ [HeaderNext]_headerVars => HeaderInv'
      BY HeaderAssumption, HeaderInvStep
    <2>3. HeaderInv => HeaderTypeOK
      BY DEF HeaderInv, HeaderTypeOK, BoxState
    <2> QED
      BY <2>1, <2>2, <2>3, PTL DEF HeaderSpec
  <1>10. TourInit /\ [][TourNext]_tourVars => []TourTypeOK
    <2>1. TourInit => TourTypeOK
      BY TourAssumption, TourTypeInit
    <2>2. TourTypeOK /\ [TourNext]_tourVars => TourTypeOK'
      BY TourAssumption, TourTypeStep
    <2> QED
      BY <2>1, <2>2, PTL
  <1> QED
    BY <1>3, <1>4, <1>5, <1>6, <1>7, <1>8, <1>9, <1>10, EachPart, PTL DEF ScreensTypeOK

(* Once a part is at rest it shows what was asked last: in the work queues of a user *)
(* who changes queue at rest only, and in the three searches of any user.            *)
THEOREM TheLatestIsShown ==
  ASSUME Patient
  PROVE  ScreensSpec => []LatestIsShown
  <1>1. QueuesSafe => []RowsAreOfTheActiveQueue
    BY QueuesAssumption, PatientRowsAreOfTheQueue
  <1>2. ListSafe => []RowsAnswerTheControls
    BY ListAssumption, ControlsAreAnswered
  <1> QED
    BY <1>1, <1>2, OffersAreOfTheSearch, ResultsAreOfTheBox, EachPart, PTL DEF LatestIsShown

(* A task reported as decided is off the inbox, a job reported as saved is listed as *)
(* saved, or newer, once the list is at rest.                                        *)
THEOREM OwnChangesAppear == ScreensSpec => []OwnChangesAreShown
  <1>1. InboxInit /\ [][InboxNext]_inboxVars => []DecidedIsGone
    BY InboxAssumption, DecidedGoesAway
  <1>2. JobsInit /\ [][JobsNext]_jobsVars => []SavedIsListed
    BY JobsAssumption, WhatIsSavedIsListed
  <1> QED
    BY <1>1, <1>2, EachPart, PTL DEF OwnChangesAreShown

(* What holds of each part alone holds of the screens together: the clients list follows *)
(* the abstract specification of a list that shows the latest answer only, a save of a   *)
(* job overwrites nothing newer, and so on for the rest of the run's properties.         *)
THEOREM EachPartKeepsItsPromise ==
  ASSUME Patient, PicksWait
  PROVE  ScreensSpec => /\ ImplementsLatest /\ SaveOverwritesNothingNewer
                        /\ [](NameIsOfTheClient /\ RecordsAreInReach /\ TourKeepsToItsStep)
                        /\ [](BatchAddressesItsRows /\ FailuresAreNamed)
  <1>1. QueuesSafe => []BatchAddressesItsRows
    BY QueuesAssumption, PatientBatchesAddress
  <1>2. QueuesSafe => []FailuresAreNamed
    BY QueuesAssumption, RefusedAreNamed
  <1>3. ListSafe => ImplementsLatest
    BY ListAssumption, OnlyTheLatestIsShown
  <1>4. ListSafe => []RecordsAreInReach
    BY ListAssumption, RecordsStayInReach
  <1>5. JobsInit /\ [][JobsNext]_jobsVars => SaveOverwritesNothingNewer
    BY JobsAssumption, NothingNewerIsOverwritten
  <1>6. PickerSpec => []NameIsOfTheClient
    BY TheClientIsNamed
  <1>7. TourInit /\ [][TourNext]_tourVars => []TourKeepsToItsStep
    BY TourAssumption, TourIsOfItsStep
  <1> QED
    BY <1>1, <1>2, <1>3, <1>4, <1>5, <1>6, <1>7, EachPart, PTL
=============================================================================
