----------------------------- MODULE TouchInput -----------------------------
(* Touches on the phone's keyboard and mouse view (KBMmode.onTouch) become *)
(* drags, clicks and scrolls for the daemon.  They are handled by the main *)
(* thread, between the choices of ViewSwitch, and only while that view is  *)
(* shown.                                                                  *)
(*                                                                         *)
(* Positions are those of the first pointer, on one axis.  Every action    *)
(* index onTouch sees is 0, so that mIndex is 0 in both holders and a      *)
(* search by index ends at the first.  onTouch compares getDownTime, the   *)
(* milliseconds since boot, with 2500: true on a phone that is in use.     *)
EXTENDS ViewSwitch

CONSTANTS Positions,   \* where a finger can be
          MaxActs      \* bound: gestures and choices of the menu together

ASSUME TouchAssumption == Positions \subseteq Int /\ 0 \in Positions /\ MaxActs \in Nat

VARIABLES
  multiTouchEvents,  \* the two holders: isDown, and the last position
  isDrag,
  fingers,           \* on the view: 0, 1 or 2
  pos,               \* of the first pointer
  touches,           \* gestures begun so far
  start,             \* ghost: where the gesture began
  dragged,           \* ghost: sum of the drags sent in it, of one finger
  strayed,           \* ghost: the finger was further than a click from where it began
  scrolled,          \* ghost: a second finger was down in it
  cancelled          \* ghost: a gesture was cancelled since one last ended with UP

touch   == <<multiTouchEvents, isDrag>>
gesture == <<fingers, pos, touches, start, dragged, strayed, scrolled, cancelled>>
all     == <<vars, touch, gesture>>

Holders == 0..1

TouchInit ==
  /\ Init
  /\ multiTouchEvents = [h \in Holders |-> [isDown |-> FALSE, pos |-> 0]]
  /\ isDrag = FALSE
  /\ fingers = 0 /\ pos = 0 /\ touches = 0
  /\ start = 0 /\ dragged = 0 /\ strayed = FALSE /\ scrolled = FALSE /\ cancelled = FALSE

minDisplace == 25
Displaced(d) == d * d >= minDisplace

\* Mutant: the second holder if it is free.
SecondIfFree == IF multiTouchEvents[1].isDown THEN 0 ELSE 1

getEmptyEvent == IF multiTouchEvents[0].isDown THEN 1 ELSE 0
getEventByIndex == 0
Moved == pos' - multiTouchEvents[getEventByIndex].pos

\* A touch event is handled while the view is shown and the main thread is free.
Touched == main = "idle" /\ currentView = "SHOW_HID" /\ UNCHANGED vars

-----------------------------------------------------------------------------
(* onTouch.                                                                *)

ActionDown ==
  /\ Touched
  /\ fingers = 0 /\ choices + touches < MaxActs
  /\ fingers' = 1 /\ touches' = touches + 1
  /\ pos' \in Positions
  /\ multiTouchEvents' =
       [multiTouchEvents EXCEPT ![getEmptyEvent].isDown = TRUE, ![getEmptyEvent].pos = pos']
  /\ start' = pos' /\ dragged' = 0 /\ strayed' = FALSE /\ scrolled' = FALSE
  /\ UNCHANGED <<isDrag, cancelled>>

\* One finger: a drag, once it has moved far enough from the last.
ActionMove ==
  /\ Touched
  /\ fingers = 1
  /\ pos' \in Positions \ {pos}
  /\ IF Displaced(Moved)
     THEN /\ multiTouchEvents' = [multiTouchEvents EXCEPT ![getEventByIndex].pos = pos']
          /\ isDrag' = TRUE
          /\ dragged' = IF scrolled THEN 0 ELSE dragged + Moved
     ELSE UNCHANGED <<touch, dragged>>
  /\ strayed' = (strayed \/ Displaced(pos' - start))
  /\ UNCHANGED <<fingers, touches, start, scrolled, cancelled>>

\* Two fingers: a scroll, however small; by how much is left out.
ActionScroll ==
  /\ Touched
  /\ fingers = 2
  /\ pos' \in Positions \ {pos}
  /\ multiTouchEvents' = [multiTouchEvents EXCEPT ![getEventByIndex].pos = pos']
  /\ UNCHANGED <<isDrag, fingers, touches, start, dragged, strayed, scrolled, cancelled>>

\* A second finger comes or goes: ignored.  The one that stays is the first pointer.
PointerDown ==
  /\ Touched
  /\ fingers = 1 /\ fingers' = 2
  /\ scrolled' = TRUE
  /\ UNCHANGED <<touch, pos, touches, start, dragged, strayed, cancelled>>

PointerUp ==
  /\ Touched
  /\ fingers = 2 /\ fingers' = 1
  /\ pos' \in Positions
  /\ UNCHANGED <<touch, touches, start, dragged, strayed, scrolled, cancelled>>

\* The gesture is over; its history is forgotten.
Over ==
  /\ fingers' = 0
  /\ pos' = 0 /\ start' = 0 /\ dragged' = 0 /\ strayed' = FALSE /\ scrolled' = FALSE
  /\ UNCHANGED touches

Lifted == pos - multiTouchEvents[getEventByIndex].pos

\* Mutant: what was dragged before is forgotten.
ClicksWhenStill == ~Displaced(Lifted)

\* A click is sent.
Clicks == ~Displaced(Lifted) /\ ~isDrag

\* Mutant: the drag is not over with the gesture.
ActionUpDragging ==
  /\ Touched
  /\ fingers = 1
  /\ multiTouchEvents' =
       [multiTouchEvents EXCEPT ![getEventByIndex] = [isDown |-> FALSE, pos |-> pos]]
  /\ UNCHANGED isDrag
  /\ cancelled' = FALSE
  /\ Over

ActionUp ==
  /\ Touched
  /\ fingers = 1
  /\ multiTouchEvents' =
       [multiTouchEvents EXCEPT ![getEventByIndex] = [isDown |-> FALSE, pos |-> pos]]
  /\ isDrag' = FALSE
  /\ cancelled' = FALSE
  /\ Over

\* The drawer takes the touch over, or the view goes: CANCEL, which is ignored.
ActionCancel ==
  /\ Touched
  /\ fingers > 0
  /\ cancelled' = TRUE
  /\ Over
  /\ UNCHANGED touch

onTouch ==
  ActionDown \/ ActionMove \/ ActionScroll \/ PointerDown \/ PointerUp \/ ActionUp \/ ActionCancel

-----------------------------------------------------------------------------
\* The menu is in the drawer: no finger is on the view when an entry is picked.
Elsewhere ==
  /\ \/ fingers = 0 /\ choices + touches < MaxActs /\ \E m \in Views : sendMessage(m)
     \/ MainThread \/ ReadThread \/ ssMode
  /\ UNCHANGED <<touch, gesture>>

TouchNext == onTouch \/ Elsewhere

\* The threads of ViewSwitch run; the finger may rest.
TouchSpec ==
  /\ TouchInit /\ [][TouchNext]_all
  /\ WF_vars(MainThread) /\ WF_vars(ReadThread) /\ WF_vars(ssMode)

-----------------------------------------------------------------------------
(* Properties.                                                             *)

HolderStates == [Holders -> [isDown : BOOLEAN, pos : Int]]

FingersTypeOK ==
  /\ multiTouchEvents \in HolderStates
  /\ isDrag \in BOOLEAN /\ cancelled \in BOOLEAN /\ scrolled \in BOOLEAN
  /\ fingers \in 0..2 /\ pos \in Positions /\ start \in Positions
  /\ touches \in 0..MaxActs /\ dragged \in Int /\ strayed \in BOOLEAN
  /\ fingers = 0 /\ ~cancelled => ~multiTouchEvents[0].isDown /\ ~isDrag

\* Type correctness, of ViewSwitch too; a holder that is down without a finger on the
\* view was left by a gesture that was cancelled.
TouchTypeOK == TypeOK /\ FingersTypeOK

\* What was dragged in a gesture of one finger is the way from where it began to the
\* position of the last drag, less than a click's displacement from the finger: no
\* jump and no lost movement.  A cancelled gesture spoils this for the next one only,
\* although it leaves its holder down, and maybe the other one for ever.
DragsFollowFinger ==
  fingers > 0 /\ ~scrolled /\ ~cancelled =>
    /\ start + dragged = multiTouchEvents[0].pos
    /\ ~Displaced(pos - multiTouchEvents[0].pos)

\* A finger that leaves clicks exactly if it stayed near where it touched all the
\* time, also when it came back there: the code asks what was dragged since the last
\* drag only.  (getDownTime, meant for a duration, is no obstacle.)  After a gesture
\* that was cancelled, and with two fingers, it may be otherwise.
ClicksAreTaps == [][ActionUp /\ ~scrolled /\ ~cancelled => (Clicks <=> ~strayed)]_all
=============================================================================
