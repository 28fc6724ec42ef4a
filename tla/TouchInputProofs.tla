-------------------------- MODULE TouchInputProofs --------------------------
(* For any number of choices of the menu: a second display that was picked *)
(* is shared, and one that was left without haste is not.  For any         *)
(* positions of the finger and any number of gestures: a gesture of one    *)
(* finger drags as far as the finger goes, and is a click exactly if the   *)
(* finger stayed near where it touched.                                    *)
EXTENDS TouchInput, TLAPS

-----------------------------------------------------------------------------
(* The views.                                                              *)
Steps == (\E m \in Views : sendMessage(m)) \/ MainThread \/ ReadThread \/ ssMode

\* A step of TouchInput is one of ViewSwitch or a touch, which leaves the views alone.
LEMMA TouchLeavesViews == [TouchNext]_all => Steps \/ UNCHANGED vars
  BY DEF TouchNext, Elsewhere, Steps, onTouch, ActionDown, ActionMove, ActionScroll,
         PointerDown, PointerUp, ActionUp, ActionCancel, Touched, all

LEMMA ViewTypesKept == TypeOK /\ Steps => TypeOK'
<1> SUFFICES ASSUME TypeOK, Steps PROVE TypeOK'
  OBVIOUS
<1> USE DEF TypeOK
<1>1. ASSUME NEW m \in Views, sendMessage(m) PROVE TypeOK'
  <2>1. /\ UNCHANGED <<currentView, reader, mPacket, requests, replies, sharing>>
        /\ msg' \in Views \cup {NoView} /\ picked' \in Views
        /\ main' \in {"idle", "fill_end", "select"} /\ choices' \in 0..MaxChoices
    BY <1>1, ChoicesAssumption DEF sendMessage, wires
  <2>2. hasty' \in BOOLEAN
    BY <1>1, Zenon DEF sendMessage, Outstanding
  <2> QED BY <2>1, <2>2
<1>2. CASE FillEnd
  BY <1>2 DEF FillEnd, wires, count, Requests
<1>3. CASE SendEnd
  BY <1>3 DEF SendEnd, count
<1>4. CASE SelectOther
  BY <1>4 DEF SelectOther, wires, count
<1>5. CASE SelectDisplay
  BY <1>5 DEF SelectDisplay, wires, count, Requests
<1>6. CASE SendDims
  BY <1>6 DEF SendDims, count
<1>7. CASE ReceiveDims
  BY <1>7 DEF ReceiveDims, count
<1>8. CASE FillStart
  BY <1>8 DEF FillStart, wires, count, Requests
<1>9. CASE SendStart
  BY <1>9 DEF SendStart, count
<1>10. CASE ssMode
  <2>1. UNCHANGED <<currentView, main, msg, reader, mPacket, choices, picked, hasty>>
    BY <1>10 DEF ssMode, phone, count
  <2>2. requests' \in Seq(Requests) /\ replies' \in Nat
    BY <1>10 DEF ssMode
  <2>3. sharing' \in BOOLEAN
    BY <1>10, Zenon DEF ssMode
  <2> QED BY <2>1, <2>2, <2>3
<1> QED
  BY <1>1, <1>2, <1>3, <1>4, <1>5, <1>6, <1>7, <1>8, <1>9, <1>10
     DEF Steps, MainThread, ReadThread

Second == "SHOW_SECOND_DISPLAY"

OnlyEnds == \A i \in 1..Len(requests) : requests[i] = "REQUEST_SS_END"

\* Between choices the second display is current if it was picked last; its request for
\* dimensions is sent while it is.  It is current, but was not handled last, only after
\* Number Pad.
Picked ==
  /\ main = "idle" /\ msg = Second => currentView = Second
  /\ main = "send_dims" => msg = Second /\ currentView = Second
  /\ main = "idle" /\ currentView = Second => msg \in {Second, "SHOW_NUMPAD"}
  /\ picked = Second => msg \in {Second, "SHOW_NUMPAD"}

\* After the second display was left without haste nothing but STOPs is on the way, and
\* sharing is over or will be when they have arrived.
Leaving ==
  msg # Second /\ ~hasty =>
    /\ reader = "idle" /\ replies = 0 /\ OnlyEnds
    /\ main = "send_end" => mPacket = "REQUEST_SS_END"
    /\ ~sharing \/ requests # <<>> \/ main \in {"fill_end", "send_end"}

\* While the second display stays picked no END is sent any more: the request in mPacket
\* is one that leads to sharing, and so is the last on its way; when none is on its way
\* the answer to one is, or sharing has begun.
Staying ==
  msg = Second =>
    /\ main = "send_dims" => mPacket # "REQUEST_SS_END"
    /\ main = "idle" =>
         /\ mPacket # "REQUEST_SS_END"
         /\ requests # <<>> => requests[Len(requests)] # "REQUEST_SS_END"
         /\ requests = <<>> => sharing \/ replies > 0 \/ reader # "idle"

LEMMA LeavingKept == TypeOK /\ Picked /\ Leaving /\ Steps => Picked' /\ Leaving'
<1> SUFFICES ASSUME TypeOK, Picked, Leaving, Steps PROVE Picked' /\ Leaving'
  OBVIOUS
<1>1. ASSUME NEW m \in Views, sendMessage(m) PROVE Picked' /\ Leaving'
  <2>1. /\ UNCHANGED <<currentView, reader, mPacket, requests, replies, sharing>>
        /\ main = "idle" /\ picked' = m
    BY <1>1 DEF sendMessage, wires
  <2>2. CASE m = currentView
    <3>1. UNCHANGED <<main, msg, hasty>>
      BY <1>1, <2>2 DEF sendMessage
    <3> QED BY <2>1, <2>2, <3>1 DEF Picked, Leaving, OnlyEnds
  <2>3. CASE m # currentView /\ currentView = Second
    <3>1. main' = "fill_end" /\ msg' = m /\ hasty' = Outstanding
      BY <1>1, <2>3 DEF sendMessage, Second
    <3>2. ASSUME ~Outstanding PROVE reader = "idle" /\ replies = 0 /\ OnlyEnds
      BY <3>2 DEF Outstanding, OnlyEnds, TypeOK
    <3> QED BY <2>1, <3>1, <3>2 DEF Picked, Leaving, OnlyEnds
  <2>4. CASE m # currentView /\ currentView # Second
    <3>1. main' = "select" /\ msg' = m /\ UNCHANGED hasty /\ msg # Second
      BY <1>1, <2>1, <2>4 DEF sendMessage, Second, Picked
    <3> QED BY <2>1, <3>1 DEF Picked, Leaving, OnlyEnds
  <2> QED BY <2>2, <2>3, <2>4
<1>2. CASE FillEnd
  BY <1>2 DEF FillEnd, Picked, Leaving, OnlyEnds, wires, count
<1>3. CASE SendEnd
  <2>1. /\ Len(requests') = Len(requests) + 1
        /\ \A i \in 1..Len(requests) : requests'[i] = requests[i]
        /\ requests'[Len(requests) + 1] = mPacket
        /\ requests' # <<>>
    BY <1>3 DEF SendEnd, TypeOK
  <2>2. /\ main = "send_end" /\ main' = "select"
        /\ UNCHANGED <<currentView, msg, picked, reader, replies, hasty, sharing>>
    BY <1>3 DEF SendEnd, count
  <2>3. OnlyEnds /\ mPacket = "REQUEST_SS_END" => OnlyEnds'
    BY <2>1 DEF OnlyEnds, TypeOK
  <2> QED BY <2>1, <2>2, <2>3 DEF Picked, Leaving
<1>4. CASE SelectOther
  BY <1>4 DEF SelectOther, Picked, Leaving, OnlyEnds, wires, count, Second
<1>5. CASE SelectDisplay
  BY <1>5 DEF SelectDisplay, Picked, Leaving, Second, count
<1>6. CASE SendDims
  BY <1>6 DEF SendDims, Picked, Leaving, count
<1>7. CASE ReadThread
  <2>1. UNCHANGED <<currentView, main, msg, picked, hasty>> /\ (reader # "idle" \/ replies > 0)
    BY <1>7 DEF ReadThread, ReceiveDims, FillStart, SendStart, count
  <2> QED BY <2>1 DEF Picked, Leaving
<1>8. CASE ssMode
  <2>1. UNCHANGED <<currentView, main, msg, picked, reader, mPacket, hasty>>
    BY <1>8 DEF ssMode, phone, count
  <2>2. ASSUME OnlyEnds PROVE OnlyEnds' /\ UNCHANGED replies /\ ~sharing'
    <3>1. /\ requests # <<>> /\ Head(requests) = "REQUEST_SS_END"
          /\ requests' = Tail(requests)
      BY <1>8, <2>2 DEF ssMode, OnlyEnds, TypeOK
    <3>2. OnlyEnds'
      BY <2>2, <3>1 DEF OnlyEnds, TypeOK
    <3> QED BY <1>8, <3>1, <3>2 DEF ssMode
  <2> QED BY <2>1, <2>2 DEF Picked, Leaving
<1> QED
  BY <1>1, <1>2, <1>3, <1>4, <1>5, <1>6, <1>7, <1>8 DEF Steps, MainThread

\* The only element of a sequence is its first and its last.
LEMMA OnlyElement ==
  ASSUME NEW R, NEW s \in Seq(R), s # <<>>, Tail(s) = <<>>
  PROVE  Head(s) = s[Len(s)] /\ Head(s) \in R
<1>1. Len(s) \in Nat /\ Len(s) # 0
  OBVIOUS
<1>2. Len(Tail(s)) = Len(s) - 1
  OBVIOUS
<1>3. Len(<<>>) = 0
  OBVIOUS
<1>4. Len(s) = 1
  BY <1>1, <1>2, <1>3
<1>5. Head(s) = s[1] /\ s[1] \in R
  BY <1>4
<1> QED BY <1>4, <1>5

LEMMA StayingKept == TypeOK /\ Picked /\ Staying /\ Steps => Staying'
<1> SUFFICES ASSUME TypeOK, Picked, Staying, Steps, msg' = Second, main' \in {"send_dims", "idle"}
             PROVE  /\ mPacket' # "REQUEST_SS_END"
                    /\ main' = "idle" =>
                         /\ requests' # <<>> => requests'[Len(requests')] # "REQUEST_SS_END"
                         /\ requests' = <<>> => sharing' \/ replies' > 0 \/ reader' # "idle"
  BY DEF Staying
<1>1. ASSUME NEW m \in Views, sendMessage(m)
      PROVE  UNCHANGED <<main, msg, mPacket, requests, sharing, replies, reader>>
  BY <1>1 DEF sendMessage, wires
<1>2. CASE \E m \in Views : sendMessage(m)
  BY <1>1, <1>2 DEF Staying
<1>3. CASE FillEnd \/ SendEnd \/ SelectOther
  BY <1>3 DEF FillEnd, SendEnd, SelectOther, count, Second
<1>4. CASE SelectDisplay
  BY <1>4 DEF SelectDisplay
<1>5. CASE SendDims \/ SendStart
  <2>1. requests' = Append(requests, mPacket) /\ UNCHANGED <<mPacket, msg>>
    BY <1>5 DEF SendDims, SendStart, count
  <2>2. mPacket # "REQUEST_SS_END"
    BY <1>5, <2>1 DEF SendDims, SendStart, Staying
  <2>3. /\ requests' # <<>> /\ Len(requests') = Len(requests) + 1
        /\ requests'[Len(requests) + 1] = mPacket
    BY <2>1 DEF TypeOK
  <2> QED BY <2>1, <2>2, <2>3
<1>6. CASE ReceiveDims \/ FillStart
  <2>1. /\ UNCHANGED <<main, msg, requests>> /\ reader' # "idle"
        /\ mPacket' = mPacket \/ mPacket' = "REQUEST_SS_START"
    BY <1>6 DEF ReceiveDims, FillStart, wires, count
  <2> QED BY <2>1 DEF Staying
<1>7. CASE ssMode
  <2>1. requests # <<>> /\ requests' = Tail(requests) /\ UNCHANGED <<main, msg, reader, mPacket>>
    BY <1>7 DEF ssMode, phone, count
  <2>2. mPacket' # "REQUEST_SS_END"
    BY <2>1 DEF Staying
  <2>3. ASSUME main' = "idle" PROVE requests[Len(requests)] # "REQUEST_SS_END"
    BY <2>1, <2>3 DEF Staying
  <2>4. CASE requests' # <<>>
    <3>1. requests'[Len(requests')] = requests[Len(requests)]
      BY <2>1, <2>4 DEF TypeOK
    <3> QED BY <2>2, <2>3, <2>4, <3>1
  <2>5. CASE requests' = <<>>
    <3>1. Head(requests) = requests[Len(requests)] /\ Head(requests) \in Requests
      <4>1. requests \in Seq(Requests) /\ requests # <<>> /\ Tail(requests) = <<>>
        BY <2>1, <2>5 DEF TypeOK
      <4> QED BY <4>1, OnlyElement
    <3>2. ASSUME main' = "idle" PROVE sharing' \/ replies' > 0
      BY <1>7, <2>3, <3>1, <3>2 DEF ssMode, Requests, TypeOK
    <3> QED BY <2>2, <2>5, <3>2
  <2> QED BY <2>4, <2>5
<1> QED
  BY <1>2, <1>3, <1>4, <1>5, <1>6, <1>7 DEF Steps, MainThread, ReadThread

VInv == TypeOK /\ Picked /\ Leaving /\ Staying

LEMMA VInvAlways == TouchSpec => []VInv
<1>1. TouchInit => VInv
  <2> SUFFICES ASSUME Init PROVE VInv
    BY DEF TouchInit
  <2>1. requests \in Seq(Requests) /\ OnlyEnds
    BY DEF Init, OnlyEnds
  <2>2. TypeOK
    <3>1. 0 \in 0..MaxChoices
      BY ChoicesAssumption
    <3> QED BY <2>1, <3>1 DEF Init, TypeOK, Requests
  <2> QED BY <2>1, <2>2 DEF Init, VInv, Picked, Leaving, Staying, NoView, Second
<1>2. VInv /\ [TouchNext]_all => VInv'
  <2> SUFFICES ASSUME VInv, [TouchNext]_all PROVE VInv'
    OBVIOUS
  <2>1. CASE Steps
    BY <2>1, ViewTypesKept, LeavingKept, StayingKept DEF VInv
  <2>2. CASE UNCHANGED vars
    BY <2>2 DEF VInv, TypeOK, Picked, Leaving, Staying, OnlyEnds, vars, phone, wires, count
  <2> QED BY <2>1, <2>2, TouchLeavesViews
<1> QED BY <1>1, <1>2, PTL DEF TouchSpec

\* However often the views were changed: when all was handled, the daemon shares a second
\* display that was picked last, unless the pick came after Number Pad and was ignored,
\* and none that was left after its dimensions were answered (MainActivity.sendMessage,
\* SSmode).
THEOREM SharedIfPicked == TouchSpec => []SharedAsShown
<1>1. VInv => SharedAsShown
  BY DEF VInv, Picked, Leaving, Staying, SharedAsShown, Quiet, Second
<1> QED BY VInvAlways, <1>1, PTL

\* TouchInput implements ViewSwitch, its fairness included: touches neither change a view
\* nor send a request, and keep no thread from running.
THEOREM ImplementsViewSwitch == TouchSpec => FairSpec
<1>1. TouchInit => Init
  BY DEF TouchInit
<1>2. [TouchNext]_all => [Next]_vars
  BY TouchLeavesViews DEF Steps, Next
<1> QED BY <1>1, <1>2, PTL DEF TouchSpec, FairSpec, Spec

-----------------------------------------------------------------------------
(* Gestures.                                                               *)

\* The gesture in progress is of one finger, and none was cancelled before it.
Clean == fingers > 0 /\ ~scrolled /\ ~cancelled

\* What a clean gesture rests on: a drag was sent exactly if the finger strayed, and until
\* then the holder has where it touched.
Straying ==
  /\ fingers = 2 => scrolled
  /\ Clean => /\ isDrag <=> strayed
              /\ ~isDrag => multiTouchEvents[0].pos = start

TInv == FingersTypeOK /\ DragsFollowFinger /\ Straying

LEMMA NotMoved == ~Displaced(0)
  BY DEF Displaced, minDisplace

LEMMA TInvInitially == TouchInit => TInv
<1> SUFFICES ASSUME TouchInit PROVE TInv
  OBVIOUS
<1>1. multiTouchEvents \in HolderStates
      /\ multiTouchEvents[0].isDown = FALSE
  BY DEF TouchInit, Holders, HolderStates
<1>2. 0 \in 0..2 /\ 0 \in 0..MaxActs /\ 0 \in Positions
  BY TouchAssumption
<1>3. fingers \in 0..2 /\ touches \in 0..MaxActs /\ dragged \in Int
  BY <1>2 DEF TouchInit
<1>4. FingersTypeOK
  BY <1>1, <1>2, <1>3 DEF TouchInit, FingersTypeOK
<1> QED BY <1>4 DEF TInv, DragsFollowFinger, Straying, Clean, TouchInit

LEMMA Down == choices \in Nat /\ TInv /\ ActionDown => TInv'
<1> SUFFICES ASSUME choices \in Nat, TInv, ActionDown PROVE TInv'
  OBVIOUS
<1>1. /\ fingers = 0 /\ fingers' = 1 /\ pos' \in Positions /\ pos' \in Int
      /\ start' = pos' /\ dragged' = 0 /\ strayed' = FALSE /\ scrolled' = FALSE
      /\ UNCHANGED <<isDrag, cancelled>>
  BY TouchAssumption DEF ActionDown
<1>2. multiTouchEvents' \in HolderStates
  BY <1>1 DEF ActionDown, TInv, FingersTypeOK, HolderStates, Holders
<1>3. ASSUME ~cancelled
      PROVE  ~isDrag /\ multiTouchEvents'[0].pos = pos'
  <2>1. ~isDrag /\ getEmptyEvent = 0
    BY <1>1, <1>3 DEF TInv, FingersTypeOK, getEmptyEvent
  <2> QED BY <2>1, <1>1 DEF ActionDown, TInv, FingersTypeOK, Holders, HolderStates
<1>4. touches' \in 0..MaxActs
  BY TouchAssumption DEF ActionDown, TInv, FingersTypeOK
<1>5. FingersTypeOK'
  <2>1. fingers' \in 0..2 /\ fingers' # 0 /\ dragged' \in Int
    BY <1>1
  <2> QED BY <1>1, <1>2, <1>4, <2>1 DEF TInv, FingersTypeOK
<1>6. DragsFollowFinger'
  BY <1>1, <1>3, NotMoved DEF DragsFollowFinger
<1>7. Straying'
  BY <1>1, <1>3 DEF Straying, Clean
<1> QED BY <1>5, <1>6, <1>7 DEF TInv

LEMMA Move == TInv /\ ActionMove => TInv'
<1> SUFFICES ASSUME TInv, ActionMove PROVE TInv'
  OBVIOUS
<1>1. /\ fingers = 1 /\ pos' \in Positions /\ pos' \in Int /\ start \in Int
      /\ strayed' = (strayed \/ Displaced(pos' - start))
      /\ UNCHANGED <<fingers, touches, start, scrolled, cancelled>>
  BY TouchAssumption DEF ActionMove, TInv, FingersTypeOK
<1> DEFINE last == multiTouchEvents[0].pos
<1>2. multiTouchEvents \in HolderStates /\ last \in Int
  BY DEF TInv, FingersTypeOK, Holders, HolderStates
<1>3. CASE Displaced(pos' - last)
  <2>1. /\ multiTouchEvents' = [multiTouchEvents EXCEPT ![0].pos = pos']
        /\ isDrag' = TRUE
        /\ dragged' = IF scrolled THEN 0 ELSE dragged + (pos' - last)
    BY <1>3 DEF ActionMove, Moved, getEventByIndex
  <2>2. /\ multiTouchEvents' \in HolderStates
        /\ multiTouchEvents'[0].pos = pos'
    BY <1>1, <1>2, <2>1 DEF Holders, HolderStates
  <2>3. dragged \in Int /\ dragged' \in Int
    BY <1>1, <1>2, <2>1 DEF TInv, FingersTypeOK
  <2>4. FingersTypeOK'
    BY <1>1, <2>1, <2>2, <2>3 DEF TInv, FingersTypeOK
  <2>5. DragsFollowFinger'
    <3> SUFFICES ASSUME Clean' PROVE /\ start' + dragged' = pos'
                                     /\ ~Displaced(pos' - pos')
      BY <2>2 DEF DragsFollowFinger, Clean
    <3>1. Clean /\ start + dragged = last
      BY <1>1 DEF TInv, DragsFollowFinger, Clean
    <3>2. dragged' = dragged + (pos' - last)
      BY <2>1, <3>1 DEF Clean
    <3> HIDE DEF last
    <3>3. ASSUME NEW s \in Int, NEW d \in Int, NEW p \in Int
          PROVE  p - p = 0 /\ s + (d + (p - (s + d))) = p
      BY SMT
    <3>4. pos' - pos' = 0 /\ start + (dragged + (pos' - (start + dragged))) = pos'
      BY <1>1, <2>3, <3>3
    <3> QED BY <1>1, <3>1, <3>2, <3>4, NotMoved
  <2>6. Straying'
    <3> SUFFICES ASSUME Clean' PROVE strayed'
      BY <1>1, <2>1 DEF TInv, Straying
    <3>1. Clean
      BY <1>1 DEF Clean
    <3>2. strayed \/ last = start
      BY <3>1 DEF TInv, Straying
    <3> QED BY <1>1, <1>3, <3>2
  <2> QED BY <2>4, <2>5, <2>6 DEF TInv
<1>4. CASE ~Displaced(pos' - last)
  <2>1. UNCHANGED <<multiTouchEvents, isDrag, dragged>>
    BY <1>4 DEF ActionMove, Moved, getEventByIndex, touch
  <2>2. FingersTypeOK' /\ DragsFollowFinger'
    BY <1>1, <1>4, <2>1 DEF TInv, FingersTypeOK, DragsFollowFinger
  <2>3. Straying'
    <3> SUFFICES ASSUME Clean' PROVE isDrag <=> strayed'
      BY <1>1, <2>1 DEF TInv, Straying, Clean
    <3>1. Clean /\ (isDrag <=> strayed) /\ (~isDrag => last = start)
      BY <1>1 DEF TInv, Straying, Clean
    <3> QED BY <1>1, <1>4, <3>1
  <2> QED BY <2>2, <2>3 DEF TInv
<1> QED BY <1>3, <1>4

\* Two fingers, or the second one comes or goes.
LEMMA TwoFingers == TInv /\ (ActionScroll \/ PointerDown \/ PointerUp) => TInv'
<1> SUFFICES ASSUME TInv, ActionScroll \/ PointerDown \/ PointerUp PROVE TInv'
  OBVIOUS
<1>1. /\ scrolled' /\ scrolled' \in BOOLEAN /\ fingers' \in 1..2 /\ pos' \in Positions
      /\ UNCHANGED <<isDrag, touches, start, dragged, strayed, cancelled>>
  <2>1. CASE ActionScroll
    <3>1. /\ fingers = 2 /\ pos' \in Positions
          /\ UNCHANGED <<isDrag, fingers, touches, start, dragged, strayed, scrolled, cancelled>>
      BY <2>1 DEF ActionScroll
    <3>2. scrolled /\ scrolled \in BOOLEAN
      BY <3>1, Zenon DEF TInv, FingersTypeOK, Straying
    <3> QED BY <3>1, <3>2
  <2>2. CASE PointerDown
    BY <2>2 DEF PointerDown, TInv, FingersTypeOK, Straying, touch
  <2>3. CASE PointerUp
    BY <2>3 DEF PointerUp, TInv, FingersTypeOK, Straying, touch
  <2> QED BY <2>1, <2>2, <2>3
<1>2. pos' \in Int
  BY <1>1, TouchAssumption
<1>3. multiTouchEvents' \in HolderStates
  BY <1>2 DEF ActionScroll, PointerDown, PointerUp, TInv, FingersTypeOK, touch,
              HolderStates, Holders, getEventByIndex
<1> QED BY <1>1, <1>3 DEF TInv, FingersTypeOK, DragsFollowFinger, Straying, Clean

\* The gesture is over.
LEMMA Ends == TInv /\ (ActionUp \/ ActionCancel) => TInv'
<1> SUFFICES ASSUME TInv, ActionUp \/ ActionCancel PROVE TInv'
  OBVIOUS
<1>1. /\ fingers' = 0 /\ pos' = 0 /\ start' = 0 /\ dragged' = 0
      /\ strayed' = FALSE /\ scrolled' = FALSE
      /\ UNCHANGED touches
  BY DEF ActionUp, ActionCancel, Over
<1>2. /\ multiTouchEvents' \in HolderStates
      /\ isDrag' \in BOOLEAN /\ cancelled' \in BOOLEAN
      /\ ~cancelled' => ~multiTouchEvents'[0].isDown /\ ~isDrag'
  <2>1. CASE ActionUp
    <3>1. /\ multiTouchEvents' = [multiTouchEvents EXCEPT ![0] = [isDown |-> FALSE, pos |-> pos]]
          /\ isDrag' = FALSE /\ cancelled' = FALSE
      BY <2>1 DEF ActionUp, getEventByIndex
    <3>2. pos \in Int /\ 0 \in Holders
      BY TouchAssumption DEF TInv, FingersTypeOK, Holders
    <3> QED BY <3>1, <3>2 DEF TInv, FingersTypeOK, HolderStates
  <2>2. CASE ActionCancel
    BY <2>2 DEF ActionCancel, touch, TInv, FingersTypeOK
  <2> QED BY <2>1, <2>2
<1>3. FingersTypeOK'
  <2>1. fingers' \in 0..2 /\ pos' \in Positions /\ start' \in Positions /\ dragged' \in Int
    BY <1>1, TouchAssumption
  <2> QED BY <1>1, <1>2, <2>1 DEF TInv, FingersTypeOK
<1> QED BY <1>1, <1>3 DEF TInv, DragsFollowFinger, Straying, Clean

LEMMA Untouched == TInv /\ UNCHANGED <<touch, gesture>> => TInv'
  BY DEF TInv, FingersTypeOK, DragsFollowFinger, Straying, Clean, touch, gesture

LEMMA TInvKept == choices \in Nat /\ TInv /\ [TouchNext]_all => TInv'
<1> SUFFICES ASSUME choices \in Nat, TInv, [TouchNext]_all PROVE TInv'
  OBVIOUS
<1>1. CASE onTouch
  BY <1>1, Down, Move, TwoFingers, Ends DEF onTouch
<1>2. CASE Elsewhere
  BY <1>2, Untouched DEF Elsewhere
<1>3. CASE UNCHANGED all
  BY <1>3, Untouched DEF all
<1> QED BY <1>1, <1>2, <1>3 DEF TouchNext

LEMMA TInvAlways == TouchSpec => []TInv
<1>1. VInv => choices \in Nat
  BY ChoicesAssumption DEF VInv, TypeOK
<1> QED BY TInvInitially, TInvKept, VInvAlways, <1>1, PTL DEF TouchSpec

\* Views, requests and dimensions on their way keep their types (MainActivity, SSmode), and
\* so do the holders and the gesture; without a finger on the view nothing is held or
\* dragged, unless a gesture was cancelled (KBMmode.onTouch).
THEOREM TouchTyped == TouchSpec => []TouchTypeOK
<1>1. VInv /\ TInv => TouchTypeOK
  BY DEF VInv, TInv, TouchTypeOK
<1> QED BY VInvAlways, TInvAlways, <1>1, PTL

\* The drags sent add up to the way of the finger (KBMmode.onTouch), whatever positions it
\* takes and however many gestures there were.
THEOREM DragsAddUp == TouchSpec => []DragsFollowFinger
<1>1. TInv => DragsFollowFinger
  BY DEF TInv
<1> QED BY TInvAlways, <1>1, PTL

\* A click is sent exactly if the finger never strayed (KBMmode.onTouch).
THEOREM TapsClick == TouchSpec => ClicksAreTaps
<1>1. TInv /\ ActionUp /\ ~scrolled /\ ~cancelled => (Clicks <=> ~strayed)
  <2> SUFFICES ASSUME TInv, ActionUp, ~scrolled, ~cancelled PROVE Clicks <=> ~strayed
    OBVIOUS
  <2>1. Clean
    BY DEF ActionUp, Clean
  <2>2. ~Displaced(pos - multiTouchEvents[0].pos)
    BY <2>1 DEF TInv, DragsFollowFinger, Clean
  <2> QED BY <2>1, <2>2 DEF TInv, Straying, Clicks, Lifted, getEventByIndex
<1>2. TInv /\ [TouchNext]_all => [ActionUp /\ ~scrolled /\ ~cancelled => (Clicks <=> ~strayed)]_all
  BY <1>1
<1> QED BY TInvAlways, <1>2, PTL DEF TouchSpec, ClicksAreTaps
=============================================================================
