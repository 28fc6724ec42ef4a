----------------------------- MODULE ViewSwitch -----------------------------
(* Views of the phone and screen sharing in the daemon: the menu selects a *)
(* view (MainActivity.sendMessage), SSmode asks the daemon for dimensions  *)
(* when the second display is shown and to stop when it is left, and its   *)
(* read thread answers dimensions with START.                              *)
(*                                                                         *)
(* Main thread and read thread fill the same packet buffer, SSmode's       *)
(* mPacket, and only the sending is synchronized.  The session is up all   *)
(* the time (UAccessory), and START and STOP do what they say              *)
(* (ScreenShare): here they set one flag.                                  *)
EXTENDS Integers, Sequences

CONSTANT MaxChoices   \* bound: times the user picks an entry of the menu

ASSUME ChoicesAssumption == MaxChoices \in Nat

Views    == {"SHOW_HID", "SHOW_NUMPAD", "SHOW_SECOND_DISPLAY", "SHOW_STATUS"}
NoView   == "none"
Requests == {"REQUEST_FB_DIMS", "REQUEST_SS_START", "REQUEST_SS_END"}

VARIABLES
  currentView,
  main,      \* the main thread: "idle", or where it is in sendMessage
  msg,       \* the message sendMessage is handling, or handled last
  picked,    \* the entry picked last, which sendMessage may have ignored
  reader,    \* the read thread in onDataReceived: "idle", "fill", "send"
  mPacket,   \* the request in mPacket
  requests,  \* packets on their way to the daemon
  replies,   \* dimensions on their way to the phone
  sharing,   \* the daemon's capture and send threads are to run
  choices,   \* entries picked so far
  hasty      \* the second display was last left before its dimensions were answered

phone == <<currentView, main, msg, reader, mPacket>>
wires == <<requests, replies>>
count == <<choices, picked, hasty>>
vars  == <<phone, wires, sharing, count>>

Init ==
  /\ currentView = NoView /\ main = "idle" /\ msg = NoView
  /\ reader = "idle" /\ mPacket = "REQUEST_FB_DIMS"
  /\ requests = <<>> /\ replies = 0
  /\ sharing = FALSE
  /\ choices = 0 /\ picked = NoView /\ hasty = FALSE

-----------------------------------------------------------------------------
(* The main thread: sendMessage.                                           *)

\* An answer to dimensions is still to come.
Outstanding ==
  \/ replies > 0 \/ reader # "idle"
  \/ \E i \in DOMAIN requests : requests[i] # "REQUEST_SS_END"

\* A menu entry: ignored if it is the current view; leaving the second display stops it.
sendMessage(m) ==
  /\ main = "idle" /\ choices < MaxChoices
  /\ choices' = choices + 1
  /\ picked' = m
  /\ \/ /\ m = currentView
        /\ UNCHANGED <<main, msg, hasty>>
     \/ /\ m # currentView
        /\ msg' = m
        /\ IF currentView = "SHOW_SECOND_DISPLAY"
           THEN main' = "fill_end" /\ hasty' = Outstanding
           ELSE main' = "select" /\ UNCHANGED hasty
  /\ UNCHANGED <<currentView, reader, mPacket, wires, sharing>>

FillEnd ==
  /\ main = "fill_end"
  /\ mPacket' = "REQUEST_SS_END"
  /\ main' = "send_end"
  /\ UNCHANGED <<currentView, msg, reader, wires, sharing, count>>

\* Mutant: the mode only notes that it is not current any more.
SendEndNothing ==
  /\ main = "send_end"
  /\ main' = "select"
  /\ UNCHANGED <<currentView, msg, reader, mPacket, wires, sharing, count>>

\* sendData sends what mPacket holds by now.
SendEnd ==
  /\ main = "send_end"
  /\ requests' = Append(requests, mPacket)
  /\ main' = "select"
  /\ UNCHANGED <<currentView, msg, reader, mPacket, replies, sharing, count>>

\* SHOW_NUMPAD closes the drawer and leaves the view that was shown, and deselected.
SelectOther ==
  /\ main = "select" /\ msg # "SHOW_SECOND_DISPLAY"
  /\ currentView' = IF msg = "SHOW_NUMPAD" THEN currentView ELSE msg
  /\ main' = "idle"
  /\ UNCHANGED <<msg, reader, mPacket, wires, sharing, count>>

\* Mutant: the request for dimensions is not filled in again.
SelectDisplayKeepsPacket ==
  /\ main = "select" /\ msg = "SHOW_SECOND_DISPLAY"
  /\ currentView' = msg
  /\ main' = "send_dims"
  /\ UNCHANGED <<msg, reader, mPacket, wires, sharing, count>>

SelectDisplay ==
  /\ main = "select" /\ msg = "SHOW_SECOND_DISPLAY"
  /\ currentView' = msg
  /\ mPacket' = "REQUEST_FB_DIMS"
  /\ main' = "send_dims"
  /\ UNCHANGED <<msg, reader, wires, sharing, count>>

SendDims ==
  /\ main = "send_dims"
  /\ requests' = Append(requests, mPacket)
  /\ main' = "idle"
  /\ UNCHANGED <<currentView, msg, reader, mPacket, replies, sharing, count>>

-----------------------------------------------------------------------------
(* The read thread: REQUEST_FB_DIMS in onDataReceived.                     *)

ReceiveDims ==
  /\ reader = "idle" /\ replies > 0
  /\ replies' = replies - 1
  /\ reader' = "fill"
  /\ UNCHANGED <<currentView, main, msg, mPacket, requests, sharing, count>>

FillStart ==
  /\ reader = "fill"
  /\ mPacket' = "REQUEST_SS_START"
  /\ reader' = "send"
  /\ UNCHANGED <<currentView, main, msg, wires, sharing, count>>

SendStart ==
  /\ reader = "send"
  /\ requests' = Append(requests, mPacket)
  /\ reader' = "idle"
  /\ UNCHANGED <<currentView, main, msg, mPacket, replies, sharing, count>>

-----------------------------------------------------------------------------
(* The daemon: one request at a time.                                      *)
ssMode ==
  /\ requests # <<>>
  /\ requests' = Tail(requests)
  /\ replies' = IF Head(requests) = "REQUEST_FB_DIMS" THEN replies + 1 ELSE replies
  /\ sharing' = CASE Head(requests) = "REQUEST_SS_START" -> TRUE
                  [] Head(requests) = "REQUEST_SS_END"   -> FALSE
                  [] OTHER                               -> sharing
  /\ UNCHANGED <<phone, count>>

MainThread == FillEnd \/ SendEnd \/ SelectOther \/ SelectDisplay \/ SendDims
ReadThread == ReceiveDims \/ FillStart \/ SendStart

Next ==
  \/ \E m \in Views : sendMessage(m)
  \/ MainThread \/ ReadThread \/ ssMode

Spec == Init /\ [][Next]_vars

\* Both threads of the phone run, and each end takes what the other sends.
FairSpec == Spec /\ WF_vars(MainThread) /\ WF_vars(ReadThread) /\ WF_vars(ssMode)

-----------------------------------------------------------------------------
(* Properties.                                                             *)

\* Type correctness of the phone's views, its request buffer, the wires and the daemon's flag.
TypeOK ==
  /\ currentView \in Views \cup {NoView} /\ msg \in Views \cup {NoView}
  /\ main \in {"idle", "fill_end", "send_end", "select", "send_dims"}
  /\ reader \in {"idle", "fill", "send"}
  /\ mPacket \in Requests /\ requests \in Seq(Requests) /\ replies \in Nat
  /\ sharing \in BOOLEAN /\ choices \in 0..MaxChoices /\ picked \in Views \cup {NoView}
  /\ hasty \in BOOLEAN

Quiet == main = "idle" /\ reader = "idle" /\ requests = <<>> /\ replies = 0

\* Once everything is handled, the daemon shares the screen if the second display was
\* picked last, and does not if it was left without haste, whichever views came before
\* and however main thread and read thread overwrote mPacket.  There are two exceptions.
\* Number Pad stops the second display but leaves it the current view, so that picking
\* it right after is ignored: it stays stopped until another view was picked.  And left
\* before its dimensions were answered, it may go on: the START goes out after, or
\* instead of, the END.
SharedAsShown ==
  Quiet =>
    /\ picked = "SHOW_SECOND_DISPLAY" /\ msg # "SHOW_NUMPAD" => sharing
    /\ msg # "SHOW_SECOND_DISPLAY" /\ ~hasty => ~sharing

\* A user who picks the second display and stays with it gets it in the end, unless it
\* was Number Pad that stopped it: no STOP of an earlier visit, and no lost request, is
\* the last word.
PickedIsShared ==
  <>[](picked = "SHOW_SECOND_DISPLAY" /\ msg # "SHOW_NUMPAD") => <>[]sharing
=============================================================================
