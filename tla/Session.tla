------------------------------ MODULE Session ------------------------------
(* The two ends of the USB connection together: the phone of UAccessory,   *)
(* whose actions are repeated here with the packets they put on the wire   *)
(* or take from it, and the daemon's read thread (UsbDevice.c), with the   *)
(* send thread that outlives sessions.  New to both ends is the death of   *)
(* the phone's process, which sends no CLOSE.                              *)
(*                                                                         *)
(* Packets to the daemon queue up until it reads them.  A packet to the    *)
(* phone is taken by whichever thread of the phone reads, whatever it      *)
(* waits for.  The permission dialog is left to UAccessory.                *)
EXTENDS UAccessory

CONSTANT MaxWire  \* bound: packets that wait to be read by the daemon

ASSUME WireAssumption == MaxWire \in Nat \ {0}

VARIABLES
  link,             \* the daemon has the accessory: "up" or "down"
  wire,             \* packets for the daemon, with the session that wrote them
  daemon,           \* the read thread: "read", or sending the "reply" or the "dims"
  transfer_status,  \* "HANDSHAKE", or "WAITING" for any other
  peer,             \* the session whose handshake the daemon took last, or None
  sender,           \* usb_send_thread: "on", "stopping" or "off"
  holds,            \* read threads of the phone that deliver a reply to REQUEST_FB_DIMS
  answered,         \* sessions whose own handshake reply ended their handshake
  stolen,           \* sessions whose handshake reply a read thread took
  orphans           \* sessions that died with the phone's process, without CLOSE

host  == <<daemon, transfer_status, peer, sender>>
ghost == <<answered, stolen, orphans>>
all   == <<vars, link, wire, host, holds, ghost>>

SessionInit ==
  /\ Init /\ permitted
  /\ link = "down" /\ wire = <<>>
  /\ daemon = "read" /\ transfer_status = "HANDSHAKE" /\ peer = None /\ sender = "off"
  /\ holds = {} /\ answered = {} /\ stolen = {} /\ orphans = {}

-----------------------------------------------------------------------------
(* The wire.                                                               *)

Kinds == {"HANDSHAKE", "DIMS", "START", "STOP", "CLOSE"}

\* A write blocks while the wire is full, and throws without a connection.
Puts(kind) ==
  IF stream \in live
  THEN /\ Len(wire) < MaxWire
       /\ wire' = Append(wire, [kind |-> kind, session |-> stream])
  ELSE UNCHANGED wire

\* What the daemon has for a thread of the phone that reads.
Offers == {p \in {"reply", "dims"} : daemon = p} \cup {p \in {"frame"} : sender # "off"}

\* Mutant: the handshake reply leaves the status as it is.
ReplyForgotten(packet) ==
  /\ packet \in Offers
  /\ daemon' = IF packet = "frame" THEN daemon ELSE "read"
  /\ UNCHANGED <<transfer_status, peer, sender>>

Takes(packet) ==
  /\ packet \in Offers
  /\ daemon' = IF packet = "frame" THEN daemon ELSE "read"
  /\ transfer_status' = IF packet = "reply" THEN "WAITING" ELSE transfer_status
  /\ UNCHANGED <<peer, sender>>

-----------------------------------------------------------------------------
(* The phone: actions of UAccessory.                                       *)

Untouched == UNCHANGED <<link, wire, host, holds, ghost>>

UserDoes ==
  /\ (onResume /\ ~asked') \/ onPause \/ onDestroy \/ UserActs
  /\ Untouched

MainAlone ==
  /\ AlreadyIO \/ HandshakeThrows \/ EndCloses \/ (OpenFails /\ link = "down")
  /\ Untouched

ReaderAlone(t) ==
  /\ RunCheck(t) \/ RunLoads(t) \/ RunAnswers(t) \/ RunThrows(t)
  /\ Untouched

PhoneOpens ==
  /\ Open
  /\ link = "up"
  /\ UNCHANGED <<link, wire, host, holds, ghost>>

\* The handshake, the CLOSE, and what the user does: here, the requests.
PhoneWrites ==
  /\ \/ (HandshakeWrites /\ Puts("HANDSHAKE"))
     \/ (EndWrites /\ Puts("CLOSE"))
     \/ (MainSends /\ (Puts("DIMS") \/ Puts("STOP")))
  /\ UNCHANGED <<link, host, holds, ghost>>

\* Whatever handshake() reads, it takes for the reply.
HandshakeTakes(packet) ==
  /\ HandshakeSucceeds
  /\ Takes(packet)
  /\ answered' = IF packet = "reply" /\ peer = stream THEN answered \cup {stream} ELSE answered
  /\ UNCHANGED <<link, wire, holds, stolen, orphans>>

HandshakeBreaks ==
  /\ HandshakeFails
  /\ stream \notin live
  /\ UNCHANGED <<link, wire, host, holds, ghost>>

\* A thread that endIO missed reads the new stream too, and may be faster than
\* handshake().
ReaderTakes(t, packet) ==
  /\ RunReads(t)
  /\ Takes(packet)
  /\ holds' = IF packet = "dims" THEN holds \cup {t} ELSE holds
  /\ stolen' = IF packet = "reply" THEN stolen \cup {peer} ELSE stolen
  /\ UNCHANGED <<link, wire, answered, orphans>>

\* Dimensions are answered with a START, anything else is not answered.
ReaderDelivers(t) ==
  /\ RunDelivers(t)
  /\ pc'[t] = IF t \in holds THEN "answer" ELSE "check"
  /\ holds' = holds \ {t}
  /\ UNCHANGED <<link, wire, host, ghost>>

\* Mutant: the monitor is not released.
ReaderKeepsMonitor(t) ==
  /\ Goes(t, "write", "check")
  /\ IF stream # None THEN Write("DATA") /\ Puts("START") ELSE UNCHANGED <<log, wire>>
  /\ UNCHANGED <<app, reads, monitor>> /\ ReaderOnly
  /\ UNCHANGED <<link, host, holds, ghost>>

ReaderWrites(t) ==
  /\ RunWrites(t)
  /\ IF stream # None THEN Puts("START") ELSE UNCHANGED wire
  /\ UNCHANGED <<link, host, holds, ghost>>

-----------------------------------------------------------------------------
(* The connection and the phone's process.                                 *)

\* The packets under way are lost; a transfer of the daemon fails.
PulledOut ==
  /\ IF live # {} THEN Unplug /\ permitted' ELSE app = "runs" /\ UNCHANGED vars
  /\ link = "up" /\ link' = "down"
  /\ wire' = <<>> /\ daemon' = "read"
  /\ UNCHANGED <<transfer_status, peer, sender, holds, ghost>>

\* Mutant: the status of the lost connection is kept.
PluggedInAgain ==
  /\ link = "down" /\ link' = "up"
  /\ UNCHANGED <<vars, wire, host, holds, ghost>>

\* Mutant: an arrival that is reported again resets the device again.
PluggedInTwice ==
  /\ link' = "up"
  /\ transfer_status' = "HANDSHAKE"
  /\ UNCHANGED <<vars, wire, daemon, peer, sender, holds, ghost>>

PluggedIn ==
  /\ link = "down" /\ link' = "up"
  /\ transfer_status' = "HANDSHAKE"
  /\ UNCHANGED <<vars, wire, daemon, peer, sender, holds, ghost>>

\* The process ends, after a crash or killed, and the app is started anew.  The
\* system closes its descriptor.
Restart ==
  /\ sessions # 0
  /\ app' = "runs" /\ activity' = "paused" /\ asked' = FALSE /\ main' = "idle"
  /\ isIO' = FALSE /\ stream' = None /\ descriptors' = {} /\ live' = {}
  /\ readThread' = None /\ monitor' = None /\ log' = <<>>
  /\ interrupted' = [t \in Readers |-> FALSE]
  /\ pc' = [t \in Readers |-> IF pc[t] = "none" THEN "none" ELSE "ended"]
  /\ reads' = [t \in Readers |-> None]
  /\ holds' = {}
  /\ orphans' = orphans \cup {s \in live : "CLOSE" \notin {log[i] : i \in DOMAIN log}}
  /\ UNCHANGED <<permitted, sessions, link, wire, host, answered, stolen>>

-----------------------------------------------------------------------------
(* The daemon.                                                             *)

\* The packet the read thread reads next.
Reads(packet) ==
  /\ link = "up" /\ daemon = "read" /\ wire # <<>>
  /\ packet = Head(wire)
  /\ wire' = Tail(wire)

PhoneSide == UNCHANGED <<vars, link, holds, ghost>>

\* Mutant: the status is raised before the reply is sent.
WaitingTooSoon(packet) ==
  /\ Reads(packet)
  /\ transfer_status = "HANDSHAKE" /\ packet.kind = "HANDSHAKE"
  /\ daemon' = "reply" /\ peer' = packet.session /\ transfer_status' = "WAITING"
  /\ UNCHANGED sender /\ PhoneSide

Handshake(packet) ==
  /\ Reads(packet)
  /\ transfer_status = "HANDSHAKE" /\ packet.kind = "HANDSHAKE"
  /\ daemon' = "reply" /\ peer' = packet.session
  /\ UNCHANGED <<transfer_status, sender>> /\ PhoneSide

\* After 7.5 s without a thread of the phone that reads.
ReplyTimesOut ==
  /\ daemon = "reply" /\ daemon' = "read"
  /\ ~(main = "reply" /\ stream \in live) /\ \A t \in Readers : reads[t] \notin live
  /\ UNCHANGED <<wire, transfer_status, peer, sender>> /\ PhoneSide

\* Not a handshake when one is expected, or one when none is.
Drops(packet) ==
  /\ Reads(packet)
  /\ transfer_status = "HANDSHAKE" <=> packet.kind # "HANDSHAKE"
  /\ UNCHANGED host /\ PhoneSide

Serving == transfer_status # "HANDSHAKE"

Serves(packet) ==
  /\ Reads(packet)
  /\ Serving
  /\ \/ packet.kind = "DIMS" /\ daemon' = "dims" /\ UNCHANGED sender
     \/ packet.kind = "START" /\ sender' = "on" /\ UNCHANGED daemon
     \/ /\ packet.kind = "STOP"
        /\ sender' = IF sender = "on" THEN "stopping" ELSE sender
        /\ UNCHANGED daemon
  /\ UNCHANGED <<transfer_status, peer>> /\ PhoneSide

\* Mutant: nothing is done about a CLOSE.
CloseIgnored(packet) ==
  /\ Reads(packet)
  /\ Serving /\ packet.kind = "CLOSE"
  /\ UNCHANGED host /\ PhoneSide

\* The sending goes on.
Closes(packet) ==
  /\ Reads(packet)
  /\ Serving /\ packet.kind = "CLOSE"
  /\ transfer_status' = "HANDSHAKE"
  /\ UNCHANGED <<daemon, peer, sender>> /\ PhoneSide

\* The send thread sees the kill flag.
SenderEnds ==
  /\ sender = "stopping" /\ sender' = "off"
  /\ UNCHANGED <<wire, daemon, transfer_status, peer>> /\ PhoneSide

-----------------------------------------------------------------------------
Packets == [kind : Kinds, session : Sessions]

DaemonReads ==
  \E packet \in Packets :
    Handshake(packet) \/ Drops(packet) \/ Serves(packet) \/ Closes(packet)

Main_thread ==
  \/ MainAlone \/ PhoneWrites \/ HandshakeBreaks
  \/ \E packet \in {"reply", "dims", "frame"} : HandshakeTakes(packet)

Read_thread(t) == ReaderAlone(t) \/ ReaderDelivers(t) \/ ReaderWrites(t)

SessionNext ==
  \/ UserDoes \/ PhoneOpens \/ Main_thread
  \/ \E t \in Readers :
       Read_thread(t) \/ \E packet \in {"reply", "dims", "frame"} : ReaderTakes(t, packet)
  \/ PulledOut \/ PluggedIn \/ Restart
  \/ DaemonReads \/ ReplyTimesOut \/ SenderEnds

SessionSpec == SessionInit /\ [][SessionNext]_all

\* The threads of both ends run, and the monitor is granted to a thread that goes on
\* waiting for it; the transfer of the dimensions is not passed over for ever by those
\* of frames.  The user owes nothing.
SessionFairness ==
  /\ WF_all(DaemonReads \/ ReplyTimesOut)
  /\ WF_all(Main_thread)
  /\ \A t \in Readers : SF_all(Read_thread(t)) /\ SF_all(ReaderTakes(t, "dims"))

FairSessionSpec == SessionSpec /\ SessionFairness

-----------------------------------------------------------------------------
(* Properties.                                                             *)

\* Type correctness, and what the daemon is sending fits its status.
SessionTypeOK ==
  /\ link \in {"up", "down"} /\ transfer_status \in {"HANDSHAKE", "WAITING"}
  /\ wire \in Seq(Packets) /\ Len(wire) <= MaxWire
  /\ daemon \in {"read", "reply", "dims"} /\ sender \in {"on", "stopping", "off"}
  /\ daemon = "reply" => transfer_status = "HANDSHAKE"
  /\ daemon = "dims" => transfer_status = "WAITING"
  /\ peer \in 0..sessions /\ holds \subseteq Readers
  /\ answered \subseteq 1..sessions /\ stolen \subseteq 1..sessions
  /\ orphans \subseteq 1..sessions

\* The daemon does what a session asks only after it took the handshake of that
\* session, unless the process it last shook hands with died without CLOSE: no
\* request is served under an earlier session's handshake, whatever frames the phone
\* mistook for a reply and however late replies were.
ServesItsPeer ==
  [][\A packet \in Packets :
       Serves(packet) \/ Closes(packet) => peer = packet.session \/ peer \in orphans]_all

\* A session whose handshake was ended by the daemon's reply to it has every packet
\* served: none is dropped because the daemon expects a handshake.
AnsweredIsServed ==
  [][\A packet \in Packets : Drops(packet) => packet.session \notin answered]_all

\* The newest session has its CLOSE behind it.
Closed == \E i \in DOMAIN log : log[i] = "CLOSE"

\* The session that goes on at the phone, and what the daemon is at with its peer.
Lasting == IF stream \in live /\ ~Closed THEN stream ELSE None
Phase   == IF daemon = "reply" THEN "shaking"
           ELSE IF Serving THEN "serving" ELSE "idle"

\* Both ends with the wire between them implement SessionPromise: a session is taken
\* up at most once and never after a later one, served only when it was answered, and
\* not given up by the daemon while it lasts at the phone, in spite of replies that
\* are late or stolen, cables that are pulled and processes that die.
Promise == INSTANCE SessionPromise WITH
  opened <- sessions, lasting <- Lasting, phase <- Phase

KeepsSessions == Promise!Spec

\* A phone that waits for the handshake reply gets it, or loses the connection, but
\* for two cases: the daemon still serves a process that died without CLOSE, and
\* drops the handshake without an answer; or a read thread that an earlier endIO
\* missed took the reply.
HandshakeEnds ==
  main = "reply"
    ~> \/ main # "reply"
       \/ peer \in orphans /\ transfer_status = "WAITING"
       \/ stream \in stolen

\* The dimensions are sent without a timeout.  While the phone's session goes on only
\* one thing can keep them waiting: the wire is full of packets that the daemon does
\* not read before it has sent them, and the thread of the phone that would take them
\* has something to write first, its handshake or the answer to earlier dimensions.
DimsWaitOnlyInGridlock ==
  <>[](daemon = "dims" /\ stream \in live /\ app = "runs")
    => <>[](/\ Len(wire) = MaxWire
            /\ main = "handshake" \/ \E t \in Readers : pc[t] \in {"answer", "write"})
=============================================================================
