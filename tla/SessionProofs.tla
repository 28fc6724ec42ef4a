--------------------------- MODULE SessionProofs ---------------------------
(* What the daemon serves in Session, for any number of sessions and any   *)
(* room on the wire: nothing under an earlier session's handshake, and     *)
(* everything under its own.                                               *)
EXTENDS Session, UAccessoryProofs

-----------------------------------------------------------------------------
(* The phone.  Whoever is in a handshake, in endIO or in a write has the   *)
(* monitor, and the CLOSE of a session that lasts is written in endIO.     *)
PhoneInv ==
  /\ DOMAIN pc = Readers
  /\ sessions \in 0..MaxSessions
  /\ stream \in {None, sessions}
  /\ isIO <=> stream # None
  /\ live \subseteq 1..sessions
  /\ log \in Seq(Entries)
  /\ main \in {"handshake", "reply", "close"} => monitor = Main
  /\ \A t \in Readers : pc[t] = "write" => monitor = t
  /\ stream \in live => (Closed <=> main = "close")

LEMMA PhoneInit == SessionInit => PhoneInv
  BY BoundsAssumption DEF SessionInit, Init, PhoneInv, Closed, Readers, None, Entries

LEMMA Apart == Main \notin Readers /\ None \notin Readers /\ Main # None /\ None = 0
  BY BoundsAssumption DEF Main, None, Readers

\* What Write does to the log.
LEMMA Logged ==
  ASSUME log \in Seq(Entries), NEW packet \in Entries, Write(packet)
  PROVE  /\ log' \in Seq(Entries)
         /\ packet # "CLOSE" => (Closed' <=> Closed)
         /\ packet = "CLOSE" /\ stream \in live => Closed'
<1>1. CASE log' = log
  BY <1>1 DEF Write, Closed
<1>2. CASE log' # log
  <2>1. log' = Append(log, packet)
    BY <1>2 DEF Write
  <2>2. /\ log' \in Seq(Entries) /\ Len(log) \in Nat
        /\ DOMAIN log = 1..Len(log) /\ DOMAIN log' = 1..(Len(log) + 1)
        /\ \A i \in 1..Len(log) : log'[i] = log[i]
        /\ log'[Len(log) + 1] = packet
    BY <2>1
  <2>3. \A i \in DOMAIN log' : i \in DOMAIN log \/ i = Len(log) + 1
    BY <2>2
  <2>4. Len(log) + 1 \in DOMAIN log'
    BY <2>2
  <2>. QED
    BY <2>2, <2>3, <2>4 DEF Closed
<1>3. packet = "CLOSE" /\ stream \in live => log' # log
  <2>. SUFFICES ASSUME packet = "CLOSE", stream \in live PROVE log' # log
    OBVIOUS
  <2>1. log' = Append(log, packet)
    BY DEF Write
  <2>2. Len(log') = Len(log) + 1 /\ Len(log) \in Nat
    BY <2>1
  <2>. QED
    BY <2>2
<1>. QED
  BY <1>1, <1>2, <1>3

\* Steps of the main thread that write nothing and open nothing.
LEMMA PhoneIdles ==
  ASSUME PhoneInv, UNCHANGED <<stream, sessions, isIO, log, pc>>,
         live' \in {live, {}},
         \/ main' = main /\ monitor' = monitor
         \/ /\ main' \notin {"handshake", "reply", "close"}
            /\ main \in {"handshake", "reply"} /\ monitor' = None
         \/ /\ main' \notin {"handshake", "reply", "close"}
            /\ main # "close" /\ monitor' = monitor
  PROVE  PhoneInv'
  BY Apart DEF PhoneInv, Closed

LEMMA PhoneMain ==
  ASSUME PhoneInv,
         \/ onResume \/ onPause \/ onDestroy \/ UserActs \/ Unplug \/ AlreadyIO
         \/ HandshakeThrows \/ OpenFails \/ EndCloses \/ Open \/ HandshakeWrites
         \/ EndWrites \/ MainSends \/ HandshakeSucceeds \/ HandshakeFails \/ Restart
  PROVE  PhoneInv'
<1>. USE DEF MainGoes
<1>1. CASE \/ onResume \/ onPause \/ onDestroy \/ UserActs \/ Unplug \/ AlreadyIO
           \/ HandshakeThrows \/ OpenFails
  BY <1>1, PhoneIdles
  DEF onResume, onPause, onDestroy, UserActs, Unplug, AlreadyIO, HandshakeThrows, OpenFails,
      fields, readers
<1>2. CASE EndCloses
  BY <1>2, Apart DEF EndCloses, PhoneInv
<1>3. CASE Open
  <2>1. sessions' \in 0..MaxSessions /\ stream' = sessions' /\ sessions' # None
        /\ live' \subseteq 1..sessions'
    BY <1>3, Apart, BoundsAssumption DEF Open, PhoneInv
  <2>2. ~Closed' /\ log' \in Seq(Entries)
    BY <1>3 DEF Open, Closed
  <2>. QED
    BY <1>3, <2>1, <2>2, Apart DEF Open, Free, PhoneInv, readers
<1>4. CASE HandshakeWrites \/ MainSends \/ HandshakeFails
  <2>1. /\ UNCHANGED <<stream, sessions, isIO, live, pc>>
        /\ log' = log \/ \E packet \in {"HANDSHAKE", "DATA", "FAILED"} : Write(packet)
    BY <1>4 DEF HandshakeWrites, MainSends, HandshakeFails, fields, readers
  <2>2. log' \in Seq(Entries) /\ (Closed' <=> Closed)
    BY <2>1, Logged DEF PhoneInv, Entries, Closed
  <2>. QED
    BY <1>4, <2>1, <2>2, Apart DEF HandshakeWrites, MainSends, HandshakeFails, PhoneInv
<1>5. CASE HandshakeSucceeds
  <2>1. /\ UNCHANGED <<stream, sessions, isIO, live>> /\ monitor' = None
        /\ main = "reply" /\ main' = "idle"
        /\ pc' = [pc EXCEPT ![stream] = "check"]
    BY <1>5 DEF HandshakeSucceeds, fields
  <2>2. log' \in Seq(Entries) /\ (Closed' <=> Closed)
    BY <1>5, Logged DEF HandshakeSucceeds, PhoneInv, Entries
  <2>3. \A t \in Readers : pc'[t] # "write"
    BY <2>1, Apart DEF PhoneInv
  <2>. QED
    BY <2>1, <2>2, <2>3 DEF PhoneInv
<1>6. CASE EndWrites
  <2>1. /\ UNCHANGED <<stream, sessions, isIO, live, pc>> /\ monitor = None /\ monitor' = Main
        /\ main' = "close"
        /\ (stream # None /\ Write("CLOSE")) \/ (stream = None /\ log' = log)
    BY <1>6 DEF EndWrites, Free, fields, readers
  <2>2. log' \in Seq(Entries) /\ (stream \in live => Closed')
    BY <2>1, Apart, Logged DEF PhoneInv, Entries
  <2>. QED
    BY <2>1, <2>2, Apart DEF PhoneInv
<1>7. CASE Restart
  <2>1. \A t \in Readers : pc'[t] # "write"
    BY <1>7 DEF Restart
  <2>. QED
    BY <1>7, <2>1, Apart DEF Restart, PhoneInv
<1>. QED
  BY <1>1, <1>2, <1>3, <1>4, <1>5, <1>6, <1>7

LEMMA PhoneReader ==
  ASSUME PhoneInv, NEW t \in Readers,
         \/ RunCheck(t) \/ RunLoads(t) \/ RunAnswers(t) \/ RunThrows(t) \/ RunReads(t)
         \/ RunDelivers(t) \/ RunWrites(t)
  PROVE  PhoneInv'
<1>1. /\ UNCHANGED <<main, stream, sessions, isIO, live>>
      /\ \E l : pc' = [pc EXCEPT ![t] = l]
  BY DEF RunCheck, RunLoads, RunAnswers, RunThrows, RunReads, RunDelivers, RunWrites,
         Goes, ReaderOnly, fields
<1>2. log' \in Seq(Entries) /\ (Closed' <=> Closed)
  <2>1. log' = log \/ Write("DATA")
    BY DEF RunCheck, RunLoads, RunAnswers, RunThrows, RunReads, RunDelivers, RunWrites
  <2>. QED
    BY <2>1, Logged DEF PhoneInv, Entries, Closed
<1>3. CASE RunAnswers(t) \/ RunWrites(t)
  BY <1>1, <1>2, <1>3, Apart DEF RunAnswers, RunWrites, Free, Goes, PhoneInv
<1>4. CASE RunCheck(t) \/ RunLoads(t) \/ RunThrows(t) \/ RunReads(t) \/ RunDelivers(t)
  <2>1. monitor' = monitor /\ \A r \in Readers : pc'[r] = "write" => pc[r] = "write"
    BY <1>4 DEF RunCheck, RunLoads, RunThrows, RunReads, RunDelivers, Goes, PhoneInv
  <2>. QED
    BY <1>1, <1>2, <2>1 DEF PhoneInv
<1>. QED
  BY <1>3, <1>4

\* Every step is one of the phone's threads, or leaves the phone alone.
LEMMA PhoneStep ==
  ASSUME PhoneInv, [SessionNext]_all
  PROVE  PhoneInv'
<1>1. CASE UserDoes \/ MainAlone \/ PhoneOpens \/ PhoneWrites \/ HandshakeBreaks \/ Restart
           \/ \E packet \in {"reply", "dims", "frame"} : HandshakeTakes(packet)
  BY <1>1, PhoneMain
  DEF UserDoes, MainAlone, PhoneOpens, PhoneWrites, HandshakeBreaks, HandshakeTakes
<1>2. ASSUME NEW t \in Readers,
             Read_thread(t) \/ \E packet \in {"reply", "dims", "frame"} : ReaderTakes(t, packet)
      PROVE  PhoneInv'
  BY <1>2, PhoneReader DEF Read_thread, ReaderAlone, ReaderDelivers, ReaderWrites, ReaderTakes
<1>3. CASE UNCHANGED vars
  <2>1. UNCHANGED <<stream, sessions, isIO, log, pc, main, monitor, live>>
    BY <1>3 DEF vars, fields, readers
  <2>. QED
    BY <2>1 DEF PhoneInv, Closed
<1>4. CASE PulledOut
  BY <1>3, <1>4, PhoneMain DEF PulledOut
<1>5. CASE PluggedIn \/ DaemonReads \/ ReplyTimesOut \/ SenderEnds \/ UNCHANGED all
  <2>1. UNCHANGED vars
    BY <1>5
    DEF PluggedIn, DaemonReads, Handshake, Drops, Serves, Closes, ReplyTimesOut, SenderEnds,
        PhoneSide, all
  <2>. QED
    BY <2>1, <1>3
<1>. QED
  BY <1>1, <1>2, <1>4, <1>5 DEF SessionNext, Main_thread

-----------------------------------------------------------------------------
(* The kinds of steps, as far as wire and daemon are concerned.            *)

\* Nobody reads or writes, and no session begins or ends.
Quiet ==
  /\ UNCHANGED <<stream, sessions, live, log, link, wire, daemon, transfer_status, peer>>
  /\ UNCHANGED <<answered, orphans>>
  /\ main' = "handshake" => main = "handshake"

\* The phone puts a packet of the newest session on the wire.
Putting(kind) ==
  /\ UNCHANGED <<stream, sessions, live, link, daemon, transfer_status, peer, answered, orphans>>
  /\ stream \in live /\ Len(wire) < MaxWire
  /\ wire' = Append(wire, [kind |-> kind, session |-> stream])
  /\ ~Closed /\ (Closed' <=> kind = "CLOSE")
  /\ kind = "HANDSHAKE" => main = "handshake"
  /\ main = "handshake" => kind = "HANDSHAKE"
  /\ main' # "handshake"

\* No packet, because there is no connection.
Unheard ==
  /\ UNCHANGED <<stream, sessions, live, link, wire, daemon, transfer_status, peer>>
  /\ UNCHANGED <<answered, orphans>>
  /\ stream \notin live
  /\ main' = "handshake" => main = "handshake"

\* A thread of the phone takes what the daemon sends.
Taking ==
  /\ UNCHANGED <<stream, sessions, live, link, wire, peer, orphans>>
  /\ (Closed' <=> Closed)
  /\ main' # "handshake" \/ main' = main
  /\ \/ /\ UNCHANGED <<transfer_status, answered>>
        /\ daemon' = daemon \/ (daemon = "dims" /\ daemon' = "read")
     \/ /\ daemon = "reply" /\ daemon' = "read" /\ transfer_status' = "WAITING"
        /\ \/ answered' = answered
           \/ peer = stream /\ answered' = answered \cup {stream}

\* The read thread reads a packet that it serves, drops or is closed by.
Reading(packet) ==
  /\ UNCHANGED <<stream, sessions, live, log, link, main, answered, orphans>>
  /\ Reads(packet)
  /\ \/ /\ transfer_status = "HANDSHAKE" /\ packet.kind = "HANDSHAKE"
        /\ daemon' = "reply" /\ peer' = packet.session
        /\ UNCHANGED transfer_status
     \/ /\ UNCHANGED <<transfer_status, peer, daemon>>
        /\ transfer_status = "HANDSHAKE" <=> packet.kind # "HANDSHAKE"
     \/ /\ transfer_status # "HANDSHAKE" /\ packet.kind \notin {"HANDSHAKE", "CLOSE"}
        /\ UNCHANGED <<transfer_status, peer>> /\ daemon' \in {"read", "dims"}
     \/ /\ transfer_status # "HANDSHAKE" /\ packet.kind = "CLOSE"
        /\ transfer_status' = "HANDSHAKE" /\ UNCHANGED <<daemon, peer>>

\* The reply is given up.
GivesUp ==
  /\ UNCHANGED <<stream, sessions, live, log, link, wire, transfer_status, peer, main>>
  /\ UNCHANGED <<answered, orphans>>
  /\ daemon = "reply" /\ daemon' = "read"

LEMMA Writing ==
  ASSUME PhoneInv, NEW kind \in Kinds, NEW packet \in Entries, Write(packet),
         stream \in live, Puts(kind), UNCHANGED <<link, host, holds, ghost>>,
         UNCHANGED <<stream, sessions, live>>, main # "close", main' # "handshake",
         kind = "CLOSE" <=> packet = "CLOSE",
         kind = "HANDSHAKE" <=> main = "handshake"
  PROVE  Putting(kind)
  BY Logged DEF PhoneInv, Putting, Puts, host, ghost

LEMMA StepKinds ==
  ASSUME PhoneInv, [SessionNext]_all
  PROVE  \/ Quiet \/ Unheard \/ Taking \/ GivesUp
         \/ \E kind \in Kinds : Putting(kind)
         \/ \E packet \in Packets : Reading(packet)
         \/ PhoneOpens \/ (EndCloses /\ Untouched) \/ PulledOut \/ PluggedIn \/ Restart
<1>. USE DEF MainGoes, fields, readers, host, ghost, Untouched
<1>1. CASE UserDoes
  BY <1>1 DEF UserDoes, onResume, onPause, onDestroy, UserActs, Quiet
<1>2. CASE MainAlone
  BY <1>2 DEF MainAlone, AlreadyIO, HandshakeThrows, OpenFails, Quiet
<1>3. CASE PhoneWrites
  <2>1. CASE HandshakeWrites /\ Puts("HANDSHAKE")
    <3>1. /\ stream \in live /\ main = "handshake" /\ main' = "reply" /\ Write("HANDSHAKE")
          /\ UNCHANGED <<stream, sessions, live>>
      BY <2>1 DEF HandshakeWrites
    <3>2. Putting("HANDSHAKE")
      BY <1>3, <2>1, <3>1, Writing DEF PhoneWrites, Kinds, Entries
    <3>. QED BY <3>2 DEF Kinds
  <2>2. CASE EndWrites /\ Puts("CLOSE")
    <3>1. /\ main = "endIO" /\ main' = "close" /\ UNCHANGED <<stream, sessions, live>>
          /\ stream # None => Write("CLOSE")
      BY <2>2 DEF EndWrites
    <3>2. CASE stream \in live
      <4>1. stream # None
        BY <3>2, Apart DEF PhoneInv
      <4>2. Putting("CLOSE")
        BY <1>3, <2>2, <3>1, <3>2, <4>1, Writing DEF PhoneWrites, Kinds, Entries
      <4>. QED BY <4>2 DEF Kinds
    <3>3. CASE stream \notin live
      BY <1>3, <2>2, <3>1, <3>3 DEF PhoneWrites, Puts, Unheard
    <3>. QED BY <3>2, <3>3
  <2>3. CASE MainSends /\ (Puts("DIMS") \/ Puts("STOP"))
    <3>1. /\ main = "sendData" /\ main' = "idle" /\ UNCHANGED <<stream, sessions, live>>
          /\ stream # None => Write("DATA")
      BY <2>3 DEF MainSends
    <3>2. CASE stream \in live
      <4>1. stream # None
        BY <3>2, Apart DEF PhoneInv
      <4>2. PICK kind \in {"DIMS", "STOP"} : Puts(kind)
        BY <2>3
      <4>3. kind \in Kinds /\ Putting(kind)
        BY <1>3, <3>1, <3>2, <4>1, <4>2, Writing DEF PhoneWrites, Kinds, Entries
      <4>. QED BY <4>3
    <3>3. CASE stream \notin live
      BY <1>3, <2>3, <3>1, <3>3 DEF PhoneWrites, Puts, Unheard
    <3>. QED BY <3>2, <3>3
  <2>. QED BY <1>3, <2>1, <2>2, <2>3 DEF PhoneWrites
<1>4. CASE HandshakeBreaks
  BY <1>4 DEF HandshakeBreaks, HandshakeFails, Unheard
<1>5. ASSUME NEW packet \in {"reply", "dims", "frame"}, HandshakeTakes(packet) PROVE Taking
  <2>1. Closed' <=> Closed
    BY <1>5, Logged DEF HandshakeTakes, HandshakeSucceeds, PhoneInv, Entries
  <2>2. /\ UNCHANGED <<stream, sessions, live>> /\ main' = "idle"
    BY <1>5 DEF HandshakeTakes, HandshakeSucceeds
  <2>. QED
    BY <1>5, <2>1, <2>2 DEF HandshakeTakes, Takes, Offers, Taking
<1>6. ASSUME NEW t \in Readers, ReaderAlone(t) \/ ReaderDelivers(t) PROVE Quiet
  BY <1>6
  DEF ReaderAlone, ReaderDelivers, RunCheck, RunLoads, RunAnswers, RunThrows, RunDelivers,
      ReaderOnly, Quiet
<1>7. ASSUME NEW t \in Readers, ReaderWrites(t)
      PROVE  Unheard \/ \E kind \in Kinds : Putting(kind)
  <2>1. /\ UNCHANGED <<main, stream, sessions, live>> /\ (stream # None => Write("DATA"))
        /\ main \notin {"handshake", "reply", "close"}
    BY <1>7, Apart DEF ReaderWrites, RunWrites, Goes, ReaderOnly, PhoneInv
  <2>2. CASE stream \in live
    <3>1. stream # None
      BY <2>2, Apart DEF PhoneInv
    <3>2. Putting("START")
      BY <1>7, <2>1, <2>2, <3>1, Writing DEF ReaderWrites, Kinds, Entries
    <3>. QED BY <3>2 DEF Kinds
  <2>3. CASE stream \notin live
    BY <1>7, <2>1, <2>3 DEF ReaderWrites, Puts, Unheard
  <2>. QED BY <2>2, <2>3
<1>8. ASSUME NEW t \in Readers, NEW packet \in {"reply", "dims", "frame"}, ReaderTakes(t, packet)
      PROVE  Taking
  <2>1. UNCHANGED <<main, stream, sessions, live, log>>
    BY <1>8 DEF ReaderTakes, RunReads, ReaderOnly
  <2>. QED
    BY <1>8, <2>1 DEF ReaderTakes, Takes, Offers, Taking, Closed
<1>9. CASE DaemonReads
  <2>1. PICK packet \in Packets :
          Handshake(packet) \/ Drops(packet) \/ Serves(packet) \/ Closes(packet)
    BY <1>9 DEF DaemonReads
  <2>2. /\ UNCHANGED <<stream, sessions, live, log, link, main, answered, orphans>>
        /\ Reads(packet)
    BY <2>1 DEF Handshake, Drops, Serves, Closes, PhoneSide, vars
  <2>3. Reading(packet)
    BY <2>1, <2>2 DEF Handshake, Drops, Serves, Closes, Serving, Reads, Reading
  <2>. QED BY <2>3
<1>10. CASE ReplyTimesOut
  BY <1>10 DEF ReplyTimesOut, GivesUp, PhoneSide, vars
<1>11. CASE SenderEnds \/ UNCHANGED all
  BY <1>11 DEF SenderEnds, Quiet, PhoneSide, vars, all
<1>. QED
  BY <1>1, <1>2, <1>3, <1>4, <1>5, <1>6, <1>7, <1>8, <1>9, <1>10, <1>11
  DEF SessionNext, Main_thread, Read_thread

-----------------------------------------------------------------------------
(* The wire and the daemon: types, and what a connection that is down      *)
(* leaves behind.                                                          *)
WireInv ==
  /\ wire \in Seq(Packets) /\ Len(wire) <= MaxWire
  /\ \A i \in 1..Len(wire) : wire[i].session <= sessions
  /\ link \in {"up", "down"} /\ transfer_status \in {"HANDSHAKE", "WAITING"}
  /\ daemon \in {"read", "reply", "dims"}
  /\ link = "down" => wire = <<>> /\ live = {} /\ daemon = "read"
  /\ daemon = "reply" => transfer_status = "HANDSHAKE" /\ peer # None
  /\ daemon = "dims" => transfer_status = "WAITING"
  /\ peer \in 0..sessions /\ answered \subseteq 1..sessions /\ orphans \subseteq 1..sessions

Inv == PhoneInv /\ WireInv

LEMMA WireInit == SessionInit => WireInv
  BY WireAssumption DEF SessionInit, Init, WireInv, None

LEMMA Addressed ==
  ASSUME Inv
  PROVE  /\ sessions \in Nat /\ MaxSessions \in Nat /\ MaxWire \in Nat /\ Len(wire) \in Nat
         /\ \A i \in 1..Len(wire) : wire[i] \in Packets /\ wire[i].session \in 1..sessions
<1>1. sessions \in Nat /\ MaxSessions \in Nat /\ MaxWire \in Nat
  BY BoundsAssumption, WireAssumption DEF Inv, PhoneInv
<1>2. wire \in Seq(Packets) /\ \A i \in 1..Len(wire) : wire[i].session <= sessions
  BY DEF Inv, WireInv
<1>3. \A packet \in Packets : packet.session \in 1..MaxSessions
  BY DEF Packets, Sessions
<1>4. Len(wire) \in Nat /\ \A i \in 1..Len(wire) : wire[i] \in Packets
  BY <1>2
<1>5. ASSUME NEW i \in 1..Len(wire) PROVE wire[i].session \in 1..sessions
  <2>1. wire[i].session \in 1..MaxSessions /\ wire[i].session <= sessions
    BY <1>2, <1>3, <1>4
  <2>. QED
    BY <1>1, <2>1
<1>. QED
  BY <1>1, <1>4, <1>5

\* What reading takes off the wire.
LEMMA Read ==
  ASSUME WireInv, NEW packet \in Packets, Reads(packet)
  PROVE  /\ wire \in Seq(Packets) /\ Len(wire) \in Nat \ {0} /\ packet = wire[1] /\ link = "up"
         /\ wire' \in Seq(Packets) /\ Len(wire') = Len(wire) - 1
         /\ \A i \in 1..Len(wire') : wire'[i] = wire[i + 1] /\ i + 1 \in 1..Len(wire)
  BY DEF Reads, WireInv

\* What putting adds to it.
LEMMA Put ==
  ASSUME Inv, NEW kind \in Kinds, Putting(kind)
  PROVE  /\ stream \in Sessions /\ stream = sessions /\ link = "up"
         /\ wire \in Seq(Packets) /\ wire' \in Seq(Packets)
         /\ Len(wire) \in Nat /\ Len(wire') = Len(wire) + 1
         /\ \A i \in 1..Len(wire) : wire'[i] = wire[i]
         /\ wire'[Len(wire) + 1] = [kind |-> kind, session |-> stream]
<1>1. stream \in Sessions /\ stream = sessions
  BY Apart, BoundsAssumption DEF Putting, Inv, PhoneInv, Sessions
<1>2. [kind |-> kind, session |-> stream] \in Packets /\ link = "up"
  BY <1>1 DEF Packets, Putting, Inv, WireInv
<1>. QED
  BY <1>1, <1>2 DEF Putting, Inv, WireInv

LEMMA WireStep ==
  ASSUME Inv, [SessionNext]_all
  PROVE  WireInv'
<1>0. PhoneInv /\ WireInv
  BY DEF Inv
<1>1. CASE Quiet \/ Unheard \/ GivesUp
  BY <1>0, <1>1 DEF Quiet, Unheard, GivesUp, WireInv
<1>2. CASE Taking
  <2>1. answered' \subseteq 1..sessions
    <3>1. daemon = "reply" => peer \in 1..sessions
      BY <1>0, Addressed, Apart DEF WireInv
    <3>2. answered' = answered \/ (daemon = "reply" /\ answered' = answered \cup {peer})
      BY <1>2 DEF Taking
    <3>. QED
      BY <1>0, <3>1, <3>2 DEF WireInv
  <2>. QED
    BY <1>0, <1>2, <2>1 DEF Taking, WireInv
<1>3. ASSUME NEW kind \in Kinds, Putting(kind) PROVE WireInv'
  <2>1. Len(wire') <= MaxWire
    BY <1>0, <1>3, Put, Addressed DEF Putting, WireInv
  <2>2. \A i \in 1..Len(wire') : wire'[i].session <= sessions
    <3>1. /\ Len(wire) \in Nat /\ Len(wire') = Len(wire) + 1
          /\ \A i \in 1..Len(wire) : wire'[i] = wire[i]
          /\ wire'[Len(wire) + 1].session = sessions
      <4>1. wire'[Len(wire) + 1] = [kind |-> kind, session |-> stream] /\ stream = sessions
        BY <1>3, Put
      <4>2. wire'[Len(wire) + 1].session = sessions
        BY <4>1
      <4>. QED
        BY <1>3, <4>2, Put
    <3>2. \A i \in 1..Len(wire') : i \in 1..Len(wire) \/ i = Len(wire) + 1
      BY <3>1
    <3>. QED
      BY <3>1, <3>2, Addressed
  <2>. QED
    BY <1>0, <1>3, <2>1, <2>2, Put DEF Putting, WireInv
<1>4. ASSUME NEW packet \in Packets, Reading(packet) PROVE WireInv'
  <2>1. /\ Reads(packet) /\ UNCHANGED <<sessions, live, link, answered, orphans>>
    BY <1>0, <1>4 DEF Reading
  <2>2. packet.session \in 1..sessions
    BY <1>0, <2>1, Read, Addressed
  <2>3. /\ Len(wire') <= MaxWire
        /\ \A i \in 1..Len(wire') : wire'[i].session <= sessions
    BY <1>0, <2>1, Read, Addressed DEF WireInv
  <2>4. /\ peer' \in 0..sessions /\ daemon' \in {"read", "reply", "dims"}
        /\ transfer_status' \in {"HANDSHAKE", "WAITING"}
        /\ daemon' = "reply" => transfer_status' = "HANDSHAKE" /\ peer' # None
        /\ daemon' = "dims" => transfer_status' = "WAITING"
    BY <1>0, <1>4, <2>1, <2>2, Apart DEF Reading, Reads, WireInv, PhoneInv
  <2>. QED
    BY <1>0, <2>1, <2>3, <2>4, Read DEF WireInv
<1>5. CASE PhoneOpens
  <2>1. /\ sessions' = sessions + 1 /\ link' = "up" /\ sessions \in Nat
        /\ UNCHANGED <<wire, daemon, transfer_status, peer, answered, orphans>>
    BY <1>0, <1>5, BoundsAssumption DEF PhoneOpens, Open, PhoneInv, host, ghost
  <2>2. \A i \in 1..Len(wire) : wire[i].session <= sessions + 1
    BY <1>0, Addressed
  <2>. QED
    BY <1>0, <2>1, <2>2 DEF WireInv
<1>6. CASE EndCloses /\ Untouched
  BY <1>0, <1>6 DEF EndCloses, Untouched, host, ghost, WireInv
<1>7. CASE PulledOut
  <2>1. live' = {} /\ sessions' = sessions
    BY <1>0, <1>7 DEF PulledOut, Unplug, vars, fields
  <2>2. Len(wire') = 0 /\ wire' \in Seq(Packets)
    BY <1>0, <1>7 DEF PulledOut
  <2>. QED
    BY <1>0, <1>7, <2>1, <2>2, WireAssumption DEF PulledOut, host, ghost, WireInv
<1>8. CASE PluggedIn
  BY <1>0, <1>8 DEF PluggedIn, ghost, vars, fields, WireInv
<1>9. CASE Restart
  <2>1. orphans' \subseteq 1..sessions
    BY <1>0, <1>9 DEF Restart, WireInv, PhoneInv
  <2>. QED
    BY <1>0, <1>9, <2>1 DEF Restart, host, WireInv
<1>. QED
  BY <1>0, <1>1, <1>2, <1>3, <1>4, <1>5, <1>6, <1>7, <1>8, <1>9, StepKinds

LEMMA InvStep ==
  ASSUME Inv, [SessionNext]_all
  PROVE  Inv'
  BY PhoneStep, WireStep DEF Inv

\* SessionTypeOK: both ends and the wire keep their types, the daemon answers a
\* handshake only while it expects one, and sends dimensions only when it does not.
THEOREM SessionTyped == SessionSpec => []SessionTypeOK
<1>. DEFINE Rest == sender \in {"on", "stopping", "off"} /\ holds \subseteq Readers
                    /\ stolen \subseteq 1..sessions
<1>1. SessionInit => Inv /\ Rest
  BY PhoneInit, WireInit DEF SessionInit, Init, Inv
<1>2. Inv /\ Rest /\ [SessionNext]_all => (Inv /\ Rest)'
  <2>. SUFFICES ASSUME Inv, Rest, [SessionNext]_all PROVE (Inv /\ Rest)'
    OBVIOUS
  <2>1. sender' \in {"on", "stopping", "off"}
    BY DEF SessionNext, UserDoes, PhoneOpens, Main_thread, MainAlone, PhoneWrites, HandshakeBreaks,
           HandshakeTakes, Takes, Read_thread, ReaderAlone, ReaderDelivers, ReaderWrites,
           ReaderTakes, PulledOut, PluggedIn, Restart, DaemonReads, Handshake, Drops, Serves,
           Closes, ReplyTimesOut, SenderEnds, Untouched, host, all
  <2>2. holds' \subseteq Readers
    BY DEF SessionNext, UserDoes, PhoneOpens, Main_thread, MainAlone, PhoneWrites, HandshakeBreaks,
           HandshakeTakes, Takes, Read_thread, ReaderAlone, ReaderDelivers, ReaderWrites,
           ReaderTakes, PulledOut, PluggedIn, Restart, DaemonReads, Handshake, Drops, Serves,
           Closes, ReplyTimesOut, SenderEnds, Untouched, PhoneSide, all
  <2>3. stolen' = stolen \/ (stolen' = stolen \cup {peer} /\ daemon = "reply")
    BY DEF SessionNext, UserDoes, PhoneOpens, Main_thread, MainAlone, PhoneWrites, HandshakeBreaks,
           HandshakeTakes, Takes, Offers, Read_thread, ReaderAlone, ReaderDelivers, ReaderWrites,
           ReaderTakes, PulledOut, PluggedIn, Restart, DaemonReads, Handshake, Drops, Serves,
           Closes, ReplyTimesOut, SenderEnds, Untouched, PhoneSide, ghost, all
  <2>4. sessions' \in {sessions, sessions + 1} /\ sessions \in Nat
    BY StepKinds, Addressed
    DEF Quiet, Unheard, Taking, GivesUp, Putting, Reading, PhoneOpens, Open, EndCloses,
        PulledOut, Unplug, PluggedIn, Restart, vars, fields, Inv, PhoneInv
  <2>5. stolen' \subseteq 1..sessions'
    <3>1. daemon = "reply" => peer \in 1..sessions
      BY <2>4, Apart DEF Inv, WireInv
    <3>2. stolen' \subseteq 1..sessions
      <4>. HIDE DEF Inv
      <4>. QED
        BY <2>3, <3>1
    <3>3. 1..sessions \subseteq 1..sessions'
      BY <2>4
    <3>. QED
      BY <3>2, <3>3
  <2>. QED
    BY <2>1, <2>2, <2>5, InvStep
<1>3. Inv /\ Rest => SessionTypeOK
  BY DEF Inv, WireInv, SessionTypeOK
<1>. QED
  BY <1>1, <1>2, <1>3, PTL DEF SessionSpec

-----------------------------------------------------------------------------
(* What is served is served under its own handshake.                       *)

Close(p) == [kind |-> "CLOSE", session |-> p]
Shake(p) == [kind |-> "HANDSHAKE", session |-> p]

\* The session goes on, and its CLOSE is not written.
Lasts(p) == stream = p /\ p \in live /\ ~Closed

\* From here on the wire is p's up to p's CLOSE.
Good(p, from) ==
  /\ \A j \in from..Len(wire) :
       wire[j].session # p => \E i \in from..(j - 1) : wire[i] = Close(p)
  /\ (\A i \in from..Len(wire) : wire[i] # Close(p)) => Lasts(p)

\* The daemon took a handshake and no CLOSE since.
Under == transfer_status = "WAITING" \/ daemon = "reply"

ServesInv ==
  /\ Under => peer # None
  /\ link = "up" =>
       /\ \A h \in 1..Len(wire) : \A p \in Sessions :
            wire[h] = Shake(p) /\ p \notin orphans => Good(p, h + 1)
       /\ \A p \in Sessions : peer = p /\ Under /\ p \notin orphans => Good(p, 1)

\* While the wire is as it was, only the end of p can do harm.
LEMMA GoodKept ==
  ASSUME NEW p, NEW n, wire' = wire, Lasts(p) => Lasts(p)', Good(p, n)
  PROVE  Good(p, n)'
  BY DEF Good

\* What is put on the wire comes from p, unless p's CLOSE is there already.
LEMMA GoodPut ==
  ASSUME Inv, NEW kind \in Kinds, Putting(kind), NEW p, NEW n \in 1..(Len(wire) + 1),
         Good(p, n)
  PROVE  Good(p, n)'
<1>1. /\ Len(wire) \in Nat /\ Len(wire') = Len(wire) + 1
      /\ \A i \in 1..Len(wire) : wire'[i] = wire[i]
      /\ wire'[Len(wire) + 1] = [kind |-> kind, session |-> stream]
  BY Put
<1>2. stream' = stream /\ live' = live /\ (Closed' <=> kind = "CLOSE")
  BY DEF Putting
<1>3. \A i \in n..Len(wire) : i \in n..Len(wire') /\ i \in 1..Len(wire)
  BY <1>1
<1>4. \A j \in n..Len(wire') : j \in n..Len(wire) \/ j = Len(wire) + 1
  BY <1>1
<1>5. ASSUME NEW j \in n..Len(wire'), wire'[j].session # p
      PROVE  \E i \in n..(j - 1) : wire'[i] = Close(p)
  <2>1. CASE j \in n..Len(wire)
    <3>1. PICK i \in n..(j - 1) : wire[i] = Close(p)
      BY <1>1, <1>3, <1>5, <2>1 DEF Good
    <3>2. i \in 1..Len(wire)
      BY <1>1, <2>1
    <3>. QED
      BY <1>1, <3>1, <3>2
  <2>2. CASE j = Len(wire) + 1
    <3>1. stream # p
      BY <1>1, <1>5, <2>2
    <3>2. PICK i \in n..Len(wire) : wire[i] = Close(p)
      BY <3>1 DEF Good, Lasts
    <3>3. i \in n..(j - 1) /\ wire'[i] = wire[i]
      BY <1>1, <1>3, <2>2
    <3>. QED
      BY <3>2, <3>3
  <2>. QED
    BY <1>4, <1>5, <2>1, <2>2
<1>6. ASSUME \A i \in n..Len(wire') : wire'[i] # Close(p)
      PROVE  Lasts(p)'
  <2>1. Lasts(p)
    BY <1>1, <1>3, <1>6 DEF Good
  <2>2. Len(wire) + 1 \in n..Len(wire')
    BY <1>1
  <2>3. kind # "CLOSE"
    BY <1>1, <1>6, <2>1, <2>2 DEF Close, Lasts
  <2>. QED
    BY <1>2, <2>1, <2>3 DEF Lasts
<1>. QED
  BY <1>5, <1>6 DEF Good

\* Reading moves the wire up.
LEMMA GoodRead ==
  ASSUME Inv, NEW packet \in Packets, Reading(packet), NEW p, NEW n \in Nat,
         Good(p, n + 1) \/ (Good(p, n) /\ n = 1 /\ wire[1] # Close(p)),
         n >= 1
  PROVE  Good(p, n)'
<1>1. /\ Len(wire) \in Nat \ {0} /\ Len(wire') = Len(wire) - 1
      /\ \A i \in 1..Len(wire') : wire'[i] = wire[i + 1]
  BY Read DEF Reading, Inv
<1>2. Lasts(p) => Lasts(p)'
  BY DEF Lasts, Reading, Closed
<1>3. PICK m \in {n, n + 1} : Good(p, m) /\ (m = n => n = 1 /\ wire[1] # Close(p))
  <2>1. CASE Good(p, n + 1)
    <3>. n + 1 # n
      OBVIOUS
    <3>. QED
      BY <2>1
  <2>2. CASE Good(p, n) /\ n = 1 /\ wire[1] # Close(p)
    BY <2>2
  <2>. QED
    BY <2>1, <2>2
<1>4. ASSUME NEW i \in m..Len(wire), wire[i] = Close(p)
      PROVE  i \in (n + 1)..Len(wire) /\ i - 1 \in 1..Len(wire') /\ wire'[i - 1] = Close(p)
  <2>1. i \in (n + 1)..Len(wire)
    <3>1. CASE m = n
      <4>1. i # 1
        BY <1>3, <1>4, <3>1
      <4>. QED
        BY <1>1, <1>3, <1>4, <3>1, <4>1
    <3>2. CASE m = n + 1
      BY <1>4, <3>2
    <3>. QED
      BY <3>1, <3>2
  <2>2. i - 1 \in 1..Len(wire') /\ (i - 1) + 1 = i
    BY <1>1, <2>1
  <2>. QED
    BY <1>1, <1>4, <2>1, <2>2
<1>5. ASSUME NEW j \in n..Len(wire'), wire'[j].session # p
      PROVE  \E i \in n..(j - 1) : wire'[i] = Close(p)
  <2>1. j \in 1..Len(wire') /\ j + 1 \in m..Len(wire) /\ wire[j + 1].session # p
    BY <1>1, <1>5
  <2>2. PICK i \in m..j : wire[i] = Close(p)
    BY <2>1 DEF Good
  <2>3. i \in m..Len(wire)
    BY <1>1, <2>1
  <2>4. i \in (n + 1)..Len(wire) /\ wire'[i - 1] = Close(p)
    BY <1>4, <2>2, <2>3
  <2>5. i - 1 \in n..(j - 1)
    BY <1>1, <2>1, <2>4
  <2>. QED
    BY <2>4, <2>5
<1>6. ASSUME \A i \in n..Len(wire') : wire'[i] # Close(p)
      PROVE  Lasts(p)'
  <2>1. ASSUME NEW i \in m..Len(wire), wire[i] = Close(p) PROVE FALSE
    <3>1. i \in (n + 1)..Len(wire) /\ wire'[i - 1] = Close(p)
      BY <1>4, <2>1
    <3>2. i - 1 \in n..Len(wire')
      BY <1>1, <3>1
    <3>. QED
      BY <1>6, <3>1, <3>2
  <2>. QED
    BY <1>2, <1>3, <2>1 DEF Good
<1>. QED
  BY <1>5, <1>6 DEF Good

\* The session of a packet is named.
LEMMA Kind ==
  ASSUME NEW packet \in Packets
  PROVE  /\ packet = [kind |-> packet.kind, session |-> packet.session]
         /\ packet.session \in Sessions
  BY DEF Packets

\* A session that ends writes its CLOSE, unless its process dies or the connection is
\* gone: steps that leave the wire alone.
LEMMA ServesKept ==
  ASSUME ServesInv, UNCHANGED <<link, wire>>, orphans \subseteq orphans', peer' = peer,
         transfer_status' = "WAITING" => transfer_status = "WAITING" \/ daemon = "reply",
         daemon' = "reply" => daemon = "reply",
         \A p \in Sessions : Lasts(p) /\ p \notin orphans' => Lasts(p)'
  PROVE  ServesInv'
<1>1. Under' => Under
  BY DEF Under
<1>2. CASE link = "up"
  <2>1. ASSUME NEW h \in 1..Len(wire), NEW p \in Sessions, wire[h] = Shake(p), p \notin orphans'
        PROVE  Good(p, h + 1)'
    <3>1. Good(p, h + 1) /\ (Lasts(p) => Lasts(p)')
      BY <1>2, <2>1 DEF ServesInv
    <3>2. ASSUME NEW n, n = h + 1 PROVE Good(p, n)'
      BY <3>1, <3>2, GoodKept
    <3>. QED
      BY <3>2 DEF Good
  <2>2. ASSUME NEW p \in Sessions, peer = p, Under', p \notin orphans'
        PROVE  Good(p, 1)'
    BY <1>1, <1>2, <2>2, GoodKept DEF ServesInv
  <2>. QED
    BY <1>1, <2>1, <2>2 DEF ServesInv, Shake
<1>3. CASE link # "up"
  BY <1>1, <1>3 DEF ServesInv
<1>. QED
  BY <1>2, <1>3

LEMMA ServesStep ==
  ASSUME Inv, ServesInv, [SessionNext]_all
  PROVE  ServesInv'
<1>0. PhoneInv /\ WireInv
  BY DEF Inv
<1>1. CASE Quiet \/ GivesUp \/ Taking
  BY <1>1, ServesKept DEF Quiet, GivesUp, Taking, Lasts, Closed
<1>2. CASE Unheard
  BY <1>2, ServesKept DEF Unheard, Lasts
<1>3. CASE EndCloses /\ Untouched
  <2>1. \A p \in Sessions : ~Lasts(p)
    BY <1>0, <1>3 DEF EndCloses, MainGoes, PhoneInv, Lasts
  <2>. QED
    BY <1>3, <2>1, ServesKept DEF Untouched, host, ghost
<1>4. CASE PhoneOpens
  <2>1. \A p \in Sessions : ~Lasts(p)
    BY <1>0, <1>4, Apart DEF PhoneOpens, Open, PhoneInv, Lasts, Sessions
  <2>. QED
    BY <1>4, <2>1, ServesKept DEF PhoneOpens, host, ghost
<1>5. CASE Restart
  <2>1. \A p \in Sessions : Lasts(p) => p \in orphans'
    BY <1>5 DEF Restart, Lasts, Closed
  <2>. QED
    BY <1>5, <2>1, ServesKept DEF Restart, host
<1>6. CASE PulledOut
  BY <1>0, <1>6 DEF PulledOut, WireInv, ServesInv, Under
<1>7. CASE PluggedIn
  BY <1>0, <1>7 DEF PluggedIn, WireInv, ServesInv, Under
<1>8. ASSUME NEW kind \in Kinds, Putting(kind) PROVE ServesInv'
  <2>1. /\ Len(wire) \in Nat /\ Len(wire') = Len(wire) + 1 /\ link = "up"
        /\ \A i \in 1..Len(wire) : wire'[i] = wire[i]
        /\ wire'[Len(wire) + 1] = [kind |-> kind, session |-> stream]
    BY <1>8, Put
  <2>2. /\ UNCHANGED <<link, peer, orphans>> /\ (Under' <=> Under)
        /\ stream' = stream /\ live' = live /\ stream \in live /\ (Closed' <=> kind = "CLOSE")
    BY <1>8 DEF Putting, Under
  <2>3. ASSUME NEW h \in 1..Len(wire'), NEW p \in Sessions, wire'[h] = Shake(p), p \notin orphans
        PROVE  Good(p, h + 1)'
    <3>1. CASE h \in 1..Len(wire)
      <4>1. Good(p, h + 1)
        BY <2>1, <2>3, <3>1 DEF ServesInv
      <4>2. ASSUME NEW n, n = h + 1 PROVE Good(p, n)'
        <5>1. n \in 1..(Len(wire) + 1)
          BY <2>1, <3>1, <4>2
        <5>. QED
          BY <1>8, <4>1, <4>2, <5>1, GoodPut
      <4>. QED
        BY <4>2 DEF Good
    <3>2. CASE h = Len(wire) + 1
      <4>1. stream = p /\ kind = "HANDSHAKE"
        BY <2>1, <2>3, <3>2 DEF Shake
      <4>2. Lasts(p)'
        BY <2>2, <4>1 DEF Lasts
      <4>3. (h + 1)..Len(wire') = {}
        BY <2>1, <3>2
      <4>. QED
        BY <4>2, <4>3 DEF Good
    <3>. QED
      BY <2>1, <2>3, <3>1, <3>2
  <2>4. ASSUME NEW p \in Sessions, peer = p, Under, p \notin orphans PROVE Good(p, 1)'
    BY <1>8, <2>1, <2>4, GoodPut DEF ServesInv
  <2>. QED
    BY <2>2, <2>3, <2>4 DEF ServesInv, Shake
<1>9. ASSUME NEW packet \in Packets, Reading(packet) PROVE ServesInv'
  <2>1. /\ wire \in Seq(Packets) /\ Len(wire) \in Nat \ {0} /\ packet = wire[1] /\ link = "up"
        /\ Len(wire') = Len(wire) - 1 /\ daemon = "read"
        /\ \A i \in 1..Len(wire') : wire'[i] = wire[i + 1] /\ i + 1 \in 1..Len(wire)
    BY <1>0, <1>9, Read DEF Reading, Reads
  <2>2. /\ packet = [kind |-> packet.kind, session |-> packet.session]
        /\ packet.session \in Sessions /\ packet.session # None
    BY Kind, Apart DEF Sessions
  <2>3. link' = link /\ orphans' = orphans
    BY <1>9 DEF Reading
  <2>4. ASSUME NEW h \in 1..Len(wire'), NEW p \in Sessions, wire'[h] = Shake(p), p \notin orphans
        PROVE  Good(p, h + 1)'
    <3>1. h + 1 \in 1..Len(wire) /\ wire[h + 1] = Shake(p)
      BY <2>1, <2>4
    <3>2. Good(p, (h + 1) + 1)
      BY <2>1, <2>4, <3>1 DEF ServesInv
    <3>3. ASSUME NEW n \in Nat, n = h + 1 PROVE Good(p, n)'
      BY <1>9, <3>2, <3>3, GoodRead
    <3>. QED
      BY <2>1, <3>1, <3>3 DEF Good
  <2>5. ASSUME NEW p \in Sessions, peer' = p, Under', p \notin orphans
        PROVE  Good(p, 1)'
    <3>1. CASE packet.kind = "HANDSHAKE" /\ peer' = packet.session
      <4>1. CASE transfer_status = "HANDSHAKE"
        <5>1. wire[1] = Shake(p) /\ 1 \in 1..Len(wire)
          BY <2>1, <2>2, <2>5, <3>1 DEF Shake
        <5>2. Good(p, 1 + 1)
          BY <2>1, <2>5, <5>1 DEF ServesInv
        <5>. QED
          BY <1>9, <5>2, GoodRead
      <4>2. CASE transfer_status = "WAITING"
        <5>1. peer = p
          BY <1>9, <2>5, <3>1, <4>2 DEF Reading
        <5>2. Good(p, 1)
          BY <2>1, <2>5, <4>2, <5>1 DEF ServesInv, Under
        <5>3. wire[1] # Close(p)
          BY <2>1, <3>1 DEF Close
        <5>. QED
          BY <1>9, <5>2, <5>3, GoodRead
      <4>. QED
        BY <1>0, <4>1, <4>2 DEF WireInv
    <3>2. CASE ~(packet.kind = "HANDSHAKE" /\ peer' = packet.session)
      <4>1. transfer_status = "WAITING" /\ packet.kind # "CLOSE" /\ peer' = peer
        BY <1>0, <1>9, <2>1, <2>5, <3>2 DEF Reading, Under, WireInv
      <4>2. Good(p, 1)
        BY <2>1, <2>5, <4>1 DEF ServesInv, Under
      <4>3. wire[1] # Close(p)
        BY <2>1, <4>1 DEF Close
      <4>. QED
        BY <1>9, <4>2, <4>3, GoodRead
    <3>. QED
      BY <3>1, <3>2
  <2>6. Under' => peer' # None
    BY <1>0, <1>9, <2>1, <2>2 DEF Reading, Under, WireInv, ServesInv
  <2>. QED
    BY <2>3, <2>4, <2>5, <2>6 DEF ServesInv, Shake
<1>. QED
  BY <1>0, <1>1, <1>2, <1>3, <1>4, <1>5, <1>6, <1>7, <1>8, <1>9, StepKinds

\* ServesItsPeer: the daemon serves or closes a session only under the handshake it
\* took of that session, or of a process that died without CLOSE.
THEOREM ServesOwn == SessionSpec => ServesItsPeer
<1>1. SessionInit => Inv /\ ServesInv
  <2>1. SessionInit => ServesInv
    BY DEF SessionInit, ServesInv, Under
  <2>. QED
    BY <2>1, PhoneInit, WireInit DEF Inv
<1>2. Inv /\ ServesInv /\ [SessionNext]_all => (Inv /\ ServesInv)'
  BY InvStep, ServesStep
<1>3. Inv /\ ServesInv /\ [SessionNext]_all =>
        [\A packet \in Packets :
           Serves(packet) \/ Closes(packet) => peer = packet.session \/ peer \in orphans]_all
  <2>. SUFFICES ASSUME Inv, ServesInv, NEW packet \in Packets, Serves(packet) \/ Closes(packet),
                       peer \notin orphans
                PROVE  peer = packet.session
    OBVIOUS
  <2>1. Reads(packet) /\ Under
    BY DEF Serves, Closes, Serving, Under, Inv, WireInv
  <2>2. Len(wire) \in Nat \ {0} /\ packet = wire[1] /\ link = "up"
    BY <2>1, Read DEF Inv
  <2>3. peer \in Sessions
    <3>1. peer \in 0..sessions /\ peer # None /\ sessions \in 0..MaxSessions
      BY <2>1 DEF Inv, PhoneInv, WireInv, ServesInv
    <3>. QED
      BY <3>1, BoundsAssumption, Apart DEF Sessions
  <2>4. ASSUME NEW p \in Sessions, p = peer PROVE packet.session = p
    <3>1. Good(p, 1)
      BY <2>1, <2>2, <2>4 DEF ServesInv
    <3>2. 1 \in 1..Len(wire) /\ 1..(1 - 1) = {}
      BY <2>2
    <3>. QED
      BY <2>2, <3>1, <3>2 DEF Good
  <2>. QED
    BY <2>3, <2>4
<1>. QED
  BY <1>1, <1>2, <1>3, PTL DEF SessionSpec, ServesItsPeer

-----------------------------------------------------------------------------
(* A session that was answered is served.                                  *)

\* The wire holds the sessions in the order in which they were opened, and nothing of
\* a session older than the one the daemon shook hands with.
Ordered ==
  /\ \A i, j \in 1..Len(wire) : i <= j => wire[i].session <= wire[j].session
  /\ \A i \in 1..Len(wire) : peer <= wire[i].session

\* The handshake is the first of its session on the wire.
Leading ==
  /\ \A h \in 1..Len(wire) : wire[h].kind = "HANDSHAKE" =>
       /\ peer < wire[h].session /\ wire[h].session \notin answered
       /\ \A i \in 1..Len(wire) : i < h => wire[i].session < wire[h].session
  /\ main = "handshake" /\ stream \in live =>
       /\ peer < stream /\ stream \notin answered
       /\ \A i \in 1..Len(wire) : wire[i].session < stream

\* The CLOSE is the last.
Final ==
  \A i \in 1..Len(wire) : wire[i].kind = "CLOSE" =>
    /\ \A j \in 1..Len(wire) : i < j => wire[i].session < wire[j].session
    /\ ~Lasts(wire[i].session)

\* The daemon serves an answered session that is not over.
Attended ==
  \A s \in answered :
    Lasts(s) \/ (\E i \in 1..Len(wire) : wire[i].session = s)
      => transfer_status = "WAITING" /\ peer = s

AnsweredInv == link = "up" => Ordered /\ Leading /\ Final /\ Attended

LEMMA AnsweredKept ==
  ASSUME Inv, AnsweredInv, UNCHANGED <<link, wire, peer, transfer_status, answered>>,
         \A p \in Sessions : Lasts(p)' => Lasts(p),
         main' = "handshake" => main = "handshake" /\ stream' = stream /\ live' = live
  PROVE  AnsweredInv'
<1>. SUFFICES ASSUME link = "up" PROVE (Ordered /\ Leading /\ Final /\ Attended)'
  BY DEF AnsweredInv
<1>1. Ordered' /\ Leading'
  BY DEF AnsweredInv, Ordered, Leading
<1>2. \A p \in 1..sessions : Lasts(p)' => Lasts(p)
  BY BoundsAssumption DEF Inv, PhoneInv, Sessions
<1>3. Final'
  <2>. SUFFICES ASSUME NEW i \in 1..Len(wire), wire[i].kind = "CLOSE",
                       NEW p, p = wire[i].session
                PROVE  /\ \A j \in 1..Len(wire) : i < j => wire[i].session < wire[j].session
                       /\ ~Lasts(p)'
    BY DEF Final, Lasts
  <2>1. p \in 1..sessions
    BY Addressed
  <2>. QED
    BY <1>2, <2>1 DEF AnsweredInv, Final
<1>4. Attended'
  <2>. SUFFICES ASSUME NEW s \in answered,
                       Lasts(s)' \/ \E i \in 1..Len(wire) : wire[i].session = s
                PROVE  transfer_status = "WAITING" /\ peer = s
    BY DEF Attended, Lasts
  <2>1. s \in 1..sessions
    BY DEF Inv, WireInv
  <2>. QED
    BY <1>2, <2>1 DEF AnsweredInv, Attended
<1>. QED
  BY <1>1, <1>3, <1>4

LEMMA AnsweredOpens ==
  ASSUME Inv, AnsweredInv, PhoneOpens
  PROVE  AnsweredInv'
<1>1. /\ stream' = sessions + 1 /\ link = "up"
      /\ UNCHANGED <<wire, link, peer, transfer_status, answered>>
  BY DEF PhoneOpens, Open, host, ghost
<1>2. /\ sessions \in Nat /\ Len(wire) \in Nat /\ peer \in 0..sessions
      /\ answered \subseteq 1..sessions
      /\ \A i \in 1..Len(wire) : wire[i].session \in 1..sessions
  BY Addressed DEF Inv, WireInv
<1>3. Ordered'
  BY <1>1 DEF AnsweredInv, Ordered
<1>4. Leading'
  BY <1>1, <1>2 DEF AnsweredInv, Leading
<1>5. ASSUME NEW p \in 1..sessions PROVE ~Lasts(p)'
  BY <1>1, <1>2 DEF Lasts
<1>6. Final'
  <2>. SUFFICES ASSUME NEW i \in 1..Len(wire), wire[i].kind = "CLOSE",
                       NEW p, p = wire[i].session
                PROVE  /\ \A j \in 1..Len(wire) : i < j => wire[i].session < wire[j].session
                       /\ ~Lasts(p)'
    BY <1>1 DEF Final, Lasts
  <2>. QED
    BY <1>1, <1>2, <1>5 DEF AnsweredInv, Final
<1>7. Attended'
  <2>. SUFFICES ASSUME NEW s \in answered,
                       Lasts(s)' \/ \E i \in 1..Len(wire) : wire[i].session = s
                PROVE  transfer_status = "WAITING" /\ peer = s
    BY <1>1 DEF Attended, Lasts
  <2>. QED
    BY <1>1, <1>2, <1>5 DEF AnsweredInv, Attended
<1>. QED
  BY <1>1, <1>3, <1>4, <1>6, <1>7 DEF AnsweredInv

LEMMA AnsweredTakes ==
  ASSUME Inv, AnsweredInv, Taking
  PROVE  AnsweredInv'
<1>1. CASE UNCHANGED <<transfer_status, answered>>
  BY <1>1, AnsweredKept DEF Taking, Lasts
<1>2. CASE ~UNCHANGED <<transfer_status, answered>>
  <2>1. /\ UNCHANGED <<stream, live, link, wire, peer>> /\ (Closed' <=> Closed)
        /\ transfer_status = "HANDSHAKE" /\ transfer_status' = "WAITING"
        /\ answered' = answered \/ answered' = answered \cup {peer}
        /\ main' = "handshake" => main = "handshake"
    BY <1>2 DEF Taking, Inv, WireInv
  <2>. SUFFICES ASSUME link = "up" PROVE (Ordered /\ Leading /\ Final /\ Attended)'
    BY <2>1 DEF AnsweredInv
  <2>2. Ordered'
    BY <2>1 DEF AnsweredInv, Ordered
  <2>3. Leading'
    <3>1. /\ \A h \in 1..Len(wire) : wire[h].session \in 1..sessions
          /\ peer \in 0..sessions /\ stream \in {None, sessions} /\ sessions \in Nat
      BY Addressed DEF Inv, WireInv, PhoneInv
    <3>2. ASSUME NEW s \in Int, peer < s, s \notin answered PROVE s \notin answered'
      BY <2>1, <3>1, <3>2
    <3>3. \A h \in 1..Len(wire) : wire[h].session \in Int
      BY <3>1
    <3>4. stream \in Int
      BY <3>1, Apart
    <3>. QED
      BY <2>1, <3>2, <3>3, <3>4 DEF AnsweredInv, Leading
  <2>4. Final'
    BY <2>1 DEF AnsweredInv, Final, Lasts
  <2>5. Attended'
    BY <2>1 DEF AnsweredInv, Attended, Lasts
  <2>. QED
    BY <2>2, <2>3, <2>4, <2>5
<1>. QED
  BY <1>1, <1>2

LEMMA AnsweredPuts ==
  ASSUME Inv, AnsweredInv, NEW kind \in Kinds, Putting(kind)
  PROVE  AnsweredInv'
<1>1. /\ stream = sessions /\ link = "up" /\ link' = "up" /\ Len(wire) \in Nat
      /\ Len(wire') = Len(wire) + 1 /\ stream \in 1..sessions /\ sessions \in Nat
      /\ \A i \in 1..Len(wire) : wire'[i] = wire[i] /\ wire[i].session \in 1..sessions
      /\ wire'[Len(wire) + 1] = [kind |-> kind, session |-> stream]
  <2>1. stream \in 1..sessions
    BY DEF Putting, Inv, PhoneInv
  <2>. QED
    BY <2>1, Put, Addressed DEF Putting
<1>2. /\ UNCHANGED <<stream, live, peer, transfer_status, answered>>
      /\ Lasts(stream) /\ (\A s : Lasts(s)' => Lasts(s)) /\ main' # "handshake"
      /\ kind = "CLOSE" => ~Lasts(stream)'
      /\ kind = "HANDSHAKE" => main = "handshake"
  BY DEF Putting, Lasts
<1>3. Ordered /\ Leading /\ Final /\ Attended
  BY <1>1 DEF AnsweredInv
<1>4. peer \in 0..sessions /\ answered \subseteq 1..sessions
  BY DEF Inv, WireInv
<1>. DEFINE new == Len(wire) + 1
<1>5. /\ wire'[new].kind = kind /\ wire'[new].session = sessions
      /\ new \notin 1..Len(wire) /\ 1..Len(wire') = 1..Len(wire) \cup {new}
      /\ \A i \in 1..Len(wire) : i < new /\ ~(new < i) /\ ~(new <= i)
  BY <1>1
<1>. HIDE DEF new
<1>6. Ordered'
  <2>1. ASSUME NEW i \in 1..Len(wire'), NEW j \in 1..Len(wire'), i <= j
        PROVE  wire'[i].session <= wire'[j].session
    <3>1. CASE j = new
      <4>1. wire'[i].session \in 1..sessions /\ wire'[j].session = sessions
        BY <1>1, <1>5, <2>1, <3>1
      <4>. QED
        BY <1>1, <4>1
    <3>2. CASE j \in 1..Len(wire)
      <4>1. i \in 1..Len(wire)
        BY <1>5, <2>1, <3>2
      <4>. QED
        BY <1>1, <1>3, <2>1, <3>2, <4>1 DEF Ordered
    <3>. QED
      BY <1>5, <2>1, <3>1, <3>2
  <2>2. ASSUME NEW i \in 1..Len(wire') PROVE peer <= wire'[i].session
    <3>1. CASE i = new
      BY <1>1, <1>4, <1>5, <3>1
    <3>2. CASE i \in 1..Len(wire)
      BY <1>1, <1>3, <3>2 DEF Ordered
    <3>. QED
      BY <1>5, <2>2, <3>1, <3>2
  <2>. QED
    BY <1>2, <2>1, <2>2 DEF Ordered
<1>7. Leading'
  <2>1. ASSUME kind = "HANDSHAKE"
        PROVE  /\ peer < sessions /\ sessions \notin answered
               /\ \A i \in 1..Len(wire) : wire[i].session < sessions
    BY <1>1, <1>2, <1>3, <2>1 DEF Leading, Lasts
  <2>2. ASSUME NEW h \in 1..Len(wire'), wire'[h].kind = "HANDSHAKE"
        PROVE  /\ peer < wire'[h].session /\ wire'[h].session \notin answered
               /\ \A i \in 1..Len(wire') : i < h => wire'[i].session < wire'[h].session
    <3>1. CASE h = new
      <4>1. ~(new < new)
        BY <1>1 DEF new
      <4>. QED
        BY <1>1, <1>5, <2>1, <2>2, <3>1, <4>1
    <3>2. CASE h \in 1..Len(wire)
      BY <1>1, <1>3, <1>5, <2>2, <3>2 DEF Leading
    <3>. QED
      BY <1>5, <2>2, <3>1, <3>2
  <2>. QED
    BY <1>2, <2>2 DEF Leading
<1>8. Final'
  <2>1. ASSUME NEW i \in 1..Len(wire), wire[i].kind = "CLOSE"
        PROVE  wire[i].session < sessions /\ ~Lasts(wire[i].session)
    <3>1. wire[i].session # sessions /\ ~Lasts(wire[i].session)
      BY <1>1, <1>2, <1>3, <2>1 DEF Final
    <3>. QED
      BY <1>1, <3>1
  <2>2. ASSUME NEW i \in 1..Len(wire'), wire'[i].kind = "CLOSE",
               NEW p, p = wire'[i].session
        PROVE  /\ \A j \in 1..Len(wire') : i < j => p < wire'[j].session
               /\ ~Lasts(p)'
    <3>1. CASE i = new
      <4>1. ~(new < new)
        BY <1>1 DEF new
      <4>2. p = stream /\ kind = "CLOSE"
        BY <1>1, <1>5, <2>2, <3>1
      <4>3. ~Lasts(p)'
        BY <1>2, <4>2 DEF Lasts
      <4>. QED
        BY <1>5, <2>2, <3>1, <4>1, <4>3
    <3>2. CASE i \in 1..Len(wire)
      <4>1. wire[i].kind = "CLOSE" /\ p = wire[i].session
        BY <1>1, <2>2, <3>2
      <4>2. p < sessions /\ ~Lasts(p)'
        BY <1>2, <2>1, <3>2, <4>1
      <4>3. \A j \in 1..Len(wire) : i < j => p < wire[j].session
        BY <1>3, <3>2, <4>1 DEF Final
      <4>. QED
        BY <1>1, <1>5, <4>2, <4>3
    <3>. QED
      BY <1>5, <2>2, <3>1, <3>2
  <2>. QED
    BY <2>2 DEF Final, Lasts
<1>9. Attended'
  <2>. SUFFICES ASSUME NEW s \in answered,
                       Lasts(s)' \/ \E i \in 1..Len(wire') : wire'[i].session = s
                PROVE  transfer_status = "WAITING" /\ peer = s
    BY <1>2 DEF Attended, Lasts
  <2>1. Lasts(s) \/ \E i \in 1..Len(wire) : wire[i].session = s
    BY <1>1, <1>2, <1>5
  <2>. QED
    BY <1>3, <2>1 DEF Attended
<1>. QED
  BY <1>6, <1>7, <1>8, <1>9 DEF AnsweredInv

LEMMA AnsweredReads ==
  ASSUME Inv, AnsweredInv, NEW packet \in Packets, Reading(packet)
  PROVE  AnsweredInv'
<1>1. /\ Len(wire) \in Nat \ {0} /\ packet = wire[1] /\ link = "up"
      /\ Len(wire') = Len(wire) - 1 /\ daemon = "read"
      /\ \A i \in 1..Len(wire') : wire'[i] = wire[i + 1] /\ i + 1 \in 1..Len(wire)
  BY Read DEF Reading, Reads, Inv
<1>2. UNCHANGED <<stream, live, link, main, answered>> /\ (\A s : Lasts(s)' <=> Lasts(s))
  BY DEF Reading, Lasts, Closed
<1>3. Ordered /\ Leading /\ Final /\ Attended
  BY <1>1 DEF AnsweredInv
<1>4. /\ peer \in 0..sessions /\ sessions \in Nat /\ answered \subseteq 1..sessions
      /\ \A i \in 1..Len(wire) : wire[i].session \in 1..sessions
      /\ 1 \in 1..Len(wire)
      /\ stream \in {None, sessions} /\ transfer_status \in {"HANDSHAKE", "WAITING"}
  BY <1>1, Addressed DEF Inv, PhoneInv, WireInv
<1>5. \/ peer' = peer
      \/ peer' = wire[1].session /\ wire[1].kind = "HANDSHAKE" /\ transfer_status = "HANDSHAKE"
  BY <1>1 DEF Reading
<1>6. \/ transfer_status' = transfer_status
      \/ transfer_status' = "HANDSHAKE" /\ wire[1].kind = "CLOSE" /\ peer' = peer
  BY <1>1 DEF Reading
<1>7. Ordered'
  <2>1. \A i, j \in 1..Len(wire') : i <= j => wire'[i].session <= wire'[j].session
    BY <1>1, <1>3 DEF Ordered
  <2>2. \A i \in 1..Len(wire') : peer' <= wire'[i].session
    BY <1>1, <1>3, <1>4, <1>5 DEF Ordered
  <2>. QED
    BY <2>1, <2>2 DEF Ordered
<1>8. Leading'
  <2>1. ASSUME NEW h \in 1..Len(wire'), wire'[h].kind = "HANDSHAKE"
        PROVE  /\ peer' < wire'[h].session /\ wire'[h].session \notin answered
               /\ \A i \in 1..Len(wire') : i < h => wire'[i].session < wire'[h].session
    <3>. DEFINE g == h + 1
    <3>1. g \in 1..Len(wire) /\ 1 < g /\ wire[g] = wire'[h]
      BY <1>1, <2>1
    <3>2. /\ peer < wire[g].session /\ wire[g].session \notin answered
          /\ \A i \in 1..Len(wire) : i < g => wire[i].session < wire[g].session
      BY <1>3, <2>1, <3>1 DEF Leading
    <3>3. peer' < wire[g].session
      BY <1>4, <1>5, <3>1, <3>2
    <3>4. ASSUME NEW i \in 1..Len(wire'), i < h PROVE wire'[i].session < wire'[h].session
      <4>1. i + 1 \in 1..Len(wire) /\ i + 1 < g /\ wire'[i] = wire[i + 1]
        BY <1>1, <2>1, <3>4
      <4>. QED
        BY <3>1, <3>2, <4>1
    <3>. QED
      BY <3>1, <3>2, <3>3, <3>4
  <2>2. ASSUME main = "handshake", stream \in live
        PROVE  /\ peer' < stream /\ stream \notin answered
               /\ \A i \in 1..Len(wire') : wire'[i].session < stream
    BY <1>1, <1>3, <1>4, <1>5, <2>2 DEF Leading
  <2>. QED
    BY <1>2, <2>1, <2>2 DEF Leading
<1>9. Final'
  <2>. SUFFICES ASSUME NEW i \in 1..Len(wire'), wire'[i].kind = "CLOSE",
                       NEW p, p = wire'[i].session
                PROVE  /\ \A j \in 1..Len(wire') : i < j => p < wire'[j].session
                       /\ ~Lasts(p)
    BY <1>2 DEF Final, Lasts
  <2>1. /\ \A j \in 1..Len(wire) : i + 1 < j => p < wire[j].session
        /\ ~Lasts(p)
    BY <1>1, <1>3 DEF Final
  <2>2. ASSUME NEW j \in 1..Len(wire'), i < j PROVE p < wire'[j].session
    <3>1. j + 1 \in 1..Len(wire) /\ i + 1 < j + 1 /\ wire'[j] = wire[j + 1]
      BY <1>1, <2>2
    <3>. QED
      BY <2>1, <3>1
  <2>. QED
    BY <2>1, <2>2
<1>10. Attended'
  <2>. SUFFICES ASSUME NEW s \in answered,
                       Lasts(s) \/ \E i \in 1..Len(wire') : wire'[i].session = s
                PROVE  transfer_status' = "WAITING" /\ peer' = s
    BY <1>2 DEF Attended, Lasts
  <2>1. Lasts(s) \/ \E i \in 1..Len(wire) : wire[i].session = s
    BY <1>1
  <2>2. transfer_status = "WAITING" /\ peer = s
    BY <1>3, <2>1 DEF Attended
  <2>3. ASSUME wire[1].kind = "CLOSE" PROVE FALSE
    <3>1. s <= wire[1].session /\ s \in 1..sessions /\ wire[1].session \in 1..sessions
      BY <1>3, <1>4, <2>2 DEF Ordered
    <3>2. CASE Lasts(s)
      <4>1. s = sessions
        BY <1>4, <3>1, <3>2, Apart DEF Lasts
      <4>2. s = wire[1].session
        BY <1>4, <3>1, <4>1
      <4>. QED
        BY <1>3, <1>4, <2>3, <3>2, <4>2 DEF Final
    <3>3. ASSUME NEW i \in 1..Len(wire'), wire'[i].session = s PROVE FALSE
      <4>1. i + 1 \in 1..Len(wire) /\ 1 < i + 1 /\ wire[i + 1].session = s
        BY <1>1, <3>3
      <4>2. wire[1].session < s
        BY <1>3, <1>4, <2>3, <4>1 DEF Final
      <4>. QED
        BY <3>1, <4>2
    <3>. QED
      BY <3>2, <3>3
  <2>. QED
    BY <1>5, <1>6, <2>2, <2>3
<1>. QED
  BY <1>7, <1>8, <1>9, <1>10 DEF AnsweredInv

LEMMA AnsweredStep ==
  ASSUME Inv, AnsweredInv, [SessionNext]_all
  PROVE  AnsweredInv'
<1>1. CASE Quiet \/ GivesUp
  BY <1>1, AnsweredKept DEF Quiet, GivesUp, Lasts, Closed
<1>2. CASE Unheard
  BY <1>2, AnsweredKept DEF Unheard, Lasts
<1>3. CASE EndCloses /\ Untouched
  <2>1. \A p \in Sessions : ~Lasts(p)'
    BY <1>3, Apart DEF EndCloses, Lasts, Sessions
  <2>. QED
    BY <1>3, <2>1, AnsweredKept DEF EndCloses, MainGoes, Untouched, host, ghost
<1>4. CASE Restart
  <2>1. \A p \in Sessions : ~Lasts(p)'
    BY <1>4, Apart DEF Restart, Lasts, Sessions
  <2>. QED
    BY <1>4, <2>1, AnsweredKept DEF Restart, host
<1>5. CASE PulledOut
  BY <1>5 DEF PulledOut, AnsweredInv
<1>6. CASE PluggedIn
  <2>1. wire' = wire /\ Len(wire) = 0 /\ live' = {}
    BY <1>6 DEF PluggedIn, vars, fields, Inv, WireInv
  <2>2. 1..Len(wire') = {}
    BY <2>1
  <2>. QED
    BY <2>1, <2>2 DEF AnsweredInv, Ordered, Leading, Final, Attended, Lasts
<1>7. CASE Taking \/ PhoneOpens
  BY <1>7, AnsweredTakes, AnsweredOpens
<1>8. ASSUME NEW kind \in Kinds, Putting(kind) PROVE AnsweredInv'
  BY <1>8, AnsweredPuts
<1>9. ASSUME NEW packet \in Packets, Reading(packet) PROVE AnsweredInv'
  BY <1>9, AnsweredReads
<1>. QED
  BY <1>1, <1>2, <1>3, <1>4, <1>5, <1>6, <1>7, <1>8, <1>9, StepKinds DEF Inv

\* AnsweredIsServed: no packet of a session that the daemon answered is dropped for want
\* of a handshake.
THEOREM AnsweredServed == SessionSpec => AnsweredIsServed
<1>1. SessionInit => Inv /\ AnsweredInv
  <2>1. SessionInit => AnsweredInv
    BY DEF SessionInit, AnsweredInv
  <2>. QED
    BY <2>1, PhoneInit, WireInit DEF Inv
<1>2. Inv /\ AnsweredInv /\ [SessionNext]_all => (Inv /\ AnsweredInv)'
  BY InvStep, AnsweredStep
<1>3. Inv /\ AnsweredInv /\ [SessionNext]_all =>
        [\A packet \in Packets : Drops(packet) => packet.session \notin answered]_all
  <2>. SUFFICES ASSUME Inv, AnsweredInv, NEW packet \in Packets, Drops(packet)
                PROVE  packet.session \notin answered
    OBVIOUS
  <2>1. Reads(packet) /\ (transfer_status = "HANDSHAKE" \/ packet.kind = "HANDSHAKE")
    BY DEF Drops
  <2>2. Len(wire) \in Nat \ {0} /\ packet = wire[1] /\ link = "up"
    BY <2>1, Read DEF Inv
  <2>3. 1 \in 1..Len(wire) /\ Leading /\ Attended
    BY <2>2 DEF AnsweredInv
  <2>4. CASE packet.kind = "HANDSHAKE"
    BY <2>2, <2>3, <2>4 DEF Leading
  <2>5. CASE transfer_status = "HANDSHAKE"
    BY <2>2, <2>3, <2>5 DEF Attended
  <2>. QED
    BY <2>1, <2>4, <2>5
<1>. QED
  BY <1>1, <1>2, <1>3, PTL DEF SessionSpec, AnsweredIsServed

-----------------------------------------------------------------------------
(* Session implements SessionPromise.                                      *)

LEMMA LastingIs ==
  /\ Lasts(stream) => Lasting = stream
  /\ ~Lasts(stream) => Lasting = None
  BY DEF Lasting, Lasts

\* What the promise hears of the steps of the phone, which leave the daemon alone.
LEMMA PromisePhone ==
  ASSUME Inv, UNCHANGED <<sessions, daemon, transfer_status, peer>>,
         \/ UNCHANGED <<stream, live>> /\ (Closed' <=> Closed)
         \/ Lasting' = None
  PROVE  [Promise!Next]_(Promise!promised)
<1>1. Phase' = Phase
  BY DEF Phase, Serving
<1>2. Lasting' \in {Lasting, None}
  BY DEF Lasting
<1>. QED
  BY <1>1, <1>2 DEF None, Promise!promised, Promise!Next, Promise!Ends, Promise!NoSession

LEMMA PromiseTaking ==
  ASSUME Inv, Taking
  PROVE  [Promise!Next]_(Promise!promised)
<1>1. UNCHANGED <<sessions, peer>> /\ Lasting' = Lasting
  BY DEF Taking, Lasting
<1>2. CASE daemon = "reply" /\ daemon' = "read" /\ transfer_status' = "WAITING"
  <2>1. Phase = "shaking" /\ Phase' = "serving"
    BY <1>2 DEF Phase, Serving
  <2>. QED
    BY <1>1, <2>1 DEF Promise!Next, Promise!Answers
<1>3. CASE /\ transfer_status' = transfer_status
           /\ daemon' = daemon \/ (daemon = "dims" /\ daemon' = "read")
  <2>1. Phase' = Phase
    BY <1>3 DEF Phase, Serving
  <2>. QED
    BY <1>1, <2>1 DEF Promise!promised
<1>. QED
  BY <1>2, <1>3 DEF Taking

\* A packet that is read: the handshake of a later session, the CLOSE of the peer or
\* one that finds the peer's session over, or nothing to the promise.
LEMMA PromiseReading ==
  ASSUME Inv, ServesInv, AnsweredInv, NEW packet \in Packets, Reading(packet)
  PROVE  [Promise!Next]_(Promise!promised)
<1>1. /\ Len(wire) \in Nat \ {0} /\ packet = wire[1] /\ link = "up" /\ daemon = "read"
  BY Read DEF Reading, Reads, Inv
<1>2. /\ wire[1].session \in 1..sessions /\ 1 \in 1..Len(wire)
      /\ peer \in 0..sessions /\ sessions \in Nat /\ stream \in {None, sessions}
      /\ transfer_status \in {"HANDSHAKE", "WAITING"}
  BY <1>1, Addressed DEF Inv, WireInv, PhoneInv
<1>3. Ordered /\ Leading /\ Final
  BY <1>1 DEF AnsweredInv
<1>4. sessions' = sessions /\ Lasting' = Lasting
  BY DEF Reading, Lasting, Closed
<1>5. CASE /\ transfer_status = "HANDSHAKE" /\ packet.kind = "HANDSHAKE"
           /\ daemon' = "reply" /\ peer' = packet.session
  <2>1. Phase = "idle" /\ Phase' = "shaking"
    BY <1>1, <1>5 DEF Phase, Serving
  <2>2. peer < packet.session
    BY <1>1, <1>2, <1>3, <1>5 DEF Leading
  <2>3. peer' \in (peer + 1)..sessions
    BY <1>1, <1>2, <1>5, <2>2
  <2>. QED
    BY <1>4, <2>1, <2>3 DEF Promise!Next, Promise!TakesUp
<1>6. CASE /\ UNCHANGED <<transfer_status, peer>> /\ daemon' \in {"read", "dims"}
  <2>1. Phase' = Phase
    BY <1>1, <1>6 DEF Phase, Serving
  <2>. QED
    BY <1>4, <1>6, <2>1 DEF Promise!promised
<1>7. CASE /\ transfer_status # "HANDSHAKE" /\ packet.kind = "CLOSE"
           /\ transfer_status' = "HANDSHAKE" /\ UNCHANGED <<daemon, peer>>
  <2>1. Phase = "serving" /\ Phase' = "idle"
    BY <1>1, <1>7 DEF Phase, Serving
  <2>2. ~Lasts(wire[1].session) /\ peer <= wire[1].session
    BY <1>1, <1>2, <1>3, <1>7 DEF Final, Ordered
  <2>3. ASSUME Lasting = peer PROVE FALSE
    <3>1. CASE Lasts(stream)
      <4>1. stream = peer /\ stream \in live
        BY <2>3, <3>1, LastingIs DEF Lasts
      <4>2. stream = sessions
        BY <1>2, <4>1, Apart DEF Inv, PhoneInv
      <4>3. wire[1].session = stream
        BY <1>2, <2>2, <4>1, <4>2
      <4>. QED
        BY <2>2, <3>1, <4>3
    <3>2. CASE ~Lasts(stream)
      <4>1. peer = None
        BY <2>3, <3>2, LastingIs
      <4>. QED
        BY <1>2, <1>7, <4>1 DEF ServesInv, Under
    <3>. QED
      BY <3>1, <3>2
  <2>. QED
    BY <1>4, <1>7, <2>1, <2>3 DEF Promise!Next, Promise!Finishes
<1>. QED
  BY <1>1, <1>5, <1>6, <1>7 DEF Reading

LEMMA PromiseLink ==
  ASSUME Inv, ServesInv, PulledOut \/ PluggedIn
  PROVE  [Promise!Next]_(Promise!promised)
<1>1. CASE PulledOut
  <2>1. /\ live' = {} /\ UNCHANGED <<sessions, peer, transfer_status>> /\ daemon' = "read"
    BY <1>1 DEF PulledOut, Unplug, vars, fields, Inv, WireInv
  <2>2. Lasting' = None
    BY <2>1 DEF Lasting
  <2>3. Phase' = IF Phase = "shaking" THEN "idle" ELSE Phase
    BY <2>1 DEF Phase, Serving, Inv, WireInv
  <2>. QED
    BY <2>1, <2>2, <2>3 DEF None, Promise!Next, Promise!Lost, Promise!NoSession
<1>2. CASE PluggedIn
  <2>1. /\ live = {} /\ daemon = "read" /\ transfer_status' = "HANDSHAKE"
        /\ UNCHANGED <<sessions, stream, live, peer, daemon>>
    BY <1>2 DEF PluggedIn, vars, fields, Inv, WireInv
  <2>2. Lasting = None /\ Lasting' = None /\ Phase' = "idle"
    BY <2>1 DEF Lasting, Phase, Serving
  <2>3. CASE transfer_status = "HANDSHAKE"
    <3>1. Phase = "idle"
      BY <2>1, <2>3 DEF Phase, Serving
    <3>. QED
      BY <2>1, <2>2, <3>1 DEF Promise!promised
  <2>4. CASE transfer_status = "WAITING"
    <3>1. Phase = "serving" /\ peer # None
      BY <2>1, <2>4 DEF Phase, Serving, ServesInv, Under
    <3>. QED
      BY <2>1, <2>2, <3>1 DEF Promise!Next, Promise!Finishes
  <2>. QED
    BY <2>3, <2>4 DEF Inv, WireInv
<1>. QED
  BY <1>1, <1>2

LEMMA PromiseStep ==
  ASSUME Inv, ServesInv, AnsweredInv, [SessionNext]_all
  PROVE  [Promise!Next]_(Promise!promised)
<1>1. CASE Quiet
  BY <1>1, PromisePhone DEF Quiet, Closed
<1>2. CASE Unheard
  <2>1. Lasting' = None
    BY <1>2 DEF Unheard, Lasting
  <2>. QED
    BY <1>2, <2>1, PromisePhone DEF Unheard
<1>3. CASE Taking
  BY <1>3, PromiseTaking
<1>4. CASE GivesUp
  <2>1. /\ Phase = "shaking" /\ Phase' = "idle"
        /\ UNCHANGED <<sessions, peer>> /\ Lasting' = Lasting
    BY <1>4 DEF GivesUp, Phase, Serving, Inv, WireInv, Lasting, Closed
  <2>. QED
    BY <2>1 DEF Promise!Next, Promise!GivesUp
<1>5. ASSUME NEW kind \in Kinds, Putting(kind) PROVE [Promise!Next]_(Promise!promised)
  <2>1. (Closed' <=> Closed) \/ Lasting' = None
    BY <1>5 DEF Putting, Lasting
  <2>. QED
    BY <1>5, <2>1, PromisePhone DEF Putting
<1>6. ASSUME NEW packet \in Packets, Reading(packet) PROVE [Promise!Next]_(Promise!promised)
  BY <1>6, PromiseReading
<1>7. CASE PhoneOpens
  <2>1. /\ stream = None /\ None \notin live /\ sessions' = sessions + 1
        /\ stream' = sessions' /\ live' = {sessions'} /\ log' = <<>>
        /\ UNCHANGED <<daemon, transfer_status, peer>>
    BY <1>7, Apart DEF PhoneOpens, Open, host, Inv, PhoneInv
  <2>2. Lasting = None /\ Lasting' = sessions'
    BY <2>1 DEF Lasting, Closed
  <2>3. Phase' = Phase
    BY <2>1 DEF Phase, Serving
  <2>. QED
    BY <2>1, <2>2, <2>3 DEF None, Promise!Next, Promise!Opens, Promise!NoSession
<1>8. CASE EndCloses /\ Untouched
  <2>1. stream' = None /\ live' = live /\ sessions' = sessions /\ None \notin live
    BY <1>8, Apart DEF EndCloses, Inv, PhoneInv
  <2>2. Lasting' = None
    BY <2>1 DEF Lasting
  <2>. QED
    BY <1>8, <2>1, <2>2, PromisePhone DEF Untouched, host
<1>9. CASE PulledOut \/ PluggedIn
  BY <1>9, PromiseLink
<1>10. CASE Restart
  <2>1. Lasting' = None /\ sessions' = sessions
    BY <1>10 DEF Restart, Lasting
  <2>. QED
    BY <1>10, <2>1, PromisePhone DEF Restart, host
<1>. QED
  BY <1>1, <1>2, <1>3, <1>4, <1>5, <1>6, <1>7, <1>8, <1>9, <1>10, StepKinds DEF Inv

\* KeepsSessions: both ends implement SessionPromise, for any number of sessions and any
\* room on the wire.
THEOREM SessionsAsPromised == SessionSpec => KeepsSessions
<1>1. SessionInit => Inv /\ ServesInv /\ AnsweredInv /\ Promise!Init
  <2>1. SessionInit => ServesInv /\ AnsweredInv
    BY DEF SessionInit, ServesInv, AnsweredInv, Under
  <2>2. SessionInit => Promise!Init
    BY DEF SessionInit, Init, None, Lasting, Phase, Serving, Promise!Init, Promise!NoSession
  <2>. QED
    BY <2>1, <2>2, PhoneInit, WireInit DEF Inv
<1>2. Inv /\ ServesInv /\ AnsweredInv /\ [SessionNext]_all
        => (Inv /\ ServesInv /\ AnsweredInv)' /\ [Promise!Next]_(Promise!promised)
  BY InvStep, ServesStep, AnsweredStep, PromiseStep
<1>. QED
  BY <1>1, <1>2, PTL DEF SessionSpec, KeepsSessions, Promise!Spec
-----------------------------------------------------------------------------
(* What a phone that waits for the reply to its handshake waits for.       *)

\* The handshake is the last packet on the wire, or its reply is being sent; else the
\* daemon still serves a process that died without CLOSE and has read everything, or a
\* read thread that an earlier endIO missed took the reply.  No other step of
\* either end can leave handshake() waiting: the safety half of HandshakeEnds.
OnItsWay ==
  \/ wire # <<>> /\ wire[Len(wire)] = Shake(stream)
  \/ daemon = "reply" /\ peer = stream
  \/ Serving /\ peer \in orphans /\ wire = <<>>
  \/ stream \in stolen

HandshakeOnItsWay == main = "reply" /\ stream \in live => OnItsWay

\* While the main thread waits nobody else writes, and the daemon does not give up.
LEMMA Waits ==
  ASSUME Inv, [SessionNext]_all, main' = "reply", stream' \in live'
  PROVE  \/ Putting("HANDSHAKE")
         \/ /\ main = "reply" /\ stream' = stream /\ stream \in live /\ stolen \subseteq stolen'
            /\ \/ UNCHANGED <<wire, daemon, peer, transfer_status, orphans>>
               \/ /\ UNCHANGED <<wire, peer, orphans>>
                  /\ \/ daemon = "dims" /\ transfer_status' = transfer_status
                     \/ daemon = "reply" /\ peer \in stolen'
               \/ \E packet \in Packets : Reading(packet)
<1>. USE DEF MainGoes, fields, readers, host, ghost, Untouched
<1>0. PhoneInv /\ WireInv
  BY DEF Inv
<1>1. CASE UserDoes \/ MainAlone \/ PhoneOpens \/ HandshakeBreaks \/ Restart \/ PulledOut
           \/ PluggedIn \/ \E packet \in {"reply", "dims", "frame"} : HandshakeTakes(packet)
  <2>1. ~UserDoes
    BY DEF UserDoes, onResume, onPause, onDestroy, UserActs
  <2>2. ~MainAlone /\ ~PhoneOpens
    BY DEF MainAlone, AlreadyIO, HandshakeThrows, EndCloses, OpenFails, PhoneOpens, Open
  <2>3. ~HandshakeBreaks /\ ~Restart /\ ~PulledOut
    BY DEF HandshakeBreaks, HandshakeFails, Restart, PulledOut, Unplug, vars
  <2>4. ~\E packet \in {"reply", "dims", "frame"} : HandshakeTakes(packet)
    BY DEF HandshakeTakes, HandshakeSucceeds
  <2>5. ~PluggedIn
    BY <1>0 DEF PluggedIn, WireInv, vars
  <2>. QED
    BY <1>1, <2>1, <2>2, <2>3, <2>4, <2>5
<1>2. CASE PhoneWrites
  <2>1. HandshakeWrites /\ Puts("HANDSHAKE")
    BY <1>2 DEF PhoneWrites, EndWrites, MainSends
  <2>2. /\ stream \in live /\ main = "handshake" /\ Write("HANDSHAKE")
        /\ UNCHANGED <<stream, sessions, live>>
    BY <2>1 DEF HandshakeWrites
  <2>. QED
    BY <1>0, <1>2, <2>1, <2>2, Writing DEF PhoneWrites, Kinds, Entries
<1>3. ASSUME NEW t \in Readers, ReaderAlone(t) \/ ReaderDelivers(t)
      PROVE  /\ UNCHANGED <<main, stream, live, stolen>>
             /\ UNCHANGED <<wire, daemon, peer, transfer_status, orphans>>
  BY <1>3
  DEF ReaderAlone, ReaderDelivers, RunCheck, RunLoads, RunAnswers, RunThrows, RunDelivers,
      ReaderOnly
<1>4. ASSUME NEW t \in Readers, ReaderWrites(t) PROVE FALSE
  BY <1>0, <1>4, Apart DEF ReaderWrites, RunWrites, Goes, ReaderOnly, PhoneInv
<1>5. ASSUME NEW t \in Readers, NEW packet \in {"reply", "dims", "frame"}, ReaderTakes(t, packet)
      PROVE  /\ UNCHANGED <<main, stream, live>> /\ stolen \subseteq stolen'
             /\ \/ UNCHANGED <<wire, daemon, peer, transfer_status, orphans>>
                \/ /\ UNCHANGED <<wire, peer, orphans>>
                   /\ \/ daemon = "dims" /\ transfer_status' = transfer_status
                      \/ daemon = "reply" /\ peer \in stolen'
  <2>1. UNCHANGED <<main, stream, live, wire, peer, orphans>>
    BY <1>5 DEF ReaderTakes, RunReads, ReaderOnly, Takes
  <2>2. /\ packet = "frame" => UNCHANGED <<daemon, transfer_status>>
        /\ packet = "dims" => daemon = "dims" /\ transfer_status' = transfer_status
        /\ packet = "reply" => daemon = "reply" /\ peer \in stolen'
        /\ stolen \subseteq stolen'
    BY <1>5 DEF ReaderTakes, Takes, Offers
  <2>. QED
    BY <2>1, <2>2
<1>6. CASE DaemonReads
  <2>1. PICK packet \in Packets :
          Handshake(packet) \/ Drops(packet) \/ Serves(packet) \/ Closes(packet)
    BY <1>6 DEF DaemonReads
  <2>2. /\ UNCHANGED <<stream, sessions, live, log, link, main, answered, orphans, stolen>>
        /\ Reads(packet)
    BY <2>1 DEF Handshake, Drops, Serves, Closes, PhoneSide, vars
  <2>3. Reading(packet)
    BY <2>1, <2>2 DEF Handshake, Drops, Serves, Closes, Serving, Reads, Reading
  <2>. QED
    BY <2>2, <2>3
<1>7. ~ReplyTimesOut
  BY DEF ReplyTimesOut, PhoneSide, vars
<1>8. CASE SenderEnds \/ UNCHANGED all
  BY <1>8 DEF SenderEnds, PhoneSide, vars, all
<1>. QED
  BY <1>1, <1>2, <1>3, <1>4, <1>5, <1>6, <1>7, <1>8
  DEF SessionNext, Main_thread, Read_thread

\* The daemon reads: the handshake moves up, and is dropped only under a dead process.
LEMMA WaitsWhileRead ==
  ASSUME Inv, ServesInv, AnsweredInv, OnItsWay, NEW packet \in Packets, Reading(packet),
         stream' = stream, stolen \subseteq stolen'
  PROVE  OnItsWay'
<1>1. /\ wire \in Seq(Packets) /\ Len(wire) \in Nat \ {0} /\ packet = wire[1] /\ link = "up"
      /\ wire' \in Seq(Packets) /\ Len(wire') = Len(wire) - 1
      /\ \A i \in 1..Len(wire') : wire'[i] = wire[i + 1] /\ i + 1 \in 1..Len(wire)
  BY Read DEF Reading, Inv
<1>2. daemon = "read" /\ wire # <<>> /\ orphans' = orphans
  BY DEF Reading, Reads
<1>3. CASE stream \in stolen
  BY <1>3 DEF OnItsWay
<1>4. CASE wire[Len(wire)] = Shake(stream) /\ Len(wire) > 1
  <2>1. Len(wire') \in 1..Len(wire') /\ Len(wire') + 1 = Len(wire)
    BY <1>1, <1>4
  <2>2. wire' # <<>> /\ wire'[Len(wire')] = Shake(stream)
    BY <1>1, <1>4, <2>1
  <2>. QED
    BY <2>2 DEF OnItsWay, Shake
<1>5. CASE wire[Len(wire)] = Shake(stream) /\ Len(wire) = 1
  <2>1. packet.kind = "HANDSHAKE" /\ packet.session = stream /\ 1 \in 1..Len(wire)
    BY <1>1, <1>5 DEF Shake
  <2>2. wire' = <<>>
    BY <1>1, <1>5
  <2>3. CASE daemon' = "reply" /\ peer' = packet.session
    BY <2>1, <2>3 DEF OnItsWay
  <2>4. CASE transfer_status # "HANDSHAKE" /\ UNCHANGED <<transfer_status, peer>>
    <3>1. peer < stream
      BY <1>1, <2>1 DEF AnsweredInv, Leading
    <3>2. Under /\ peer # None /\ peer \in 0..sessions /\ sessions \in 0..MaxSessions
      BY <2>4 DEF Inv, PhoneInv, WireInv, ServesInv, Under
    <3>3. peer \in Sessions
      BY <3>2, BoundsAssumption, Apart DEF Sessions
    <3>4. stream \in Nat
      BY <2>1, Kind, BoundsAssumption DEF Sessions
    <3>5. ASSUME NEW p \in Sessions, p = peer, p \notin orphans PROVE FALSE
      <4>1. Good(p, 1)
        BY <1>1, <3>2, <3>5 DEF ServesInv
      <4>2. p # stream
        BY <3>1, <3>4, <3>5, BoundsAssumption DEF Sessions
      <4>3. wire[1].session = p
        <5>1. 1..(1 - 1) = {}
          OBVIOUS
        <5>. QED
          BY <2>1, <4>1, <5>1 DEF Good
      <4>. QED
        BY <1>1, <2>1, <4>2, <4>3
    <3>6. peer \in orphans
      BY <3>3, <3>5
    <3>. QED
      BY <1>2, <2>2, <2>4, <3>6 DEF OnItsWay, Serving
  <2>. QED
    BY <2>1, <2>3, <2>4 DEF Reading
<1>. QED
  BY <1>1, <1>2, <1>3, <1>4, <1>5 DEF OnItsWay

LEMMA WaitsStep ==
  ASSUME Inv, ServesInv, AnsweredInv, HandshakeOnItsWay, [SessionNext]_all
  PROVE  HandshakeOnItsWay'
<1>. SUFFICES ASSUME main' = "reply", stream' \in live'
              PROVE  OnItsWay'
  BY DEF HandshakeOnItsWay
<1>1. CASE Putting("HANDSHAKE")
  <2>1. /\ wire' \in Seq(Packets) /\ Len(wire) \in Nat /\ Len(wire') = Len(wire) + 1
        /\ wire'[Len(wire) + 1] = Shake(stream) /\ stream' = stream
    BY <1>1, Put DEF Kinds, Shake, Putting
  <2>2. wire' # <<>> /\ wire'[Len(wire')] = Shake(stream)
    BY <2>1
  <2>. QED
    BY <2>1, <2>2 DEF OnItsWay, Shake
<1>2. CASE /\ main = "reply" /\ stream' = stream /\ stream \in live /\ stolen \subseteq stolen'
           /\ \/ UNCHANGED <<wire, daemon, peer, transfer_status, orphans>>
              \/ /\ UNCHANGED <<wire, peer, orphans>>
                 /\ \/ daemon = "dims" /\ transfer_status' = transfer_status
                    \/ daemon = "reply" /\ peer \in stolen'
              \/ \E packet \in Packets : Reading(packet)
  <2>1. OnItsWay
    BY <1>2 DEF HandshakeOnItsWay
  <2>2. ASSUME NEW packet \in Packets, Reading(packet) PROVE OnItsWay'
    BY <1>2, <2>1, <2>2, WaitsWhileRead
  <2>3. CASE UNCHANGED <<wire, daemon, peer, transfer_status, orphans>>
    BY <1>2, <2>1, <2>3 DEF OnItsWay, Shake, Serving
  <2>4. CASE /\ UNCHANGED <<wire, peer, orphans>>
             /\ daemon = "dims" /\ transfer_status' = transfer_status
    BY <1>2, <2>1, <2>4 DEF OnItsWay, Shake, Serving
  <2>5. CASE UNCHANGED <<wire, peer, orphans>> /\ daemon = "reply" /\ peer \in stolen'
    <3>1. ~Serving
      BY <2>5 DEF Serving, Inv, WireInv
    <3>. QED
      BY <1>2, <2>1, <2>5, <3>1 DEF OnItsWay, Shake
  <2>. QED
    BY <1>2, <2>2, <2>3, <2>4, <2>5
<1>. QED
  BY <1>1, <1>2, Waits

\* A phone that waits for the handshake reply has its handshake or the reply under way,
\* but for the two cases of HandshakeEnds.
THEOREM HandshakeUnderWay == SessionSpec => []HandshakeOnItsWay
<1>1. SessionInit => Inv /\ ServesInv /\ AnsweredInv /\ HandshakeOnItsWay
  <2>1. SessionInit => ServesInv /\ AnsweredInv
    BY DEF SessionInit, ServesInv, AnsweredInv, Under
  <2>2. SessionInit => HandshakeOnItsWay
    BY DEF SessionInit, Init, HandshakeOnItsWay
  <2>. QED
    BY <2>1, <2>2, PhoneInit, WireInit DEF Inv
<1>2. Inv /\ ServesInv /\ AnsweredInv /\ HandshakeOnItsWay /\ [SessionNext]_all
        => (Inv /\ ServesInv /\ AnsweredInv /\ HandshakeOnItsWay)'
  BY InvStep, ServesStep, AnsweredStep, WaitsStep
<1>. QED
  BY <1>1, <1>2, PTL DEF SessionSpec

-----------------------------------------------------------------------------
(* The phone alone.  Every step of SessionNext is a step of UAccessory, or *)
(* leaves the phone alone, or starts its process anew: what UAccessoryProofs *)
(* shows of the phone therefore holds of the two ends together, once       *)
(* Restart is shown to keep it.                                            *)

\* Composition and reset: Session adds nothing to the phone but Restart.
LEMMA PhoneOrRestart == [SessionNext]_all => [Next]_vars \/ Restart
<1>. SUFFICES ASSUME [SessionNext]_all, ~Restart PROVE [Next]_vars
  OBVIOUS
<1>1. CASE UNCHANGED all
  BY <1>1 DEF all
<1>2. CASE UserDoes \/ PhoneOpens \/ Main_thread
  BY <1>2 DEF UserDoes, PhoneOpens, Main_thread, MainAlone, PhoneWrites, HandshakeBreaks,
              HandshakeTakes, Next, Lifecycle, MainRuns, MainWaits
<1>3. ASSUME NEW t \in Readers,
             Read_thread(t) \/ \E packet \in {"reply", "dims", "frame"} : ReaderTakes(t, packet)
      PROVE  Next
  BY <1>3 DEF Read_thread, ReaderAlone, ReaderDelivers, ReaderWrites, ReaderTakes, Next, run
<1>4. CASE PulledOut \/ PluggedIn
  BY <1>4 DEF PulledOut, PluggedIn, Next, Lifecycle
<1>5. CASE DaemonReads \/ ReplyTimesOut \/ SenderEnds
  BY <1>5 DEF DaemonReads, Handshake, Drops, Serves, Closes, ReplyTimesOut, SenderEnds, PhoneSide
<1>. QED
  BY <1>1, <1>2, <1>3, <1>4, <1>5 DEF SessionNext

\* After Restart nothing runs, nothing is open and nothing was written.
LEMMA RestartKeeps == LInv /\ Restart => LInv'
<1>. SUFFICES ASSUME LInv, Restart PROVE LInv'
  OBVIOUS
<1>1. /\ main' = "idle" /\ stream' = None /\ isIO' = FALSE /\ descriptors' = {} /\ live' = {}
      /\ readThread' = None /\ monitor' = None /\ log' = <<>> /\ sessions' = sessions
      /\ app' = "runs" /\ activity' = "paused" /\ asked' = FALSE /\ permitted' = permitted
      /\ reads' = [t \in Readers |-> None]
  BY DEF Restart
<1>2. interrupted' \in [Readers -> BOOLEAN]
  BY Zenon DEF Restart
<1>3. pc' = [t \in Readers |-> IF pc[t] = "none" THEN "none" ELSE "ended"]
  BY DEF Restart
<1>4. \A t \in Readers : ~Running(t)'
  BY <1>3 DEF Running
<1>5. IInv'
  BY <1>1, <1>2, <1>3, <1>4 DEF LInv, IInv, Typed, OneDescriptor, Dismissed, None
<1>6. PInv'
  BY <1>1, <1>3 DEF LInv, PInv, Locked, LogInv, SpeaksProtocol, None, Sessions
<1>7. TInv'
  <2>1. TInv
    BY DEF LInv
  <2>2. log' \in Seq({"HANDSHAKE", "REPLY", "FAILED", "DATA", "CLOSE"})
    BY <1>1
  <2>3. reads' \in [Readers -> Sessions \cup {None}]
    BY <1>1
  <2>4. /\ pc' \in [Readers -> {"none", "ended"}]
        /\ \A t \in Readers : reads'[t] = None /\ pc'[t] # "read"
    BY <1>1, <1>3
  <2>5. TypeOK'
    <3>1. asked' \in BOOLEAN /\ permitted' \in BOOLEAN /\ isIO' \in BOOLEAN
      BY <1>1, <2>1, Zenon DEF TInv, TypeOK
    <3>2. sessions' \in 0..MaxSessions /\ stream' \in 0..sessions' /\ readThread' \in 0..sessions'
      BY <1>1, <2>1, BoundsAssumption DEF TInv, TypeOK, None
    <3>. QED
      BY <1>1, <1>2, <2>2, <2>3, <2>4, <3>1, <3>2 DEF TypeOK
  <2>6. Fresh'
    BY <1>1, <1>3, <2>1 DEF TInv, Fresh
  <2>. QED
    BY <2>5, <2>6 DEF TInv
<1>8. Listening'
  <2>1. \A t \in Readers : ~interrupted'[t]
    BY DEF Restart
  <2>. QED
    BY <1>1, <2>1, Apart DEF Listening
<1>. QED
  BY <1>5, <1>6, <1>7, <1>8 DEF LInv

LEMMA PhoneAlways == SessionSpec => []LInv
<1>1. SessionInit => LInv
  BY LInitially DEF SessionInit
<1>2. LInv /\ [SessionNext]_all => LInv'
  BY PhoneOrRestart, LStep, RestartKeeps
<1>. QED
  BY <1>1, <1>2, PTL DEF SessionSpec

\* What holds of the phone in every state of the two ends together, deaths of its
\* process included: UAccessory's types, no session lost by startIO and endIO, and the
\* protocol spoken on each session (UAccessory.java: startIO, endIO, handshake, sendData).
THEOREM PhoneInSession == SessionSpec => [](TypeOK /\ NoSessionLost /\ SpeaksProtocol)
<1>1. LInv => TypeOK /\ NoSessionLost /\ SpeaksProtocol
  BY NothingLost DEF LInv, PInv, TInv, LogInv
<1>. QED
  BY PhoneAlways, <1>1, PTL
=============================================================================
