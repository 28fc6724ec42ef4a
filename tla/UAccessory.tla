----------------------------- MODULE UAccessory -----------------------------
(* The phone's end of the USB connection: UAccessory.java, driven by the   *)
(* life cycle of MainActivity.  The main thread opens and closes sessions  *)
(* and sends what the user does; each session starts a read thread, which  *)
(* delivers the daemon's packets and may answer one itself.                *)
(*                                                                         *)
(* pfd, inputStream, outputStream and isOpen are set together and cleared  *)
(* together, under the monitor: stream stands for all four.                *)
EXTENDS Integers, Sequences

CONSTANTS MaxSessions,  \* bound: sessions opened, and so read threads
          MaxLog        \* bound: DATA packets recorded until a log is this long

ASSUME BoundsAssumption == MaxSessions \in Nat \ {0} /\ MaxLog \in Nat \ {0}

Sessions == 1..MaxSessions
Readers  == 1..MaxSessions
None     == 0
Main     == MaxSessions + 1
Threads  == Readers \cup {Main}

VARIABLES
  activity,    \* "paused", "resumed", "destroyed"
  asked,       \* the permission dialog of requestPermission is unanswered
  permitted,   \* manager.hasPermission(accessory)
  app,         \* "runs", or "crashed" on an exception nobody catches
  main,        \* the main thread: "idle", or where it is in UAccessory
  isIO,
  stream,      \* the session whose descriptor is in the fields, or None (null)
  sessions,    \* sessions opened so far
  descriptors, \* sessions whose ParcelFileDescriptor is open
  live,        \* sessions whose USB connection lasts
  readThread,  \* the field: the newest read thread, or None
  interrupted, \* the interrupt flag of each read thread
  pc,          \* where each read thread is in run()
  reads,       \* the session whose inputStream it is reading, or None
  monitor,     \* owner of the UAccessory object's monitor, or None
  log          \* of the newest session: what was written to it, and how the handshake ended

cycle   == <<activity, asked, permitted>>
fields  == <<isIO, stream, sessions, descriptors>>
readers == <<readThread, interrupted, pc, reads>>
vars    == <<cycle, app, main, fields, live, readers, monitor, log>>

Init ==
  /\ activity = "paused" /\ asked = FALSE /\ permitted \in BOOLEAN
  /\ app = "runs" /\ main = "idle"
  /\ isIO = FALSE /\ stream = None /\ sessions = 0 /\ descriptors = {} /\ live = {}
  /\ readThread = None
  /\ interrupted = [t \in Readers |-> FALSE]
  /\ pc = [t \in Readers |-> "none"] /\ reads = [t \in Readers |-> None]
  /\ monitor = None
  /\ log = <<>>

MainGoes(from, to) == app = "runs" /\ main = from /\ main' = to
Free               == monitor = None

\* A packet reaches the wire if the connection lasts; an IOException is only printed.
Write(packet) ==
  log' = IF stream \in live /\ ~(packet = "DATA" /\ Len(log) >= MaxLog)
         THEN Append(log, packet) ELSE log

-----------------------------------------------------------------------------
(* MainActivity.                                                           *)

\* With permission onResume starts IO; without, it asks for it if an accessory is
\* plugged in.
onResume ==
  /\ activity = "paused"
  /\ activity' = "resumed"
  /\ \/ permitted /\ MainGoes("idle", "startIO") /\ UNCHANGED asked
     \/ MainGoes("idle", "idle") /\ asked' \in (IF permitted THEN {asked} ELSE {asked, TRUE})
  /\ UNCHANGED <<permitted, app, fields, live, readers, monitor, log>>

\* The answer to the permission dialog, which covers the activity: it may come while
\* the activity is paused.
onReceive ==
  /\ asked /\ activity # "destroyed"
  /\ asked' = FALSE
  /\ \/ MainGoes("idle", "startIO") /\ permitted' = TRUE
     \/ MainGoes("idle", "idle") /\ UNCHANGED permitted
  /\ UNCHANGED <<activity, app, fields, live, readers, monitor, log>>

onPause ==
  /\ activity = "resumed"
  /\ activity' = "paused"
  /\ MainGoes("idle", "endIO")
  /\ UNCHANGED <<asked, permitted, app, fields, live, readers, monitor, log>>

\* cleanUp ends IO only if it was started; what it closes then is null.
onDestroy ==
  /\ activity = "paused"
  /\ activity' = "destroyed"
  /\ MainGoes("idle", IF isIO THEN "endIO" ELSE "idle")
  /\ UNCHANGED <<asked, permitted, app, fields, live, readers, monitor, log>>

\* A key, a touch or a change of view.
UserActs ==
  /\ activity = "resumed"
  /\ MainGoes("idle", "sendData")
  /\ UNCHANGED <<cycle, app, fields, live, readers, monitor, log>>

\* The cable is pulled, and perhaps put back, which may grant the permission.
Unplug ==
  /\ app = "runs" /\ live # {}
  /\ live' = {}
  /\ permitted' \in BOOLEAN
  /\ UNCHANGED <<activity, asked, app, main, fields, readers, monitor, log>>

-----------------------------------------------------------------------------
(* The main thread in UAccessory.                                          *)

AlreadyIO ==
  /\ isIO
  /\ Free
  /\ MainGoes("startIO", "idle")
  /\ UNCHANGED <<cycle, app, fields, live, readers, monitor, log>>

\* Mutant: a second startIO is not refused.
OpenAgain ==
  /\ Free
  /\ sessions < MaxSessions
  /\ isIO' = TRUE
  /\ sessions' = sessions + 1
  /\ stream' = sessions'
  /\ descriptors' = descriptors \cup {sessions'}
  /\ live' = {sessions'}
  /\ log' = <<>>
  /\ monitor' = Main
  /\ MainGoes("startIO", "handshake")
  /\ UNCHANGED <<cycle, app, readers>>

Open ==
  /\ ~isIO
  /\ Free
  /\ sessions < MaxSessions
  /\ isIO' = TRUE
  /\ sessions' = sessions + 1
  /\ stream' = sessions'
  /\ descriptors' = descriptors \cup {sessions'}
  /\ live' = {sessions'}
  /\ log' = <<>>
  /\ monitor' = Main
  /\ MainGoes("startIO", "handshake")
  /\ UNCHANGED <<cycle, app, readers>>

\* openAccessory throws, or returns null, which handshake() dereferences.
OpenFails ==
  /\ ~isIO
  /\ Free
  /\ MainGoes("startIO", "idle")
  /\ app' = "crashed"
  /\ UNCHANGED <<cycle, fields, live, readers, monitor, log>>

HandshakeWrites ==
  /\ stream \in live
  /\ MainGoes("handshake", "reply")
  /\ Write("HANDSHAKE")
  /\ UNCHANGED <<cycle, app, fields, live, readers, monitor>>

\* The exception leaves startIO, and leaves isIO set.
HandshakeThrows ==
  /\ stream \notin live
  /\ MainGoes("handshake", "idle")
  /\ monitor' = None
  /\ UNCHANGED <<cycle, app, fields, live, readers, log>>

\* The daemon replied: onIOStarted, and a new read thread.
HandshakeSucceeds ==
  /\ stream \in live
  /\ MainGoes("reply", "idle")
  /\ Write("REPLY")
  /\ readThread' = stream
  /\ pc' = [pc EXCEPT ![stream] = "check"]
  /\ monitor' = None
  /\ UNCHANGED <<cycle, app, fields, live, interrupted, reads>>

\* The read of the reply throws: no read thread, but isIO stays set.
HandshakeFails ==
  /\ MainGoes("reply", "idle")
  /\ Write("FAILED")
  /\ monitor' = None
  /\ UNCHANGED <<cycle, app, fields, live, readers>>

\* endIO: the CLOSE packet, in which it may block ...
EndWrites ==
  /\ Free
  /\ MainGoes("endIO", "close")
  /\ IF stream # None THEN Write("CLOSE") ELSE UNCHANGED log
  /\ monitor' = Main
  /\ UNCHANGED <<cycle, app, fields, live, readers>>

\* Mutants: closes the descriptor only; returns early when no thread was started.
EndClosesOnly ==
  /\ MainGoes("close", "idle")
  /\ isIO' = FALSE
  /\ descriptors' = descriptors \ {stream}
  /\ monitor' = None
  /\ UNCHANGED <<cycle, app, stream, sessions, live, readers, log>>

EndNeedsThread ==
  /\ MainGoes("close", "idle")
  /\ isIO' = FALSE
  /\ IF readThread # None
     THEN /\ stream' = None
          /\ descriptors' = descriptors \ {stream}
          /\ interrupted' = [interrupted EXCEPT ![readThread] = TRUE]
     ELSE UNCHANGED <<stream, descriptors, interrupted>>
  /\ monitor' = None
  /\ UNCHANGED <<cycle, app, sessions, live, readThread, pc, reads, log>>

\* ... then, with a descriptor: interrupts the read thread, closes and forgets it.
EndCloses ==
  /\ MainGoes("close", "idle")
  /\ isIO' = FALSE
  /\ stream' = None
  /\ descriptors' = descriptors \ {stream}
  /\ interrupted' = [t \in Readers |->
                       interrupted[t] \/ (stream # None /\ t = readThread)]
  /\ monitor' = None
  /\ UNCHANGED <<cycle, app, sessions, live, readThread, pc, reads, log>>

MainSends ==
  /\ Free
  /\ MainGoes("sendData", "idle")
  /\ IF stream # None THEN Write("DATA") ELSE UNCHANGED log
  /\ UNCHANGED <<cycle, app, fields, live, readers, monitor>>

-----------------------------------------------------------------------------
(* A read thread: run().                                                   *)

Goes(t, from, to) == app = "runs" /\ pc[t] = from /\ pc' = [pc EXCEPT ![t] = to]

\* What every step of a read thread leaves alone.
ReaderOnly == UNCHANGED <<cycle, main, fields, live, readThread, interrupted>>

\* A thread that has ended is not interrupted any more.
isInterrupted(t) == interrupted[t] /\ pc[t] # "ended"

\* The loop condition asks the thread in the field, whichever it is by now.
RunCheck(t) ==
  /\ Goes(t, "check", IF isInterrupted(readThread) THEN "ended" ELSE "load")
  /\ UNCHANGED <<app, reads, monitor, log>> /\ ReaderOnly

\* Mutant: the exception without a stream is caught too, and the read goes on.
RunLoadsNull(t) ==
  /\ reads' = [reads EXCEPT ![t] = stream]
  /\ Goes(t, "load", "read")
  /\ UNCHANGED <<app, monitor, log>> /\ ReaderOnly

\* Loads inputStream and blocks in read(); without one it dies, and the app with it.
RunLoads(t) ==
  /\ reads' = [reads EXCEPT ![t] = stream]
  /\ \/ stream # None /\ Goes(t, "load", "read") /\ UNCHANGED app
     \/ stream = None /\ Goes(t, "load", "ended") /\ app' = "crashed"
  /\ UNCHANGED <<monitor, log>> /\ ReaderOnly

RunReads(t) ==
  /\ reads[t] \in live
  /\ Goes(t, "read", "deliver")
  /\ reads' = [reads EXCEPT ![t] = None]
  /\ UNCHANGED <<app, monitor, log>> /\ ReaderOnly

\* An IOException is printed: the descriptor was closed, or the cable pulled.
RunThrows(t) ==
  /\ ~(reads[t] \in live \cap descriptors)
  /\ Goes(t, "read", "check")
  /\ reads' = [reads EXCEPT ![t] = None]
  /\ UNCHANGED <<app, monitor, log>> /\ ReaderOnly

\* onDataRead: handled at once, or REQUEST_FB_DIMS, which SSmode answers with START.
RunDelivers(t) ==
  /\ Goes(t, "deliver", "check") \/ Goes(t, "deliver", "answer")
  /\ UNCHANGED <<app, reads, monitor, log>> /\ ReaderOnly

\* Mutant: sendData is not synchronized.
RunAnswersUnlocked(t) ==
  /\ Goes(t, "answer", "write")
  /\ UNCHANGED <<app, reads, monitor, log>> /\ ReaderOnly

RunAnswers(t) ==
  /\ Free
  /\ Goes(t, "answer", "write")
  /\ monitor' = t
  /\ UNCHANGED <<app, reads, log>> /\ ReaderOnly

RunWrites(t) ==
  /\ Goes(t, "write", "check")
  /\ IF stream # None THEN Write("DATA") ELSE UNCHANGED log
  /\ monitor' = None
  /\ UNCHANGED <<app, reads>> /\ ReaderOnly

-----------------------------------------------------------------------------
Lifecycle == onResume \/ onReceive \/ onPause \/ onDestroy \/ UserActs \/ Unplug

\* Steps of the main thread that wait for the monitor at most, and those that wait
\* for the daemon.
MainRuns  == AlreadyIO \/ Open \/ OpenFails \/ HandshakeThrows \/ EndCloses
MainWaits == HandshakeWrites \/ HandshakeSucceeds \/ HandshakeFails \/ EndWrites \/ MainSends

run(t) == RunCheck(t) \/ RunLoads(t) \/ RunDelivers(t) \/ RunAnswers(t)

Next ==
  \/ Lifecycle \/ MainRuns \/ MainWaits
  \/ \E t \in Readers : run(t) \/ RunReads(t) \/ RunThrows(t) \/ RunWrites(t)

Spec == Init /\ [][Next]_vars

\* Read threads run.  Nothing makes the daemon take or send a packet, and closing a
\* descriptor need not wake a thread that is blocked in a read from it.
FairSpec == Spec /\ \A t \in Readers : WF_vars(run(t))

-----------------------------------------------------------------------------
(* Properties.                                                             *)

\* Type correctness of the fields, the threads and the log; a thread that reads, and
\* only such a thread, has a stream to read from.
TypeOK ==
  /\ activity \in {"paused", "resumed", "destroyed"}
  /\ asked \in BOOLEAN /\ permitted \in BOOLEAN /\ app \in {"runs", "crashed"}
  /\ main \in {"idle", "startIO", "handshake", "reply", "endIO", "close", "sendData"}
  /\ isIO \in BOOLEAN /\ stream \in 0..sessions /\ sessions \in 0..MaxSessions
  /\ descriptors \subseteq Sessions /\ live \subseteq Sessions
  /\ readThread \in 0..sessions
  /\ interrupted \in [Readers -> BOOLEAN]
  /\ pc \in [Readers -> {"none", "check", "load", "read", "deliver", "answer", "write", "ended"}]
  /\ reads \in [Readers -> Sessions \cup {None}]
  /\ \A t \in Readers : pc[t] = "read" <=> reads[t] # None
  /\ monitor \in Threads \cup {None}
  /\ log \in Seq({"HANDSHAKE", "REPLY", "FAILED", "DATA", "CLOSE"})

\* Every session speaks the daemon's protocol: the handshake first, nothing else until
\* it is answered or given up, nothing after the CLOSE, whichever threads of this
\* session or an earlier one still had a packet to send.
SpeaksProtocol ==
  \A i \in DOMAIN log :
    /\ i = 1 <=> log[i] = "HANDSHAKE"
    /\ i = 2 <=> log[i] \in {"REPLY", "FAILED"}
    /\ log[i] = "CLOSE" => i = Len(log)

\* However resumes, pauses and answers to the permission dialog mix, at most one read
\* thread has not been told to end, the one in the field, and a descriptor that is
\* open is the one in the fields: startIO never loses a session that still runs.  Nor is
\* one left without its thread: while the session whose handshake was answered is in the
\* fields, its own read thread runs and was not told to end.
NoSessionLost ==
  /\ \A t \in Readers : pc[t] \notin {"none", "ended"} /\ ~interrupted[t] => t = readThread
  /\ descriptors \subseteq {stream} \ {None}
  /\ stream # None /\ (\E i \in DOMAIN log : log[i] = "REPLY")
       => pc[stream] \notin {"none", "ended"} /\ ~interrupted[stream]

\* When the activity stays out of IO, and the app lives on, the read threads come to
\* rest: ended, or in a call that waits for the daemon or behind one that does.  One
\* that an earlier endIO missed rests there or ends, if it asks the newest thread while
\* that one still runs; if it asks later, it takes itself for wanted, finds no stream
\* and the app dies.
ReadersComeToRest ==
  <>[](~isIO /\ app = "runs")
    => <>[](\A t \in Readers : pc[t] \in {"none", "ended", "read", "answer", "write"})

\* UAccessory.java:229 says of endIO "Kills read thread": a thread that was interrupted
\* ends when it next looks.
KillsReadThread ==
  [][\A t \in Readers : interrupted[t] /\ RunCheck(t) => pc'[t] = "ended"]_vars
=============================================================================
