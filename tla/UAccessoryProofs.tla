-------------------------- MODULE UAccessoryProofs --------------------------
(* No session of UAccessory is lost, and each speaks the protocol, for any *)
(* number of sessions.                                                     *)
EXTENDS UAccessory, TLAPS

Running(t) == pc[t] \notin {"none", "ended"}

\* What the proof needs of the types.
Typed ==
  /\ sessions \in 0..MaxSessions
  /\ stream \in 0..sessions
  /\ pc \in [Readers -> {"none", "check", "load", "read", "deliver", "answer", "write", "ended"}]
  /\ interrupted \in [Readers -> BOOLEAN]

\* isIO says whether the fields hold a descriptor, and nothing else is open.
OneDescriptor ==
  /\ isIO <=> stream # None
  /\ descriptors = {stream} \ {None}

\* A thread that was not interrupted is the newest, and there is none between endIO and
\* the end of the next handshake: this is what lets a new thread take the field over.
Dismissed ==
  /\ \A t \in Readers : Running(t) /\ ~interrupted[t] => t = readThread
  /\ stream = None \/ main \in {"handshake", "reply"}
       => \A t \in Readers : Running(t) => interrupted[t]
  /\ main \in {"handshake", "reply"} => stream # None

IInv == Typed /\ OneDescriptor /\ Dismissed

\* The steps that leave everything IInv is about alone, and main out of a handshake.
Elsewhere ==
  /\ UNCHANGED <<fields, readThread, interrupted, pc>>
  /\ main' \in {"handshake", "reply"} => main \in {"handshake", "reply"}

LEMMA Initially == Init => IInv
  BY BoundsAssumption
  DEF Init, IInv, Typed, OneDescriptor, Dismissed, Running, None, Readers, Sessions

LEMMA ElsewhereKeeps == IInv /\ Elsewhere => IInv'
  BY DEF Elsewhere, IInv, Typed, OneDescriptor, Dismissed, Running, fields

\* Every step of the main thread and of the environment keeps IInv.
LEMMA MainStep == IInv /\ (Lifecycle \/ MainRuns \/ MainWaits) => IInv'
<1> SUFFICES ASSUME IInv, Lifecycle \/ MainRuns \/ MainWaits PROVE IInv'
  OBVIOUS
<1>1. CASE Lifecycle
  <2>1. Elsewhere
    BY <1>1 DEF Lifecycle, onResume, onReceive, onPause, onDestroy, UserActs, Unplug,
                MainGoes, Elsewhere, readers
  <2> QED BY <2>1, ElsewhereKeeps
<1>2. CASE AlreadyIO \/ OpenFails \/ HandshakeThrows \/ HandshakeWrites \/ HandshakeFails
           \/ EndWrites \/ MainSends
  <2>1. Elsewhere
    BY <1>2 DEF AlreadyIO, OpenFails, HandshakeThrows, HandshakeWrites, HandshakeFails,
                EndWrites, MainSends, MainGoes, Elsewhere, readers
  <2> QED BY <2>1, ElsewhereKeeps
<1>3. CASE Open
  <2>1. /\ stream = None /\ descriptors = {}
        /\ stream' = sessions + 1 /\ sessions' = sessions + 1
        /\ sessions' \in 0..MaxSessions /\ stream' # None
    BY <1>3, BoundsAssumption DEF Open, IInv, Typed, OneDescriptor, None
  <2>2. Typed' /\ OneDescriptor'
    BY <1>3, <2>1, BoundsAssumption
    DEF Open, IInv, Typed, OneDescriptor, readers, None
  <2>3. Dismissed'
    BY <1>3, <2>1 DEF Open, IInv, Dismissed, Running, readers
  <2> QED BY <2>2, <2>3 DEF IInv
<1>4. CASE HandshakeSucceeds
  <2>1. stream \in Readers /\ main = "reply" /\ main' = "idle"
    BY <1>4, BoundsAssumption
    DEF HandshakeSucceeds, MainGoes, IInv, Typed, Dismissed, Readers, None
  <2>2. Typed' /\ OneDescriptor'
    BY <1>4, <2>1 DEF HandshakeSucceeds, IInv, Typed, OneDescriptor, fields
  <2>3. Dismissed'
    <3>1. \A t \in Readers \ {stream} : Running(t)' => interrupted'[t]
      BY <1>4, <2>1 DEF HandshakeSucceeds, IInv, Typed, Dismissed, Running
    <3> QED
      BY <1>4, <2>1, <3>1 DEF HandshakeSucceeds, IInv, Dismissed, fields
  <2> QED BY <2>2, <2>3 DEF IInv
<1>5. CASE EndCloses
  <2>1. Typed' /\ OneDescriptor'
    BY <1>5 DEF EndCloses, IInv, Typed, OneDescriptor, None
  <2>2. \A t \in Readers : Running(t)' => interrupted'[t]
    BY <1>5 DEF EndCloses, IInv, Typed, Dismissed, Running
  <2>3. main' = "idle"
    BY <1>5 DEF EndCloses, MainGoes
  <2>4. Dismissed'
    BY <2>2, <2>3 DEF Dismissed
  <2> QED BY <2>1, <2>4 DEF IInv
<1> QED
  BY <1>1, <1>2, <1>3, <1>4, <1>5 DEF MainRuns, MainWaits

\* A read thread never comes back from its end, and moves nothing but itself.
LEMMA ReaderStep ==
  ASSUME IInv, NEW t \in Readers, run(t) \/ RunReads(t) \/ RunThrows(t) \/ RunWrites(t)
  PROVE  IInv'
<1> DEFINE Label == {"none", "check", "load", "read", "deliver", "answer", "write", "ended"}
<1>1. /\ UNCHANGED <<main, fields, readThread, interrupted>>
      /\ Running(t)
      /\ \E l \in Label : pc' = [pc EXCEPT ![t] = l]
  BY DEF run, RunCheck, RunLoads, RunReads, RunThrows, RunDelivers, RunAnswers, RunWrites,
         Goes, ReaderOnly, Running
<1>2. Typed' /\ OneDescriptor'
  BY <1>1 DEF IInv, Typed, OneDescriptor, fields
<1>3. \A r \in Readers : Running(r)' => Running(r)
  BY <1>1 DEF IInv, Typed, Running
<1>4. Dismissed'
  BY <1>1, <1>3 DEF IInv, Dismissed, fields
<1> QED BY <1>2, <1>4 DEF IInv

\* Any step keeps IInv.
LEMMA IStep == IInv /\ [Next]_vars => IInv'
<1> SUFFICES ASSUME IInv, [Next]_vars PROVE IInv'
  OBVIOUS
<1>1. CASE UNCHANGED vars
  BY <1>1, ElsewhereKeeps DEF vars, readers, Elsewhere
<1>2. CASE Lifecycle \/ MainRuns \/ MainWaits
  BY <1>2, MainStep
<1>3. CASE \E t \in Readers : run(t) \/ RunReads(t) \/ RunThrows(t) \/ RunWrites(t)
  BY <1>3, ReaderStep
<1> QED BY <1>1, <1>2, <1>3 DEF Next

-----------------------------------------------------------------------------
(* The protocol.  The monitor keeps read threads out while the main thread *)
(* is in a handshake or closes; everyone else who writes finds the         *)
(* handshake behind them and no CLOSE yet, or no stream.                   *)
Entries == {"HANDSHAKE", "REPLY", "FAILED", "DATA", "CLOSE"}

Locked ==
  /\ main \in {"handshake", "reply", "close"} => monitor = Main
  /\ \A t \in Readers : pc[t] = "write" => monitor = t

\* The handshake is over and the session not closed.
Settled == Len(log) >= 2 /\ \A i \in DOMAIN log : log[i] # "CLOSE"

LogInv ==
  /\ log \in Seq(Entries)
  /\ live \subseteq Sessions
  /\ sessions \in 0..MaxSessions
  /\ pc \in [Readers -> {"none", "check", "load", "read", "deliver", "answer", "write", "ended"}]
  /\ SpeaksProtocol
  /\ main = "handshake" => log = <<>>
  /\ main = "reply" => log = <<"HANDSHAKE">>
  /\ stream \in live /\ main \notin {"handshake", "reply", "close"} => Settled

PInv == Locked /\ LogInv

LEMMA Appended ==
  ASSUME NEW S, NEW s \in Seq(S), NEW e \in S
  PROVE  /\ Append(s, e) \in Seq(S) /\ Len(Append(s, e)) = Len(s) + 1
         /\ \A i \in 1..Len(s) : Append(s, e)[i] = s[i]
         /\ Append(s, e)[Len(s) + 1] = e
  OBVIOUS

LEMMA PInitially == Init => PInv
  BY BoundsAssumption
  DEF Init, PInv, Locked, LogInv, SpeaksProtocol, Settled, Readers, Sessions, None, Main, Entries

\* DATA may follow what is settled.
LEMMA DataFollows ==
  ASSUME log \in Seq(Entries), SpeaksProtocol, Settled, Write("DATA")
  PROVE  log' \in Seq(Entries) /\ SpeaksProtocol' /\ Settled'
<1>1. log' = log \/ log' = Append(log, "DATA")
  BY DEF Write
<1>2. CASE log' = log
  BY <1>2 DEF SpeaksProtocol, Settled
<1>3. CASE log' = Append(log, "DATA")
  <2>1. /\ log' \in Seq(Entries) /\ Len(log') = Len(log) + 1
        /\ \A i \in 1..Len(log) : log'[i] = log[i]
        /\ log'[Len(log) + 1] = "DATA"
    BY <1>3 DEF Entries
  <2>2. Len(log) \in Nat /\ DOMAIN log = 1..Len(log) /\ DOMAIN log' = 1..(Len(log) + 1)
    BY <2>1
  <2>3. \A i \in DOMAIN log' : i \in DOMAIN log \/ i = Len(log) + 1
    BY <2>2
  <2>4. Settled'
    BY <2>1, <2>2, <2>3 DEF Settled
  <2>5. SpeaksProtocol'
    <3> SUFFICES ASSUME NEW i \in DOMAIN log'
                 PROVE  /\ i = 1 <=> log'[i] = "HANDSHAKE"
                        /\ i = 2 <=> log'[i] \in {"REPLY", "FAILED"}
                        /\ log'[i] = "CLOSE" => i = Len(log')
      BY DEF SpeaksProtocol
    <3>1. CASE i \in DOMAIN log
      BY <3>1, <2>1, <2>2 DEF SpeaksProtocol, Settled
    <3>2. CASE i = Len(log) + 1
      BY <3>2, <2>1, <2>2 DEF Settled
    <3> QED BY <2>3, <3>1, <3>2
  <2> QED BY <2>1, <2>4, <2>5
<1> QED BY <1>1, <1>2, <1>3

\* So may one CLOSE.
LEMMA CloseFollows ==
  ASSUME log \in Seq(Entries), SpeaksProtocol, Settled, log' = Append(log, "CLOSE")
  PROVE  log' \in Seq(Entries) /\ SpeaksProtocol'
<1>1. /\ log' \in Seq(Entries) /\ Len(log') = Len(log) + 1
      /\ \A i \in 1..Len(log) : log'[i] = log[i]
      /\ log'[Len(log) + 1] = "CLOSE"
  BY DEF Entries
<1>2. Len(log) \in Nat /\ DOMAIN log = 1..Len(log) /\ DOMAIN log' = 1..(Len(log) + 1)
  BY <1>1
<1>3. ASSUME NEW i \in DOMAIN log'
      PROVE  /\ i = 1 <=> log'[i] = "HANDSHAKE"
             /\ i = 2 <=> log'[i] \in {"REPLY", "FAILED"}
             /\ log'[i] = "CLOSE" => i = Len(log')
  <2>1. CASE i \in DOMAIN log
    BY <2>1, <1>1, <1>2 DEF SpeaksProtocol, Settled
  <2>2. CASE i = Len(log) + 1
    BY <2>2, <1>1, <1>2 DEF Settled
  <2> QED BY <1>2, <2>1, <2>2
<1> QED BY <1>1, <1>3 DEF SpeaksProtocol

\* Who writes DATA finds a settled session, or none.
LEMMA DataKeeps ==
  ASSUME LogInv, Write("DATA"),
         main \notin {"handshake", "reply", "close"},
         main' \notin {"handshake", "reply", "close"},
         UNCHANGED <<stream, live, sessions>>,
         pc' \in [Readers -> {"none", "check", "load", "read", "deliver", "answer", "write", "ended"}]
  PROVE  LogInv'
<1>1. CASE stream \in live
  <2>1. log' \in Seq(Entries) /\ SpeaksProtocol' /\ Settled'
    BY <1>1, DataFollows DEF LogInv
  <2> QED BY <2>1 DEF LogInv
<1>2. CASE stream \notin live
  BY <1>2 DEF LogInv, Write, SpeaksProtocol, Settled
<1> QED BY <1>1, <1>2

\* Steps that write nothing, and move the main thread neither into nor out of a handshake.
Silent ==
  /\ UNCHANGED <<log, stream, sessions>>
  /\ live' \in {live, {}}
  /\ main' = main \/ {main, main'} \cap {"handshake", "reply", "close"} = {}

LEMMA SilentKeeps ==
  ASSUME LogInv, Silent,
         pc' \in [Readers -> {"none", "check", "load", "read", "deliver", "answer", "write", "ended"}]
  PROVE  LogInv'
  BY DEF LogInv, Silent, SpeaksProtocol, Settled

LEMMA PMainStep ==
  ASSUME PInv, Lifecycle \/ MainRuns \/ MainWaits
  PROVE  PInv'
<1> USE DEF PInv, MainGoes
<1>0. Main \notin Readers /\ None \notin Readers /\ Main # None /\ None \notin Sessions
  BY BoundsAssumption DEF Main, None, Readers, Sessions
<1>1. CASE Lifecycle \/ AlreadyIO \/ OpenFails
  <2>1. Silent /\ UNCHANGED <<monitor, pc>>
    BY <1>1 DEF Lifecycle, onResume, onReceive, onPause, onDestroy, UserActs, Unplug,
                AlreadyIO, OpenFails, Silent, fields, readers
  <2>2. Locked'
    BY <2>1 DEF Locked, Silent
  <2>3. pc' \in [Readers -> {"none", "check", "load", "read", "deliver", "answer", "write", "ended"}]
    BY <2>1 DEF LogInv
  <2> QED BY <2>1, <2>2, <2>3, SilentKeeps
<1>2. CASE Open
  <2>1. Locked'
    BY <1>2, <1>0 DEF Open, Locked, Free, readers
  <2>2. sessions' \in 0..MaxSessions /\ live' \subseteq Sessions
    BY <1>2, BoundsAssumption DEF Open, LogInv, Sessions
  <2>3. LogInv'
    BY <1>2, <2>2 DEF Open, LogInv, SpeaksProtocol, readers
  <2> QED BY <2>1, <2>3
<1>3. CASE HandshakeWrites
  <2>1. log = <<>> /\ log' = Append(log, "HANDSHAKE")
    BY <1>3 DEF HandshakeWrites, LogInv, Write
  <2>2. log' = <<"HANDSHAKE">>
    BY <2>1
  <2>3. Locked'
    BY <1>3 DEF HandshakeWrites, Locked, readers
  <2>4. log' \in Seq(Entries) /\ SpeaksProtocol'
    BY <2>2 DEF Entries, SpeaksProtocol
  <2> QED BY <1>3, <2>2, <2>3, <2>4 DEF HandshakeWrites, LogInv, fields, readers
<1>4. CASE HandshakeThrows
  <2>1. Locked'
    BY <1>4, <1>0 DEF HandshakeThrows, Locked, readers
  <2>2. LogInv'
    BY <1>4 DEF HandshakeThrows, LogInv, SpeaksProtocol, fields, readers
  <2> QED BY <2>1, <2>2
<1>5. CASE HandshakeSucceeds \/ HandshakeFails
  <2>1. main = "reply" /\ main' = "idle" /\ monitor = Main /\ log = <<"HANDSHAKE">>
    BY <1>5 DEF HandshakeSucceeds, HandshakeFails, Locked, LogInv
  <2>2. /\ log' \in Seq(Entries) /\ SpeaksProtocol'
        /\ stream \in live => Settled'
    <3>1. PICK p \in {"REPLY", "FAILED"} : Write(p)
      BY <1>5 DEF HandshakeSucceeds, HandshakeFails
    <3>2. CASE stream \in live
      <4>1. log' = Append(log, p)
        BY <3>1, <3>2, <2>1 DEF Write
      <4>2. log \in Seq(Entries) /\ p \in Entries /\ Len(log) = 1 /\ log[1] = "HANDSHAKE"
        BY <2>1 DEF LogInv, Entries
      <4>3. log' \in Seq(Entries) /\ Len(log') = 2 /\ log'[1] = "HANDSHAKE" /\ log'[2] = p
        <5>1. /\ Append(log, p) \in Seq(Entries) /\ Len(Append(log, p)) = Len(log) + 1
              /\ \A i \in 1..Len(log) : Append(log, p)[i] = log[i]
              /\ Append(log, p)[Len(log) + 1] = p
          BY <4>2, Appended, Zenon
        <5>. QED
          BY <4>1, <4>2, <5>1
      <4>4. \A i \in DOMAIN log' : i \in {1, 2}
        BY <4>3
      <4>5. 2 \in DOMAIN log'
        BY <4>3
      <4> QED BY <4>3, <4>4, <4>5 DEF SpeaksProtocol, Settled
    <3>3. CASE stream \notin live
      BY <3>1, <3>3 DEF Write, LogInv, SpeaksProtocol
    <3> QED BY <3>2, <3>3
  <2>3. /\ pc' \in [Readers -> {"none", "check", "load", "read", "deliver", "answer", "write", "ended"}]
        /\ \A t \in Readers : pc'[t] = "write" => pc[t] = "write"
    BY <1>5 DEF HandshakeSucceeds, HandshakeFails, LogInv, readers
  <2>4. Locked'
    BY <2>1, <2>3, <1>0 DEF Locked
  <2>5. UNCHANGED <<stream, live, sessions>>
    BY <1>5 DEF HandshakeSucceeds, HandshakeFails, fields
  <2> QED BY <2>1, <2>2, <2>3, <2>4, <2>5 DEF LogInv
<1>6. CASE EndWrites
  <2>1. main = "endIO" /\ main' = "close" /\ UNCHANGED <<stream, live, sessions, pc>>
    BY <1>6 DEF EndWrites, fields, readers
  <2>2. Locked'
    BY <1>6, <1>0, <2>1 DEF EndWrites, Locked, Free
  <2>3. log' \in Seq(Entries) /\ SpeaksProtocol'
    <3>1. CASE log' = log
      BY <3>1 DEF LogInv, SpeaksProtocol
    <3>2. CASE log' # log
      <4>1. stream \in live /\ log' = Append(log, "CLOSE")
        BY <1>6, <3>2 DEF EndWrites, Write
      <4>2. Settled
        BY <4>1, <2>1 DEF LogInv
      <4> QED BY <4>1, <4>2, CloseFollows DEF LogInv
    <3> QED BY <3>1, <3>2
  <2> QED BY <2>1, <2>2, <2>3 DEF LogInv
<1>7. CASE EndCloses
  <2>1. Locked'
    BY <1>7, <1>0 DEF EndCloses, Locked
  <2>2. LogInv'
    BY <1>7, <1>0 DEF EndCloses, LogInv, SpeaksProtocol
  <2> QED BY <2>1, <2>2
<1>8. CASE MainSends
  <2>1. /\ main = "sendData" /\ main' = "idle"
        /\ UNCHANGED <<stream, live, sessions, pc, monitor>>
        /\ Write("DATA") \/ log' = log
    BY <1>8 DEF MainSends, fields, readers
  <2>2. Locked'
    BY <2>1 DEF Locked
  <2>3. CASE Write("DATA")
    BY <2>1, <2>2, <2>3, DataKeeps DEF LogInv
  <2>4. CASE log' = log
    BY <2>1, <2>2, <2>4, SilentKeeps DEF LogInv, Silent
  <2> QED BY <2>1, <2>3, <2>4
<1> QED
  BY <1>1, <1>2, <1>3, <1>4, <1>5, <1>6, <1>7, <1>8 DEF MainRuns, MainWaits

LEMMA PReaderStep ==
  ASSUME PInv, NEW t \in Readers, run(t) \/ RunReads(t) \/ RunThrows(t) \/ RunWrites(t)
  PROVE  PInv'
<1> DEFINE Label == {"none", "check", "load", "read", "deliver", "answer", "write", "ended"}
<1>0. Main \notin Readers /\ None \notin Readers /\ Main # None
  BY BoundsAssumption DEF Main, None, Readers
<1>1. /\ UNCHANGED <<main, stream, sessions, live>>
      /\ \E l \in Label : pc' = [pc EXCEPT ![t] = l]
  BY DEF run, RunCheck, RunLoads, RunReads, RunThrows, RunDelivers, RunAnswers, RunWrites,
         Goes, ReaderOnly, fields
<1>2. pc' \in [Readers -> Label]
  BY <1>1 DEF PInv, LogInv
<1>3. CASE RunAnswers(t)
  <2>1. /\ main \notin {"handshake", "reply", "close"}
        /\ \A r \in Readers : pc[r] # "write"
    BY <1>3, <1>0 DEF RunAnswers, Free, PInv, Locked
  <2>2. monitor' = t /\ \A r \in Readers : pc'[r] = "write" => r = t
    BY <1>3, <2>1 DEF RunAnswers, Goes, PInv, LogInv
  <2>3. Locked'
    BY <1>1, <2>1, <2>2 DEF Locked
  <2>4. LogInv'
    BY <1>1, <1>2, <1>3, SilentKeeps DEF RunAnswers, PInv, LogInv, Silent
  <2> QED BY <2>3, <2>4 DEF PInv
<1>4. CASE RunWrites(t)
  <2>1. monitor = t /\ main \notin {"handshake", "reply", "close"}
    BY <1>4, <1>0 DEF RunWrites, Goes, PInv, Locked
  <2>2. Locked'
    BY <1>1, <1>4, <2>1 DEF RunWrites, Goes, PInv, Locked, LogInv
  <2>3. CASE Write("DATA")
    BY <1>1, <1>2, <2>1, <2>2, <2>3, DataKeeps DEF PInv
  <2>4. CASE log' = log
    BY <1>1, <1>2, <2>2, <2>4, SilentKeeps DEF PInv, LogInv, Silent
  <2> QED BY <1>4, <2>3, <2>4 DEF RunWrites
<1>5. CASE RunCheck(t) \/ RunLoads(t) \/ RunDelivers(t) \/ RunReads(t) \/ RunThrows(t)
  <2>1. /\ UNCHANGED <<monitor, log>>
        /\ \E l \in Label \ {"write"} : pc' = [pc EXCEPT ![t] = l]
    BY <1>5 DEF RunCheck, RunLoads, RunReads, RunThrows, RunDelivers, Goes, ReaderOnly
  <2>2. Locked'
    BY <1>1, <2>1 DEF PInv, Locked, LogInv
  <2>3. LogInv'
    BY <1>1, <1>2, <2>1, SilentKeeps DEF PInv, LogInv, Silent
  <2> QED BY <2>2, <2>3 DEF PInv
<1> QED BY <1>3, <1>4, <1>5 DEF run

\* Any step keeps PInv.
LEMMA PStep == PInv /\ [Next]_vars => PInv'
<1> SUFFICES ASSUME PInv, [Next]_vars PROVE PInv'
  OBVIOUS
<1>1. CASE UNCHANGED vars
  <2>1. Silent /\ UNCHANGED <<monitor, pc, main>>
    BY <1>1 DEF vars, fields, readers, Silent
  <2>2. Locked' /\ LogInv'
    BY <2>1, SilentKeeps DEF PInv, Locked, LogInv
  <2> QED BY <2>2 DEF PInv
<1>2. CASE Lifecycle \/ MainRuns \/ MainWaits
  BY <1>2, PMainStep
<1>3. CASE \E t \in Readers : run(t) \/ RunReads(t) \/ RunThrows(t) \/ RunWrites(t)
  BY <1>3, PReaderStep
<1> QED BY <1>1, <1>2, <1>3 DEF Next

\* SpeaksProtocol: on each session the handshake comes first and is answered or given up
\* before anything else is sent, and nothing follows the CLOSE (UAccessory.java: sendData,
\* handshake and endIO are synchronized on the same object).
THEOREM ProtocolSpoken == Spec => []SpeaksProtocol
<1>1. PInv => SpeaksProtocol
  BY DEF PInv, LogInv
<1> QED BY PInitially, PStep, <1>1, PTL DEF Spec

-----------------------------------------------------------------------------
(* Types.  A thread is made for a session once, so that a handshake finds  *)
(* its thread not yet started: otherwise the thread it starts could be one *)
(* that still reads.                                                       *)
Fresh ==
  /\ \A t \in Readers : t > sessions => pc[t] = "none"
  /\ main \in {"handshake", "reply"} => stream # None /\ pc[stream] = "none"

TInv == TypeOK /\ Fresh

LEMMA TInitially == Init => TInv
<1> SUFFICES ASSUME Init PROVE TInv
  OBVIOUS
<1>1. interrupted \in [Readers -> BOOLEAN]
  BY Zenon DEF Init
<1>2. log \in Seq({"HANDSHAKE", "REPLY", "FAILED", "DATA", "CLOSE"})
  BY DEF Init
<1>3. /\ pc \in [Readers -> {"none"}] /\ reads \in [Readers -> {None}]
      /\ asked \in BOOLEAN /\ permitted \in BOOLEAN /\ isIO \in BOOLEAN
  BY DEF Init
<1>4. TypeOK
  <2>1. /\ activity = "paused" /\ app = "runs" /\ main = "idle" /\ monitor = None
        /\ stream = None /\ sessions = 0 /\ descriptors = {} /\ live = {} /\ readThread = None
    BY DEF Init
  <2> QED BY <1>1, <1>2, <1>3, <2>1, BoundsAssumption DEF TypeOK, None
<1>5. Fresh
  BY DEF Init, Fresh
<1> QED BY <1>4, <1>5 DEF TInv

\* What is written is one of the kinds of packet.
LEMMA WriteTyped ==
  ASSUME log \in Seq(Entries), NEW packet \in Entries, Write(packet)
  PROVE  log' \in Seq(Entries)
  BY DEF Write

\* Neither the sessions nor the threads move.
LEMMA TStill ==
  ASSUME TInv, UNCHANGED <<stream, sessions, readers, isIO, descriptors>>,
         main' \in {"handshake", "reply"} => main \in {"handshake", "reply"},
         main' \in {"idle", "startIO", "handshake", "reply", "endIO", "close", "sendData"},
         activity' \in {"paused", "resumed", "destroyed"},
         asked' \in BOOLEAN, permitted' \in BOOLEAN, app' \in {"runs", "crashed"},
         live' \in {live, {}}, monitor' \in Threads \cup {None}, log' \in Seq(Entries)
  PROVE  TInv'
<1>1. TypeOK'
  BY DEF TInv, TypeOK, readers, Entries
<1>2. Fresh'
  BY DEF TInv, Fresh, readers
<1> QED BY <1>1, <1>2 DEF TInv

LEMMA TMainStep ==
  ASSUME TInv, Lifecycle \/ MainRuns \/ MainWaits
  PROVE  TInv'
<1> USE DEF MainGoes
<1>0. Main \in Threads /\ log \in Seq(Entries)
  BY DEF Threads, TInv, TypeOK, Entries
<1>1. CASE Lifecycle
  <2>1. /\ UNCHANGED <<fields, readers, monitor, log, app>>
        /\ live' \in {live, {}}
        /\ main' = main \/ main' \in {"idle", "startIO", "endIO", "sendData"}
        /\ activity' \in {"paused", "resumed", "destroyed"}
        /\ asked' \in BOOLEAN /\ permitted' \in BOOLEAN
    BY <1>1
    DEF Lifecycle, onResume, onReceive, onPause, onDestroy, UserActs, Unplug, cycle,
        TInv, TypeOK
  <2> QED BY <2>1, <1>0, TStill DEF TInv, TypeOK, fields
<1>2. CASE AlreadyIO \/ OpenFails \/ HandshakeThrows
  BY <1>0, <1>2, TStill
  DEF AlreadyIO, OpenFails, HandshakeThrows, TInv, TypeOK, fields, cycle
<1>3. CASE HandshakeWrites \/ HandshakeFails \/ EndWrites \/ MainSends
  <2>1. log' \in Seq(Entries)
    BY <1>0, <1>3, WriteTyped
    DEF HandshakeWrites, HandshakeFails, EndWrites, MainSends, Entries
  <2> QED
    BY <1>0, <1>3, <2>1, TStill
    DEF HandshakeWrites, HandshakeFails, EndWrites, MainSends, TInv, TypeOK, fields, cycle
<1>4. CASE Open
  <2>1. /\ sessions' = sessions + 1 /\ stream' = sessions + 1
        /\ sessions' \in 1..MaxSessions /\ sessions' \in Readers /\ sessions' \in Sessions
        /\ pc[sessions'] = "none" /\ UNCHANGED readers
    BY <1>4, BoundsAssumption DEF Open, TInv, TypeOK, Fresh, Readers, Sessions
  <2>2. TypeOK'
    BY <1>0, <1>4, <2>1, BoundsAssumption DEF Open, TInv, TypeOK, readers, cycle
  <2>3. Fresh'
    BY <2>1, BoundsAssumption DEF TInv, TypeOK, Fresh, readers, Readers, None
  <2> QED BY <2>2, <2>3 DEF TInv
<1>5. CASE HandshakeSucceeds
  <2>1. /\ stream \in Readers /\ stream \in 1..sessions /\ pc[stream] = "none"
        /\ main' = "idle" /\ monitor' = None
        /\ pc' = [pc EXCEPT ![stream] = "check"] /\ readThread' = stream
        /\ UNCHANGED <<cycle, app, fields, live, interrupted, reads>>
    BY <1>5, BoundsAssumption DEF HandshakeSucceeds, TInv, TypeOK, Fresh, Readers, None
  <2>2. log' \in Seq(Entries)
    BY <1>0, <1>5, WriteTyped DEF HandshakeSucceeds, Entries
  <2>3. TypeOK'
    BY <2>1, <2>2, BoundsAssumption DEF TInv, TypeOK, cycle, fields, Entries
  <2>4. Fresh'
    BY <2>1, BoundsAssumption DEF TInv, TypeOK, Fresh, fields, Readers
  <2> QED BY <2>3, <2>4 DEF TInv
<1>6. CASE EndCloses
  <2>1. TypeOK'
    <3>1. interrupted' \in [Readers -> BOOLEAN]
      BY <1>6, Zenon DEF EndCloses
    <3>2. UNCHANGED <<activity, asked, permitted, app, sessions, live, readThread, pc, reads, log>>
      BY <1>6 DEF EndCloses, cycle
    <3>3. /\ isIO' \in BOOLEAN /\ stream' = None /\ monitor' = None /\ main' = "idle"
          /\ descriptors' \subseteq descriptors
      BY <1>6 DEF EndCloses
    <3> QED BY <3>1, <3>2, <3>3, BoundsAssumption DEF TInv, TypeOK, None
  <2>2. Fresh'
    BY <1>6 DEF EndCloses, TInv, Fresh
  <2> QED BY <2>1, <2>2 DEF TInv
<1> QED
  BY <1>1, <1>2, <1>3, <1>4, <1>5, <1>6 DEF MainRuns, MainWaits

LEMMA TReaderStep ==
  ASSUME TInv, NEW t \in Readers, run(t) \/ RunReads(t) \/ RunThrows(t) \/ RunWrites(t)
  PROVE  TInv'
<1> DEFINE Label == {"check", "load", "read", "deliver", "answer", "write", "ended"}
<1>1. /\ UNCHANGED <<cycle, main, fields, live, readThread, interrupted>>
      /\ app' \in {"runs", "crashed"}
      /\ pc[t] # "none"
      /\ \E l \in Label : pc' = [pc EXCEPT ![t] = l]
  BY DEF run, RunCheck, RunLoads, RunReads, RunThrows, RunDelivers, RunAnswers, RunWrites,
         Goes, ReaderOnly, TInv, TypeOK
<1>2. log' \in Seq(Entries) /\ monitor' \in Threads \cup {None}
  <2>1. log \in Seq(Entries) /\ t \in Threads
    BY DEF TInv, TypeOK, Entries, Threads
  <2>2. log' = log \/ Write("DATA")
    BY DEF run, RunCheck, RunLoads, RunReads, RunThrows, RunDelivers, RunAnswers, RunWrites
  <2>3. monitor' \in {monitor, t, None}
    BY DEF run, RunCheck, RunLoads, RunReads, RunThrows, RunDelivers, RunAnswers, RunWrites
  <2> QED BY <2>1, <2>2, <2>3, WriteTyped DEF TInv, TypeOK, Entries
<1>3. /\ reads' \in [Readers -> Sessions \cup {None}]
      /\ \A r \in Readers : pc'[r] = "read" <=> reads'[r] # None
  <2>1. CASE RunLoads(t)
    <3>1. stream \in Sessions \cup {None}
      BY BoundsAssumption DEF TInv, TypeOK, Sessions, None
    <3> QED BY <2>1, <3>1 DEF RunLoads, Goes, TInv, TypeOK
  <2>2. CASE RunReads(t) \/ RunThrows(t)
    BY <2>2 DEF RunReads, RunThrows, Goes, TInv, TypeOK
  <2>3. CASE RunCheck(t) \/ RunDelivers(t) \/ RunAnswers(t) \/ RunWrites(t)
    BY <2>3 DEF RunCheck, RunDelivers, RunAnswers, RunWrites, Goes, TInv, TypeOK
  <2> QED BY <2>1, <2>2, <2>3 DEF run
<1>4. TypeOK'
  BY <1>1, <1>2, <1>3 DEF TInv, TypeOK, cycle, fields, Entries
<1>5. Fresh'
  BY <1>1 DEF TInv, TypeOK, Fresh, fields, None
<1> QED BY <1>4, <1>5 DEF TInv

\* Any step keeps TInv.
LEMMA TStep == TInv /\ [Next]_vars => TInv'
<1> SUFFICES ASSUME TInv, [Next]_vars PROVE TInv'
  OBVIOUS
<1>1. CASE UNCHANGED vars
  BY <1>1 DEF vars, cycle, fields, readers, TInv, TypeOK, Fresh
<1>2. CASE Lifecycle \/ MainRuns \/ MainWaits
  BY <1>2, TMainStep
<1>3. CASE \E t \in Readers : run(t) \/ RunReads(t) \/ RunThrows(t) \/ RunWrites(t)
  BY <1>3, TReaderStep
<1> QED BY <1>1, <1>2, <1>3 DEF Next

\* TypeOK: the fields, the threads and the log keep their types, and a thread is blocked
\* in a read exactly while it has a stream to read from (UAccessory.java: run, startIO,
\* endIO).
THEOREM TypeCorrect == Spec => []TypeOK
<1>1. TInv => TypeOK
  BY DEF TInv
<1> QED BY TInitially, TStep, <1>1, PTL DEF Spec

-----------------------------------------------------------------------------
(* The session that is up has its thread.  That thread is the one in the   *)
(* field, which it enters when it starts, so that no interrupt of an       *)
(* earlier endIO is meant for it; and it leaves its loop only when it is   *)
(* interrupted, or finds no stream.                                        *)
Replied == \E i \in DOMAIN log : log[i] = "REPLY"

Listening ==
  /\ \A t \in Readers : interrupted[t] => pc[t] # "none"
  /\ readThread \in Readers => pc[readThread] # "none"
  /\ stream # None /\ Replied => readThread = stream /\ Running(stream) /\ ~interrupted[stream]

LInv == IInv /\ PInv /\ TInv /\ Listening

LEMMA LInitially == Init => LInv
  BY Initially, PInitially, TInitially, BoundsAssumption
  DEF Init, LInv, Listening, Replied, None, Readers

\* Only the answer to the handshake is a reply.
LEMMA NoReply ==
  ASSUME log \in Seq(Entries), NEW packet \in Entries \ {"REPLY"}, Write(packet), Replied'
  PROVE  Replied
<1>1. CASE log' = log
  BY <1>1 DEF Replied
<1>2. CASE log' # log
  <2>1. log' = Append(log, packet)
    BY <1>2 DEF Write
  <2>2. /\ Append(log, packet) \in Seq(Entries) /\ Len(Append(log, packet)) = Len(log) + 1
        /\ \A i \in 1..Len(log) : Append(log, packet)[i] = log[i]
        /\ Append(log, packet)[Len(log) + 1] = packet
    BY Appended, Zenon
  <2>3. PICK i \in DOMAIN log' : log'[i] = "REPLY"
    BY DEF Replied
  <2>4. i \in 1..Len(log)
    BY <2>1, <2>2, <2>3
  <2> QED BY <2>1, <2>2, <2>3, <2>4 DEF Replied
<1> QED BY <1>1, <1>2

\* Steps that start no thread and interrupt none.
LEMMA ListeningStill ==
  ASSUME Listening, UNCHANGED <<stream, readThread, interrupted, pc>>, Replied' => Replied
  PROVE  Listening'
  BY DEF Listening, Running

LEMMA LMainStep ==
  ASSUME LInv, Lifecycle \/ MainRuns \/ MainWaits
  PROVE  Listening'
<1> USE DEF MainGoes
<1>0. log \in Seq(Entries) /\ Listening
  BY DEF LInv, PInv, LogInv
<1>1. CASE Lifecycle \/ AlreadyIO \/ OpenFails \/ HandshakeThrows
  <2>1. UNCHANGED <<stream, readThread, interrupted, pc, log>>
    BY <1>1 DEF Lifecycle, onResume, onReceive, onPause, onDestroy, UserActs, Unplug,
                AlreadyIO, OpenFails, HandshakeThrows, fields, readers
  <2> QED BY <1>0, <2>1, ListeningStill DEF Replied
<1>2. CASE HandshakeWrites \/ HandshakeFails \/ EndWrites \/ MainSends
  <2>1. UNCHANGED <<stream, readThread, interrupted, pc>>
    BY <1>2 DEF HandshakeWrites, HandshakeFails, EndWrites, MainSends, fields, readers
  <2>2. log' = log \/ \E p \in Entries \ {"REPLY"} : Write(p)
    BY <1>2 DEF HandshakeWrites, HandshakeFails, EndWrites, MainSends, Entries
  <2>3. Replied' => Replied
    BY <1>0, <2>2, NoReply DEF Replied
  <2> QED BY <1>0, <2>1, <2>3, ListeningStill
<1>3. CASE Open
  <2>1. UNCHANGED <<readThread, interrupted, pc>> /\ ~Replied'
    BY <1>3 DEF Open, readers, Replied
  <2> QED BY <1>0, <2>1 DEF Listening
<1>4. CASE HandshakeSucceeds
  <2>1. /\ readThread' = stream /\ pc' = [pc EXCEPT ![stream] = "check"]
        /\ UNCHANGED <<stream, interrupted>>
    BY <1>4 DEF HandshakeSucceeds, fields
  <2>2. stream \in Readers /\ pc[stream] = "none" /\ DOMAIN pc = Readers
    BY <1>4, BoundsAssumption DEF HandshakeSucceeds, LInv, TInv, TypeOK, Fresh, Readers, None
  <2>3. pc'[stream] = "check" /\ \A t \in Readers \ {stream} : pc'[t] = pc[t]
    BY <2>1, <2>2
  <2>4. ~interrupted[stream]
    BY <1>0, <2>2 DEF Listening
  <2> QED BY <1>0, <2>1, <2>2, <2>3, <2>4 DEF Listening, Running
<1>5. CASE EndCloses
  <2>1. /\ stream' = None /\ UNCHANGED <<readThread, pc>>
        /\ \A t \in Readers : interrupted'[t] => interrupted[t] \/ t = readThread
    BY <1>5 DEF EndCloses
  <2> QED BY <1>0, <2>1 DEF Listening
<1> QED
  BY <1>1, <1>2, <1>3, <1>4, <1>5 DEF MainRuns, MainWaits

LEMMA LReaderStep ==
  ASSUME LInv, NEW t \in Readers, run(t) \/ RunReads(t) \/ RunThrows(t) \/ RunWrites(t)
  PROVE  Listening'
<1> DEFINE Label == {"check", "load", "read", "deliver", "answer", "write", "ended"}
<1>0. log \in Seq(Entries) /\ Listening /\ DOMAIN pc = Readers
      /\ (stream # None => stream \in Readers)
  BY BoundsAssumption DEF LInv, PInv, LogInv, TInv, TypeOK, Readers, None
<1>1. /\ UNCHANGED <<stream, readThread, interrupted>>
      /\ \E l \in Label : pc' = [pc EXCEPT ![t] = l]
  BY DEF run, RunCheck, RunLoads, RunReads, RunThrows, RunDelivers, RunAnswers, RunWrites,
         Goes, ReaderOnly, fields
<1>2. pc'[t] # "none" /\ \A r \in Readers \ {t} : pc'[r] = pc[r]
  BY <1>0, <1>1
<1>3. Replied' => Replied
  <2>1. log' = log \/ Write("DATA")
    BY DEF run, RunCheck, RunLoads, RunReads, RunThrows, RunDelivers, RunAnswers, RunWrites
  <2>2. "DATA" \in Entries \ {"REPLY"}
    BY DEF Entries
  <2> QED BY <1>0, <2>1, <2>2, NoReply DEF Replied
<1>4. ASSUME stream # None, readThread = stream, ~interrupted[stream], t = stream
      PROVE  pc'[t] # "ended"
  <2>1. CASE RunCheck(t)
    BY <1>0, <1>4, <2>1 DEF RunCheck, isInterrupted, Goes
  <2>2. CASE RunLoads(t)
    BY <1>0, <1>4, <2>2 DEF RunLoads, Goes
  <2>3. CASE RunDelivers(t) \/ RunAnswers(t) \/ RunReads(t) \/ RunThrows(t) \/ RunWrites(t)
    BY <1>0, <2>3 DEF RunDelivers, RunAnswers, RunReads, RunThrows, RunWrites, Goes
  <2> QED BY <2>1, <2>2, <2>3 DEF run
<1>5. ASSUME stream # None, Replied'
      PROVE  readThread = stream /\ Running(stream)' /\ ~interrupted[stream]
  <2>1. readThread = stream /\ Running(stream) /\ ~interrupted[stream] /\ stream \in Readers
    BY <1>0, <1>3, <1>5 DEF Listening
  <2> QED BY <1>1, <1>2, <1>4, <1>5, <2>1 DEF Running
<1>6. \A r \in Readers : pc[r] # "none" => pc'[r] # "none"
  BY <1>2
<1> QED BY <1>0, <1>1, <1>5, <1>6 DEF Listening

LEMMA LStep == LInv /\ [Next]_vars => LInv'
<1> SUFFICES ASSUME LInv, [Next]_vars PROVE LInv'
  OBVIOUS
<1>1. IInv' /\ PInv' /\ TInv'
  BY IStep, PStep, TStep DEF LInv
<1>2. CASE UNCHANGED vars
  <2>1. UNCHANGED <<stream, readThread, interrupted, pc, log>>
    BY <1>2 DEF vars, fields, readers
  <2> QED BY <1>1, <2>1, ListeningStill DEF LInv, Replied
<1>3. CASE Lifecycle \/ MainRuns \/ MainWaits
  BY <1>1, <1>3, LMainStep DEF LInv
<1>4. CASE \E t \in Readers : run(t) \/ RunReads(t) \/ RunThrows(t) \/ RunWrites(t)
  BY <1>1, <1>4, LReaderStep DEF LInv
<1> QED BY <1>2, <1>3, <1>4 DEF Next

LEMMA NothingLost == LInv => NoSessionLost
  BY DEF LInv, Listening, Replied, IInv, OneDescriptor, Dismissed, Running, NoSessionLost

\* NoSessionLost: startIO and endIO never lose a session: no read thread but the one in
\* the field is left without an interrupt, no descriptor but the one in the fields is left
\* open, and the session in the fields has its thread once its handshake was answered.
THEOREM SessionsKept == Spec => []NoSessionLost
  BY LInitially, LStep, NothingLost, PTL DEF Spec
=============================================================================
