--------------------------- MODULE SessionPromise ---------------------------
(* What the daemon and the phone promise about sessions, with neither wire *)
(* nor threads: the daemon serves one session at a time, takes sessions up *)
(* in the order in which they were opened and none of them twice, serves   *)
(* nobody it did not answer, and never stops serving a session that lasts  *)
(* at the phone.                                                           *)
EXTENDS Integers

VARIABLES opened,   \* number of sessions the phone opened so far
          lasting,  \* the session that lasts at the phone, or NoSession
          phase,    \* the daemon is "idle", "shaking" hands or "serving" ...
          peer      \* ... the session it took up last, or NoSession

NoSession == 0
promised  == <<opened, lasting, phase, peer>>

Init ==
  /\ opened = 0
  /\ lasting = NoSession
  /\ phase = "idle"
  /\ peer = NoSession

\* The phone opens a session, which lasts until the phone says that it is over ...
Opens ==
  /\ lasting = NoSession
  /\ opened' = opened + 1
  /\ lasting' = opened'
  /\ UNCHANGED <<phase, peer>>

\* ... or dies without a word ...
Ends ==
  /\ lasting' = NoSession
  /\ UNCHANGED <<opened, phase, peer>>

\* ... or the connection is lost, and with it a handshake that was not answered.
Lost ==
  /\ lasting' = NoSession
  /\ phase' = IF phase = "shaking" THEN "idle" ELSE phase
  /\ UNCHANGED <<opened, peer>>

TakesUp ==
  /\ phase = "idle"
  /\ phase' = "shaking"
  /\ peer' \in (peer + 1)..opened
  /\ UNCHANGED <<opened, lasting>>

Answers ==
  /\ phase = "shaking"
  /\ phase' = "serving"
  /\ UNCHANGED <<opened, lasting, peer>>

GivesUp ==
  /\ phase = "shaking"
  /\ phase' = "idle"
  /\ UNCHANGED <<opened, lasting, peer>>

Finishes ==
  /\ phase = "serving"
  /\ lasting # peer
  /\ phase' = "idle"
  /\ UNCHANGED <<opened, lasting, peer>>

Next == Opens \/ Ends \/ Lost \/ TakesUp \/ Answers \/ GivesUp \/ Finishes

Spec == Init /\ [][Next]_promised
=============================================================================
