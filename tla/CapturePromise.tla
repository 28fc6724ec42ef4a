--------------------------- MODULE CapturePromise ---------------------------
(* What Linux/Main.c promises about screen captures, with neither mutexes  *)
(* nor program counters: there is one capture at a time, each runs once,   *)
(* it runs until a stop, and sharing is resumed only when it is over.      *)
CONSTANT Captures

VARIABLES wanted,     \* nothing has asked the captures to stop
          capturing,  \* the captures under way
          over        \* the captures that ended

promised == <<wanted, capturing, over>>

Init ==
  /\ wanted = TRUE
  /\ capturing = {}
  /\ over = {}

Stop ==
  /\ wanted' = FALSE
  /\ UNCHANGED <<capturing, over>>

Resume ==
  /\ capturing = {}
  /\ wanted' = TRUE
  /\ UNCHANGED <<capturing, over>>

Begin(c) ==
  /\ capturing = {}
  /\ c \notin over
  /\ capturing' = {c}
  /\ UNCHANGED <<wanted, over>>

End(c) ==
  /\ ~wanted
  /\ c \in capturing
  /\ capturing' = capturing \ {c}
  /\ over' = over \cup {c}
  /\ UNCHANGED wanted

Next == Stop \/ Resume \/ \E c \in Captures : Begin(c) \/ End(c)

Spec == Init /\ [][Next]_promised
=============================================================================
