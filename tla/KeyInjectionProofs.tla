------------------------- MODULE KeyInjectionProofs -------------------------
(* For any number of read threads: what they wrote was reported when the   *)
(* last of them is done, characters are typed by the keys they were given, *)
(* and nothing but shift stays down, unless two keys are pressed at once.  *)
EXTENDS KeyInjection, TLAPS

-----------------------------------------------------------------------------
(* Reports.  An event that was not reported yet belongs to a thread that   *)
(* still has its report to write.                                          *)
Points == KeySteps \cup {"idle", "syn", "rel_x", "rel_y", "scroll", "click", "click_up"}

\* Where a thread is between an event and the report after it.
BeforeReport == {"shift_syn", "up", "syn", "rel_y", "click_up"}

Inv ==
  /\ pc \in [Threads -> Points]
  /\ unreported => \E t \in Threads : pc[t] \in BeforeReport

\* An assignment, or another thread's start, takes no thread from its report.
LEMMA StepElsewhere ==
  ASSUME Inv, NEW t \in Threads, NEW from \in Points \ BeforeReport, NEW to \in Points,
         Goto(t, from, to), UNCHANGED unreported
  PROVE  Inv'
  BY DEF Inv, Goto

\* After an event the thread has its report to write.
LEMMA StepWrites ==
  ASSUME Inv, NEW t \in Threads, NEW from \in Points, NEW to \in BeforeReport,
         Goto(t, from, to)
  PROVE  Inv'
  <1>1. to \in Points
    BY DEF Points, KeySteps, BeforeReport
  <1>2. pc'[t] = to /\ pc' \in [Threads -> Points]
    BY <1>1 DEF Inv, Goto
  <1> QED
    BY <1>2 DEF Inv

\* A report covers all that was written.
LEMMA StepReports ==
  ASSUME Inv, NEW t \in Threads, NEW from \in Points, NEW to \in Points,
         Goto(t, from, to), WriteSyn
  PROVE  Inv'
  BY DEF Inv, Goto, WriteSyn

LEMMA InvInitially == Init => Inv
  BY DEF Init, Inv, Points, KeySteps

\* Every step keeps the invariant.
LEMMA InvKept == Inv /\ [Next]_vars => Inv'
  <1> SUFFICES ASSUME Inv, [Next]_vars PROVE Inv'
    OBVIOUS
  <1>1. ASSUME NEW t \in Threads, NEW n \in Typed, PressKey(t, n) PROVE Inv'
    <2>1. Goto(t, "idle", "key") /\ UNCHANGED unreported
      BY <1>1 DEF PressKey, kernel
    <2> QED
      BY <2>1, StepElsewhere DEF Points, KeySteps, BeforeReport
  <1>2. ASSUME NEW t \in Threads, MouseEvent(t) PROVE Inv'
    <2>1. PICK begin \in {"rel_x", "click", "scroll"} : Goto(t, "idle", begin)
      BY <1>2 DEF MouseEvent
    <2>2. UNCHANGED unreported
      BY <1>2 DEF MouseEvent, kernel
    <2>3. "idle" \in Points \ BeforeReport /\ begin \in Points
      BY DEF Points, KeySteps, BeforeReport
    <2> QED
      BY <2>1, <2>2, <2>3, StepElsewhere
  <1>3. ASSUME NEW t \in Threads, NeedsShift(t) \/ NeedsNoShift(t) PROVE Inv'
    <2>1. /\ Goto(t, "key", "shift") \/ Goto(t, "key", "codes")
          /\ UNCHANGED unreported
      BY <1>3 DEF NeedsShift, NeedsNoShift, kernel
    <2> QED
      BY <2>1, StepElsewhere DEF Points, KeySteps, BeforeReport
  <1>4. ASSUME NEW t \in Threads, ShiftDown(t) PROVE Inv'
    <2>1. Goto(t, "shift", "shift_syn")
      BY <1>4 DEF ShiftDown
    <2> QED
      BY <2>1, StepWrites DEF Points, KeySteps, BeforeReport
  <1>5. ASSUME NEW t \in Threads, ShiftSyn(t) PROVE Inv'
    <2>1. Goto(t, "shift_syn", "codes") /\ WriteSyn
      BY <1>5 DEF ShiftSyn
    <2> QED
      BY <2>1, StepReports DEF Points, KeySteps
  <1>6. ASSUME NEW t \in Threads, DownCode(t) \/ UpCode(t) PROVE Inv'
    <2>1. /\ Goto(t, "codes", "up_code") \/ Goto(t, "up_code", "down")
          /\ UNCHANGED unreported
      BY <1>6 DEF DownCode, UpCode, kernel
    <2> QED
      BY <2>1, StepElsewhere DEF Points, KeySteps, BeforeReport
  <1>7. ASSUME NEW t \in Threads, KeyDown(t) \/ KeyUp(t) PROVE Inv'
    <2>1. Goto(t, "down", "up") \/ Goto(t, "up", "syn")
      BY <1>7 DEF KeyDown, KeyUp
    <2> QED
      BY <2>1, StepWrites DEF Points, KeySteps, BeforeReport
  <1>8. ASSUME NEW t \in Threads, uinput_mouse(t) PROVE Inv'
    <2>1. \/ Goto(t, "rel_x", "rel_y") \/ Goto(t, "rel_y", "syn")
          \/ Goto(t, "scroll", "syn")
          \/ Goto(t, "click", "click_up") \/ Goto(t, "click_up", "syn")
      BY <1>8 DEF uinput_mouse, MoveX, MoveY, uinput_mouse_scroll, ClickDown, ClickUp
    <2> QED
      BY <2>1, StepWrites DEF Points, KeySteps, BeforeReport
  <1>9. ASSUME NEW t \in Threads, Syn(t) PROVE Inv'
    <2>1. Goto(t, "syn", "idle") /\ WriteSyn
      BY <1>9 DEF Syn
    <2> QED
      BY <2>1, StepReports DEF Points, KeySteps
  <1>10. CASE UNCHANGED vars
    BY <1>10 DEF vars, kernel, Inv
  <1> QED
    BY <1>1, <1>2, <1>3, <1>4, <1>5, <1>6, <1>7, <1>8, <1>9, <1>10
       DEF Next, kbmMode, uinput_key_press

\* However many threads write to the uinput device at once, the kernel was told to
\* report every event when the last of them is done (UinputWrapper.c).
THEOREM AllReported == Spec => []EverythingReported
  <1>1. Inv => EverythingReported
    BY DEF Inv, EverythingReported, Quiet, BeforeReport
  <1> QED
    BY InvInitially, InvKept, <1>1, PTL DEF Spec

-----------------------------------------------------------------------------
(* The arguments of key events, for every int there is.                    *)
LEMMA HighLow ==
  ASSUME NEW n \in Int
  PROVE  High(n) \in Int /\ Low(n) \in Bytes /\ n = 256 * High(n) + Low(n)
  BY SMT DEF High, Low, Bytes

\* The control int of the handshake is read as 2 or as 2 in the other order, never as 1.
LEMMA TakenForSwapped == endianess = "OPPOSITE"
<1>1. High(2) = 0 /\ High(0) = 0 /\ Low(2) = 2 /\ Low(0) = 0
  BY SMT DEF High, Low
<1>2. Wire(2) = <<0, 0, 0, 2>>
  BY <1>1 DEF Wire
<1>3. IntOf(Wire(2)) # 1
  BY <1>2, SMT DEF IntOf, Signed
<1> QED BY <1>3 DEF endianess, ControllInt

\* The three steps of taking bytes from an int.
Pieces(n, a, b, c) ==
  /\ c = High(High(High(n)))
  /\ Low(n) \in Bytes /\ n = 256 * a + Low(n)
  /\ Low(a) \in Bytes /\ a = 256 * b + Low(a)
  /\ Low(b) \in Bytes /\ b = 256 * c + Low(b)
  /\ Low(c) \in Bytes
  /\ Wire(n) = <<Low(c), Low(b), Low(a), Low(n)>>

LEMMA FourBytes ==
  ASSUME NEW n \in Int
  PROVE  \E a, b, c \in Int : Pieces(n, a, b, c)
<1>1. PICK a \in Int : a = High(n) /\ Low(n) \in Bytes /\ n = 256 * a + Low(n)
  BY HighLow
<1>2. PICK b \in Int : b = High(a) /\ Low(a) \in Bytes /\ a = 256 * b + Low(a)
  BY HighLow
<1>3. PICK c \in Int : c = High(b) /\ Low(b) \in Bytes /\ b = 256 * c + Low(b)
  BY HighLow
<1>4. Low(c) \in Bytes
  BY HighLow
<1>5. b = High(High(n)) /\ c = High(High(High(n)))
  BY <1>1, <1>2, <1>3, Zenon
<1>6. Wire(n) = <<Low(c), Low(b), Low(a), Low(n)>>
  BY <1>1, <1>5, Zenon DEF Wire
<1> QED BY <1>1, <1>2, <1>3, <1>4, <1>5, <1>6, Zenon DEF Pieces

LEMMA SignedInt == \A i \in Bytes : Signed(i) \in Int
  BY DEF Signed, Bytes

LEMMA ArgumentRead ==
  ASSUME NEW n \in Int
  PROVE  FirstArg(n) \in Int
<1>1. PICK d, e, f, g \in Bytes : Wire(n) = <<d, e, f, g>>
  <2>1. PICK a, b, c \in Int : Pieces(n, a, b, c)
    BY FourBytes
  <2> QED BY <2>1, Zenon DEF Pieces
<1>2. flipInt(Wire(n)) = <<g, f, e, d>>
  BY <1>1 DEF flipInt
<1>3. FirstArg(n) = IntOf(<<g, f, e, d>>)
  BY <1>2, TakenForSwapped DEF FirstArg
<1>4. g \in Int /\ f \in Int /\ e \in Int /\ d \in Int /\ Signed(g) \in Int /\ Signed(d) \in Int
  BY SignedInt DEF Bytes
<1> QED BY <1>3, <1>4 DEF IntOf

\* The highest byte of an int of 32 bits has its sign.
LEMMA HighestByte ==
  ASSUME NEW c \in -128..127
  PROVE  Signed(Low(c)) = c
<1>1. Low(c) = IF c < 0 THEN c + 256 ELSE c
  BY SMT DEF Low
<1> QED BY <1>1, SMT DEF Signed

LEMMA BytesMakeInt ==
  ASSUME NEW n \in Ints, Host = "LITTLE"
  PROVE  FirstArg(n) = n
<1>1. n \in Int /\ High(High(High(n))) \in -128..127
  BY DEF Ints
<1>2. PICK a, b, c \in Int : Pieces(n, a, b, c)
  BY <1>1, FourBytes
<1>3. c \in -128..127 /\ Signed(Low(c)) = c
  BY <1>1, <1>2, HighestByte, Zenon DEF Pieces
<1>4. flipInt(Wire(n)) = <<Low(n), Low(a), Low(b), Low(c)>>
  BY <1>2 DEF flipInt, Pieces
<1>5. FirstArg(n) = IntOf(<<Low(n), Low(a), Low(b), Low(c)>>)
  BY <1>4, TakenForSwapped DEF FirstArg
<1>6. FirstArg(n) = Low(n) + 256 * (Low(a) + 256 * (Low(b) + 256 * c))
  BY <1>3, <1>5 DEF IntOf
<1> QED BY <1>1, <1>2, <1>6, SMT DEF Bytes, Pieces

-----------------------------------------------------------------------------
(* The table: each key code in it was enabled and types its character.     *)
Keypad == {KEY_KPMINUS, KEY_KPPLUS}
Keys   == Plain \cup Keypad \cup {KEY_BACKSPACE}

LEMMA KeyNumbers == \A c \in Keys : c \in Int /\ c > 0 /\ c < BTN_LEFT
  BY DEF Keys, Keypad, Plain, KEY_KPMINUS, KEY_KPPLUS, KEY_BACKSPACE, BTN_LEFT

LEMMA KeysEnabled == Keys \subseteq Enabled
<1>1. \A k \in Plain : k \in EnabledKeys /\ getKeyCode(k) = k /\ getKeyCode(k) >= 0
  <2>1. \A k \in Plain : k \in EnabledKeys /\ k > 0
    BY DEF Plain, EnabledKeys
  <2>2. \A k \in Plain : getKeyCode(k) = k
    <3>1. \A k \in Plain : k \notin Above /\ k # 0 /\ k # 61 /\ k # 43 /\ k # 45 /\ k # 95
      BY DEF Plain, Above
    <3> QED BY <3>1 DEF getKeyCode
  <2> QED BY <2>1, <2>2 DEF EnabledKeys
<1>2. /\ 0 \in EnabledKeys /\ getKeyCode(0) = KEY_BACKSPACE /\ getKeyCode(0) >= 0
      /\ 61 \in EnabledKeys /\ getKeyCode(61) = KEY_KPPLUS /\ getKeyCode(61) >= 0
      /\ 45 \in EnabledKeys /\ getKeyCode(45) = KEY_KPMINUS /\ getKeyCode(45) >= 0
  BY DEF EnabledKeys, getKeyCode, KEY_BACKSPACE, KEY_KPPLUS, KEY_KPMINUS, Plain, Above
<1> QED BY <1>1, <1>2 DEF Enabled, Keys, Keypad

\* The keys of the symbols, and of the capitals, have them above.
LEMMA BelowHasAbove ==
  \A c \in Above : Below(c) \in Plain /\ <<Below(c), c>> \in Legends
<1>1. ASSUME NEW c \in 65..90 PROVE Below(c) \in Plain /\ <<Below(c), c>> \in Legends
  <2>1. Below(c) = c + 32 /\ c + 32 \in 97..122 /\ (c + 32) - 32 = c
    BY SMT DEF Below
  <2> QED BY <2>1, Zenon DEF Legends, Plain
<1>2. ASSUME NEW c \in Above \ 65..90 PROVE Below(c) \in Plain /\ <<Below(c), c>> \in Legends
  <2>1. <<Below(c), c>> \in {<<49, 33>>, <<50, 64>>, <<51, 35>>, <<52, 36>>, <<53, 37>>, <<54, 94>>,
                             <<55, 38>>, <<56, 42>>, <<57, 40>>, <<48, 41>>, <<92, 124>>, <<91, 123>>,
                             <<93, 125>>, <<39, 34>>, <<59, 58>>, <<47, 63>>, <<46, 62>>, <<44, 60>>}
    BY DEF Above, Below
  <2>2. Below(c) \in Plain
    BY <2>1 DEF Plain
  <2> QED BY <2>1, <2>2 DEF Legends
<1> QED BY <1>1, <1>2

\* Without shift a key types what is below.
LEMMA PlainTypesItself == \A c \in Plain : Types(c, FALSE, c)
<1> SUFFICES ASSUME NEW c \in Plain PROVE Types(c, FALSE, c)
  OBVIOUS
<1>1. CASE c \in {10, 14, 32}
  BY <1>1 DEF Types
<1>2. CASE c \in 97..122
  <2>1. <<c, c - 32>> \in Legends
    BY <1>2, Zenon DEF Legends
  <2> QED BY <2>1 DEF Types
<1>3. CASE c \in Plain \ ({10, 14, 32} \cup 97..122)
  <2>1. c \in {39, 44, 46, 59, 47, 48, 49, 50, 51, 52, 53, 54, 55, 56, 57, 91, 92, 93}
    BY <1>3 DEF Plain
  <2>2. \E a \in 33..126 : <<c, a>> \in Legends
    BY <2>1, SMT DEF Legends
  <2>3. PICK a \in 33..126 : <<c, a>> \in Legends
    BY <2>2
  <2>4. <<c, a>>[1] = c
    OBVIOUS
  <2> QED BY <2>3, <2>4 DEF Types
<1> QED BY <1>1, <1>2, <1>3

LEMMA TableTypes ==
  ASSUME NEW k \in Bytes, NEW code, code = key_transaltion_table[k], code # KEY_RESERVED
  PROVE  \/ code \in Keys /\ Types(code, FALSE, Misprinted(k))
         \/ \E below \in Keys : code = -below /\ Types(below, TRUE, Misprinted(k))
<1>1. code = getKeyCode(k)
  BY DEF key_transaltion_table, KEY_RESERVED
<1>2. CASE k = 0
  <2>1. code = KEY_BACKSPACE /\ Misprinted(k) = 0
    BY <1>1, <1>2 DEF getKeyCode, Misprinted, Plain, Above
  <2>2. Types(KEY_BACKSPACE, FALSE, 0)
    BY Zenon DEF Types
  <2> QED BY <2>1, <2>2 DEF Keys
<1>3. CASE k \in Plain
  <2>1. k # 0 /\ k \notin Above /\ k # 61 /\ k # 95 /\ k # 43 /\ k # 45
    BY <1>3 DEF Plain, Above
  <2>2. code = k /\ Misprinted(k) = k
    BY <1>1, <1>3, <2>1 DEF getKeyCode, Misprinted
  <2> QED BY <1>3, <2>2, PlainTypesItself DEF Keys
<1>4. CASE k \in Above
  <2>1. k # 0 /\ k \notin Plain /\ k # 61 /\ k # 95 /\ k # 43 /\ k # 45
    BY <1>4 DEF Plain, Above
  <2>2. code = -Below(k) /\ Misprinted(k) = k
    BY <1>1, <1>4, <2>1 DEF getKeyCode, Misprinted
  <2>3. Below(k) \in Plain /\ <<Below(k), k>> \in Legends
    BY <1>4, BelowHasAbove
  <2>4. Types(Below(k), TRUE, k)
    BY <2>3 DEF Types
  <2> QED BY <2>2, <2>3, <2>4 DEF Keys
<1>5. CASE k \in {61, 43, 45, 95}
  <2>1. k \notin Plain /\ k \notin Above
    BY <1>5 DEF Plain, Above
  <2> QED BY <1>1, <1>5, <2>1 DEF getKeyCode, Misprinted, Types, Keys, Keypad
<1> QED BY <1>1, <1>2, <1>3, <1>4, <1>5 DEF getKeyCode

LEMMA TableEnabled ==
  ASSUME NEW k \in Bytes, NEW code, code = key_transaltion_table[k]
  PROVE  /\ code \in Int
         /\ Magnitude(code) # BTN_LEFT
         /\ code # KEY_RESERVED => Known(Magnitude(code))
         /\ Magnitude(code) \in Codes
         /\ code # KEY_RESERVED => Types(Magnitude(code), code < 0, Misprinted(k))
<1>1. CASE code = KEY_RESERVED
  BY <1>1 DEF KEY_RESERVED, Magnitude, BTN_LEFT, Codes
<1>2. CASE code # KEY_RESERVED /\ code \in Keys /\ Types(code, FALSE, Misprinted(k))
  <2>1. code \in Int /\ code > 0 /\ code < BTN_LEFT
    BY <1>2, KeyNumbers
  <2>2. Magnitude(code) = code /\ (code < 0) = FALSE
    BY <2>1 DEF Magnitude
  <2>3. code \in Enabled /\ code \in Codes
    BY <1>2, KeysEnabled DEF Keys, Keypad, Codes
  <2>4. Types(Magnitude(code), code < 0, Misprinted(k))
    BY <1>2, <2>2, Zenon
  <2>5. Known(code) /\ code # BTN_LEFT
    BY <1>2, <2>1, <2>3 DEF Known, BTN_LEFT
  <2> QED BY <2>1, <2>2, <2>3, <2>4, <2>5, Zenon
<1>3. ASSUME NEW below \in Keys, code = -below, Types(below, TRUE, Misprinted(k))
      PROVE  /\ code \in Int
             /\ Magnitude(code) = below
             /\ Known(below) /\ below # BTN_LEFT /\ below \in Codes
             /\ Types(Magnitude(code), code < 0, Misprinted(k))
  <2>1. below \in Int /\ below > 0 /\ below < BTN_LEFT
    BY KeyNumbers
  <2>2. code \in Int /\ Magnitude(code) = below /\ (code < 0) = TRUE
    BY <1>3, <2>1 DEF Magnitude
  <2>3. below \in Enabled /\ below \in Codes
    BY KeysEnabled DEF Keys, Keypad, Codes
  <2>4. Types(Magnitude(code), code < 0, Misprinted(k))
    BY <1>3, <2>2, Zenon
  <2>5. Known(below) /\ below # BTN_LEFT
    BY <2>1, <2>3 DEF Known, KEY_RESERVED, BTN_LEFT
  <2> QED BY <2>2, <2>3, <2>4, <2>5, Zenon
<1>4. CASE code # KEY_RESERVED /\ code \notin Keys
  <2>1. PICK below \in Keys : code = -below /\ Types(below, TRUE, Misprinted(k))
    BY <1>4, TableTypes, Zenon
  <2> QED BY <1>3, <2>1, Zenon
<1>5. CASE code # KEY_RESERVED /\ code \in Keys
  <2>1. \A below \in Keys : code # -below
    BY <1>5, KeyNumbers
  <2> QED BY <1>2, <1>5, <2>1, TableTypes, Zenon
<1> QED BY <1>1, <1>4, <1>5, Zenon

LEMMA ShiftEnabled == Known(KEY_LEFTSHIFT) /\ KEY_LEFTSHIFT # BTN_LEFT
  BY KeysEnabled DEF Keys, Known, KEY_LEFTSHIFT, KEY_RESERVED, Plain, BTN_LEFT

LEMMA TypeKept == TypeOK /\ [Next]_vars => TypeOK'
<1> SUFFICES ASSUME TypeOK, [Next]_vars PROVE TypeOK'
  OBVIOUS
<1> DEFINE Places == KeySteps \cup {"idle", "syn", "rel_x", "rel_y", "scroll", "click", "click_up"}
<1>1. ASSUME NEW t \in Threads, NEW from, NEW to \in Places, Goto(t, from, to)
      PROVE  pc' \in [Threads -> Places]
  BY <1>1 DEF Goto, TypeOK
<1>2. KEY_LEFTSHIFT \in Codes
  BY DEF KEY_LEFTSHIFT, Codes, Plain
<1>3. ASSUME NEW t \in Threads, NEW n \in Typed, PressKey(t, n) PROVE TypeOK'
  <2>1. FirstArg(n) % 256 \in Bytes
    <3>1. n \in Int
      BY TypedAssumption DEF Ints
    <3>2. FirstArg(n) \in Int
      BY <3>1, ArgumentRead
    <3> QED BY <3>2, SMT DEF Bytes
  <2>2. key' \in [Threads -> Bytes] /\ overlapped' \in BOOLEAN
    BY <1>3, <2>1 DEF PressKey, TypeOK
  <2>3. pc' \in [Threads -> Places]
    BY <1>1, <1>3 DEF PressKey, KeySteps
  <2> QED BY <1>3, <2>2, <2>3 DEF PressKey, TypeOK, events, kernel
<1>4. ASSUME NEW t \in Threads, uinput_key_press(t) PROVE TypeOK'
  <2>1. pc' \in [Threads -> Places]
    BY <1>1, <1>4 DEF uinput_key_press, NeedsShift, NeedsNoShift, ShiftDown, ShiftSyn,
                      DownCode, UpCode, KeyDown, KeyUp, KeySteps
  <2>2. down_event' \in Codes /\ up_event' \in Codes
    <3>1. Magnitude(Code(t)) \in Codes
      BY TableEnabled DEF TypeOK, Code
    <3> QED BY <1>2, <1>4, <3>1 DEF TypeOK, uinput_key_press, NeedsShift, NeedsNoShift,
             ShiftDown, ShiftSyn, DownCode, UpCode, KeyDown, KeyUp, events
  <2>3. /\ pressed' \subseteq pressed \cup ({down_event} \ {KEY_RESERVED})
        /\ unreported' \in BOOLEAN
    BY <1>4 DEF TypeOK, uinput_key_press, NeedsShift, NeedsNoShift, ShiftDown, ShiftSyn,
                DownCode, UpCode, KeyDown, KeyUp, kernel, WriteDown, WriteUp, WriteSyn, Known
  <2>4. UNCHANGED <<key, overlapped>>
    BY <1>4 DEF uinput_key_press, NeedsShift, NeedsNoShift, ShiftDown, ShiftSyn,
                DownCode, UpCode, KeyDown, KeyUp
  <2> QED BY <2>1, <2>2, <2>3, <2>4 DEF TypeOK
<1>5. ASSUME NEW t \in Threads, MouseEvent(t) \/ uinput_mouse(t) \/ Syn(t) PROVE TypeOK'
  <2>1. pc' \in [Threads -> Places]
    <3>1. PICK to \in Places : \E from \in Places : Goto(t, from, to)
      BY <1>5 DEF MouseEvent, uinput_mouse, MoveX, MoveY, uinput_mouse_scroll, ClickDown,
                  ClickUp, Syn
    <3> QED BY <1>1, <3>1
  <2>2. /\ pressed' \subseteq pressed \cup {BTN_LEFT}
        /\ unreported' \in BOOLEAN
        /\ UNCHANGED <<down_event, up_event, key, overlapped>>
    BY <1>5 DEF TypeOK, MouseEvent, uinput_mouse, MoveX, MoveY, uinput_mouse_scroll,
                ClickDown, ClickUp, Syn, events, kernel, WriteRel, WriteSyn, WriteDown, WriteUp
  <2> QED BY <2>1, <2>2 DEF TypeOK
<1>6. CASE UNCHANGED vars
  BY <1>6 DEF vars, events, kernel, TypeOK
<1> QED BY <1>3, <1>4, <1>5, <1>6 DEF Next, kbmMode

\* The translation table is indexed with bytes only, whatever int a phone sends, and
\* only codes of keys are ever written or down (UinputWrapper.c).
THEOREM TypeCorrect == Spec => []TypeOK
<1>1. Init => TypeOK
  <2>1. 0 \in Codes /\ 0 \in Bytes
    BY DEF Codes, KEY_RESERVED, Bytes
  <2> QED BY <2>1 DEF Init, TypeOK
<1> QED BY <1>1, TypeKept, PTL DEF Spec

-----------------------------------------------------------------------------
(* The ints of the phone are the arguments of uinput_key_press.            *)
LEMMA ArgumentsKept == TypeOK /\ ArgumentsArrive /\ [Next]_vars => ArgumentsArrive'
<1> SUFFICES ASSUME TypeOK, ArgumentsArrive, [Next]_vars, Host = "LITTLE",
                    NEW o \in Threads, pc'[o] \in KeySteps
             PROVE  key'[o] \in {n % 256 : n \in Typed}
  BY DEF ArgumentsArrive
<1>1. ASSUME pc[o] \in KeySteps, UNCHANGED key PROVE key'[o] \in {n % 256 : n \in Typed}
  BY <1>1 DEF ArgumentsArrive
<1>2. ASSUME NEW t \in Threads, NEW n \in Typed, PressKey(t, n)
      PROVE  key'[o] \in {m % 256 : m \in Typed}
  <2>1. FirstArg(n) = n
    BY TypedAssumption, BytesMakeInt
  <2>2. key' = [key EXCEPT ![t] = n % 256]
    BY <1>2, <2>1 DEF PressKey
  <2>3. CASE o = t
    BY <2>2, <2>3 DEF TypeOK
  <2>4. CASE o # t
    <3>1. pc[o] \in KeySteps
      BY <1>2, <2>4 DEF PressKey, Goto, TypeOK
    <3> QED BY <2>2, <2>4, <3>1 DEF TypeOK, ArgumentsArrive
  <2> QED BY <2>3, <2>4
<1>3. ASSUME NEW t \in Threads, uinput_key_press(t) PROVE key'[o] \in {n % 256 : n \in Typed}
  <2>1. UNCHANGED key
    BY <1>3 DEF uinput_key_press, NeedsShift, NeedsNoShift, ShiftDown, ShiftSyn,
                DownCode, UpCode, KeyDown, KeyUp
  <2>2. pc[o] \in KeySteps
    BY <1>3 DEF uinput_key_press, NeedsShift, NeedsNoShift, ShiftDown, ShiftSyn,
                DownCode, UpCode, KeyDown, KeyUp, Goto, TypeOK, KeySteps
  <2> QED BY <1>1, <2>1, <2>2
<1>4. ASSUME NEW t \in Threads, MouseEvent(t) \/ uinput_mouse(t) \/ Syn(t)
      PROVE  key'[o] \in {n % 256 : n \in Typed}
  <2>1. UNCHANGED key
    BY <1>4 DEF MouseEvent, uinput_mouse, MoveX, MoveY, uinput_mouse_scroll, ClickDown,
                ClickUp, Syn
  <2>2. pc[o] \in KeySteps
    BY <1>4 DEF MouseEvent, uinput_mouse, MoveX, MoveY, uinput_mouse_scroll, ClickDown,
                ClickUp, Syn, Goto, TypeOK, KeySteps
  <2> QED BY <1>1, <2>1, <2>2
<1>5. CASE UNCHANGED vars
  BY <1>1, <1>5 DEF vars
<1> QED BY <1>2, <1>3, <1>4, <1>5 DEF Next, kbmMode

\* Whatever ints phones send, a key that is being pressed on a little-endian processor is
\* the last byte of one of them (kbmMode, UinputWrapper.c).
THEOREM IntsArrive == Spec => []ArgumentsArrive
<1>1. Init => ArgumentsArrive
  BY DEF Init, ArgumentsArrive, KeySteps
<1> QED BY <1>1, TypeCorrect, ArgumentsKept, PTL DEF Spec

-----------------------------------------------------------------------------
(* One key at a time.  As long as no two threads press keys at once, the   *)
(* shared events hold the codes of the one that does, and what is down is  *)
(* its key, shift, or the mouse button of a thread that clicks.            *)
K(t) == Magnitude(Code(t))

Alone ==
  \A t, o \in Threads : pc[t] \in KeySteps /\ pc[o] \in KeySteps => t = o

SharedCodes ==
  \A t \in Threads :
    /\ pc[t] = "shift" => down_event = KEY_LEFTSHIFT
    /\ pc[t] \in {"up_code", "down"} => down_event = K(t)
    /\ pc[t] \in {"down", "up"} => up_event = K(t)

Held ==
  \A t \in Threads :
    /\ pc[t] \in {"shift_syn", "codes", "up_code", "down", "up"} /\ Code(t) < 0
         => KEY_LEFTSHIFT \in pressed
    /\ pc[t] = "up" /\ Code(t) # KEY_RESERVED => K(t) \in pressed

OnlyHeld ==
  \A c \in pressed \ {KEY_LEFTSHIFT, BTN_LEFT} :
    \E t \in Threads : pc[t] = "up" /\ c = K(t)

Button ==
  /\ down_event # BTN_LEFT
  /\ BTN_LEFT \in pressed => \E t \in Threads : pc[t] = "click_up"

KInv ==
  /\ pc \in [Threads -> Points]
  /\ key \in [Threads -> Bytes]
  /\ Button
  /\ ~overlapped => Alone /\ SharedCodes /\ Held /\ OnlyHeld

LEMMA KInvInitially == Init => KInv
  BY DEF Init, KInv, Points, KeySteps, Bytes, Button, Alone, SharedCodes, Held, OnlyHeld, BTN_LEFT

\* Facts on the codes of all threads, for the lemmas below.
LEMMA CodeFacts ==
  ASSUME KInv, NEW t \in Threads
  PROVE  /\ Code(t) \in Int
         /\ K(t) # BTN_LEFT
         /\ Code(t) # KEY_RESERVED => Known(K(t))
         /\ Code(t) < 0 => Code(t) # KEY_RESERVED
         /\ Code(t) # KEY_RESERVED => Types(K(t), Code(t) < 0, Misprinted(key[t]))
<1>1. key[t] \in Bytes
  BY DEF KInv
<1>2. /\ Code(t) \in Int
      /\ K(t) # BTN_LEFT
      /\ Code(t) # KEY_RESERVED => Known(K(t))
      /\ Code(t) # KEY_RESERVED => Types(K(t), Code(t) < 0, Misprinted(key[t]))
  BY <1>1, TableEnabled DEF Code, K
<1> QED BY <1>2 DEF KEY_RESERVED

\* A thread outside uinput_key_press that leaves keys alone.
LEMMA KMouse ==
  ASSUME KInv, NEW t \in Threads, NEW from \in Points \ (KeySteps \cup {"click_up"}),
         NEW to \in Points \ (KeySteps \cup {"click_up"}),
         Goto(t, from, to), UNCHANGED <<events, pressed, key, overlapped>>
  PROVE  KInv'
<1>1. /\ pc' \in [Threads -> Points]
      /\ \A o \in Threads : pc'[o] \in KeySteps \cup {"click_up"} \/ pc[o] \in KeySteps \cup {"click_up"}
                              => pc'[o] = pc[o]
  BY DEF Goto, KInv
<1>2. \A o \in Threads : Code(o)' = Code(o) /\ K(o)' = K(o)
  BY DEF Code, K
<1>3. UNCHANGED <<down_event, up_event>>
  BY DEF events
<1>4. Button'
  BY <1>1, <1>3 DEF KInv, Button
<1>5. ASSUME ~overlapped' PROVE Alone' /\ SharedCodes' /\ Held' /\ OnlyHeld'
  <2>1. Alone /\ SharedCodes /\ Held /\ OnlyHeld
    BY <1>5 DEF KInv
  <2>2. Alone' /\ SharedCodes'
    BY <1>1, <1>2, <1>3, <2>1 DEF Alone, SharedCodes, KeySteps
  <2>3. Held'
    BY <1>1, <1>2, <2>1 DEF Held, KeySteps
  <2>4. OnlyHeld'
    BY <1>1, <1>2, <2>1 DEF OnlyHeld, KeySteps
  <2> QED BY <2>2, <2>3, <2>4
<1> QED BY <1>1, <1>4, <1>5 DEF KInv

LEMMA KClick ==
  ASSUME KInv, NEW t \in Threads, ClickDown(t) \/ ClickUp(t)
  PROVE  KInv'
<1>1. /\ \/ Goto(t, "click", "click_up") /\ pressed' \subseteq pressed \cup {BTN_LEFT}
         \/ Goto(t, "click_up", "syn") /\ pressed' = pressed \ {BTN_LEFT}
      /\ pressed \ {BTN_LEFT} \subseteq pressed'
      /\ UNCHANGED <<down_event, up_event, key, overlapped>>
  BY DEF ClickDown, ClickUp, WriteDown, WriteUp, events
<1>2. /\ pc' \in [Threads -> Points]
      /\ \A o \in Threads : pc'[o] \in KeySteps \/ pc[o] \in KeySteps => pc'[o] = pc[o]
      /\ \A o \in Threads \ {t} : pc'[o] = pc[o]
  BY <1>1 DEF Goto, KInv, Points, KeySteps
<1>3. \A o \in Threads : Code(o)' = Code(o) /\ K(o)' = K(o)
  BY <1>1 DEF Code, K
<1>4. Button'
  BY <1>1, <1>2 DEF KInv, Button, Goto
<1>5. ASSUME ~overlapped' PROVE Alone' /\ SharedCodes' /\ Held' /\ OnlyHeld'
  <2>1. Alone /\ SharedCodes /\ Held /\ OnlyHeld
    BY <1>1, <1>5 DEF KInv
  <2>2. Alone' /\ SharedCodes'
    BY <1>1, <1>2, <1>3, <2>1 DEF Alone, SharedCodes, KeySteps
  <2>3. Held'
    BY <1>1, <1>2, <1>3, <2>1, CodeFacts, ShiftEnabled DEF Held, KeySteps
  <2>4. OnlyHeld'
    BY <1>1, <1>2, <1>3, <2>1 DEF OnlyHeld, KeySteps
  <2> QED BY <2>2, <2>3, <2>4
<1> QED BY <1>1, <1>2, <1>4, <1>5 DEF KInv

LEMMA KPress ==
  ASSUME KInv, NEW t \in Threads, NEW n \in Int, PressKey(t, n)
  PROVE  KInv'
<1>1. /\ Goto(t, "idle", "key") /\ UNCHANGED <<down_event, up_event, pressed>>
      /\ FirstArg(n) % 256 \in Bytes /\ key' = [key EXCEPT ![t] = FirstArg(n) % 256]
  BY ArgumentRead DEF PressKey, events, kernel, Bytes
<1>2. /\ pc' \in [Threads -> Points] /\ key' \in [Threads -> Bytes]
      /\ pc'[t] = "key" /\ \A o \in Threads \ {t} : pc'[o] = pc[o]
      /\ pc[t] = "idle"
  BY <1>1 DEF Goto, KInv, Points, KeySteps
<1>3. Button'
  BY <1>1, <1>2 DEF KInv, Button
<1>4. ASSUME ~overlapped' PROVE Alone' /\ SharedCodes' /\ Held' /\ OnlyHeld'
  <2>1. OnlyHeld /\ \A o \in Threads : pc[o] \notin KeySteps
    BY <1>4 DEF PressKey, KInv
  <2>2. Alone' /\ SharedCodes' /\ Held'
    BY <1>2, <2>1 DEF Alone, SharedCodes, Held, KeySteps
  <2>3. OnlyHeld'
    BY <1>1, <1>2, <2>1 DEF OnlyHeld, KeySteps
  <2> QED BY <2>2, <2>3
<1> QED BY <1>2, <1>3, <1>4 DEF KInv

\* A step of uinput_key_press: the others, if the thread is alone, are elsewhere.
LEMMA KKey ==
  ASSUME KInv, NEW t \in Threads, uinput_key_press(t)
  PROVE  KInv'
<1>1. /\ UNCHANGED <<key, overlapped>>
      /\ pc[t] \in KeySteps
      /\ \E to \in KeySteps \cup {"syn"} : pc' = [pc EXCEPT ![t] = to]
  BY DEF uinput_key_press, NeedsShift, NeedsNoShift, ShiftDown, ShiftSyn, DownCode, UpCode,
         KeyDown, KeyUp, Goto, KeySteps
<1>2. /\ pc' \in [Threads -> Points]
      /\ \A o \in Threads \ {t} : pc'[o] = pc[o]
      /\ \A o \in Threads : pc[o] = "click_up" => pc'[o] = "click_up"
      /\ \A o \in Threads : pc'[o] \in KeySteps => pc[o] \in KeySteps
  BY <1>1 DEF KInv, Points, KeySteps
<1>3. \A o \in Threads : Code(o)' = Code(o) /\ K(o)' = K(o)
  BY <1>1 DEF Code, K
<1>4. Button'
  <2>1. down_event' \in {down_event, KEY_LEFTSHIFT, K(t)}
    BY DEF uinput_key_press, NeedsShift, NeedsNoShift, ShiftDown, ShiftSyn, DownCode, UpCode,
           KeyDown, KeyUp, events, K
  <2>2. pressed' \subseteq pressed \cup {down_event}
    BY DEF uinput_key_press, NeedsShift, NeedsNoShift, ShiftDown, ShiftSyn, DownCode, UpCode,
           KeyDown, KeyUp, kernel, WriteDown, WriteUp, WriteSyn
  <2> QED BY <1>2, <2>1, <2>2, CodeFacts, ShiftEnabled DEF KInv, Button
<1>5. ASSUME ~overlapped' PROVE Alone' /\ SharedCodes' /\ Held' /\ OnlyHeld'
  <2>1. Alone /\ SharedCodes /\ Held /\ OnlyHeld
    BY <1>1, <1>5 DEF KInv
  <2>2. \A o \in Threads \ {t} : pc'[o] \notin KeySteps /\ pc[o] \notin KeySteps
    BY <1>1, <1>2, <2>1 DEF Alone
  <2>3. Alone'
    BY <2>2 DEF Alone
  <2>4. \A o \in Threads \ {t} : pc[o] # "up" /\ pc'[o] # "up"
    BY <2>2 DEF KeySteps
  <2> SUFFICES /\ pc'[t] = "shift" => down_event' = KEY_LEFTSHIFT
               /\ pc'[t] \in {"up_code", "down"} => down_event' = K(t)
               /\ pc'[t] \in {"down", "up"} => up_event' = K(t)
               /\ pc'[t] \in {"shift_syn", "codes", "up_code", "down", "up"} /\ Code(t) < 0
                    => KEY_LEFTSHIFT \in pressed'
               /\ pc'[t] = "up" /\ Code(t) # KEY_RESERVED => K(t) \in pressed'
               /\ \A c \in pressed' \ {KEY_LEFTSHIFT, BTN_LEFT} : pc'[t] = "up" /\ c = K(t)
    BY <1>3, <2>2, <2>3 DEF SharedCodes, Held, OnlyHeld, KeySteps
  <2>5. \A c \in pressed \ {KEY_LEFTSHIFT, BTN_LEFT} : pc[t] = "up" /\ c = K(t)
    BY <2>1, <2>4 DEF OnlyHeld
  <2>6. /\ pc[t] = "shift" => down_event = KEY_LEFTSHIFT
        /\ pc[t] \in {"up_code", "down"} => down_event = K(t)
        /\ pc[t] \in {"down", "up"} => up_event = K(t)
        /\ pc[t] \in {"shift_syn", "codes", "up_code", "down", "up"} /\ Code(t) < 0
             => KEY_LEFTSHIFT \in pressed
    BY <2>1 DEF SharedCodes, Held
  <2>7. ASSUME NEW from \in KeySteps, NEW to, Goto(t, from, to)
        PROVE  pc[t] = from /\ pc'[t] = to
    BY <2>7 DEF Goto, KInv
  <2>8. CASE NeedsShift(t)
    BY <2>5, <2>6, <2>7, <2>8 DEF NeedsShift, kernel, KeySteps
  <2>9. CASE NeedsNoShift(t)
    BY <2>5, <2>6, <2>7, <2>9, CodeFacts DEF NeedsNoShift, kernel, KeySteps
  <2>10. CASE ShiftDown(t)
    BY <2>5, <2>6, <2>7, <2>10, ShiftEnabled DEF ShiftDown, WriteDown, KeySteps
  <2>11. CASE ShiftSyn(t)
    BY <2>5, <2>6, <2>7, <2>11 DEF ShiftSyn, WriteSyn, KeySteps
  <2>12. CASE DownCode(t)
    BY <2>5, <2>6, <2>7, <2>12 DEF DownCode, kernel, KeySteps, K
  <2>13. CASE UpCode(t)
    BY <2>5, <2>6, <2>7, <2>13 DEF UpCode, kernel, KeySteps, K
  <2>14. CASE KeyDown(t)
    BY <2>5, <2>6, <2>7, <2>14, CodeFacts DEF KeyDown, WriteDown, events, KeySteps
  <2>15. CASE KeyUp(t)
    BY <2>5, <2>6, <2>7, <2>15 DEF KeyUp, WriteUp, KeySteps
  <2> QED
    BY <2>8, <2>9, <2>10, <2>11, <2>12, <2>13, <2>14, <2>15 DEF uinput_key_press
<1> QED BY <1>1, <1>2, <1>4, <1>5 DEF KInv

LEMMA KInvKept == KInv /\ [Next]_vars => KInv'
<1> SUFFICES ASSUME KInv, [Next]_vars PROVE KInv'
  OBVIOUS
<1>1. ASSUME NEW t \in Threads, NEW n \in Typed, PressKey(t, n) PROVE KInv'
  BY <1>1, KPress, TypedAssumption DEF Ints
<1>2. ASSUME NEW t \in Threads, uinput_key_press(t) PROVE KInv'
  BY <1>2, KKey
<1>3. ASSUME NEW t \in Threads, ClickDown(t) \/ ClickUp(t) PROVE KInv'
  BY <1>3, KClick
<1>4. ASSUME NEW t \in Threads,
             MouseEvent(t) \/ MoveX(t) \/ MoveY(t) \/ uinput_mouse_scroll(t) \/ Syn(t)
      PROVE  KInv'
  <2>1. UNCHANGED <<events, pressed, key, overlapped>>
    BY <1>4 DEF MouseEvent, MoveX, MoveY, uinput_mouse_scroll, Syn, WriteRel, WriteSyn, kernel
  <2>2. \E from, to \in {"idle", "rel_x", "rel_y", "scroll", "click", "syn"} : Goto(t, from, to)
    BY <1>4 DEF MouseEvent, MoveX, MoveY, uinput_mouse_scroll, Syn
  <2>3. {"idle", "rel_x", "rel_y", "scroll", "click", "syn"}
          \subseteq Points \ (KeySteps \cup {"click_up"})
    BY DEF Points, KeySteps
  <2> QED BY <2>1, <2>2, <2>3, KMouse
<1>5. CASE UNCHANGED vars
  <2>1. UNCHANGED <<down_event, up_event, pressed, pc, key, overlapped>>
    BY <1>5 DEF vars, events, kernel
  <2>2. \A o \in Threads : Code(o)' = Code(o) /\ K(o)' = K(o)
    BY <2>1 DEF Code, K
  <2> QED BY <2>1, <2>2 DEF KInv, Button, Alone, SharedCodes, Held, OnlyHeld
<1> QED
  BY <1>1, <1>2, <1>3, <1>4, <1>5 DEF Next, kbmMode, uinput_mouse

\* Every character of getKeyCode's table is typed by the key it was given, with shift if
\* it is above, but for = and _, which come out as + and - (UinputWrapper.c).  Two
\* threads that press keys at once may type anything, and a shift key left down shifts
\* the characters that need none.
THEOREM TypedRight == Spec => []TypedAsMeant
<1>1. ASSUME KInv PROVE TypedAsMeant
  <2> SUFFICES ASSUME NEW t \in Threads, pc[t] = "up", ~overlapped, Code(t) # KEY_RESERVED
               PROVE  /\ K(t) \in pressed
                      /\ Code(t) < 0 => KEY_LEFTSHIFT \in pressed
                      /\ \/ Types(K(t), KEY_LEFTSHIFT \in pressed, Misprinted(key[t]))
                         \/ Code(t) > 0 /\ KEY_LEFTSHIFT \in pressed
    BY DEF TypedAsMeant, K
  <2>1. K(t) \in pressed /\ (Code(t) < 0 => KEY_LEFTSHIFT \in pressed)
    BY <1>1 DEF KInv, Held
  <2>2. Code(t) \in Int /\ Types(K(t), Code(t) < 0, Misprinted(key[t]))
    BY <1>1, CodeFacts
  <2>3. CASE Code(t) < 0
    <3>1. (Code(t) < 0) = TRUE /\ (KEY_LEFTSHIFT \in pressed) = TRUE
      BY <2>1, <2>3
    <3> QED BY <2>1, <2>2, <3>1, Zenon
  <2>4. CASE Code(t) > 0 /\ KEY_LEFTSHIFT \notin pressed
    <3>1. (Code(t) < 0) = FALSE /\ (KEY_LEFTSHIFT \in pressed) = FALSE
      BY <2>2, <2>4
    <3> QED BY <2>1, <2>2, <3>1, Zenon
  <2>5. CASE Code(t) > 0 /\ KEY_LEFTSHIFT \in pressed
    BY <2>1, <2>5
  <2> QED BY <2>2, <2>3, <2>4, <2>5 DEF KEY_RESERVED
<1> QED BY KInvInitially, KInvKept, <1>1, PTL DEF Spec

\* Between events nothing but shift is down, if no two threads pressed keys at once; the
\* mouse button is up in any case (UinputWrapper.c).
THEOREM ReleasedAgain == Spec => []NothingStuck
<1>1. KInv => NothingStuck
  BY DEF KInv, Button, OnlyHeld, NothingStuck, Quiet
<1> QED BY KInvInitially, KInvKept, <1>1, PTL DEF Spec
=============================================================================
