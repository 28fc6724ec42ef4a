---------------------------- MODULE KeyInjection ----------------------------
(* Keys and mouse of the daemon: kbmMode hands the phone's input events to *)
(* UinputWrapper, which writes them to the kernel's uinput device.         *)
(*                                                                         *)
(* Every read thread calls it, also the one that outlived its connection   *)
(* (UsbDevice), and down_event and up_event are shared between them: each  *)
(* assignment and each write is a step.  A key code of Linux stands as the *)
(* number of the character on the key, those of other keys as numbers no   *)
(* character of the table has.  The coordinates of the mouse are left out; *)
(* uinput was opened.                                                      *)
EXTENDS Integers

CONSTANTS
  Threads,   \* read threads
  Typed,     \* the int arguments of the key events phones send
  Host       \* the byte order of the daemon's processor

High(n) == n \div 256
Low(n)  == n % 256

\* The ints of 32 bits.
Ints == {n \in Int : High(High(High(n))) \in -128..127}

ASSUME TypedAssumption == Typed \subseteq Ints /\ Host \in {"LITTLE", "BIG"}

Bytes == 0..255

-----------------------------------------------------------------------------
(* Ints on their way from the phone: four bytes, the highest first.        *)
ControllInt == 2

Wire(n) == <<Low(High(High(High(n)))), Low(High(High(n))), Low(High(n)), Low(n)>>

Signed(b) == IF b < 128 THEN b ELSE b - 256

\* The int the daemon reads from four bytes of memory.
IntOf(m) ==
  IF Host = "BIG"
  THEN m[4] + 256 * (m[3] + 256 * (m[2] + 256 * Signed(m[1])))
  ELSE m[1] + 256 * (m[2] + 256 * (m[3] + 256 * Signed(m[4])))

\* Mutant: the halves are swapped, their bytes are not.
flipHalves(m) == <<m[3], m[4], m[1], m[2]>>

flipInt(m) == <<m[4], m[3], m[2], m[1]>>

\* As the handshake leaves it: the phone's control int is not 1 in either order.
endianess == IF IntOf(Wire(ControllInt)) = 1 THEN "SAME" ELSE "OPPOSITE"

FirstArg(n) == IF endianess = "SAME" THEN IntOf(Wire(n)) ELSE IntOf(flipInt(Wire(n)))

-----------------------------------------------------------------------------
KEY_RESERVED  == 0
KEY_BACKSPACE == 8
KEY_ENTER     == 10
KEY_LEFTSHIFT == 14
KEY_KPMINUS   == 128
KEY_KPPLUS    == 129
BTN_LEFT      == 256
BTN_RIGHT     == 257

\* ENTER, shift, letters, digits and  ' , . / ; [ \ ] and space.
Plain == {10, 14, 32, 39, 44, 46, 59} \cup 47..57 \cup 91..93 \cup 97..122

\* Characters above others: capitals, digits' symbols, and  | { } " : ? > <.
Above == 65..90 \cup {33, 64, 35, 36, 37, 94, 38, 42, 40, 41}
                \cup {124, 123, 125, 34, 58, 63, 62, 60}

\* What is on their key without shift.
Below(c) ==
  CASE c \in 65..90 -> c + 32
    [] c = 33 -> 49 [] c = 64 -> 50 [] c = 35 -> 51 [] c = 36 -> 52 [] c = 37 -> 53
    [] c = 94 -> 54 [] c = 38 -> 55 [] c = 42 -> 56 [] c = 40 -> 57 [] c = 41 -> 48
    [] c = 124 -> 92 [] c = 123 -> 91 [] c = 125 -> 93 [] c = 34 -> 39
    [] c = 58 -> 59 [] c = 63 -> 47 [] c = 62 -> 46 [] c = 60 -> 44

\* The key of a character, negative when it needs the shift key.  = + - _ are given
\* keys of the keypad.
getKeyCode(k) ==
  CASE k = 0     -> KEY_BACKSPACE
    [] k \in Plain -> k
    [] k \in Above -> -Below(k)
    [] k = 61      -> KEY_KPPLUS
    [] k = 43      -> -KEY_KPPLUS
    [] k = 45      -> KEY_KPMINUS
    [] k = 95      -> -KEY_KPMINUS
    [] OTHER        -> KEY_RESERVED

\* uinput_open's loop over the keys leaves the last one out.
EnabledKeys == 0..254

key_transaltion_table ==
  [k \in Bytes |-> IF k \in EnabledKeys THEN getKeyCode(k) ELSE 0]

\* Mutant: the loop starts with the first character.
EnabledFromOne == {BTN_LEFT, BTN_RIGHT} \cup
  {getKeyCode(k) : k \in {c \in EnabledKeys \ {0} : getKeyCode(c) >= 0}}

\* The codes the kernel was told of; it takes no event for any other.
Enabled == {BTN_LEFT, BTN_RIGHT} \cup
  {getKeyCode(k) : k \in {c \in EnabledKeys : getKeyCode(c) >= 0}}

VARIABLES
  down_event, up_event,   \* their codes
  pressed,                \* kernel: keys and buttons that are down
  unreported,             \* kernel: events since the last SYN_REPORT
  pc,                     \* where each read thread is
  key,                    \* its argument of uinput_key_press
  overlapped              \* two threads were pressing keys at once

kernel == <<pressed, unreported>>
events == <<down_event, up_event>>
vars   == <<events, kernel, pc, key, overlapped>>

Init ==
  /\ down_event = 0 /\ up_event = 0
  /\ pressed = {} /\ unreported = FALSE
  /\ pc = [t \in Threads |-> "idle"]
  /\ key = [t \in Threads |-> 0]
  /\ overlapped = FALSE

Goto(t, from, to) == pc[t] = from /\ pc' = [pc EXCEPT ![t] = to]

-----------------------------------------------------------------------------
(* The kernel.  KEY_RESERVED is never reported, nor a key that stays as it is. *)
Known(code) == code \in Enabled \ {KEY_RESERVED}

WriteDown(code) ==
  /\ pressed' = IF Known(code) THEN pressed \cup {code} ELSE pressed
  /\ unreported' = (unreported \/ pressed' # pressed)

WriteUp(code) ==
  /\ pressed' = pressed \ {code}
  /\ unreported' = (unreported \/ pressed' # pressed)

WriteRel == unreported' = TRUE /\ UNCHANGED pressed

WriteSyn == unreported' = FALSE /\ UNCHANGED pressed

-----------------------------------------------------------------------------
(* uinput_key_press.                                                       *)
Code(t) == key_transaltion_table[key[t]]

\* From the argument to the release: where it depends on the shared events.
KeySteps == {"key", "shift", "shift_syn", "codes", "up_code", "down", "up"}

\* Mutant: the argument is kept as the int it was.
PressKeyInt(t, n) ==
  /\ Goto(t, "idle", "key")
  /\ key' = [key EXCEPT ![t] = FirstArg(n)]
  /\ overlapped' = (overlapped \/ \E o \in Threads : pc[o] \in KeySteps)
  /\ UNCHANGED <<events, kernel>>

\* KEY_EVENT: the int argument becomes an unsigned char.
PressKey(t, n) ==
  /\ Goto(t, "idle", "key")
  /\ key' = [key EXCEPT ![t] = FirstArg(n) % 256]
  /\ overlapped' = (overlapped \/ \E o \in Threads : pc[o] \in KeySteps)
  /\ UNCHANGED <<events, kernel>>

NeedsShift(t) ==
  /\ Code(t) < 0
  /\ Goto(t, "key", "shift")
  /\ down_event' = KEY_LEFTSHIFT
  /\ UNCHANGED <<up_event, kernel, key, overlapped>>

NeedsNoShift(t) ==
  /\ Code(t) >= 0
  /\ Goto(t, "key", "codes")
  /\ UNCHANGED <<events, kernel, key, overlapped>>

\* Nothing releases the shift key again.
ShiftDown(t) ==
  /\ Goto(t, "shift", "shift_syn")
  /\ WriteDown(down_event)
  /\ UNCHANGED <<events, key, overlapped>>

ShiftSyn(t) ==
  /\ Goto(t, "shift_syn", "codes")
  /\ WriteSyn
  /\ UNCHANGED <<events, key, overlapped>>

Magnitude(code) == IF code < 0 THEN -code ELSE code

DownCode(t) ==
  /\ Goto(t, "codes", "up_code")
  /\ down_event' = Magnitude(Code(t))
  /\ UNCHANGED <<up_event, kernel, key, overlapped>>

\* Mutant: the release is left with the code it had.
UpCodeKept(t) ==
  /\ Goto(t, "up_code", "down")
  /\ UNCHANGED <<events, kernel, key, overlapped>>

UpCode(t) ==
  /\ Goto(t, "up_code", "down")
  /\ up_event' = Magnitude(Code(t))
  /\ UNCHANGED <<down_event, kernel, key, overlapped>>

KeyDown(t) ==
  /\ Goto(t, "down", "up")
  /\ WriteDown(down_event)
  /\ UNCHANGED <<events, key, overlapped>>

KeyUp(t) ==
  /\ Goto(t, "up", "syn")
  /\ WriteUp(up_event)
  /\ UNCHANGED <<events, key, overlapped>>

uinput_key_press(t) ==
  \/ NeedsShift(t) \/ NeedsNoShift(t) \/ ShiftDown(t) \/ ShiftSyn(t)
  \/ DownCode(t) \/ UpCode(t) \/ KeyDown(t) \/ KeyUp(t)

-----------------------------------------------------------------------------
(* Mouse: an event of its own on each thread's stack.                      *)

\* kbmMode's other events; an unknown one does nothing.
MouseEvent(t) ==
  /\ \E begin \in {"rel_x", "click", "scroll"} : Goto(t, "idle", begin)
  /\ UNCHANGED <<events, kernel, key, overlapped>>

MoveX(t) ==
  /\ Goto(t, "rel_x", "rel_y") /\ WriteRel
  /\ UNCHANGED <<events, key, overlapped>>

MoveY(t) ==
  /\ Goto(t, "rel_y", "syn") /\ WriteRel
  /\ UNCHANGED <<events, key, overlapped>>

uinput_mouse_scroll(t) ==
  /\ Goto(t, "scroll", "syn") /\ WriteRel
  /\ UNCHANGED <<events, key, overlapped>>

ClickDown(t) ==
  /\ Goto(t, "click", "click_up") /\ WriteDown(BTN_LEFT)
  /\ UNCHANGED <<events, key, overlapped>>

\* Mutant: the last event of a click stays an EV_KEY, that is no report.
ClickUpOnly(t) ==
  /\ Goto(t, "click_up", "idle") /\ WriteUp(BTN_LEFT)
  /\ UNCHANGED <<events, key, overlapped>>

ClickUp(t) ==
  /\ Goto(t, "click_up", "syn") /\ WriteUp(BTN_LEFT)
  /\ UNCHANGED <<events, key, overlapped>>

\* Every event of the phone ends with a report.
Syn(t) ==
  /\ Goto(t, "syn", "idle") /\ WriteSyn
  /\ UNCHANGED <<events, key, overlapped>>

uinput_mouse(t) ==
  \/ MoveX(t) \/ MoveY(t) \/ uinput_mouse_scroll(t)
  \/ ClickDown(t) \/ ClickUp(t)

kbmMode(t) == (\E n \in Typed : PressKey(t, n)) \/ MouseEvent(t)

Next ==
  \E t \in Threads : kbmMode(t) \/ uinput_key_press(t) \/ uinput_mouse(t) \/ Syn(t)

Spec == Init /\ [][Next]_vars

-----------------------------------------------------------------------------
(* Properties.                                                             *)
Codes == {KEY_BACKSPACE, KEY_RESERVED, KEY_KPMINUS, KEY_KPPLUS} \cup Plain

\* Type correctness: the table is only indexed with bytes, the shared events only hold
\* codes of keys, and only keys and buttons the kernel was told of are down.
TypeOK ==
  /\ down_event \in Codes /\ up_event \in Codes
  /\ pressed \subseteq (Codes \ {KEY_RESERVED}) \cup {BTN_LEFT}
  /\ unreported \in BOOLEAN /\ overlapped \in BOOLEAN
  /\ pc \in [Threads -> KeySteps \cup
               {"idle", "syn", "rel_x", "rel_y", "scroll", "click", "click_up"}]
  /\ key \in [Threads -> Bytes]

\* A key that is being pressed is the last byte of an int some phone sent, negative ones
\* included, on a little-endian processor.  The order of the bytes is not found out by the
\* handshake, which takes them for swapped on every processor.
ArgumentsArrive ==
  Host = "LITTLE" =>
    \A t \in Threads : pc[t] \in KeySteps => key[t] \in {n % 256 : n \in Typed}

\* What is printed on the keys of a US keyboard, below and above: the letters, and
\* 1! 2@ 3# 4$ 5% 6^ 7& 8* 9( 0) [{ ]} \| ;: '" ,< .> /?
Legends ==
  {<<c, c - 32>> : c \in 97..122} \cup
  {<<49, 33>>, <<50, 64>>, <<51, 35>>, <<52, 36>>, <<53, 37>>, <<54, 94>>, <<55, 38>>,
   <<56, 42>>, <<57, 40>>, <<48, 41>>, <<91, 123>>, <<93, 125>>, <<92, 124>>,
   <<59, 58>>, <<39, 34>>, <<44, 60>>, <<46, 62>>, <<47, 63>>}

\* Character c comes out when the key is pressed, and the shift key is or is not: on the
\* keypad, for ENTER, shift and space, and for backspace (0) that makes no difference.
Types(code, shift, c) ==
  \/ code = KEY_KPPLUS /\ c = 43
  \/ code = KEY_KPMINUS /\ c = 45
  \/ code = KEY_BACKSPACE /\ c = 0
  \/ code \in {10, 14, 32} /\ c = code
  \/ \E legend \in Legends : code = legend[1] /\ c = legend[IF shift THEN 2 ELSE 1]

\* = comes out as + and _ as -, for want of the keys they are on.
Misprinted(c) == CASE c = 61 -> 43 [] c = 95 -> 45 [] OTHER -> c

\* The character sent is the one typed, but for = and _, when uinput_key_press releases
\* its key: key and, if the character needs it, shift are down, for all codes written
\* were enabled though only the characters below are.  As long as no other thread was
\* in between; and a shift key that an earlier character left down changes what comes
\* out for one that needs none.
TypedAsMeant ==
  \A t \in Threads :
    pc[t] = "up" /\ ~overlapped /\ Code(t) # KEY_RESERVED =>
      /\ Magnitude(Code(t)) \in pressed
      /\ Code(t) < 0 => KEY_LEFTSHIFT \in pressed
      /\ \/ Types(Magnitude(Code(t)), KEY_LEFTSHIFT \in pressed, Misprinted(key[t]))
         \/ Code(t) > 0 /\ KEY_LEFTSHIFT \in pressed

Quiet == \A t \in Threads : pc[t] = "idle"

\* Nothing but the shift key stays down between events.  Threads that press keys at the
\* same time may leave one down, for they share the codes, but never the mouse button.
NothingStuck ==
  Quiet =>
    /\ BTN_LEFT \notin pressed
    /\ overlapped \/ pressed \subseteq {KEY_LEFTSHIFT}

\* However the writes of the threads mix, the kernel was told to report all of them
\* when the last one is done.
EverythingReported == Quiet => ~unreported
=============================================================================
