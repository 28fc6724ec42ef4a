# A verification project for AndroidToKeyboard

AndroidToKeyboard turns an Android phone into a keyboard, a mouse and a second
display of a Linux machine, over a USB cable. Two programs talk to each other:
a daemon in C (`Linux/`) and an app in Java (`Android/KeyboardApp/`). This
directory holds TLA+ models of both, the TLC configurations that check them,
and proofs of the checked safety properties for every value of the constants.

The repository has no design document, and its tests are the stubs the IDE
generated; the models are translated from the code.

## Inventory

| component | code | state | operations | what makes it correct |
|---|---|---|---|---|
| USB devices and hotplug | `Linux/UsbDevice.c` | registry of devices: port, connection status, transfer status, handle, buffer; one read thread per arrival | hotplug callbacks (event thread), read loop, handshake, close, dispatch to `onDataRead` | the status says where the phone is; data is served only after a handshake on this connection; threads of a lost connection end |
| memory of screen sharing | `Linux/Main.c`, `Linux/UsbDevice.c` | `device->buffer`, `x11_buffer[0..2]`, `extra_data[0]`, and the pointers to them that threads have loaded | freed and replaced by handshakes and DIMS; filled by captures, packed and transferred by send threads | nothing is used after it was freed or before it exists; a transfer carries what its thread wrote |
| requests and screen sharing | `Linux/Main.c` | three mutexes, `x11_thread_status`, `x11_thread_kill`, three frame buffers with a used flag each, `x11_buffer_index`, `x11_buffer_new` | serve DIMS, START, STOP; capture loop; send loop | one capture at a time; a stop is not lost; START is not answered by doing nothing; no deadlock; indices in bounds |
| frame transfer | `Linux/Main.c`, `USBMode/SSmode.java` | `device->buffer`, packet parameters; the phone's `screenBitmapBytes`, `totalPackets` | capture, pack, one bulk transfer cut off after 320 ms, SYN, with requests for dimensions in between; copy each packet, draw on SYN | a frame that was not cut off, and that no other thread met in `device->buffer`, arrives whole; no copy leaves its bounds |
| USB session of the phone | `UAccessory.java`, `MainActivity.java` | `isIO`, `pfd` and streams, `readThread`, the object's monitor | `startIO` with handshake, `run`, `sendData`, `endIO`, `cleanUp`, driven by the activity's life cycle and the permission broadcast | each session speaks the protocol; no session is lost; read threads end |
| connection of the two | `UAccessory.java`, `Linux/UsbDevice.c` | the packets under way, `transfer_status` of one end and the session of the other | handshake and its reply, requests, CLOSE, unplugging, the death of the phone's process | no session is served under another one's handshake, or dropped after its own; handshakes end; no packet waits for ever |
| modes and views of the phone | `MainActivity.sendMessage`, `USBMode/*.java` | `currentView`, `isCurrent`, the packet buffers | select, deselect, dispatch of received data | leaving the second display stops sharing |
| touch gestures | `KBMmode.onTouch` | two pointer holders, `isDrag` | down, move, up, with one and two pointers | drags add up to what the finger did; a tap, and nothing else, clicks |
| key and mouse injection | `Linux/UinputWrapper.c` | translation table, the two shared event structs; keys and reports as the kernel sees them | key press, move, click, scroll, after the swap of their bytes | what is typed is what was sent; what is pressed is released; all is reported |
| console, settings, menu | `Views/*.java`, `AppSettings.java` | lines of text, preferences | print, save | no protocol |
| screen capture | `Linux/X11Wrapper.c` | one static shared-memory image | `x11_init`, `x11_getframe`, which may fail | used by one thread at a time |
| frame buffer device | `Linux/FrameBuffer.c` | - | - | called by nothing |

How they meet: the daemon's event thread (libusb) creates read threads; a read
thread owns the protocol state of a device (`transfer_status`), calls
`onDataRead`, and from there starts and stops capture and send threads, which
share flags and buffers under three mutexes and write to the phone through
`device->buffer`. On the phone the main thread opens and closes sessions and
sends user input; a read thread per session delivers the daemon's packets to
the modes, answers one of them itself, and posts pictures to the main thread.

The phone and the daemon exchange three packet types towards the daemon
(HANDSHAKE, DATA, CLOSE; DATA carries keys, mouse events and the requests DIMS,
START and STOP) and, back, the handshake reply, the dimensions, SS_DATA and
SS_SYN.

What is hard: flags that are tested under a mutex and acted on after it, a
thread that waits for the mutex of the one it replaced, the read thread that
outlives its connection on either side, buffers that are replaced while another
thread packs or transfers them, a slot that is captured into while it is packed, replies that come late or are taken by the
wrong thread, transfers that time out in the middle of a packet, pictures drawn while the next frame is being copied, a life cycle
that opens and closes IO from two callbacks, and phones that go away without
a word. PROJECT.json lists these hazards at their lines with the properties
that cover them, or the reason why none does.

## Modules

| module | what it is |
|---|---|
| `ScreenShare` | the daemon's threads: read thread, `x11_thread`, `usb_send_thread` |
| `CapturePromise` | what those promise about captures, without mutexes |
| `ScreenShareProofs` | its inductive invariant, the refinement, who waits for whom, and the way down after a STOP |
| `BufferLife` | `ScreenShare` with the memory its threads use |
| `BufferLifeProofs` | what exists, is not freed, and is one's own; that `BufferLife` implements `ScreenShare` |
| `FrameTransfer` | frames from the capture through `device->buffer` to the phone's screen, and what the daemon's other threads do to them |
| `FrameTransferProofs` | packet arithmetic, the bounds of every copy, and which frames arrive whole |
| `UsbDevice` | the daemon's registry, event thread and read threads |
| `UsbDeviceProofs` | the callback finds a buffer and a handshake; the status follows the plug |
| `UAccessory` | the phone's sessions and their read threads |
| `UAccessoryProofs` | no session is lost, and each speaks the protocol |
| `Session` | `UAccessory` with the daemon's read thread at the other end of the wire |
| `SessionPromise` | what both ends promise about sessions, without wire or threads |
| `SessionProofs` | a session is served under its own handshake, and then always; the refinement; what a waiting phone waits for; the phone's properties with a process that may die |
| `ViewSwitch` | the menu's choice of views, and the requests it makes to the daemon |
| `TouchInput` | `ViewSwitch` with the gestures on the keyboard and mouse view |
| `TouchInputProofs` | what is shared, dragged and clicked; that `TouchInput` implements `ViewSwitch` |
| `KeyInjection` | `UinputWrapper.c` and `kbmMode`: keys and mouse events written to uinput |
| `KeyInjectionProofs` | what is typed, released and reported |
| `MC*` | instances for TLC; each `.cfg` is a run of PROJECT.json |

Operators marked "Mutant" in a module are plausible slips of the code. They are
in no next-state relation; each shows that a property can fail.

### ScreenShare

A step is what a thread does between two points where another can interfere.
`pc` says where each thread is, `mutex` who owns `x11_thread_mutex`,
`x11_status_mutex` and `x11_buffer_mutex`. `Acquire` takes a mutex at a wait
point; the action after it is the critical section and ends with the unlock.
`x11_thread_mutex` is the one held across steps: by a capture from its start
to its end, and by START while it sets the flags and creates threads.

* The read thread: `ServeHandshake`/`HandshakeReplied` and `ServeClose`
  (`android_device_read_thread`), `ServeDims`/`DimsReplied`/`DimsBuffers`,
  `ServeStop`/`x11_thread_stop`, `ServeStart`/`StartCheck`/`StartEnter`/
  `StartFlags`/`StartCreate` (`ssMode`, `x11_thread_start`).
* `x11_thread(i)`: `X11Enter`, `X11Check`, `X11Pick`, `X11Grab`, `X11Put`,
  `X11Leave`. `PickedSlot` keeps the quirk of Main.c:351, which overwrites the
  index found with the constant 0.
* `usb_send_thread(i)`: `UsbCheck`, `UsbTake` or `UsbNothingNew`, `UsbSend`,
  `UsbSyn`, `UsbPut`.

`ServeStart` has no condition but the bound `MaxPairs`, as `ssMode` has none: a START may come at any time,
before any dimensions too. `x11_buffer_new` is a Boolean because the code tests
nothing but `> 0`. What the threads do to memory is in `BufferLife`. More than one
read thread is not in the model.

`CapturePromise` has the captures under way, those that are over and whether
they are wanted. `KeepsPromise` instantiates it with `wanted <- ~x11_thread_kill`,
the captures in their loop, and those that ended.

`WaitsEnd` says that no threads wait for each other in a circle: whoever stands in
front of a mutex finds, at the end of the chain of owners, a thread that waits for
no mutex and for nothing from the phone. TLC's own deadlock check would not see two
threads locked for ever while a third goes on.

### BufferLife

Extends `ScreenShare`: each of its actions is repeated with what it does to
memory. A handshake gives `device->buffer` the size of a packet
(`HandshakeBuffer`), DIMS that of a frame, and new frame buffers with it
(`DimsAllocates`); both free what was there. `device_ptr` and `slot_ptr` are
the pointers a thread has loaded for a copy or a transfer, and whether the
block they point to was freed since. A copy, a packing and a transfer therefore
have a beginning and an end, between which the other threads run. `writer` is the
thread whose bytes are in `device->buffer`: the read thread writes its replies there,
without a mutex. `x11_init` succeeds or not; without an image the first capture
is a crash.

Here alone something is relied on of the phone (`AskedStart`): it sends a START only after
it read dimensions, since nothing but their arrival writes that request into `mPacket`
(SSmode.java:68-89). `offered` says whether the daemon began to send any; the STOP or DIMS
that leaves as another START comes after that too. The daemon checks nothing, and a START
without dimensions before it would use parameters that were never computed: a phone that
goes on while the daemon is restarted could send one, and is not modelled.

`disturbed` and `unfilled` only record: whether buffers were replaced, or threads
added, while threads ran, and how many frames were packed from memory no
capture was copied into. `BuffersKept` promises nothing to disturbed threads, because nothing
holds for them: this is the daemon's real exposure, reached when a second DIMS
is served while frames are sent, or a START is still on its way when the phone
is plugged in again. It does promise that a DIMS that finds no thread puts things in
order again.

### FrameTransfer

The daemon has three threads here, as it has. The read thread answers DIMS whatever the
others do: `WriteReply` writes the reply into `device->buffer`, `SendReply` has the phone
take it, `Renew` replaces the buffers; `StartSending` and `StopSending` are START and STOP.
`x11_thread` is `CaptureBegins`, `CaptureEnds` and `CaptureThreadEnds`: it copies captures
into slot 0, no matter who packs that slot. The send thread is `PackBegins`, `PackEnds`,
`SendPacket`, `CutOff`, `WriteSyn`, `SendSyn` and `SenderEnds`; send threads of earlier pairs,
which a START does not wait for, are `others`, who put any packet between. `OnDims`, `OnData`,
`OnSyn`, `OnOther` and `SetImage` are the phone.

A byte is kept as the frame and offset it came from, so that a picture made of two frames is
visible. A frame is its number with the oldest and the newest capture its bytes may be of: it
is packed from the capture the slot held whole, and from any that was begun before the packing
ended, so that a frame torn at its source is one frame of two captures. A frame leaves in one transfer that
is cut off anywhere after 320 ms. If the cut is inside a packet, `aligned` is FALSE and
what the phone reads from then on is a member of `StrayPackets`: pixels taken
for a header, with any number and any dimensions from the constants.

`met` records that another thread used `device->buffer` while a frame was packed, or while
its SYN was: its packets may then be anything (`Arrives`). `of`, `whole` and `stray` in
a packet record whose it is and how it came about; no action reads them, but for `genuine`, which
records whether the dimensions in use came from the daemon, and `renewed`, which records
whether dimensions came since a frame's first packet.

What is assumed: a transfer that was submitted has been copied, as usbfs does, so that later
writes to the buffer do not change it; packets of several threads mix at their boundaries. What
a freed block holds is not followed here but in `BufferLife`. The phone's process stays: one that
restarts while the daemon sends, and reads a SYN before any dimensions, is not in the model,
nor is the loss of the connection.

`WholeFrameAtSyn` is what is left for a frame that was not cut off and did not meet
another thread: it is whole at its SYN, though dimensions may have been handled between its packets,
or between them and the SYN (SSmode.java:81 makes a new array); what came before them is blank
then, even the whole frame.

### UsbDevice

`events` is the queue of hotplug events; `device_hotplug`, `ArrivedOpen`/
`ArrivedConnected`/`ArrivedStarts`, `Left` and `NotOurs` are the event thread's
callbacks. `accessory_hotplug` takes three steps because read threads can run
in between. Each read thread has the connection it reads from in `reads`,
while replies go to the handle the device has by then. A connection is a
number; `links` counts them. Phones being plugged in and out, and a foreign
accessory that another program switched, are the environment. `shaken` and
`overlap` only record: the connection of the last completed handshake, and
whether an old read thread was alive when the last accessory arrived. Crashes
on a handle that was never written set `daemon` to "down".

### UAccessory

The main thread runs `onResume`, `onPause`, `onDestroy`, the permission
broadcast `onReceive` and user input, one at a time. `startIO` and `endIO` are
synchronized and take several steps because they wait for the daemon, holding
the monitor. `stream` stands for `pfd`, `inputStream`, `outputStream` and
`isOpen`, which are set and cleared together. A read thread has the steps of
`run()`: it asks the thread in the field whether it was interrupted
(`RunCheck`; a thread that has ended never is, in Java, so that a thread that missed its own
interrupt does not end for that of a newer one that is gone), loads `inputStream` (`RunLoads`, where null ends the app), blocks,
delivers, and may answer with a synchronized `sendData`. `log` has what went on
the wire of the newest session, and how its handshake ended: all writes go to the
stream in the fields, so that the log of an earlier session is final.

### Session

Extends `UAccessory`; each of its actions is repeated with the packet it puts on
`wire` or takes from the daemon. On the other side `Handshake`, `Drops`, `Serves`
and `Closes` are the cases of `android_device_read_thread` for the packet it reads:
the handshake reply and the dimensions are transfers, during which it reads nothing
(`daemon`). The send thread is reduced to `sender`: it offers frames to whoever
reads. A packet for the phone is taken by whichever thread reads, a
handshake that waits (`HandshakeTakes`) or a read thread (`ReaderTakes`), also one
that `endIO` missed; `handshake()` accepts anything. `PulledOut`, `PluggedIn` and
`Restart` are faults: the cable, and a phone process that dies without a CLOSE.

`answered`, `stolen` and `orphans` only record whose handshake was answered by its
own reply, whose reply a read thread took, and which sessions died without CLOSE.
The properties say exactly where the protocol has holes. Requests may be served
under the handshake of a dead process, never under that of another session that
ended (`ServesItsPeer`); a handshake fails to end in the two ways `HandshakeEnds`
names; and the daemon's reply to DIMS, sent without a timeout, waits for ever only
if the phone's thread that would read it waits for room on a full wire.

`SessionPromise` is what the two ends look like to someone who sees neither wire
nor threads: the phone opens sessions, one of which may last; the daemon takes one
up (`TakesUp`), answers it or gives up, serves it, and finishes. It takes sessions
up in the order in which they were opened and none of them twice, and never
finishes with a session that lasts at the phone. `KeepsSessions` instantiates it
with `lasting <- Lasting`, the stream in the fields if it is connected and has no
CLOSE behind it, and `phase <- Phase`, which is read off `daemon` and
`transfer_status`.

### ViewSwitch

`sendMessage(m)` is a pick from the menu, also of the entry of the current view, which the code
ignores: `picked` is what the user picked last, `msg` what the code handled last. The main
thread goes on with it: `FillEnd`/`SendEnd` leave the second
display (`SSmode.onDeselected`), `SelectDisplay`/`SendDims` show it
(`onSelected`), `SelectOther` shows another view. The read thread answers
dimensions with `FillStart` and `SendStart`. Filling `mPacket` and sending it
are separate steps, because only `sendData` is synchronized: the request sent
is what `mPacket` holds by then. `requests` and `replies` are the wires, `ssMode`
the daemon, reduced to one flag that says whether it is to share (what becomes
of the flag is `ScreenShare`). `hasty` records whether the second display was
left while dimensions or a START were still on their way.

The Number Pad entry has no view: the code deselects the view that is shown and leaves it
`currentView`. After Second Display and Number Pad the display is still shown, stopped, and
picking it again does nothing until another view was picked. `SharedAsShown` and
`PickedIsShared` name this exception (`msg = "SHOW_NUMPAD"`); nothing in the repository says
what the entry should do.

### TouchInput

Extends `ViewSwitch`, because gestures and the menu share the main thread and
the view: a touch is handled between two choices while the keyboard view is shown.
`ActionDown`, `ActionMove`, `ActionScroll`, `PointerDown`, `PointerUp`, `ActionUp` and
`ActionCancel` are the cases of `onTouch`. Positions are those of the first
pointer on one axis. `onTouch` looks holders up by the action index, which is 0
in every event it handles: the search ends at the first holder, and the second is
taken by `ActionDown` only after a cancelled gesture left the first one down.
`start`, `dragged`, `strayed`, `scrolled` and `cancelled` record what the finger did.

### KeyInjection

`pc` says where each read thread is in `uinput_key_press` or a mouse function.
`down_event` and `up_event` are the shared structs, kept as their codes; each
assignment and each `write` is a step. `pressed` and `unreported` are the
kernel's view of the device. A Linux key code stands as the number of the
character on the key, the keypad's plus and minus as numbers of their own. `getKeyCode` maps
a character to its key, or to the negative of the one it shares a key with; the
exceptions are = and +, for which it gives the keypad's plus, and - and _, for which it gives
the keypad's minus. `Types` is what comes out of a key, with and without shift, which the
keypad does not heed: `TypedAsMeant` says that every character comes out as itself, but = as +
and _ as - (`Misprinted`). `overlapped` records whether two threads were
between argument and release at once. An argument is the int the phone wrote, most
significant byte first; `kbmMode` swaps its bytes, and what is pressed is the last
of them.

## Runs

| run | question | bounds | states |
|---|---|---|---|
| `share` | do mutexes, flags, slots and captures stay consistent, does the daemon keep CapturePromise, do threads ever wait in a circle, does START come back, and STOP end everything? | 2 thread pairs; deadlock checked | 83 500 |
| `share_close` | does CLOSE end sending? No. | 1 pair | counterexample |
| `memory` | does memory exist before it is used, when is none used after it was freed, how many frames leave before a capture? | 2 thread pairs | 74 000 |
| `frame` | do frames arrive whole, and copies stay in bounds, whatever the other threads do in between? | 2 captures of 4 bytes, 2 or 3 bytes a packet, 1 packet under way, 1 picture waiting | 6 390 000 |
| `frame_grab` | is a "full screen grab" one frame? No. | 2 captures | counterexample |
| `usb` | does the status follow the plug, is data served only after a handshake, do the threads of a lost connection end? | 1 device, ports of 2 root hubs, 2 connections, 2 read threads, 3 events | 482 000 |
| `usb_two` | are two phones kept apart by their ports? No. | 2 devices behind one root port | counterexample |
| `accessory` | does each session speak the protocol, is none lost, do read threads come to rest? | 3 sessions, logs of 3 entries and a CLOSE | 242 000 |
| `accessory_kill` | does endIO kill the read thread? No. | 2 sessions | counterexample |
| `session` | whose requests are served and whose dropped, do both ends keep SessionPromise, when does a handshake end, what can block a reply? | 2 sessions, 2 packets on the wire | 216 000 |
| `views` | is the second display shared when, and only when, it should be? Do drags and clicks follow the finger? | 5 choices and gestures, 3 positions | 219 000 |
| `keys` | are keys typed as meant, released and reported? | 2 read threads, 14 arguments; deadlock checked | 4 100 000 |

Why the bounds are enough. Two thread pairs are an old and a new one, which is
what the flags and the thread mutex have to keep apart; a third only repeats
the relation of the second to the first, and the safety properties are proved
for every number. `memory` stops following a behaviour once its last pair is
disturbed, since nothing is promised from there on; the first pair may be
disturbed and the second find things in order. In `frame` two captures give a frame that is torn, a
frame after it, and one that is sent while a picture waits; the two packet sizes give last packets
that are full and that are not. One packet on the wire is enough, because the phone sees nothing
but the order of the packets, and the daemon nothing of the phone but the first START; the proofs
hold for any number. `UntilCrash` stops at a crash of the phone, after which it does nothing,
and `OthersSmall` has send threads of earlier pairs with one packet size only, to keep the run
within minutes. Two connections, two
read threads and three waiting events let a phone leave and come back, behind
another root port too, before anything noticed. Three sessions let a thread outlive its own session and meet
the thread of the one after the next. In `session`, one session is the past of the
other, and two packets are the fewest that let a request overtake nothing and
still fill the wire. Five acts are a visit of the second
display, another one that overlaps its late answers, and an end anywhere; or
gestures that are cancelled, and ones after them. Of the positions two are
within a click of each other, so that a finger can stray in steps that are none.
The arguments of `keys` are one of each kind the table tells apart, and ints that do
not fit a byte; that every character has its key, and that every int arrives, is proved.

Deadlock is checked in `share` and `keys`. Elsewhere the system does stop: a
crashed app or daemon, a destroyed activity, or a bound that is reached.

### Fairness

* `share`: weak fairness of the threads' own steps, and of each thread's
  `Acquire`: a mutex that stays free is granted. The threads loop without
  sleeping and hold the status and buffer mutexes for a few assignments. Nothing
  is assumed of the phone: `DimsReplied` and `UsbSyn`, transfers with timeout 0,
  have no fairness, and `KillEndsThreads` allows a thread that waits in `syn`.
  `UsbSend` has, since its transfer ends after 320 ms.
* `usb`: weak fairness of the event thread and of the read threads'
  steps, but for the arrival of packets.
* `accessory`: weak fairness of `run()` without its reads and writes. That
  closing a descriptor wakes a thread blocked in it is not assumed.
* `session`: weak fairness of the daemon's read thread and of the phone's main
  thread; strong fairness of the phone's read threads, which have to be granted
  the monitor, and of taking the dimensions, which are not passed over for ever by
  frames. A handshake reply that times out (7.5 s) does so only while no thread
  of the phone reads.
* `views`: weak fairness of the phone's two threads and of the daemon, while the
  session is up. The user need not choose anything, and a finger may rest.

### What the violated runs say

* `share_close`: UAccessory.java:232 says of CLOSE that it "tells accessory
  that you are ending communications". The daemon changes `transfer_status` and
  goes on sending (UsbDevice.c:171); `MainActivity.onPause` sends no STOP.
* `frame_grab`: SSmode.java:125 reports "Got Full Screen Grab". The bitmap it
  drew may lack packets of a frame that was cut off, or hold the first packets
  of the next, which the read thread copies while the main thread draws.
* `usb_two`: UsbDevice.c:182 says accessories are told apart by their port
  address. One byte of it is compared (UsbDevice.c:347). `main` registers one
  device, for which `StatusFollowsPlug` holds as long as foreign accessories are
  behind another root port.
* `accessory_kill`: UAccessory.java:229 says endIO "Kills read thread". `run()`
  asks the field, not itself: a new session replaces the field, and the old
  thread goes on reading, now from the new stream.

## Proofs

The provers check every theorem for all values of the constants that satisfy
the assumptions: the bounds are natural numbers, and for `FrameTransfer` packet
sizes are above 8 and screens are not empty.

**ScreenShareProofs.** One inductive invariant carries the theorems:

* `TypeOK`, and `Room`/`Created`: threads 1 to `pairs` exist, and there is room
  for one more while START is under way;
* `Locks`: a thread inside a critical section owns its mutex, and an owner is
  where it may own it. That is what makes the section of one thread exclude the
  others, and it covers the long holds of `x11_thread_mutex` too;
* `NewestAlive`/`StatusFollows`: while the kill flag is down and sharing
  was started, the newest pair is alive. This is what START relies on when it
  returns early;
* `OnlySlotZero`: every index is 0, because of Main.c:351. Without it, two send
  threads that hold a slot each and a capture could leave the search nothing;
* `LeavesKilled`: a capture on its way out finds the flag still raised, because
  START lowers it only under the mutex the capture holds.

`CapturesAsPromised` shows that every step of `ScreenShare` is a step of
`CapturePromise` or leaves its variables alone. `OneCapture` and
`KillIsNotTakenBack` state two consequences for the threads themselves.

`EveryWaitEnds` reads the order of the mutexes off `Locks`: the status and the
buffer mutex are held in sections that take no other (`ShortSections`), so that their owner
can always go on; the thread mutex is held by a capture or by START, whose
owner waits for a short one at most (`LongSections`).

`StopWindsDown` is what of `KillEndsThreads` needs no fairness: `Left` counts the
steps of its own a pair is from its end, ten at most; while the kill flag is up no step of
any thread makes it larger, and each step of the pair but taking a mutex makes it
smaller. That the steps are taken is left to TLC.

**BufferLifeProofs.** `ImplementsScreenShare`: a step of `BufferNext` is one of
`Next` or leaves its variables alone, so that a crash, or anything a freed block may
hold, changes no thread's control but by stopping it. `ControlWithMemory` draws the conclusion for the theorems
above, and the invariant of `ScreenShareProofs` is used for those that follow. `Prepared`
needs the order of requests: a START comes only after dimensions were offered, and the
read thread makes the buffers before it reads anything else. `MemoryKept`
needs that all threads of undisturbed pairs but the newest ended, so that the
send thread is alone with `device->buffer`. `TwoUnfilled` counts: a raised
`x11_buffer_new` that an earlier pair left is one frame, the one raised before the first
copy is the other.

**FrameTransferProofs.** `PacketsCoverFrame`: with n bytes and m per packet,
the packet count and the last packet's size satisfy m (count - 1) + last = n
and 0 < last <= m. `CrashesOnlyOnStrayDims` uses it: as long as the
phone's dimensions are the daemon's, array and count fit each other, and each
number that is not refused has a copy inside both arrays. The invariant (`Inv`) says
that packets the daemon made carry its sizes, on the wire and in the phone, and that before the
first dimensions nothing but dimensions is under way (`DimsFirst`); `TInv` adds what the threads count.

`FramesWhole` adds what order says (`WInv`). Each packet of a frame on the wire stands
behind the one before it, with nothing but dimensions between, or it is the first, or what the
phone's array holds is the frame up to it (`Chain`); the next packet the sender adds will stand so
too (`Onward`), as long as no other thread met the frame (`Met`). What the array holds (`Held`) is the
frame up to a packet, but for a beginning that is blank; dimensions blank all of it and move that beginning. A
frame that meets another thread is released from all this: its SYN does not say `whole`.

**UsbDeviceProofs.** `CallbackFindsBuffer`: a transfer status past the handshake
implies a buffer, since the handshake makes one before it replies and nothing
takes it away; the invariant follows the read threads through reply and
dispatch. `HandshakeFirst`: while no old thread overlaps the newest connection,
every thread that is alive reads from it, and one that shakes hands does so there.
`PlugFollowed` reads the queue as history: an arrival or departure that
waits says what the status will be, and the last of them what is plugged in. It is
proved under `OnePhone`: one registered device, as `main` has, and strangers
behind other root ports than the phone. `usb_two` shows why.

**UAccessoryProofs.** `SessionsKept`: `isIO` says whether the fields hold a
descriptor, nothing else is open, and between endIO and the end of the next
handshake every running thread was interrupted. The last part is why a new
thread may take over the field. That the session in the fields has a thread of its
own once it was answered takes more (`Listening`): the field names it, it was started, and
only endIO, which clears the fields too, tells it to end. `ProtocolSpoken`: the monitor is the main
thread's while it is in a handshake or closes (`Locked`), and everyone else who
writes finds either the handshake behind them and no CLOSE yet, or no live
stream (`LogInv`).

**SessionProofs.** `StepKinds` sorts the steps by what they change, so that the two
invariants need few cases. `ServesOwn`: while the daemon serves a session
(`Under`), and behind every handshake that waits, what is on the wire is of that session up to
its CLOSE, and without a CLOSE the session goes on (`Good`, `Lasts`); sessions of a dead
process are excepted. `AnsweredServed`: packets are in the order of their
sessions (`Ordered`), a handshake is the first of its session on the wire (`Leading`), a
CLOSE the last (`Final`), and the daemon serves an answered session that is not over
(`Attended`).

`SessionsAsPromised` puts these together. That a session is taken up late, or
twice, is ruled out by the order of the packets; that the daemon finishes with a
session that lasts, by two arguments: a CLOSE on the wire is the last
packet of a session that is over at the phone, and a new connection finds no stream that
is live. What the daemon serves after a process died stays that session until the cable is
pulled or a CLOSE comes: `peer` is then not the session that lasts.

`HandshakeUnderWay` is the safety half of `HandshakeEnds`: a phone that waits for the
reply has its handshake as the last packet on the wire, or the reply is being sent, or
one of the two cases holds that `HandshakeEnds` excepts. While it waits nobody else writes, for
the monitor is the main thread's, and the daemon gives up no reply. A handshake is dropped
only when the daemon serves, and then, by `ServesInv` and `AnsweredInv`, an earlier session
whose process died (`WaitsWhileRead`). What is left to TLC is that the daemon reads and
the reply is taken.

`PhoneInSession` carries the theorems of `UAccessoryProofs` over to a phone whose process
may die: every step of `SessionNext` is a step of `UAccessory`, or leaves the
phone alone, or is `Restart` (`PhoneOrRestart`), and `Restart` keeps the
inductive invariant (`LInv`). So what `UAccessory` shows does not hinge on packets appearing at
will, nor on the process staying alive.

**TouchInputProofs.** `SharedIfPicked` follows a visit of the second display from
its requests on the wire to the daemon's flag: after it was left without haste only
STOPs are under way (`Leaving`); while it stays the view that was handled last the request in `mPacket` and
the last one on the wire are no STOP, and when none is on the wire its answer is, or
sharing has begun (`Staying`). The latter is the safety half of `PickedIsShared`.
`ImplementsViewSwitch` shows that touches take nothing from `ViewSwitch`, its
fairness included. `DragsAddUp` is inductive almost as it
stands. `TapsClick` rests on it: while no drag was sent, the holder has the position
where the gesture began, so that a move that strays is a drag.

**KeyInjectionProofs.** `AllReported`: an event that was not reported belongs to
a thread that still has its report to write. `TypedRight` and `ReleasedAgain`
share an invariant: while no two threads press keys at once, the shared events
hold the codes of the one that does, and what is down is its key, shift, or the
button of a thread that clicks. They rest on `TableEnabled`: for all bytes, the
key in the table was enabled, although the loop leaves the last byte out and
enables unshifted keys only. `IntsArrive`: on a little-endian processor, bytes
that are swapped and read lowest first give the int back, for all ints of 32 bits.

Every safety property of a run is proved, with the type invariant of every module
(that of `ViewSwitch` is a conjunct of `TouchTypeOK`).

Left to TLC: liveness (`StartReturns`, `KillEndsThreads`, `DisconnectEndsReaders`,
`ReadersComeToRest`, `HandshakeEnds`, `DimsWaitOnlyInGridlock`, `PickedIsShared`), which needs
fairness and ENABLED and is beyond the provers. The violated runs are counterexamples,
which TLC finds.

## Not modelled

* X11 and shared memory calls beyond whether they succeed, and the order of colours in
  `x11_getframe`.
* A uinput device that fails to open; the coordinates of the mouse, by how much
  a scroll scrolls, and the scaling of drags by the settings.
* The time stamp `onTouch` compares (`getDownTime`) is taken to be above 2.5 s, which
  holds once the phone has been up that long; the position at which a finger leaves
  is the last one it was seen at.
* Keys without a character, which the phone sends as 0 or a negative number.
* A phone process that restarts while the daemon sends frames, in `FrameTransfer`; a daemon that
  restarts while the phone goes on, in `BufferLife`.
* More than one read thread of the daemon in `ScreenShare`, `BufferLife` and `Session`:
  those of earlier connections are in `UsbDevice` and `KeyInjection`.
* The permission dialog in `Session`, which is in `UAccessory`; pauses of the activity while
  views are switched.
* A big-endian processor of the daemon: `Host` may have that value, but nothing is
  claimed then, since the handshake makes the daemon swap on every processor.
* The helpers that print errors, and a registry that is full: `main` registers one device.
* Settings, menu, console, preferences and debug output: user interface.
* `FrameBuffer.c`, `sendScreenCapture` and `x11_getframe_slow`, which nothing calls.

Five safety properties say what holds outside a hazard, not in it, because the code gives up
there and nothing in the repository says what should hold: `BuffersKept` is about threads
whose buffers were not replaced under them, `ShakenHere` about connections that no earlier read
thread was alive for, `NothingStuck` and `TypedAsMeant` about keys that are not pressed at once
and leave shift aside, `DragsFollowFinger` about gestures other than the one after a cancelled
one. PROJECT.json lists the hazards no property covers, each with its reason.

## Plan

1. Done: `ScreenShare` with `CapturePromise` and `BufferLife`, `FrameTransfer`, `UsbDevice`,
   `UAccessory` and `Session`, `ViewSwitch` and `TouchInput`, `KeyInjection`; their runs, and
   proofs of all safety properties.
2. `ViewSwitch` with pauses in between, that is on top of `UAccessory`: what the second
   display shows after the activity comes back.
3. Done: `SessionPromise`, an abstract specification of sessions that `Session` refines,
   processes that die included.
4. The order of frames, and one device with overlapping read threads, as abstract
   specifications that `FrameTransfer` and `UsbDevice` refine.
5. The safety halves of `DimsWaitOnlyInGridlock` and `ReadersComeToRest`, as `HandshakeUnderWay`
   and `StopWindsDown` are of theirs.
6. A phone process that restarts, and a connection that is lost, in `FrameTransfer`: what a SYN
   before any dimensions, and a frame in two sessions, do.
7. The console's coalescing of lines (`DebugView`), if it ever carries more than debug output.
