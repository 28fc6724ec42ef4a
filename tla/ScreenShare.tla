---------------------------- MODULE ScreenShare ----------------------------
(***************************************************************************)
(* Screen sharing in the Linux daemon (Linux/Main.c): the USB read thread  *)
(* that serves the phone's requests, and the pairs of threads it starts,   *)
(* an x11_thread that captures the screen into a buffer and a              *)
(* usb_send_thread that ships that buffer to the phone.                    *)
(*                                                                         *)
(* A step is what a thread does between two points at which another thread *)
(* can interfere: taking a mutex, the body of a critical section with its  *)
(* unlock, one call that blocks.                                           *)
(***************************************************************************)
EXTENDS Integers

CONSTANT MaxPairs  \* bound: pairs of threads ever created

ASSUME BoundsAssumption == MaxPairs \in Nat \ {0}

Pairs   == 1..MaxPairs
Reader  == <<"android_device_read_thread", 0>>
X11(i)  == <<"x11_thread", i>>
Usb(i)  == <<"usb_send_thread", i>>
Nobody  == <<"nobody", 0>>
Threads == {Reader} \cup {X11(i) : i \in Pairs} \cup {Usb(i) : i \in Pairs}

Mutexes == {"thread", "status", "buffer"}

BUFFER_FREE == 0
BUFFER_USED == 1
Slots       == 0..2

ReaderLabels == {"idle", "handshake", "dims_reply", "dims_buffers", "stop",
                 "start", "start_thread", "start_flags", "start_create"}
X11Labels    == {"none", "enter", "loop", "pick", "grab", "put", "leave", "ended"}
UsbLabels    == {"none", "usb_loop", "take", "send", "syn", "usb_put", "ended"}

VARIABLES
  pc,                 \* where each thread is; "none" before pthread_create
  mutex,              \* owner of x11_thread_mutex, x11_status_mutex, x11_buffer_mutex
  x11_thread_status,  \* TRUE once a capture was started; nothing resets it
  x11_thread_kill,
  x11_buffer_used,
  x11_buffer_index,
  x11_buffer_new,     \* x11_buffer_new > 0: the code tests nothing else of the count
  mIndex,             \* the local mIndex of each thread
  transfer_status,
  pairs               \* number of pairs created so far

flags   == <<x11_thread_status, x11_thread_kill>>
buffers == <<x11_buffer_used, x11_buffer_index, x11_buffer_new, mIndex>>
session == <<transfer_status, pairs>>
vars    == <<pc, mutex, flags, buffers, session>>

Init ==
  /\ pc = [t \in Threads |-> IF t = Reader THEN "idle" ELSE "none"]
  /\ mutex = [m \in Mutexes |-> Nobody]
  /\ x11_thread_status = FALSE
  /\ x11_thread_kill = FALSE
  /\ x11_buffer_used = [s \in Slots |-> BUFFER_FREE]
  /\ x11_buffer_index = 0
  /\ x11_buffer_new = FALSE
  /\ mIndex = [t \in Threads |-> 0]
  /\ transfer_status = "HANDSHAKE"
  /\ pairs = 0

-----------------------------------------------------------------------------
(* Mutexes.  A thread at a wait point of m blocks until it owns m; the     *)
(* action that follows is the critical section and ends with its unlock.   *)

WaitPoints ==
  [thread |-> {"enter", "start_thread"},
   status |-> {"loop", "usb_loop", "stop", "start", "start_flags"},
   buffer |-> {"pick", "put", "take", "usb_put"}]

Acquire(t) ==
  \E m \in Mutexes :
    /\ pc[t] \in WaitPoints[m]
    /\ mutex[m] = Nobody
    /\ mutex' = [mutex EXCEPT ![m] = t]
    /\ UNCHANGED <<pc, flags, buffers, session>>

InSection(t, label, m) == pc[t] = label /\ mutex[m] = t
Unlock(m)              == mutex' = [mutex EXCEPT ![m] = Nobody]
Goto(t, label)         == pc' = [pc EXCEPT ![t] = label]

-----------------------------------------------------------------------------
(* The read thread: one packet of the phone at a time.                     *)

\* PACKET_HANDSHAKE, the first packet after a connection or after a close.
ServeHandshake ==
  /\ pc[Reader] = "idle"
  /\ transfer_status = "HANDSHAKE"
  /\ Goto(Reader, "handshake")
  /\ UNCHANGED <<mutex, flags, buffers, session>>

\* The reply goes out within 7.5 s or fails; only success ends the handshake.
HandshakeReplied ==
  /\ pc[Reader] = "handshake"
  /\ transfer_status' \in {"WAITING", "HANDSHAKE"}
  /\ Goto(Reader, "idle")
  /\ UNCHANGED <<mutex, flags, buffers, pairs>>

ServeClose ==
  /\ pc[Reader] = "idle"
  /\ transfer_status # "HANDSHAKE"
  /\ transfer_status' = "HANDSHAKE"
  /\ UNCHANGED <<pc, mutex, flags, buffers, pairs>>

ServeDims ==
  /\ pc[Reader] = "idle"
  /\ transfer_status # "HANDSHAKE"
  /\ Goto(Reader, "dims_reply")
  /\ UNCHANGED <<mutex, flags, buffers, session>>

\* The reply is sent without a timeout; its result is not looked at.
DimsReplied ==
  /\ pc[Reader] = "dims_reply"
  /\ Goto(Reader, "dims_buffers")
  /\ UNCHANGED <<mutex, flags, buffers, session>>

\* Frees and reallocates the device buffer, the parameters and the frame buffers.
DimsBuffers ==
  /\ pc[Reader] = "dims_buffers"
  /\ Goto(Reader, "idle")
  /\ UNCHANGED <<mutex, flags, buffers, session>>

ServeStop ==
  /\ pc[Reader] = "idle"
  /\ transfer_status # "HANDSHAKE"
  /\ transfer_status' = "WAITING"
  /\ Goto(Reader, "stop")
  /\ UNCHANGED <<mutex, flags, buffers, pairs>>

x11_thread_stop ==
  /\ InSection(Reader, "stop", "status")
  /\ x11_thread_kill' = TRUE
  /\ Unlock("status")
  /\ Goto(Reader, "idle")
  /\ UNCHANGED <<x11_thread_status, buffers, session>>

\* Served whenever it comes: nothing tells a first START from a further one, or asks
\* for the dimensions before it.
ServeStart ==
  /\ pc[Reader] = "idle"
  /\ transfer_status # "HANDSHAKE"
  /\ pairs < MaxPairs
  /\ transfer_status' = "SCREEN_SHARE"
  /\ Goto(Reader, "start")
  /\ UNCHANGED <<mutex, flags, buffers, pairs>>

\* Mutants: the test of the kill flag forgotten; the whole test forgotten.
AlreadyStarted == x11_thread_status
NeverSharing   == FALSE

AlreadySharing == x11_thread_status /\ ~x11_thread_kill

\* Mutant: start goes on to wait for the capture with the status mutex in hand.
StartCheckKeepsLock ==
  /\ InSection(Reader, "start", "status")
  /\ mutex' = [mutex EXCEPT !["status"] = IF AlreadySharing THEN Nobody ELSE @]
  /\ Goto(Reader, IF AlreadySharing THEN "idle" ELSE "start_thread")
  /\ UNCHANGED <<flags, buffers, session>>

StartCheck ==
  /\ InSection(Reader, "start", "status")
  /\ Unlock("status")
  /\ Goto(Reader, IF AlreadySharing THEN "idle" ELSE "start_thread")
  /\ UNCHANGED <<flags, buffers, session>>

StartEnter ==
  /\ InSection(Reader, "start_thread", "thread")
  /\ Goto(Reader, "start_flags")
  /\ UNCHANGED <<mutex, flags, buffers, session>>

StartFlags ==
  /\ InSection(Reader, "start_flags", "status")
  /\ x11_thread_status' = TRUE
  /\ x11_thread_kill' = FALSE
  /\ Unlock("status")
  /\ Goto(Reader, "start_create")
  /\ UNCHANGED <<buffers, session>>

StartCreate ==
  /\ pc[Reader] = "start_create"
  /\ pairs' = pairs + 1
  /\ pc' = [pc EXCEPT ![Reader] = "idle",
                      ![X11(pairs + 1)] = "enter",
                      ![Usb(pairs + 1)] = "usb_loop"]
  /\ Unlock("thread")
  /\ UNCHANGED <<flags, buffers, transfer_status>>

-----------------------------------------------------------------------------
(* x11_thread.                                                             *)

X11Enter(i) ==
  /\ InSection(X11(i), "enter", "thread")
  /\ x11_thread_status' = TRUE
  /\ Goto(X11(i), "loop")
  /\ UNCHANGED <<mutex, x11_thread_kill, buffers, session>>

\* Mutant: leaves the loop without releasing the status mutex.
X11CheckKeepsLock(i) ==
  /\ InSection(X11(i), "loop", "status")
  /\ mutex' = [mutex EXCEPT !["status"] = IF x11_thread_kill THEN @ ELSE Nobody]
  /\ Goto(X11(i), IF x11_thread_kill THEN "leave" ELSE "pick")
  /\ UNCHANGED <<flags, buffers, session>>

X11Check(i) ==
  /\ InSection(X11(i), "loop", "status")
  /\ Unlock("status")
  /\ Goto(X11(i), IF x11_thread_kill THEN "leave" ELSE "pick")
  /\ UNCHANGED <<flags, buffers, session>>

\* Mutant: the search keeps looking at the first slot.
FirstSlotOrNone ==
  IF x11_buffer_used[0] = BUFFER_FREE THEN 0 ELSE 3

\* The search stops at a free slot and then overwrites the index it found with
\* the constant BUFFER_FREE; it runs off the array when no slot is free.
PickedSlot ==
  IF \E s \in Slots : x11_buffer_used[s] = BUFFER_FREE THEN BUFFER_FREE ELSE 3

\* Mutant: a slot counts its users.
X11PickCounts(i) ==
  /\ InSection(X11(i), "pick", "buffer")
  /\ x11_buffer_new' = TRUE
  /\ mIndex' = [mIndex EXCEPT ![X11(i)] = PickedSlot]
  /\ x11_buffer_used' = [x11_buffer_used EXCEPT ![PickedSlot] = @ + 1]
  /\ Unlock("buffer")
  /\ Goto(X11(i), "grab")
  /\ UNCHANGED <<flags, x11_buffer_index, session>>

X11Pick(i) ==
  /\ InSection(X11(i), "pick", "buffer")
  /\ x11_buffer_new' = TRUE
  /\ mIndex' = [mIndex EXCEPT ![X11(i)] = PickedSlot]
  /\ x11_buffer_used' = [x11_buffer_used EXCEPT ![PickedSlot] = BUFFER_USED]
  /\ Unlock("buffer")
  /\ Goto(X11(i), "grab")
  /\ UNCHANGED <<flags, x11_buffer_index, session>>

\* x11_getframe and the copy into x11_buffer[mIndex], outside every mutex.
X11Grab(i) ==
  /\ pc[X11(i)] = "grab"
  /\ Goto(X11(i), "put")
  /\ UNCHANGED <<mutex, flags, buffers, session>>

X11Put(i) ==
  /\ InSection(X11(i), "put", "buffer")
  /\ x11_buffer_used' = [x11_buffer_used EXCEPT ![mIndex[X11(i)]] = BUFFER_FREE]
  /\ x11_buffer_index' = mIndex[X11(i)]
  /\ Unlock("buffer")
  /\ Goto(X11(i), "loop")
  /\ UNCHANGED <<flags, x11_buffer_new, mIndex, session>>

\* Mutant: the capture thread lowers the kill flag once it has seen it.
X11LeaveResets(i) ==
  /\ pc[X11(i)] = "leave"
  /\ x11_thread_kill' = FALSE
  /\ Unlock("thread")
  /\ Goto(X11(i), "ended")
  /\ UNCHANGED <<x11_thread_status, buffers, session>>

X11Leave(i) ==
  /\ pc[X11(i)] = "leave"
  /\ Unlock("thread")
  /\ Goto(X11(i), "ended")
  /\ UNCHANGED <<flags, buffers, session>>

-----------------------------------------------------------------------------
(* usb_send_thread.                                                        *)

UsbCheck(i) ==
  /\ InSection(Usb(i), "usb_loop", "status")
  /\ Unlock("status")
  /\ Goto(Usb(i), IF x11_thread_kill THEN "ended" ELSE "take")
  /\ UNCHANGED <<flags, buffers, session>>

\* Mutant: the count of new frames is not reset.
UsbTakeKeepsNew(i) ==
  /\ InSection(Usb(i), "take", "buffer")
  /\ x11_buffer_new
  /\ mIndex' = [mIndex EXCEPT ![Usb(i)] = x11_buffer_index]
  /\ x11_buffer_used' = [x11_buffer_used EXCEPT ![x11_buffer_index] = BUFFER_USED]
  /\ Unlock("buffer")
  /\ Goto(Usb(i), "send")
  /\ UNCHANGED <<flags, x11_buffer_index, x11_buffer_new, session>>

UsbTake(i) ==
  /\ InSection(Usb(i), "take", "buffer")
  /\ x11_buffer_new
  /\ x11_buffer_new' = FALSE
  /\ mIndex' = [mIndex EXCEPT ![Usb(i)] = x11_buffer_index]
  /\ x11_buffer_used' = [x11_buffer_used EXCEPT ![x11_buffer_index] = BUFFER_USED]
  /\ Unlock("buffer")
  /\ Goto(Usb(i), "send")
  /\ UNCHANGED <<flags, x11_buffer_index, session>>

\* Mutant: waits for a frame without going back to the kill flag.
UsbKeepsWaiting(i) ==
  /\ InSection(Usb(i), "take", "buffer")
  /\ ~x11_buffer_new
  /\ Unlock("buffer")
  /\ UNCHANGED <<pc, flags, buffers, session>>

UsbNothingNew(i) ==
  /\ InSection(Usb(i), "take", "buffer")
  /\ ~x11_buffer_new
  /\ Unlock("buffer")
  /\ Goto(Usb(i), "usb_loop")
  /\ UNCHANGED <<flags, buffers, session>>

\* sendBufferedScreenCap: the packets, sent whole or cut off after 320 ms ...
UsbSend(i) ==
  /\ pc[Usb(i)] = "send"
  /\ Goto(Usb(i), "syn")
  /\ UNCHANGED <<mutex, flags, buffers, session>>

\* ... then the SS_SYN packet, sent without a timeout.
UsbSyn(i) ==
  /\ pc[Usb(i)] = "syn"
  /\ Goto(Usb(i), "usb_put")
  /\ UNCHANGED <<mutex, flags, buffers, session>>

UsbPut(i) ==
  /\ InSection(Usb(i), "usb_put", "buffer")
  /\ x11_buffer_used' = [x11_buffer_used EXCEPT ![mIndex[Usb(i)]] = BUFFER_FREE]
  /\ Unlock("buffer")
  /\ Goto(Usb(i), "usb_loop")
  /\ UNCHANGED <<flags, x11_buffer_index, x11_buffer_new, mIndex, session>>

-----------------------------------------------------------------------------
ReaderWorks ==
  \/ HandshakeReplied \/ DimsBuffers \/ x11_thread_stop
  \/ StartCheck \/ StartEnter \/ StartFlags \/ StartCreate

ReaderServes ==
  \/ ServeHandshake \/ ServeClose \/ ServeDims \/ ServeStop \/ ServeStart

x11_thread(i) ==
  X11Enter(i) \/ X11Check(i) \/ X11Pick(i) \/ X11Grab(i) \/ X11Put(i) \/ X11Leave(i)

usb_send_thread(i) ==
  UsbCheck(i) \/ UsbTake(i) \/ UsbNothingNew(i) \/ UsbSend(i) \/ UsbPut(i)

Next ==
  \/ ReaderServes
  \/ ReaderWorks
  \/ DimsReplied
  \/ \E t \in Threads : Acquire(t)
  \/ \E i \in Pairs : x11_thread(i) \/ usb_send_thread(i) \/ UsbSyn(i)

Spec == Init /\ [][Next]_vars

(* A mutex a thread waits for is granted when it stays free.  Nothing is   *)
(* assumed of the phone: it may leave a reply or an SS_SYN packet unread   *)
(* for ever, and both transfers wait without a timeout.                    *)
Fairness ==
  /\ WF_vars(ReaderWorks)
  /\ \A t \in Threads : WF_vars(Acquire(t))
  /\ \A i \in Pairs : WF_vars(x11_thread(i)) /\ WF_vars(usb_send_thread(i))

FairSpec == Spec /\ Fairness

-----------------------------------------------------------------------------
(* Properties.                                                             *)

Labels(t) ==
  IF t = Reader THEN ReaderLabels
  ELSE IF \E i \in Pairs : t = X11(i) THEN X11Labels ELSE UsbLabels

\* Type correctness: every variable has its declared shape; the slot index of a
\* thread may be 3, where the search of x11_thread ends when it finds nothing.
TypeOK ==
  /\ pc \in [Threads -> ReaderLabels \cup X11Labels \cup UsbLabels]
  /\ \A t \in Threads : pc[t] \in Labels(t)
  /\ mutex \in [Mutexes -> Threads \cup {Nobody}]
  /\ x11_thread_status \in BOOLEAN
  /\ x11_thread_kill \in BOOLEAN
  /\ x11_buffer_used \in [Slots -> {BUFFER_FREE, BUFFER_USED}]
  /\ x11_buffer_index \in 0..3
  /\ x11_buffer_new \in BOOLEAN
  /\ mIndex \in [Threads -> 0..3]
  /\ transfer_status \in {"HANDSHAKE", "WAITING", "SCREEN_SHARE"}
  /\ pairs \in 0..MaxPairs

Capturing == {"loop", "pick", "grab", "put", "leave"}

\* Where a thread may own each mutex: at its wait points once they are granted
\* and, for x11_thread_mutex, across the whole capture and the whole start.
HoldPoints ==
  [thread |-> WaitPoints["thread"] \cup Capturing \cup {"start_flags", "start_create"},
   status |-> WaitPoints["status"],
   buffer |-> WaitPoints["buffer"]]

\* No path out of a critical section forgets its unlock: a mutex is owned only by
\* a thread that is inside the section, never by one that ended or went on.
LocksOwned ==
  \A m \in Mutexes :
    mutex[m] # Nobody => pc[mutex[m]] \in HoldPoints[m]

\* Who waits for a mutex that it does not own, and who neither waits for one nor is in
\* a call that lasts until the phone sends or reads.
Waits(t, m) == pc[t] \in WaitPoints[m] /\ mutex[m] # t
GoesOn(t)   == /\ pc[t] \notin {"none", "ended", "idle", "dims_reply", "syn"}
               /\ \A m \in Mutexes : ~Waits(t, m)

\* Nobody waits in a circle, or for the phone: a mutex that a thread waits for is
\* free, or its owner goes on, or the owner waits for one of which that holds.  So
\* the read thread that waits for the old capture, which waits for the status or
\* the buffer mutex, is the longest queue there is.
WaitsEnd ==
  \A t \in Threads, m \in Mutexes : Waits(t, m) =>
    \/ mutex[m] = Nobody \/ GoesOn(mutex[m])
    \/ \E n \in Mutexes : /\ Waits(mutex[m], n)
                          /\ mutex[n] = Nobody \/ GoesOn(mutex[n])

\* x11_thread_mutex makes the capture exclusive: at most one x11_thread is in its
\* loop, however many START requests created threads (x11_getframe has one
\* static shared-memory image).
CaptureExclusive ==
  \A i \in Pairs : pc[X11(i)] \in Capturing => mutex["thread"] = X11(i)

\* A START lowers the kill flag only after the capture that the flag was raised
\* for has left its loop: a stop is never taken back from a running capture.
KillHeldUntilCaptureLeft ==
  [][x11_thread_kill /\ ~x11_thread_kill'
       => \A i \in Pairs : pc[X11(i)] \notin Capturing]_vars

Alive(i) == /\ pc[X11(i)] \in X11Labels \ {"none", "leave", "ended"}
            /\ pc[Usb(i)] \in UsbLabels \ {"none", "ended"}

\* The threads, mutexes and flags implement CapturePromise: a capture that ends was
\* asked to, and the request still stands when it leaves the mutex.
Promise == INSTANCE CapturePromise WITH
  Captures  <- Pairs,
  wanted    <- ~x11_thread_kill,
  capturing <- {i \in Pairs : pc[X11(i)] \in Capturing},
  over      <- {i \in Pairs : pc[X11(i)] = "ended"}

KeepsPromise == Promise!Spec

\* Whenever the device is in TRANSFER_STATUS_SCREEN_SHARE and its read thread is
\* back from serving the request, the newest capture thread and send thread exist
\* and nothing has told them to stop: START is never answered by doing nothing.
SharingHasThreads ==
  transfer_status = "SCREEN_SHARE" /\ pc[Reader] = "idle"
    => /\ x11_thread_status /\ ~x11_thread_kill
       /\ pairs > 0 /\ Alive(pairs)

\* The slot that x11_thread and usb_send_thread use outside the buffer mutex is a
\* slot of the array, however many send threads hold one: the search never comes
\* back with 3.
SlotInBounds ==
  /\ x11_buffer_index \in Slots
  /\ \A t \in Threads : mIndex[t] \in Slots

\* The read thread, which waits in x11_thread_start for the old capture to leave,
\* always comes back to serve the next packet.
StartReturns == pc[Reader] = "start_thread" ~> pc[Reader] = "idle"

\* After the last STOP, when no START follows it, every capture ends and every send
\* thread ends, but for one whose SS_SYN packet the phone never reads.
KillEndsThreads ==
  <>[](x11_thread_kill /\ pc[Reader] # "stop")
    => <>[](\A i \in Pairs : /\ pc[X11(i)] \in {"none", "ended"}
                             /\ pc[Usb(i)] \in {"none", "ended", "syn"})

\* UAccessory.java:232: the CLOSE packet "tells accessory that you are ending
\* communications".  A send thread that looks at its flags after a CLOSE would
\* then end; the daemon's CLOSE leaves the kill flag alone.
CloseEndsSending ==
  [][\A i \in Pairs :
       transfer_status = "HANDSHAKE" /\ UsbCheck(i) => pc'[Usb(i)] = "ended"]_vars
=============================================================================
