----------------------------- MODULE BufferLife -----------------------------
(* The memory behind screen sharing: device->buffer, which carries every   *)
(* packet to the phone, the three frame buffers and the parameters of a    *)
(* frame.  The read thread frees and replaces them when it serves a        *)
(* handshake or a request for dimensions; capture and send threads load    *)
(* the pointers and go on using what they loaded, outside every mutex.     *)
(*                                                                         *)
(* The control is that of ScreenShare, whose actions are repeated here     *)
(* with what they do to the memory.                                        *)
EXTENDS ScreenShare

VARIABLES
  device_buffer,  \* size of device->buffer: "NULL", one "packet", or a "frame" of packets
  writer,         \* the thread whose packet is at the head of it, or Nobody
  prepared,       \* extra_data[0] and x11_buffer[0..2] were allocated
  filled,         \* a capture was copied into x11_buffer[0] since it was allocated
  device_ptr,     \* the device->buffer a transfer of each thread loaded: "none", "live", "freed"
  slot_ptr,       \* likewise the x11_buffer[mIndex] of its copy
  xshm_image,     \* x11_init attached a shared memory image
  daemon,         \* "up", or "down" after a crash
  offered,        \* a reply to REQUEST_FB_DIMS may have reached the phone
  disturbed,      \* the buffers were replaced while threads ran, or were about to
  unfilled        \* frames packed, undisturbed, from memory no capture was copied into

memory   == <<device_buffer, writer, prepared, filled>>
pointers == <<device_ptr, slot_ptr>>
history  == <<offered, disturbed, unfilled>>
all      == <<vars, memory, pointers, xshm_image, daemon, history>>

\* XShmCreateImage, shmget or shmat may fail: x11_init goes on all the same.
x11_shminit == xshm_image \in BOOLEAN

BufferInit ==
  /\ Init
  /\ device_buffer = "NULL" /\ writer = Nobody /\ prepared = FALSE /\ filled = FALSE
  /\ device_ptr = [t \in Threads |-> "none"] /\ slot_ptr = [t \in Threads |-> "none"]
  /\ x11_shminit /\ daemon = "up"
  /\ offered = FALSE /\ disturbed = FALSE /\ unfilled = 0

\* Ghost: threads run, or a START may be on its way, while a step replaces their
\* buffers or adds threads to them.
Disturbs(how) == disturbed' = how /\ unfilled' = IF how THEN 0 ELSE unfilled

Running == \E i \in Pairs : pc[X11(i)] \notin {"none", "ended"} \/ pc[Usb(i)] \notin {"none", "ended"}

Freed(ptr)      == [t \in Threads |-> IF ptr[t] = "live" THEN "freed" ELSE ptr[t]]
Loads(ptr, t)   == [ptr EXCEPT ![t] = "live"]
Forgets(ptr, t) == [ptr EXCEPT ![t] = "none"]

-----------------------------------------------------------------------------
(* The read thread.                                                        *)

\* A buffer of one packet, zeroed; a START on its way will find it.
HandshakeBuffer ==
  /\ ServeHandshake
  /\ device_buffer' = "packet" /\ writer' = Nobody
  /\ device_ptr' = Freed(device_ptr)
  /\ Disturbs(disturbed \/ Running \/ offered)
  /\ UNCHANGED <<prepared, filled, slot_ptr, offered>>

\* The reply is written into the buffer, whatever it is used for.
DimsReply ==
  /\ ServeDims
  /\ writer' = Reader
  /\ Disturbs(disturbed \/ Running)
  /\ UNCHANGED <<device_buffer, prepared, filled, pointers, offered>>

\* Its bytes, header and sizes, may have gone out whatever the transfer returns.
DimsOffered ==
  /\ DimsReplied
  /\ offered' \in {offered, TRUE}
  /\ UNCHANGED <<memory, pointers, disturbed, unfilled>>

\* Mutant: the device buffer keeps the size of a packet.
DimsPacketBuffer ==
  /\ DimsBuffers
  /\ device_buffer' = "packet" /\ writer' = Nobody
  /\ prepared' = TRUE /\ filled' = FALSE
  /\ device_ptr' = Freed(device_ptr) /\ slot_ptr' = Freed(slot_ptr)
  /\ disturbed' = Running /\ unfilled' = 0
  /\ UNCHANGED offered

DimsAllocates ==
  /\ DimsBuffers
  /\ device_buffer' = "frame" /\ writer' = Nobody
  /\ prepared' = TRUE /\ filled' = FALSE
  /\ device_ptr' = Freed(device_ptr) /\ slot_ptr' = Freed(slot_ptr)
  /\ disturbed' = Running /\ unfilled' = 0
  /\ UNCHANGED offered

\* Mutant: a START that follows no reply.
UnaskedStart ==
  /\ ServeStart
  /\ UNCHANGED <<memory, pointers, history>>

\* The phone puts REQUEST_SS_START into its one packet when it has read the reply to
\* REQUEST_FB_DIMS, and never before; a packet sent later may be that one again.
AskedStart ==
  /\ ServeStart
  /\ offered
  /\ UNCHANGED <<memory, pointers, history>>

StartThreads ==
  /\ StartCreate
  /\ Disturbs(disturbed \/ Running)
  /\ UNCHANGED <<memory, pointers, offered>>

-----------------------------------------------------------------------------
(* x11_thread: x11_getframe, then memcpy to the frame buffer.              *)

\* Without an image, or when XShmGetImage fails and x11_getframe returns without a
\* value, what is dereferenced is no frame.
CaptureCrashes(i) ==
  /\ pc[X11(i)] = "grab" /\ slot_ptr[X11(i)] = "none"
  /\ daemon = "up" /\ daemon' = "down"
  /\ UNCHANGED <<vars, memory, pointers, xshm_image, history>>

CopyBegins(i) ==
  /\ pc[X11(i)] = "grab" /\ slot_ptr[X11(i)] = "none"
  /\ xshm_image
  /\ slot_ptr' = Loads(slot_ptr, X11(i))
  /\ UNCHANGED <<vars, memory, device_ptr, history>>

CopyEnds(i) ==
  /\ X11Grab(i)
  /\ slot_ptr[X11(i)] # "none"
  /\ filled' = (filled \/ slot_ptr[X11(i)] = "live")
  /\ slot_ptr' = Forgets(slot_ptr, X11(i))
  /\ UNCHANGED <<device_buffer, writer, prepared, device_ptr, history>>

-----------------------------------------------------------------------------
(* usb_send_thread: sendBufferedScreenCap.                                 *)

Packing(i)      == pc[Usb(i)] = "send" /\ slot_ptr[Usb(i)] # "none"
Transferring(i) == device_ptr[Usb(i)] # "none"

\* The frame buffer is loaded once; every packet is copied to the device->buffer of
\* that moment.
PackBegins(i) ==
  /\ pc[Usb(i)] = "send"
  /\ ~Packing(i) /\ ~Transferring(i)
  /\ slot_ptr' = Loads(slot_ptr, Usb(i))
  /\ writer' = Usb(i)
  /\ unfilled' = IF filled \/ disturbed \/ unfilled = 3 THEN unfilled ELSE unfilled + 1
  /\ UNCHANGED <<vars, device_buffer, prepared, filled, device_ptr, offered, disturbed>>

\* android_device_send_data_buffer loads dev->buffer for the transfer.
TransferBegins(i) ==
  /\ Packing(i)
  /\ slot_ptr' = Forgets(slot_ptr, Usb(i))
  /\ device_ptr' = Loads(device_ptr, Usb(i))
  /\ UNCHANGED <<vars, memory, history>>

TransferEnds(i) ==
  /\ UsbSend(i)
  /\ Transferring(i)
  /\ device_ptr' = Forgets(device_ptr, Usb(i))
  /\ UNCHANGED <<memory, slot_ptr, history>>

SynBegins(i) ==
  /\ pc[Usb(i)] = "syn"
  /\ device_ptr[Usb(i)] = "none"
  /\ device_ptr' = Loads(device_ptr, Usb(i))
  /\ writer' = Usb(i)
  /\ UNCHANGED <<vars, device_buffer, prepared, filled, slot_ptr, history>>

\* Mutant: the transfer of the SS_SYN packet is not waited for.
SynNotAwaited(i) ==
  /\ UsbSyn(i)
  /\ Transferring(i)
  /\ UNCHANGED <<memory, pointers, history>>

SynEnds(i) ==
  /\ UsbSyn(i)
  /\ Transferring(i)
  /\ device_ptr' = Forgets(device_ptr, Usb(i))
  /\ UNCHANGED <<memory, slot_ptr, history>>

-----------------------------------------------------------------------------
\* The actions of ScreenShare that leave the memory alone.
Control ==
  /\ \/ HandshakeReplied \/ ServeClose \/ ServeStop \/ x11_thread_stop
     \/ StartCheck \/ StartEnter \/ StartFlags
     \/ \E t \in Threads : Acquire(t)
     \/ \E i \in Pairs :
          \/ X11Enter(i) \/ X11Check(i) \/ X11Pick(i) \/ X11Put(i) \/ X11Leave(i)
          \/ UsbCheck(i) \/ UsbTake(i) \/ UsbNothingNew(i) \/ UsbPut(i)
  /\ UNCHANGED <<memory, pointers, history>>

Up == daemon = "up" /\ UNCHANGED <<xshm_image, daemon>>

BufferNext ==
  \/ (Control /\ Up)
  \/ (HandshakeBuffer /\ Up) \/ (DimsReply /\ Up) \/ (DimsOffered /\ Up)
  \/ (DimsAllocates /\ Up) \/ (AskedStart /\ Up) \/ (StartThreads /\ Up)
  \/ \E i \in Pairs :
       \/ CaptureCrashes(i)
       \/ (CopyBegins(i) /\ Up) \/ (CopyEnds(i) /\ Up)
       \/ (PackBegins(i) /\ Up) \/ (TransferBegins(i) /\ Up) \/ (TransferEnds(i) /\ Up)
       \/ (SynBegins(i) /\ Up) \/ (SynEnds(i) /\ Up)

BufferSpec == BufferInit /\ [][BufferNext]_all

-----------------------------------------------------------------------------
(* Properties.                                                             *)

\* Type correctness; no thread goes on using a block after the call it passed it to.
BufferTypeOK ==
  /\ device_buffer \in {"NULL", "packet", "frame"}
  /\ writer \in Threads \cup {Nobody}
  /\ prepared \in BOOLEAN /\ filled \in BOOLEAN /\ offered \in BOOLEAN
  /\ disturbed \in BOOLEAN
  /\ device_ptr \in [Threads -> {"none", "live", "freed"}]
  /\ slot_ptr \in [Threads -> {"none", "live", "freed"}]
  /\ \A t \in Threads : device_ptr[t] # "none" => pc[t] \in {"send", "syn"}
  /\ \A t \in Threads : slot_ptr[t] # "none" => pc[t] \in {"grab", "send"}
  /\ xshm_image \in BOOLEAN /\ daemon \in {"up", "down"}
  /\ unfilled \in 0..3

\* No capture and no send thread runs before the parameters and the frame buffers
\* exist, though the reply that lets the phone send a START goes out before they are
\* allocated and later handshakes replace the buffer: see AskedStart for what is
\* relied on of the phone, as the daemon itself checks nothing.
PreparedBeforeUse == Running => prepared /\ device_buffer # "NULL"

\* As long as handshakes and requests for dimensions are served only after the
\* threads of earlier pairs ended, and a new pair started only then: no thread uses
\* a block that was freed, a frame fits the buffer it is packed into, and a transfer
\* or a reply carries what its own thread wrote.  Whatever happened before, a
\* request for dimensions that finds no thread makes it so again.
BuffersKept ==
  ~disturbed =>
    /\ \A t \in Threads : device_ptr[t] # "freed" /\ slot_ptr[t] # "freed"
    /\ \A i \in Pairs : Packing(i) => device_buffer = "frame"
    /\ \A i \in Pairs : Transferring(i) => writer = Usb(i)
    /\ pc[Reader] = "dims_reply" => writer = Reader

\* Although x11_buffer_new is raised before the capture is made, and is left raised
\* by an earlier pair, at most two frames are packed from memory that no capture
\* was copied into.
AtMostTwoUnfilled == ~disturbed => unfilled <= 2
=============================================================================
