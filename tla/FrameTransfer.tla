--------------------------- MODULE FrameTransfer ---------------------------
(* One captured frame on its way to the phone: usb_send_thread copies the  *)
(* frame buffer into packets of the size the phone announced and sends     *)
(* them and an SS_SYN packet, while x11_thread goes on capturing into that *)
(* buffer and the read thread answers requests for dimensions out of the   *)
(* same device->buffer (Linux/Main.c); the phone's read thread puts the    *)
(* packets together again and has its main thread draw them (SSmode.java). *)
(*                                                                         *)
(* All packets of a frame leave in one USB transfer, which is cut off      *)
(* after 320 ms wherever it is.  The phone reads packet_size bytes at a    *)
(* time, so that a cut inside a packet shifts every later packet: what the *)
(* phone then takes for a header is pixels, and may say anything.          *)
EXTENDS Integers, Sequences

CONSTANTS PacketSizes,   \* packet sizes a phone may announce in the handshake
          Screens,       \* screen sizes, <<width, height>>
          StrayNumbers,  \* packet numbers that pixels taken for a header may hold
          StrayDims,     \* sizes and packet counts they may hold
          MaxCaptures,   \* bound: captures made
          WireCap,       \* bound: packets between the two programs
          MaxPosted      \* bound: SetImageRunnables not yet run

SS_PACKET_HEADER == 8

ASSUME SizesAssumption ==
  /\ PacketSizes \subseteq {n \in Nat : n > SS_PACKET_HEADER}
  /\ Screens \subseteq (Nat \ {0}) \X (Nat \ {0})
  /\ StrayNumbers \subseteq Int
  /\ StrayDims \subseteq Nat \X Nat
  /\ MaxCaptures \in Nat /\ WireCap \in Nat /\ MaxPosted \in Nat

VARIABLES
  packet_size,    \* agreed in the handshake
  screen,         \* <<x11_get_fb_w(), x11_get_fb_h()>>
  capturing,      \* x11_thread runs
  captures,       \* captures begun by it
  copying,        \* the last of them is being copied into x11_buffer[0]
  slot,           \* the last one copied there whole; 0 since it was allocated
  x11_buffer_new, \* x11_buffer_new > 0
  sharing,        \* x11_thread_status && !x11_thread_kill
  reader,         \* the read thread: "idle", or in REQUEST_FB_DIMS: "reply", "renew"
  sender,         \* usb_send_thread: "off", "pack", "packing", "data", "syn"
  others,         \* usb_send_threads of earlier pairs that run beside it
  frame,          \* what it packs: number of the frame, oldest and newest capture in it
  sent,           \* packets of it that were transferred
  cut,            \* its transfer timed out
  met,            \* another thread used device->buffer while it was packed or closed
  aligned,        \* the next packet starts where the phone starts to read
  wire,           \* packets on their way to the phone
  phone,          \* its read thread: "reads", or "crashed" on an exception
  started,        \* the phone sent REQUEST_SS_START, and may again
  bitmap,         \* screenBitmapBytes: each byte as the <<frame, offset>> it came from
  bitmapLength,   \* screenBitmapBytes.length; 0 before the first dimensions
  totalPackets,   \* the packet count the phone was told; 0 before
  genuine,        \* the dimensions the phone holds are those the daemon sent
  renewed,        \* dimensions came since the first packet of the last frame
  posted          \* SetImageRunnables in the queue of the main thread

agreed  == <<packet_size, screen>>
capture == <<capturing, captures, copying, slot, x11_buffer_new>>
control == <<sharing, reader, others>>
packing == <<sender, frame, sent, cut, met, aligned>>
mobile  == <<phone, started, bitmap, bitmapLength, totalPackets, genuine, renewed, posted>>
vars    == <<agreed, capture, control, packing, wire, mobile>>

-----------------------------------------------------------------------------
(* How a frame is cut into packets.                                        *)

\* Mutant: the last packet takes the remainder, which is 0 for a whole number.
remainder == (screen[1] * screen[2] * 4) % (packet_size - SS_PACKET_HEADER)

fb_size         == screen[1] * screen[2] * 4
data_per_packet == packet_size - SS_PACKET_HEADER
total_packets   == (fb_size + data_per_packet - 1) \div data_per_packet
leftover_bytes  == fb_size - data_per_packet * (total_packets - 1)

Carried(k) == IF k < total_packets - 1 THEN data_per_packet ELSE leftover_bytes

\* Byte b of frame f, <<f, b>>, is byte b of one of the captures f[2]..f[3]: the one
\* that was whole when the packing began, or any that was copied over it meanwhile.
\* Stale is any other byte the daemon may send, Blank one of a new byte[].
NoFrame == <<0, 0, 0>>
Stale   == <<NoFrame, 0>>
Blank   == <<NoFrame, 1>>

\* What memcpy puts behind the header of packet k; the tail of the last packet is
\* whatever device->buffer held.
Payload(f, k) == [j \in 0..(data_per_packet - 1) |->
                    IF j < Carried(k) THEN <<f, data_per_packet * k + j>> ELSE Stale]

Empty == [j \in {} |-> Stale]

\* A packet as the phone reads it; of, whole and stray are not on the wire, they record
\* whose packet it is and how it came about.
Dims == [flag |-> "REQUEST_FB_DIMS", number |-> 0, data |-> Empty, size |-> fb_size,
         count |-> total_packets, of |-> NoFrame, whole |-> FALSE, stray |-> FALSE]

Data(k) == [flag |-> "SS_DATA", number |-> k, data |-> Payload(frame, k), size |-> 0,
            count |-> 0, of |-> frame, whole |-> ~met, stray |-> FALSE]

Syn == [flag |-> "SS_SYN", number |-> 0, data |-> Empty, size |-> 0,
        count |-> 0, of |-> frame, whole |-> ~cut /\ ~met, stray |-> FALSE]

\* Pixels taken for a header, or what two threads made of one packet.
Stray(flag, number, d) ==
  [flag |-> flag, number |-> number, size |-> d[1], count |-> d[2], of |-> NoFrame,
   whole |-> FALSE, stray |-> TRUE, data |-> [j \in 0..(data_per_packet - 1) |-> Stale]]

StrayPackets ==
  {Stray("REQUEST_FB_DIMS", 0, d) : d \in StrayDims}
    \cup {Stray("SS_DATA", n, <<0, 0>>) : n \in StrayNumbers}
    \cup {Stray(f, 0, <<0, 0>>) : f \in {"SS_SYN", "other"}}

\* The phone's view of packet p when it is sent.
Arrives(p) ==
  \/ aligned /\ wire' = Append(wire, p)
  \/ aligned /\ met /\ wire' = Append(wire, Dims)
  \/ /\ ~aligned \/ met
     /\ \E q \in StrayPackets : wire' = Append(wire, q)

Init ==
  /\ packet_size \in PacketSizes
  /\ screen \in Screens
  /\ capturing = FALSE /\ captures = 0 /\ copying = FALSE /\ slot = 0
  /\ x11_buffer_new = FALSE
  /\ sharing = FALSE /\ reader = "idle" /\ others = FALSE
  /\ sender = "off" /\ frame = NoFrame /\ sent = 0 /\ cut = FALSE /\ met = FALSE
  /\ aligned = TRUE
  /\ wire = <<>>
  /\ phone = "reads" /\ started = FALSE /\ bitmap = Empty /\ bitmapLength = 0
  /\ totalPackets = 0 /\ genuine = TRUE /\ renewed = FALSE /\ posted = 0

-----------------------------------------------------------------------------
(* The daemon: its read thread.                                            *)

\* Answers REQUEST_FB_DIMS whatever the send threads do: writes the reply into
\* device->buffer.  A transfer that was submitted is not changed by that any more.
WriteReply ==
  /\ reader = "idle"
  /\ reader' = "reply"
  /\ met' = (others \/ sender \in {"packing", "syn"} \/ (met /\ sender = "data"))
  /\ UNCHANGED <<agreed, capture, sharing, others, sender, frame, sent, cut, aligned, wire, mobile>>

SendReply ==
  /\ reader = "reply"
  /\ Len(wire) < WireCap
  /\ Arrives(Dims)
  /\ reader' = "renew"
  /\ UNCHANGED <<agreed, capture, sharing, others, packing, mobile>>

\* Replaces device->buffer and the frame buffers; a capture on its way may miss them.
Renew ==
  /\ reader = "renew"
  /\ reader' = "idle"
  /\ slot' = 0
  /\ copying' \in {copying, FALSE}
  /\ UNCHANGED <<agreed, capturing, captures, x11_buffer_new, sharing, others, packing, wire,
                 mobile>>

\* REQUEST_SS_START: waits for the old x11_thread to leave, but not for the old send
\* thread; one that did not see the kill flag yet goes on beside the new one.
StartSending ==
  /\ reader = "idle" /\ started
  /\ ~sharing /\ ~capturing
  /\ sharing' = TRUE /\ capturing' = TRUE
  /\ sender' = IF sender = "off" THEN "pack" ELSE sender
  /\ others' = (others \/ sender # "off")
  /\ met' = (met \/ sender # "off")
  /\ UNCHANGED <<agreed, captures, copying, slot, x11_buffer_new, reader, frame, sent, cut,
                 aligned, wire, mobile>>

\* REQUEST_SS_STOP raises the kill flag.
StopSending ==
  /\ reader = "idle" /\ sharing
  /\ sharing' = FALSE
  /\ UNCHANGED <<agreed, capture, reader, others, packing, wire, mobile>>

-----------------------------------------------------------------------------
(* The daemon: x11_thread, always with x11_buffer[0].                      *)

CaptureBegins ==
  /\ capturing /\ ~copying /\ captures < MaxCaptures
  /\ captures' = captures + 1
  /\ copying' = TRUE /\ x11_buffer_new' = TRUE
  /\ UNCHANGED <<agreed, capturing, slot, control, packing, wire, mobile>>

CaptureEnds ==
  /\ copying
  /\ copying' = FALSE
  /\ slot' = captures
  /\ UNCHANGED <<agreed, capturing, captures, x11_buffer_new, control, packing, wire, mobile>>

\* x11_thread sees the kill flag and releases its mutex.
CaptureThreadEnds ==
  /\ capturing /\ ~copying /\ ~sharing
  /\ capturing' = FALSE
  /\ UNCHANGED <<agreed, captures, copying, slot, x11_buffer_new, control, packing, wire,
                 mobile>>

-----------------------------------------------------------------------------
(* The daemon: usb_send_thread.                                            *)

\* Starts to fill device->buffer from the frame buffer, outside every mutex.
PackBegins ==
  /\ sender = "pack" /\ x11_buffer_new
  /\ x11_buffer_new' = FALSE
  /\ sender' = "packing"
  /\ frame' = <<frame[1] + 1, slot, captures>>
  /\ met' = (others \/ reader # "idle")
  /\ UNCHANGED <<agreed, capturing, captures, copying, slot, control, sent, cut, aligned, wire,
                 mobile>>

\* All packets are packed, and submitted in one transfer.
PackEnds ==
  /\ sender = "packing"
  /\ sender' = "data"
  /\ frame' = [frame EXCEPT ![3] = captures]
  /\ UNCHANGED <<agreed, capture, control, sent, cut, met, aligned, wire, mobile>>

\* Mutant: one packet too many leaves the buffer.
SendPacketTooMany ==
  /\ sender = "data" /\ ~cut /\ sent <= total_packets
  /\ Len(wire) < WireCap
  /\ Arrives(Data(sent))
  /\ sent' = sent + 1
  /\ UNCHANGED <<agreed, capture, control, sender, frame, cut, met, aligned, mobile>>

\* The phone takes the next packet of the transfer.
SendPacket ==
  /\ sender = "data" /\ ~cut /\ sent < total_packets
  /\ Len(wire) < WireCap
  /\ Arrives(Data(sent))
  /\ sent' = sent + 1
  /\ UNCHANGED <<agreed, capture, control, sender, frame, cut, met, aligned, mobile>>

\* 320 ms are over; the result of the transfer is not looked at.
CutOff ==
  /\ sender = "data" /\ ~cut /\ sent < total_packets
  /\ cut' = TRUE
  /\ aligned' \in BOOLEAN
  /\ UNCHANGED <<agreed, capture, control, sender, frame, sent, met, wire, mobile>>

\* SS_SYN is written over the head of the device->buffer there is by now.
WriteSyn ==
  /\ sender = "data" /\ (cut \/ sent = total_packets)
  /\ sender' = "syn"
  /\ met' = (met \/ reader # "idle")
  /\ UNCHANGED <<agreed, capture, control, frame, sent, cut, aligned, wire, mobile>>

SendSyn ==
  /\ sender = "syn"
  /\ Len(wire) < WireCap
  /\ Arrives(Syn)
  /\ sender' = "pack"
  /\ sent' = 0 /\ cut' = FALSE
  /\ UNCHANGED <<agreed, capture, control, frame, met, aligned, mobile>>

\* The send thread sees the kill flag.
SenderEnds ==
  /\ sender = "pack" /\ ~sharing
  /\ sender' = "off"
  /\ UNCHANGED <<agreed, capture, control, frame, sent, cut, met, aligned, wire, mobile>>

\* Send threads of earlier pairs send packets, and may have their transfers cut off.
OthersSend ==
  /\ others
  /\ Len(wire) < WireCap
  /\ \E q \in StrayPackets : wire' = Append(wire, q)
  /\ aligned' \in BOOLEAN
  /\ UNCHANGED <<agreed, capture, control, sender, frame, sent, cut, met, mobile>>

OthersEnd ==
  /\ others /\ ~sharing
  /\ others' = FALSE
  /\ UNCHANGED <<agreed, capture, sharing, reader, packing, wire, mobile>>

-----------------------------------------------------------------------------
(* The phone.                                                              *)

Receives(flag) ==
  /\ phone = "reads"
  /\ wire # <<>>
  /\ Head(wire).flag = flag
  /\ wire' = Tail(wire)

\* New arrays of the size announced; Bitmap.createBitmap refuses an empty one.
OnDims ==
  /\ Receives("REQUEST_FB_DIMS")
  /\ LET p == Head(wire) IN
       /\ genuine' = ~p.stray
       /\ \/ /\ p.size = 0
             /\ phone' = "crashed"
             /\ UNCHANGED <<started, bitmap, bitmapLength, totalPackets, renewed>>
          \/ /\ p.size > 0
             /\ bitmap' = [b \in 0..(p.size - 1) |-> Blank]
             /\ bitmapLength' = p.size
             /\ totalPackets' = p.count
             /\ started' = TRUE
             /\ renewed' = TRUE
             /\ UNCHANGED phone
  /\ UNCHANGED <<agreed, capture, control, packing, posted>>

\* Mutant: only numbers beyond the count are refused.
RefusedBeyond(k) == k < 0 \/ k > totalPackets

\* Out of range, or equal to the count, which neither branch of the copy handles.
Refused(k) == k < 0 \/ k >= totalPackets

bitmapStart(k) == data_per_packet * k
CopyLength(k)  == IF k < totalPackets - 1 THEN data_per_packet
                                          ELSE bitmapLength - bitmapStart(k)

\* System.arraycopy throws unless both ranges exist.
CopyFits(k) ==
  /\ CopyLength(k) >= 0
  /\ bitmapStart(k) + CopyLength(k) <= bitmapLength
  /\ SS_PACKET_HEADER + CopyLength(k) <= packet_size

OnData ==
  /\ Receives("SS_DATA")
  /\ LET k == Head(wire).number IN
       /\ \/ /\ Refused(k)
             /\ UNCHANGED <<bitmap, phone>>
          \/ /\ ~Refused(k) /\ CopyFits(k)
             /\ bitmap' = [b \in DOMAIN bitmap |->
                             IF b - bitmapStart(k) \in 0..(CopyLength(k) - 1)
                             THEN Head(wire).data[b - bitmapStart(k)] ELSE bitmap[b]]
             /\ UNCHANGED phone
          \/ /\ ~Refused(k) /\ ~CopyFits(k)
             /\ phone' = "crashed"
             /\ UNCHANGED bitmap
       /\ renewed' = (renewed /\ (k # 0 \/ Head(wire).stray))
  /\ UNCHANGED <<agreed, capture, control, packing, started, bitmapLength, totalPackets,
                 genuine, posted>>

OnSyn ==
  /\ Receives("SS_SYN")
  /\ posted < MaxPosted
  /\ posted' = posted + 1
  /\ UNCHANGED <<agreed, capture, control, packing, phone, started, bitmap, bitmapLength,
                 totalPackets, genuine, renewed>>

OnOther ==
  /\ Receives("other")
  /\ UNCHANGED <<agreed, capture, control, packing, mobile>>

\* SetImageRunnable on the main thread; without dimensions there is no bitmap.
SetImage ==
  /\ phone = "reads"
  /\ posted > 0
  /\ posted' = posted - 1
  /\ phone' = IF bitmapLength = 0 THEN "crashed" ELSE phone
  /\ UNCHANGED <<agreed, capture, control, packing, wire, started, bitmap, bitmapLength,
                 totalPackets, genuine, renewed>>

-----------------------------------------------------------------------------
Reader == WriteReply \/ SendReply \/ Renew \/ StartSending \/ StopSending
X11    == CaptureBegins \/ CaptureEnds \/ CaptureThreadEnds
Sender == \/ PackBegins \/ PackEnds \/ SendPacket \/ CutOff \/ WriteSyn \/ SendSyn
          \/ SenderEnds \/ OthersSend \/ OthersEnd
Phone  == OnDims \/ OnData \/ OnSyn \/ OnOther \/ SetImage

Next == Reader \/ X11 \/ Sender \/ Phone

Spec == Init /\ [][Next]_vars

-----------------------------------------------------------------------------
(* Properties.                                                             *)

Flags == {"REQUEST_FB_DIMS", "SS_DATA", "SS_SYN", "other"}

\* Type correctness of both ends and of the wire.
TypeOK ==
  /\ packet_size \in PacketSizes /\ screen \in Screens
  /\ captures \in 0..MaxCaptures /\ slot \in 0..captures
  /\ capturing \in BOOLEAN /\ copying \in BOOLEAN /\ x11_buffer_new \in BOOLEAN
  /\ sharing \in BOOLEAN /\ others \in BOOLEAN /\ reader \in {"idle", "reply", "renew"}
  /\ sender \in {"off", "pack", "packing", "data", "syn"}
  /\ frame \in Nat \X Nat \X Nat /\ frame[2] <= frame[3] /\ frame[3] <= captures
  /\ sent \in 0..total_packets
  /\ cut \in BOOLEAN /\ met \in BOOLEAN /\ aligned \in BOOLEAN
  /\ \A i \in DOMAIN wire : wire[i].flag \in Flags
  /\ Len(wire) <= WireCap
  /\ phone \in {"reads", "crashed"} /\ started \in BOOLEAN
  /\ DOMAIN bitmap = 0..(bitmapLength - 1)
  /\ totalPackets \in Nat /\ genuine \in BOOLEAN /\ renewed \in BOOLEAN
  /\ posted \in 0..MaxPosted

\* When the phone handles the SS_SYN of a frame whose transfer was not cut off, and for
\* which no other thread used device->buffer, the bitmap holds that frame: every byte
\* at its place, of a capture that was whole when the packing began or is newer, and
\* nothing of the frames before or after it.  Only dimensions that came since its first
\* packet may have blanked it up to one of its packets, even wholly.
WholeFrameAtSyn ==
  [][OnSyn /\ Head(wire).whole /\ genuine
       => \E k \in 0..total_packets :
            /\ k = 0 \/ renewed
            /\ \A b \in 0..(fb_size - 1) :
                 bitmap[b] = IF b < data_per_packet * k THEN Blank ELSE <<Head(wire).of, b>>]_vars

\* Whatever number the phone reads out of a misaligned packet, however often a transfer
\* was cut off and whatever the threads make of one another's packets, its copies stay
\* inside packet and bitmap: only dimensions that the daemon never sent can make one
\* throw.
OnlyStrayDimsCrash == phone = "crashed" => ~genuine

\* SSmode.java:125 reports "Got Full Screen Grab" when it drew the bitmap.  A full grab
\* of the screen would not be put together from two frames.
FullScreenGrab ==
  [][SetImage => \A b, c \in DOMAIN bitmap :
       NoFrame \notin {bitmap[b][1], bitmap[c][1]} => bitmap[b][1] = bitmap[c][1]]_vars
=============================================================================
