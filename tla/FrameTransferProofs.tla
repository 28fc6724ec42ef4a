------------------------ MODULE FrameTransferProofs ------------------------
(* Proofs about FrameTransfer, for every screen, every packet size and     *)
(* every number the phone may take for a packet number.                    *)
EXTENDS FrameTransfer, TLAPS

\* ceil(t / d), as the code computes the number of packets.
LEMMA CeilBounds ==
  ASSUME NEW t \in Nat \ {0}, NEW d \in Nat \ {0}, NEW n \in Int, n = (t + d - 1) \div d
  PROVE  /\ n \in Nat \ {0}
         /\ d * (n - 1) < t
         /\ t <= d * n
  <1>1. d * n <= t + d - 1 /\ t + d - 1 < d * (n + 1)
    OBVIOUS
  <1>. QED
    BY <1>1

Agreed == packet_size \in PacketSizes /\ screen \in Screens

LEMMA Sizes ==
  ASSUME Agreed
  PROVE  /\ packet_size \in Nat /\ data_per_packet \in Nat \ {0}
         /\ fb_size \in Nat \ {0} /\ total_packets \in Nat \ {0}
         /\ data_per_packet * (total_packets - 1) < fb_size
         /\ fb_size <= data_per_packet * total_packets
  <1>1. packet_size \in Nat /\ data_per_packet \in Nat \ {0}
    BY SizesAssumption DEF Agreed, data_per_packet, SS_PACKET_HEADER
  <1>2. fb_size \in Nat \ {0}
    <2>1. screen[1] \in Nat \ {0} /\ screen[2] \in Nat \ {0}
      BY SizesAssumption DEF Agreed
    <2>2. screen[1] * screen[2] \in Nat \ {0}
      BY <2>1
    <2>. QED
      BY <2>2 DEF fb_size
  <1>3. total_packets \in Int
    BY <1>1, <1>2 DEF total_packets
  <1>. QED
    BY <1>1, <1>2, <1>3, CeilBounds DEF total_packets

\* The packets cover the frame: the last one carries at least one byte and no more
\* than fits, the others are full, each begins where the one before it ends, and
\* together they end with the frame.
THEOREM PacketsCoverFrame ==
  ASSUME Agreed
  PROVE  /\ leftover_bytes \in 1..data_per_packet
         /\ \A k \in 0..(total_packets - 2) :
              data_per_packet * k + Carried(k) = data_per_packet * (k + 1)
         /\ data_per_packet * (total_packets - 1) + Carried(total_packets - 1) = fb_size
  <1>1. leftover_bytes \in 1..data_per_packet
    <2>1. /\ data_per_packet * total_packets
               = data_per_packet * (total_packets - 1) + data_per_packet
          /\ data_per_packet * (total_packets - 1) \in Int
      BY Sizes
    <2>. QED
      BY <2>1, Sizes DEF leftover_bytes
  <1>2. ASSUME NEW k \in 0..(total_packets - 2)
        PROVE  data_per_packet * k + Carried(k) = data_per_packet * (k + 1)
    <2>1. Carried(k) = data_per_packet
      BY Sizes DEF Carried
    <2>. QED
      BY <2>1, Sizes
  <1>3. data_per_packet * (total_packets - 1) + Carried(total_packets - 1) = fb_size
    <2>1. data_per_packet * (total_packets - 1) \in Int
      BY Sizes
    <2>. QED
      BY <2>1, Sizes DEF Carried, leftover_bytes
  <1>. QED
    BY <1>1, <1>2, <1>3

Told == bitmapLength = fb_size /\ totalPackets = total_packets

\* Every copy fits, whatever the number in the header.
LEMMA CopyInBounds ==
  ASSUME Agreed, Told, NEW k \in Int, ~Refused(k)
  PROVE  CopyFits(k)
  <1>1. k \in 0..(total_packets - 1)
    BY Sizes DEF Told, Refused
  <1>2. bitmapStart(k) \in Int /\ packet_size = SS_PACKET_HEADER + data_per_packet
    BY <1>1, Sizes DEF bitmapStart, data_per_packet, SS_PACKET_HEADER
  <1>3. CASE k < total_packets - 1
    <2>1. bitmapStart(k) + data_per_packet = data_per_packet * (k + 1)
      BY <1>1, Sizes DEF bitmapStart
    <2>2. data_per_packet * (k + 1) <= data_per_packet * (total_packets - 1)
      BY <1>1, <1>3, Sizes
    <2>3. data_per_packet * (total_packets - 1) \in Int /\ data_per_packet * (k + 1) \in Int
      BY <1>1, Sizes
    <2>. QED
      BY <1>2, <1>3, <2>1, <2>2, <2>3, Sizes
         DEF CopyFits, CopyLength, Told, SS_PACKET_HEADER
  <1>4. CASE k = total_packets - 1
    <2>1. /\ bitmapStart(k) = data_per_packet * (total_packets - 1)
          /\ data_per_packet * total_packets = bitmapStart(k) + data_per_packet
      BY <1>4, Sizes DEF bitmapStart
    <2>. QED
      BY <1>2, <1>4, <2>1, Sizes DEF CopyFits, CopyLength, Told, SS_PACKET_HEADER
  <1>. QED
    BY <1>1, <1>3, <1>4, Sizes

-----------------------------------------------------------------------------
(* Only dimensions that the daemon never sent can crash the phone.         *)

Frames   == Nat \X Nat \X Nat
Payloads == UNION {[0..(n - 1) -> Frames \X Nat] : n \in Nat}

Packets == [flag : Flags, number : Int, data : Payloads, size : Nat, count : Nat,
            of : Frames, whole : BOOLEAN, stray : BOOLEAN]

\* Dimensions on the wire are those of the screen unless the packet is a stray one.
Honest(p) == p.flag = "REQUEST_FB_DIMS" /\ ~p.stray
               => p.size = fb_size /\ p.count = total_packets

\* Packets that come after the phone was told the dimensions.
Later(p) == p.stray \/ p.flag # "REQUEST_FB_DIMS"

WireOK == /\ wire \in Seq(Packets)
          /\ \A i \in 1..Len(wire) : Honest(wire[i])

PhoneOK ==
  /\ bitmapLength \in Nat /\ totalPackets \in Nat
  /\ genuine => Told \/ (bitmapLength = 0 /\ totalPackets = 0)

NoneEarlier == sender = "off" /\ ~others /\ ~started /\ aligned /\ ~met /\ posted = 0

DimsFirst ==
  \/ bitmapLength > 0
  \/ NoneEarlier /\ \A i \in 1..Len(wire) : ~Later(wire[i])

Inv == /\ Agreed /\ WireOK /\ PhoneOK /\ DimsFirst /\ OnlyStrayDimsCrash
       /\ frame \in Frames /\ captures \in Nat /\ slot \in Nat
       /\ sent \in Nat /\ posted \in Nat /\ met \in BOOLEAN /\ cut \in BOOLEAN

\* The steps of the daemon that put a packet on the wire, and the others.
Sends == SendReply \/ SendPacket \/ SendSyn \/ OthersSend
Works == \/ WriteReply \/ Renew \/ StartSending \/ StopSending
         \/ CaptureBegins \/ CaptureEnds \/ CaptureThreadEnds
         \/ PackBegins \/ PackEnds \/ CutOff \/ WriteSyn \/ SenderEnds \/ OthersEnd

LEMMA Kinds == Next <=> Sends \/ Works \/ Phone
  BY DEF Next, Reader, X11, Sender, Sends, Works

LEMMA StrayTypes ==
  ASSUME Agreed, NEW q \in StrayPackets
  PROVE  q \in Packets /\ Honest(q) /\ q.stray /\ ~q.whole
  <1>1. data_per_packet \in Nat
    BY Sizes
  <1>2. NoFrame \in Frames /\ Stale \in Frames \X Nat
    BY DEF NoFrame, Stale, Frames
  <1>3. [j \in 0..(data_per_packet - 1) |-> Stale] \in Payloads
    BY <1>1, <1>2 DEF Payloads
  <1>4. PICK f \in Flags, n \in Int, d \in Nat \X Nat : q = Stray(f, n, d)
    <2>1. CASE \E d \in StrayDims : q = Stray("REQUEST_FB_DIMS", 0, d)
      BY <2>1, SizesAssumption DEF Flags
    <2>2. CASE \E n \in StrayNumbers : q = Stray("SS_DATA", n, <<0, 0>>)
      BY <2>2, SizesAssumption DEF Flags
    <2>3. CASE \E f \in {"SS_SYN", "other"} : q = Stray(f, 0, <<0, 0>>)
      BY <2>3 DEF Flags
    <2>. QED
      BY <2>1, <2>2, <2>3 DEF StrayPackets
  <1>. QED
    BY <1>2, <1>3, <1>4 DEF Stray, Packets, Honest

LEMMA PacketTypes ==
  ASSUME Inv
  PROVE  /\ Dims \in Packets /\ Honest(Dims) /\ ~Later(Dims)
         /\ Data(sent) \in Packets /\ Honest(Data(sent))
         /\ Syn \in Packets /\ Honest(Syn)
  <1>0. NoFrame \in Frames /\ Stale \in Frames \X Nat
    BY DEF NoFrame, Stale, Frames
  <1>1. Empty \in Payloads
    <2>1. Empty \in [0..(0 - 1) -> Frames \X Nat]
      BY DEF Empty
    <2>. QED
      BY <2>1 DEF Payloads
  <1>2. Payload(frame, sent) \in [0..(data_per_packet - 1) -> Frames \X Nat]
    <2>1. \A j \in 0..(data_per_packet - 1) : data_per_packet * sent + j \in Nat
      BY Sizes DEF Inv
    <2>2. frame \in Frames
      BY DEF Inv
    <2>. QED
      BY <1>0, <2>1, <2>2 DEF Payload
  <1>3. Payload(frame, sent) \in Payloads
    BY <1>2, Sizes DEF Payloads, Inv
  <1>4. /\ fb_size \in Nat /\ total_packets \in Nat /\ sent \in Int /\ frame \in Frames
        /\ (~met) \in BOOLEAN /\ (~cut /\ ~met) \in BOOLEAN
    BY Sizes DEF Inv
  <1>5. Dims \in Packets /\ Honest(Dims) /\ ~Later(Dims)
    BY <1>0, <1>1, <1>4 DEF Dims, Packets, Flags, Honest, Later
  <1>6. Data(sent) \in Packets /\ Honest(Data(sent))
    BY <1>3, <1>4 DEF Data, Packets, Flags, Honest
  <1>7. Syn \in Packets /\ Honest(Syn)
    BY <1>1, <1>4 DEF Syn, Packets, Flags, Honest
  <1>. QED
    BY <1>5, <1>6, <1>7

LEMMA Fixed ==
  ASSUME UNCHANGED agreed
  PROVE  /\ fb_size' = fb_size /\ total_packets' = total_packets
         /\ data_per_packet' = data_per_packet
         /\ \A p : Honest(p)' <=> Honest(p)
         /\ Agreed' <=> Agreed
         /\ Told' <=> (bitmapLength' = fb_size /\ totalPackets' = total_packets)
  BY DEF agreed, fb_size, total_packets, data_per_packet, Honest, Agreed, Told

\* What a packet adds to the wire.
LEMMA Sending ==
  ASSUME Inv, NEW p \in Packets, Honest(p), Arrives(p), UNCHANGED agreed
  PROVE  /\ WireOK'
         /\ bitmapLength > 0 \/ ~Later(p)
              => \/ bitmapLength > 0
                 \/ \A i \in 1..Len(wire') : ~Later(wire'[i])
  <1>1. PICK q \in Packets : /\ wire' = Append(wire, q) /\ Honest(q)
                             /\ aligned /\ ~met => q = p
    BY PacketTypes, StrayTypes DEF Arrives, Inv
  <1>2. WireOK'
    BY <1>1, Fixed DEF Inv, WireOK
  <1>3. ASSUME ~Later(p), ~(bitmapLength > 0)
        PROVE  \A i \in 1..Len(wire') : ~Later(wire'[i])
    <2>1. q = p /\ \A i \in 1..Len(wire) : ~Later(wire[i])
      BY <1>1, <1>3 DEF Inv, DimsFirst, NoneEarlier
    <2>. QED
      BY <1>1, <1>3, <2>1 DEF Inv, WireOK
  <1>. QED
    BY <1>2, <1>3

\* What the phone's next packet is, and what is left.
LEMMA Receiving ==
  ASSUME Inv, NEW f, Receives(f), UNCHANGED agreed
  PROVE  /\ WireOK'
         /\ Head(wire) \in Packets /\ Honest(Head(wire)) /\ Head(wire).flag = f
         /\ Later(Head(wire)) => bitmapLength > 0
         /\ bitmapLength > 0 \/ \A i \in 1..Len(wire') : ~Later(wire'[i])
  <1>1. /\ wire \in Seq(Packets) /\ Len(wire) > 0 /\ wire' = Tail(wire)
        /\ Head(wire) = wire[1]
    BY DEF Inv, WireOK, Receives
  <1>2. /\ wire' \in Seq(Packets)
        /\ \A i \in 1..Len(wire') : i + 1 \in 1..Len(wire) /\ wire'[i] = wire[i + 1]
    BY <1>1
  <1>3. WireOK'
    BY <1>2, Fixed DEF Inv, WireOK
  <1>. QED
    BY <1>1, <1>2, <1>3 DEF Inv, WireOK, Receives, DimsFirst

\* What the threads of the daemon do before any dimensions were asked for.
LEMMA NothingBefore ==
  ASSUME Inv, ~(bitmapLength > 0), Sends \/ Works
  PROVE  NoneEarlier'
  <1>1. NoneEarlier
    BY DEF Inv, DimsFirst
  <1>2. started' = started /\ posted' = posted
    BY DEF Sends, Works, SendReply, SendPacket, SendSyn, OthersSend, WriteReply, Renew,
           StartSending, StopSending, CaptureBegins, CaptureEnds, CaptureThreadEnds,
           PackBegins, PackEnds, CutOff, WriteSyn, SenderEnds, OthersEnd, mobile
  <1>3. sender = "off" /\ ~others /\ ~started /\ aligned /\ ~met
    BY <1>1 DEF NoneEarlier
  <1>4. /\ ~OthersSend /\ ~OthersEnd /\ ~SendPacket /\ ~SendSyn /\ ~StartSending
        /\ ~PackBegins /\ ~PackEnds /\ ~CutOff /\ ~WriteSyn /\ ~SenderEnds
    BY <1>3 DEF OthersSend, OthersEnd, SendPacket, SendSyn, StartSending, PackBegins, PackEnds,
                CutOff, WriteSyn, SenderEnds
  <1>5. sender' = "off" /\ ~others' /\ aligned' /\ ~met'
    <2>1. CASE WriteReply
      BY <1>3, <2>1 DEF WriteReply
    <2>2. CASE SendReply \/ Renew \/ StopSending \/ CaptureBegins \/ CaptureEnds \/ CaptureThreadEnds
      <3>1. others' = others /\ packing' = packing
        BY <2>2 DEF SendReply, Renew, StopSending, CaptureBegins, CaptureEnds, CaptureThreadEnds,
                    control
      <3>. QED
        BY <1>3, <3>1 DEF packing
    <2>. QED
      BY <1>4, <2>1, <2>2 DEF Sends, Works
  <1>. QED
    BY <1>1, <1>2, <1>5 DEF NoneEarlier

\* Counters of the daemon keep their types whatever thread steps.
LEMMA DaemonTypes ==
  ASSUME Inv, Sends \/ Works
  PROVE  /\ frame' \in Frames /\ captures' \in Nat /\ slot' \in Nat /\ sent' \in Nat
         /\ met' \in BOOLEAN /\ cut' \in BOOLEAN
  <1>1. frame' \in Frames
    <2>1. CASE PackBegins
      BY <2>1 DEF PackBegins, Inv, Frames
    <2>2. CASE PackEnds
      BY <2>2 DEF PackEnds, Inv, Frames
    <2>3. CASE frame' = frame
      BY <2>3 DEF Inv
    <2>. QED
      BY <2>1, <2>2, <2>3
      DEF Sends, Works, SendReply, SendPacket, SendSyn, OthersSend, WriteReply, Renew,
          StartSending, StopSending, CaptureBegins, CaptureEnds, CaptureThreadEnds,
          CutOff, WriteSyn, SenderEnds, OthersEnd, packing
  <1>2. captures' \in Nat /\ slot' \in Nat /\ sent' \in Nat
    <2>1. captures' = captures \/ captures' = captures + 1
      BY DEF Sends, Works, SendReply, SendPacket, SendSyn, OthersSend, WriteReply, Renew,
             StartSending, StopSending, CaptureBegins, CaptureEnds, CaptureThreadEnds,
             PackBegins, PackEnds, CutOff, WriteSyn, SenderEnds, OthersEnd, capture
    <2>2. slot' = slot \/ slot' = 0 \/ slot' = captures
      BY DEF Sends, Works, SendReply, SendPacket, SendSyn, OthersSend, WriteReply, Renew,
             StartSending, StopSending, CaptureBegins, CaptureEnds, CaptureThreadEnds,
             PackBegins, PackEnds, CutOff, WriteSyn, SenderEnds, OthersEnd, capture
    <2>3. sent' = sent \/ sent' = sent + 1 \/ sent' = 0
      BY DEF Sends, Works, SendReply, SendPacket, SendSyn, OthersSend, WriteReply, Renew,
             StartSending, StopSending, CaptureBegins, CaptureEnds, CaptureThreadEnds,
             PackBegins, PackEnds, CutOff, WriteSyn, SenderEnds, OthersEnd, packing
    <2>. QED
      BY <2>1, <2>2, <2>3 DEF Inv
  <1>3. met' \in BOOLEAN /\ cut' \in BOOLEAN
    <2>1. met' = met \/ met' \in BOOLEAN
      <3>1. CASE WriteReply
        BY <3>1, Zenon DEF WriteReply
      <3>2. CASE StartSending
        BY <3>2, Zenon DEF StartSending
      <3>3. CASE PackBegins
        BY <3>3, Zenon DEF PackBegins
      <3>4. CASE WriteSyn
        BY <3>4, Zenon DEF WriteSyn
      <3>. QED
        BY <3>1, <3>2, <3>3, <3>4
        DEF Sends, Works, SendReply, SendPacket, SendSyn, OthersSend, Renew, StopSending,
            CaptureBegins, CaptureEnds, CaptureThreadEnds, PackEnds, CutOff, SenderEnds,
            OthersEnd, packing
    <2>2. cut' = cut \/ cut' = TRUE \/ cut' = FALSE
      BY DEF Sends, Works, SendReply, SendPacket, SendSyn, OthersSend, WriteReply, Renew,
             StartSending, StopSending, CaptureBegins, CaptureEnds, CaptureThreadEnds,
             PackBegins, PackEnds, CutOff, WriteSyn, SenderEnds, OthersEnd, packing
    <2>. QED
      BY <2>1, <2>2, Zenon DEF Inv
  <1>. QED
    BY <1>1, <1>2, <1>3

\* The daemon's steps leave the phone, the screen and the packet size alone.
LEMMA DaemonFrame ==
  ASSUME Sends \/ Works
  PROVE  UNCHANGED agreed /\ UNCHANGED mobile /\ (Works => wire' = wire)
  BY DEF Sends, Works, SendReply, SendPacket, SendSyn, OthersSend, WriteReply, Renew,
         StartSending, StopSending, CaptureBegins, CaptureEnds, CaptureThreadEnds,
         PackBegins, PackEnds, CutOff, WriteSyn, SenderEnds, OthersEnd

\* A packet that a thread of the daemon sends.
LEMMA Sent ==
  ASSUME Inv, Sends
  PROVE  /\ WireOK'
         /\ bitmapLength > 0 \/ \A i \in 1..Len(wire') : ~Later(wire'[i])
  <1>0. UNCHANGED agreed
    BY DaemonFrame
  <1>1. CASE SendReply
    BY <1>0, <1>1, Sending, PacketTypes DEF SendReply
  <1>2. CASE SendPacket
    <2>1. bitmapLength > 0
      BY <1>2 DEF SendPacket, Inv, DimsFirst, NoneEarlier
    <2>. QED
      BY <1>0, <1>2, <2>1, Sending, PacketTypes DEF SendPacket
  <1>3. CASE SendSyn
    <2>1. bitmapLength > 0
      BY <1>3 DEF SendSyn, Inv, DimsFirst, NoneEarlier
    <2>. QED
      BY <1>0, <1>3, <2>1, Sending, PacketTypes DEF SendSyn
  <1>4. CASE OthersSend
    <2>1. bitmapLength > 0
      BY <1>4 DEF OthersSend, Inv, DimsFirst, NoneEarlier
    <2>2. PICK q \in StrayPackets : wire' = Append(wire, q)
      BY <1>4 DEF OthersSend
    <2>3. q \in Packets /\ Honest(q)
      BY StrayTypes DEF Inv
    <2>. QED
      BY <1>0, <2>1, <2>2, <2>3, Fixed DEF Inv, WireOK
  <1>. QED
    BY <1>1, <1>2, <1>3, <1>4 DEF Sends

LEMMA InvStep == Inv /\ [Next]_vars => Inv'
  <1> SUFFICES ASSUME Inv, [Next]_vars PROVE Inv'
    OBVIOUS
  <1>1. CASE Sends \/ Works
    <2>1. UNCHANGED agreed /\ UNCHANGED mobile /\ (Works => wire' = wire)
      BY <1>1, DaemonFrame
    <2>2. WireOK' /\ (bitmapLength > 0 \/ \A i \in 1..Len(wire') : ~Later(wire'[i]))
      <3>1. CASE Works
        BY <2>1, <3>1, Fixed DEF Inv, WireOK, DimsFirst
      <3>. QED
        BY <1>1, <3>1, Sent
    <2>3. bitmapLength > 0 \/ NoneEarlier'
      BY <1>1, NothingBefore
    <2>4. DimsFirst'
      BY <2>1, <2>2, <2>3 DEF DimsFirst, mobile
    <2>5. Agreed' /\ PhoneOK' /\ OnlyStrayDimsCrash' /\ posted' \in Nat
      BY <2>1, Fixed DEF Inv, PhoneOK, OnlyStrayDimsCrash, mobile, Told
    <2>. QED
      BY <1>1, <2>2, <2>4, <2>5, DaemonTypes DEF Inv
  <1>2. CASE OnDims
    <2>1. /\ UNCHANGED agreed /\ Receives("REQUEST_FB_DIMS")
          /\ UNCHANGED <<capture, control, packing, posted>>
      BY <1>2 DEF OnDims
    <2> DEFINE p == Head(wire)
    <2>2. /\ p \in Packets /\ Honest(p) /\ p.flag = "REQUEST_FB_DIMS" /\ WireOK'
          /\ Later(p) => bitmapLength > 0
          /\ bitmapLength > 0 \/ \A i \in 1..Len(wire') : ~Later(wire'[i])
      BY <2>1, Receiving
    <2>3. genuine' = ~p.stray
      BY <1>2 DEF OnDims
    <2>4. CASE /\ p.size = 0 /\ phone' = "crashed"
               /\ UNCHANGED <<started, bitmap, bitmapLength, totalPackets, renewed>>
      <3>1. p.stray
        BY <2>2, <2>4, Sizes DEF Honest, Inv
      <3>2. bitmapLength > 0
        BY <2>2, <3>1 DEF Later
      <3>. QED
        BY <2>1, <2>2, <2>3, <2>4, <3>1, <3>2, Fixed
           DEF Inv, PhoneOK, DimsFirst, OnlyStrayDimsCrash, capture, packing
    <2>5. CASE /\ p.size > 0 /\ bitmapLength' = p.size
               /\ totalPackets' = p.count /\ UNCHANGED phone
      <3>1. p.size \in Nat /\ p.count \in Nat /\ p.stray \in BOOLEAN
        BY <2>2 DEF Packets
      <3>2. phone # "crashed"
        BY <2>1 DEF Receives
      <3>3. genuine' => Told'
        BY <2>1, <2>2, <2>3, <2>5, <3>1, Fixed DEF Honest
      <3>. QED
        BY <2>1, <2>2, <2>5, <3>1, <3>2, <3>3, Fixed
           DEF Inv, PhoneOK, DimsFirst, OnlyStrayDimsCrash, capture, packing
    <2>. QED
      BY <1>2, <2>4, <2>5 DEF OnDims
  <1>3. CASE OnData
    <2>1. /\ UNCHANGED agreed /\ Receives("SS_DATA")
          /\ UNCHANGED <<capture, control, packing, started, bitmapLength, totalPackets,
                         genuine, posted>>
      BY <1>3 DEF OnData
    <2> DEFINE k == Head(wire).number
    <2>2. k \in Int /\ WireOK' /\ bitmapLength > 0
      BY <2>1, Receiving DEF Packets, Later
    <2>3. ASSUME phone' = "crashed" PROVE ~genuine
      <3>1. ~Refused(k) /\ ~CopyFits(k)
        BY <1>3, <2>3 DEF OnData, Receives
      <3>2. ~Told
        BY <2>2, <3>1, CopyInBounds DEF Inv
      <3>. QED
        BY <2>2, <3>2 DEF Inv, PhoneOK
    <2>. QED
      BY <2>1, <2>2, <2>3, Fixed
      DEF Inv, PhoneOK, DimsFirst, OnlyStrayDimsCrash, Told, capture, packing
  <1>4. CASE OnSyn
    <2>1. UNCHANGED agreed /\ Receives("SS_SYN")
      BY <1>4 DEF OnSyn
    <2>2. bitmapLength > 0 /\ WireOK'
      BY <2>1, Receiving DEF Later
    <2>. QED
      BY <1>4, <2>1, <2>2, Fixed
      DEF OnSyn, Inv, PhoneOK, DimsFirst, OnlyStrayDimsCrash, Told, capture, packing
  <1>5. CASE OnOther
    <2>1. UNCHANGED agreed /\ Receives("other")
      BY <1>5 DEF OnOther
    <2>2. bitmapLength > 0 /\ WireOK'
      BY <2>1, Receiving DEF Later
    <2>. QED
      BY <1>5, <2>1, <2>2, Fixed
      DEF OnOther, Inv, PhoneOK, DimsFirst, OnlyStrayDimsCrash, Told, capture, packing, mobile
  <1>6. CASE SetImage
    <2>1. bitmapLength > 0 /\ phone' = phone
      BY <1>6 DEF SetImage, Inv, PhoneOK, DimsFirst, NoneEarlier
    <2>. QED
      BY <1>6, <2>1, Fixed
      DEF SetImage, Inv, WireOK, PhoneOK, DimsFirst, OnlyStrayDimsCrash, Told, capture, packing
  <1>7. CASE UNCHANGED vars
    BY <1>7, Fixed DEF vars, Inv, WireOK, PhoneOK, DimsFirst, NoneEarlier, OnlyStrayDimsCrash,
                       Told, capture, control, packing, mobile
  <1>. QED
    BY <1>1, <1>2, <1>3, <1>4, <1>5, <1>6, <1>7, Kinds DEF Phone

LEMMA InitInv == Init => Inv
  <1> SUFFICES ASSUME Init PROVE Inv
    OBVIOUS
  <1>1. cut \in BOOLEAN /\ met \in BOOLEAN
    BY Zenon DEF Init
  <1>2. WireOK
    BY DEF Init, WireOK
  <1>. QED
    BY <1>1, <1>2 DEF Init, Inv, Agreed, PhoneOK, DimsFirst, NoneEarlier, OnlyStrayDimsCrash,
                      NoFrame, Frames

\* However often a transfer is cut off, whatever the phone takes for a packet number
\* and however the daemon's threads mix up their packets, no copy leaves its bounds and
\* no frame is drawn without a bitmap, as long as the dimensions the phone holds are the
\* daemon's.
THEOREM CrashesOnlyOnStrayDims == Spec => []OnlyStrayDimsCrash
  <1>1. Inv => OnlyStrayDimsCrash
    BY DEF Inv
  <1>. QED
    BY <1>1, InitInv, InvStep, PTL DEF Spec

-----------------------------------------------------------------------------
(* Types.                                                                  *)

\* A SYN that closes an uncut transfer comes after all its packets, and a send thread
\* that has no transfer on its way begins at the first.
Counted ==
  /\ sender \notin {"data", "syn"} => sent = 0
  /\ sender = "syn" /\ ~cut => sent = total_packets

TInv == Inv /\ TypeOK /\ Counted

LEMMA WireFlags ==
  ASSUME NEW w \in Seq(Packets)
  PROVE  \A i \in DOMAIN w : w[i].flag \in Flags
  <1>1. \A q \in Packets : q.flag \in Flags
    BY DEF Packets
  <1>2. \A i \in DOMAIN w : w[i] \in Packets
    OBVIOUS
  <1>. QED
    BY <1>1, <1>2

\* What the phone does: it takes packets, and leaves the daemon alone.
LEMMA PhoneKeepsTypes ==
  ASSUME TInv, Inv', UNCHANGED <<agreed, capture, control, packing>>,
         wire' = wire \/ (wire # <<>> /\ wire' = Tail(wire)),
         phone' \in {"reads", "crashed"}, started' \in BOOLEAN, genuine' \in BOOLEAN,
         renewed' \in BOOLEAN,
         DOMAIN bitmap' = 0..(bitmapLength' - 1), posted' \in 0..MaxPosted
  PROVE  TInv'
  <1>1. wire \in Seq(Packets) /\ Len(wire) <= WireCap
    BY DEF TInv, Inv, WireOK, TypeOK
  <1>2. Len(wire') <= WireCap
    <2>1. CASE wire' = Tail(wire) /\ wire # <<>>
      <3>1. Len(wire) \in Nat /\ Len(Tail(wire)) = Len(wire) - 1 /\ WireCap \in Nat
        BY <1>1, <2>1, SizesAssumption
      <3>2. Len(wire') = Len(wire) - 1
        BY <2>1, <3>1, Zenon
      <3>. QED
        BY <1>1, <3>1, <3>2
    <2>. QED
      BY <1>1, <2>1
  <1>3. \A i \in DOMAIN wire' : wire'[i].flag \in Flags
    BY WireFlags DEF Inv, WireOK
  <1>4. totalPackets' \in Nat
    BY DEF Inv, PhoneOK
  <1>5. TypeOK'
    BY <1>2, <1>3, <1>4, Fixed DEF TInv, TypeOK, agreed, capture, control, packing
  <1>6. Counted'
    BY Fixed DEF TInv, Counted, packing
  <1>. QED
    BY <1>5, <1>6 DEF TInv

\* What the sender counts.
LEMMA SenderCounts ==
  ASSUME TInv, Sends \/ Works
  PROVE  /\ sender' \in {"off", "pack", "packing", "data", "syn"}
         /\ sent' \in 0..total_packets' /\ Counted'
  <1>0. /\ total_packets \in Nat \ {0} /\ total_packets' = total_packets
        /\ sent \in 0..total_packets
        /\ sender \in {"off", "pack", "packing", "data", "syn"}
    BY DaemonFrame, Sizes, Fixed DEF TInv, Inv, TypeOK
  <1>1. CASE UNCHANGED <<sender, sent, cut>>
    BY <1>0, <1>1 DEF TInv, Counted
  <1>2. CASE StartSending
    BY <1>0, <1>2 DEF StartSending, TInv, Counted
  <1>3. CASE PackBegins \/ PackEnds \/ SenderEnds
    BY <1>0, <1>3 DEF PackBegins, PackEnds, SenderEnds, TInv, Counted
  <1>4. CASE SendPacket
    BY <1>0, <1>4 DEF SendPacket, TInv, Counted
  <1>5. CASE CutOff
    BY <1>0, <1>5 DEF CutOff, TInv, Counted
  <1>6. CASE WriteSyn
    BY <1>0, <1>6 DEF WriteSyn, TInv, Counted
  <1>7. CASE SendSyn
    BY <1>0, <1>7 DEF SendSyn, TInv, Counted
  <1>. QED
    BY <1>1, <1>2, <1>3, <1>4, <1>5, <1>6, <1>7
    DEF Sends, Works, SendReply, OthersSend, WriteReply, Renew, StopSending, CaptureBegins,
        CaptureEnds, CaptureThreadEnds, OthersEnd, packing

\* Which captures there are, and which of them a frame may hold.
LEMMA CapturesCount ==
  ASSUME TInv, Sends \/ Works
  PROVE  /\ captures' \in 0..MaxCaptures /\ slot' \in 0..captures'
         /\ frame' \in Nat \X Nat \X Nat /\ frame'[2] <= frame'[3] /\ frame'[3] <= captures'
  <1>0. /\ captures \in 0..MaxCaptures /\ slot \in 0..captures /\ MaxCaptures \in Nat
        /\ frame \in Nat \X Nat \X Nat /\ frame[2] <= frame[3] /\ frame[3] <= captures
    BY SizesAssumption DEF TInv, TypeOK
  <1>1. CASE CaptureBegins
    BY <1>0, <1>1 DEF CaptureBegins, packing
  <1>2. CASE CaptureEnds
    BY <1>0, <1>2 DEF CaptureEnds, packing
  <1>3. CASE Renew
    BY <1>0, <1>3 DEF Renew, packing
  <1>4. CASE PackBegins
    BY <1>0, <1>4 DEF PackBegins
  <1>5. CASE PackEnds
    BY <1>0, <1>5 DEF PackEnds, capture
  <1>6. CASE UNCHANGED <<captures, slot, frame>>
    BY <1>0, <1>6
  <1>. QED
    BY <1>1, <1>2, <1>3, <1>4, <1>5, <1>6
    DEF Sends, Works, SendReply, SendPacket, SendSyn, OthersSend, WriteReply, StartSending,
        StopSending, CaptureThreadEnds, CutOff, WriteSyn, SenderEnds, OthersEnd, capture,
        packing

\* The flags of the daemon's threads.
LEMMA FlagsKept ==
  ASSUME TInv, Sends \/ Works
  PROVE  /\ capturing' \in BOOLEAN /\ copying' \in BOOLEAN /\ x11_buffer_new' \in BOOLEAN
         /\ sharing' \in BOOLEAN /\ others' \in BOOLEAN /\ aligned' \in BOOLEAN
         /\ reader' \in {"idle", "reply", "renew"}
  <1>0. /\ capturing \in BOOLEAN /\ copying \in BOOLEAN /\ x11_buffer_new \in BOOLEAN
        /\ sharing \in BOOLEAN /\ others \in BOOLEAN /\ aligned \in BOOLEAN
        /\ reader \in {"idle", "reply", "renew"}
    BY DEF TInv, TypeOK
  <1>1. CASE SendReply \/ SendPacket \/ SendSyn \/ CutOff \/ OthersSend \/ OthersEnd
    BY <1>0, <1>1, Zenon DEF SendReply, SendPacket, SendSyn, CutOff, OthersSend, OthersEnd,
                             capture, control, packing
  <1>2. CASE WriteReply \/ Renew \/ StopSending
    BY <1>0, <1>2, Zenon DEF WriteReply, Renew, StopSending, capture, control, packing
  <1>3. CASE StartSending
    BY <1>0, <1>3, Zenon DEF StartSending
  <1>4. CASE CaptureBegins \/ CaptureEnds \/ CaptureThreadEnds
    BY <1>0, <1>4, Zenon DEF CaptureBegins, CaptureEnds, CaptureThreadEnds, control, packing
  <1>5. CASE PackBegins \/ PackEnds \/ WriteSyn \/ SenderEnds
    BY <1>0, <1>5, Zenon DEF PackBegins, PackEnds, WriteSyn, SenderEnds, capture, control
  <1>. QED
    BY <1>1, <1>2, <1>3, <1>4, <1>5 DEF Sends, Works

LEMMA DaemonKeepsTypes ==
  ASSUME TInv, Inv', Sends \/ Works
  PROVE  TInv'
  <1>0. UNCHANGED agreed /\ UNCHANGED mobile
    BY DaemonFrame
  <1>1. /\ wire' \in Seq(Packets) /\ Len(wire') <= WireCap
        /\ \A i \in DOMAIN wire' : wire'[i].flag \in Flags
    <2>1. wire' \in Seq(Packets) /\ wire \in Seq(Packets) /\ Len(wire) <= WireCap /\ WireCap \in Nat
      BY SizesAssumption DEF TInv, Inv, WireOK, TypeOK
    <2>2. wire' = wire \/ (Len(wire) < WireCap /\ \E q : wire' = Append(wire, q))
      <3>1. CASE Works
        BY <3>1, DaemonFrame
      <3>2. CASE Sends
        BY <3>2 DEF Sends, SendReply, SendPacket, SendSyn, OthersSend, Arrives
      <3>. QED
        BY <3>1, <3>2
    <2>3. Len(wire') <= WireCap
      BY <2>1, <2>2
    <2>. QED
      BY <2>1, <2>3, WireFlags
  <1>2. met' \in BOOLEAN /\ cut' \in BOOLEAN
    BY DEF Inv
  <1>3. TypeOK'
    BY <1>0, <1>1, <1>2, SenderCounts, CapturesCount, FlagsKept DEF TInv, TypeOK, agreed, mobile
  <1>. QED
    BY <1>3, SenderCounts DEF TInv

LEMMA TInvStep == TInv /\ [Next]_vars => TInv'
  <1> SUFFICES ASSUME TInv, [Next]_vars PROVE TInv'
    OBVIOUS
  <1>0. Inv'
    BY InvStep DEF TInv
  <1>1. CASE Sends \/ Works
    BY <1>0, <1>1, DaemonKeepsTypes
  <1>2. CASE OnDims
    <2>1. Head(wire) \in Packets
      BY <1>2, Receiving DEF OnDims, TInv
    <2>2. /\ genuine' \in BOOLEAN /\ started' \in BOOLEAN /\ phone' \in {"reads", "crashed"}
          /\ renewed' \in BOOLEAN /\ DOMAIN bitmap' = 0..(bitmapLength' - 1)
      BY <1>2, <2>1 DEF OnDims, Packets, TInv, TypeOK
    <2>. QED
      BY <1>0, <1>2, <2>2, PhoneKeepsTypes DEF OnDims, Receives, TInv, TypeOK
  <1>3. CASE OnData
    <2>1. renewed' \in BOOLEAN
      BY <1>3, Zenon DEF OnData
    <2>. QED
      BY <1>0, <1>3, <2>1, PhoneKeepsTypes DEF OnData, Receives, TInv, TypeOK
  <1>4. CASE OnSyn
    BY <1>0, <1>4, SizesAssumption, PhoneKeepsTypes DEF OnSyn, Receives, TInv, TypeOK
  <1>5. CASE OnOther
    BY <1>0, <1>5, PhoneKeepsTypes DEF OnOther, Receives, TInv, TypeOK, mobile
  <1>6. CASE SetImage
    BY <1>0, <1>6, SizesAssumption, PhoneKeepsTypes DEF SetImage, TInv, TypeOK
  <1>7. CASE UNCHANGED vars
    BY <1>0, <1>7, PhoneKeepsTypes DEF vars, TInv, TypeOK, mobile
  <1>. QED
    BY <1>1, <1>2, <1>3, <1>4, <1>5, <1>6, <1>7, Kinds DEF Phone

LEMMA TInitially == Init => TInv
  <1> SUFFICES ASSUME Init PROVE TInv
    OBVIOUS
  <1>1. Inv
    BY InitInv
  <1>2. total_packets \in Nat
    BY <1>1, Sizes DEF Inv
  <1>3. /\ capturing \in BOOLEAN /\ copying \in BOOLEAN /\ x11_buffer_new \in BOOLEAN
        /\ sharing \in BOOLEAN /\ others \in BOOLEAN /\ cut \in BOOLEAN /\ met \in BOOLEAN
        /\ aligned \in BOOLEAN /\ started \in BOOLEAN /\ genuine \in BOOLEAN
        /\ renewed \in BOOLEAN
    BY Zenon DEF Init
  <1>4. /\ packet_size \in PacketSizes /\ screen \in Screens
        /\ sender = "off" /\ reader = "idle" /\ frame = <<0, 0, 0>> /\ sent = 0 /\ wire = <<>>
        /\ captures = 0 /\ slot = 0 /\ phone = "reads"
        /\ DOMAIN bitmap = {} /\ bitmapLength = 0 /\ totalPackets = 0 /\ posted = 0
    BY DEF Init, Empty, NoFrame
  <1>5. TypeOK
    BY <1>2, <1>3, <1>4, SizesAssumption DEF TypeOK
  <1>. QED
    BY <1>1, <1>4, <1>5 DEF TInv, Counted

\* TypeOK: both ends and the wire keep their types: the sender stops at the count it
\* computed (Main.c: sendBufferedScreenCap), and screenBitmapBytes has the length the
\* phone uses for it.
THEOREM TypeCorrect == Spec => []TypeOK
  <1>1. TInv => TypeOK
    BY DEF TInv
  <1>. QED
    BY <1>1, TInitially, TInvStep, PTL DEF Spec

-----------------------------------------------------------------------------
(* Whole frames.  A packet of a frame that goes on is followed by the next *)
(* one: what stands before it on the wire, or at the front what the bitmap *)
(* holds, is the frame up to that packet, or dimensions came between.      *)

\* The bitmap is blank up to packet s and holds frame f from there up to packet n.
Upto(f, n, s) ==
  \A b \in 0..(fb_size - 1) :
    /\ b < data_per_packet * s => bitmap[b] = Blank
    /\ data_per_packet * s <= b /\ b < data_per_packet * n => bitmap[b] = <<f, b>>

\* The bitmap holds frame f up to its packet n, but for what new dimensions blanked.
Held(f, n) == \E s \in 0..n : (s = 0 \/ renewed) /\ Upto(f, n, s)

\* p is packet k of frame f; p closes frame f.
Part(p, f, k) ==
  /\ p.flag = "SS_DATA" /\ p.whole /\ ~p.stray
  /\ p.of = f /\ p.number = k /\ p.data = Payload(f, k)
Closing(p, f) == p.flag = "SS_SYN" /\ p.whole /\ p.of = f
Renews(p)     == p.flag = "REQUEST_FB_DIMS" /\ ~p.stray

\* Packet k of frame f may stand at position i of the wire.
Ready(f, k, i) ==
  \/ k = 0
  \/ i = 1 /\ (genuine => Held(f, k))
  \/ i > 1 /\ Part(wire[i - 1], f, k - 1)
  \/ i > 1 /\ Renews(wire[i - 1])

MayFollow(p, i) ==
  \A f \in Frames : /\ \A k \in Nat : Part(p, f, k) => k < total_packets /\ Ready(f, k, i)
                    /\ Closing(p, f) => Ready(f, total_packets, i)

Chain == \A i \in 1..Len(wire) : MayFollow(wire[i], i)

\* The send thread goes on where it stopped, as long as no other thread meets it.
Onward == sender \in {"data", "syn"} /\ ~cut /\ ~met /\ aligned
            => Ready(frame, sent, Len(wire) + 1)
Met    == others /\ sender \in {"packing", "data", "syn"} => met

WInv == TInv /\ Chain /\ Onward /\ Met

LEMMA SizesStay ==
  ASSUME UNCHANGED agreed
  PROVE  /\ fb_size' = fb_size /\ total_packets' = total_packets
         /\ data_per_packet' = data_per_packet
         /\ \A f, k : Payload(f, k)' = Payload(f, k)
         /\ \A p, f, k : Part(p, f, k)' <=> Part(p, f, k)
  <1>1. /\ fb_size' = fb_size /\ total_packets' = total_packets
        /\ data_per_packet' = data_per_packet /\ leftover_bytes' = leftover_bytes
    BY DEF agreed, fb_size, total_packets, data_per_packet, leftover_bytes
  <1>2. \A k : Carried(k)' = Carried(k)
    BY <1>1 DEF Carried
  <1>3. \A f, k : Payload(f, k)' = Payload(f, k)
    BY <1>1, <1>2 DEF Payload
  <1>. QED
    BY <1>1, <1>3 DEF Part

\* What the bitmap holds stays.
LEMMA HeldStays ==
  ASSUME UNCHANGED <<agreed, bitmap, renewed>>
  PROVE  \A f, n : Held(f, n)' <=> Held(f, n)
  <1>1. \A f, n, s : Upto(f, n, s)' <=> Upto(f, n, s)
    BY SizesStay DEF Upto
  <1>. QED
    BY <1>1 DEF Held

\* Steps that leave the wire and the bitmap alone.
LEMMA ReadyStays ==
  ASSUME UNCHANGED <<agreed, wire, bitmap, genuine, renewed>>
  PROVE  /\ \A f, k, i : Ready(f, k, i)' <=> Ready(f, k, i)
         /\ Chain' <=> Chain
  <1>1. \A f, k, i : Ready(f, k, i)' <=> Ready(f, k, i)
    BY HeldStays, SizesStay DEF Ready
  <1>2. \A p, i : MayFollow(p, i)' <=> MayFollow(p, i)
    BY <1>1, SizesStay DEF MayFollow, Closing
  <1>. QED
    BY <1>1, <1>2 DEF Chain

\* A packet is added that may stand there.
LEMMA Appended ==
  ASSUME TInv, Chain, NEW q \in Packets, wire' = Append(wire, q),
         UNCHANGED <<agreed, bitmap, genuine, renewed>>, MayFollow(q, Len(wire) + 1)
  PROVE  /\ Chain'
         /\ Len(wire') = Len(wire) + 1 /\ wire'[Len(wire) + 1] = q /\ Len(wire) \in Nat
  <1>1. /\ wire \in Seq(Packets) /\ Len(wire) \in Nat /\ Len(wire') = Len(wire) + 1
        /\ \A i \in 1..Len(wire) : wire'[i] = wire[i]
        /\ wire'[Len(wire) + 1] = q
    BY DEF TInv, Inv, WireOK
  <1>2. \A f, k : \A i \in 1..(Len(wire) + 1) : Ready(f, k, i)' <=> Ready(f, k, i)
    <2>1. SUFFICES ASSUME NEW f, NEW k, NEW i \in 1..(Len(wire) + 1)
                   PROVE  Ready(f, k, i)' <=> Ready(f, k, i)
      OBVIOUS
    <2>2. CASE i = 1
      BY <2>2, HeldStays DEF Ready
    <2>3. CASE i > 1
      <3>1. wire'[i - 1] = wire[i - 1]
        BY <1>1, <2>3
      <3>. QED
        BY <2>3, <3>1, SizesStay DEF Ready
    <2>. QED
      BY <1>1, <2>2, <2>3
  <1>3. \A p : \A i \in 1..(Len(wire) + 1) : MayFollow(p, i) => MayFollow(p, i)'
    BY <1>2, SizesStay DEF MayFollow, Closing
  <1>4. \A i \in 1..(Len(wire) + 1) : MayFollow(wire'[i], i)
    BY <1>1 DEF Chain
  <1>5. Chain'
    BY <1>1, <1>3, <1>4 DEF Chain
  <1>. QED
    BY <1>1, <1>5

\* The phone takes the first packet.  If it is a part of a frame, it copies it; if it
\* brings the dimensions, every frame is as good as held.
LEMMA Taken ==
  ASSUME TInv, Chain, NEW fl, Receives(fl), UNCHANGED agreed, NEW n \in Nat, Len(wire) = n,
         \A f \in Frames : \A k \in Nat : Part(Head(wire), f, k) /\ genuine' => Held(f, k + 1)',
         \A f \in Frames : \A k \in Nat : Renews(Head(wire)) => Held(f, k)'
  PROVE  /\ Chain'
         /\ \A f \in Frames : \A k \in Nat : Ready(f, k, n + 1) => Ready(f, k, n)'
         /\ Len(wire') + 1 = n
  <1>1. /\ wire \in Seq(Packets) /\ Len(wire) \in Nat \ {0} /\ Head(wire) = wire[1]
        /\ Len(wire') = Len(wire) - 1
        /\ \A i \in 1..Len(wire') : wire'[i] = wire[i + 1]
    BY DEF TInv, Inv, WireOK, Receives
  <1>2. ASSUME NEW f \in Frames, NEW k \in Nat, NEW i \in 2..(Len(wire) + 1), Ready(f, k, i)
        PROVE  Ready(f, k, i - 1)'
    <2>1. CASE k = 0
      BY <2>1 DEF Ready
    <2>2. CASE k # 0 /\ i = 2
      <3>1. Part(Head(wire), f, k - 1) \/ Renews(Head(wire))
        BY <1>1, <1>2, <2>2 DEF Ready
      <3>2. k - 1 \in Nat /\ (k - 1) + 1 = k
        BY <2>2
      <3>3. genuine' => Held(f, k)'
        BY <3>1, <3>2
      <3>. QED
        BY <2>2, <3>3 DEF Ready
    <2>3. CASE k # 0 /\ i > 2
      <3>1. i - 1 > 1 /\ (i - 1) - 1 = i - 2
            /\ i - 2 \in 1..Len(wire') /\ wire'[i - 2] = wire[i - 1]
        BY <1>1, <2>3
      <3>2. Part(wire[i - 1], f, k - 1) \/ Renews(wire[i - 1])
        BY <1>2, <2>3 DEF Ready
      <3>3. PICK p : p = wire[i - 1]
        OBVIOUS
      <3>4. Part(p, f, k - 1)' \/ Renews(p)'
        BY <3>2, <3>3, SizesStay DEF Renews
      <3>. QED
        BY <3>1, <3>3, <3>4 DEF Ready
    <2>. QED
      BY <2>1, <2>2, <2>3
  <1>3. ASSUME NEW i \in 1..Len(wire'), NEW p, p = wire'[i] PROVE MayFollow(p, i)'
    <2>1. i + 1 \in 2..Len(wire) /\ i + 1 \in 1..Len(wire) /\ p = wire[i + 1]
          /\ i + 1 \in 2..(Len(wire) + 1) /\ (i + 1) - 1 = i
      BY <1>1, <1>3
    <2>2. MayFollow(p, i + 1)
      BY <2>1 DEF Chain
    <2>3. total_packets \in Nat
      BY Sizes DEF TInv, Inv
    <2>4. \A f \in Frames : \A k \in Nat : Ready(f, k, i + 1) => Ready(f, k, i)'
      BY <1>2, <2>1
    <2>. QED
      BY <2>2, <2>3, <2>4, SizesStay DEF MayFollow, Closing
  <1>4. n + 1 \in 2..(Len(wire) + 1) /\ (n + 1) - 1 = n
    BY <1>1
  <1>5. \A f \in Frames : \A k \in Nat : Ready(f, k, n + 1) => Ready(f, k, n)'
    BY <1>2, <1>4
  <1>6. Chain'
    BY <1>3 DEF Chain
  <1>. QED
    BY <1>1, <1>5, <1>6

\* New dimensions blank the bitmap: whatever a frame's packets before it brought.
LEMMA Blanked ==
  ASSUME WInv, OnDims, Renews(Head(wire)), NEW f \in Frames, NEW k \in Nat
  PROVE  Held(f, k)'
  <1>1. /\ Receives("REQUEST_FB_DIMS") /\ UNCHANGED agreed
    BY DEF OnDims
  <1>2. Head(wire).size = fb_size /\ fb_size \in Nat \ {0}
    BY <1>1, Receiving, Sizes DEF Honest, Renews, WInv, TInv, Inv
  <1>3. bitmap' = [b \in 0..(fb_size - 1) |-> Blank] /\ renewed'
    BY <1>2 DEF OnDims
  <1>4. Upto(f, k, k)'
    <2>1. fb_size' = fb_size /\ data_per_packet' = data_per_packet
      BY <1>1, SizesStay
    <2>2. data_per_packet * k \in Nat
      BY Sizes DEF WInv, TInv, Inv
    <2>3. \A b \in 0..(fb_size - 1) :
            /\ b < data_per_packet * k => bitmap'[b] = Blank
            /\ ~(data_per_packet * k <= b /\ b < data_per_packet * k)
      BY <1>3, <2>2
    <2>. QED
      BY <2>1, <2>3 DEF Upto
  <1>. QED
    BY <1>3, <1>4 DEF Held

\* The packet that the phone takes goes where it belongs, behind those before it.
LEMMA Copied ==
  ASSUME WInv, OnData, NEW f \in Frames, NEW k \in Nat, Part(Head(wire), f, k), genuine'
  PROVE  Held(f, k + 1)'
  <1>1. /\ Receives("SS_DATA") /\ UNCHANGED <<agreed, bitmapLength, totalPackets, genuine>>
    BY DEF OnData
  <1>2. /\ wire \in Seq(Packets) /\ 1 \in 1..Len(wire) /\ Head(wire) = wire[1]
    BY <1>1 DEF WInv, TInv, Inv, WireOK, Receives
  <1>3. k < total_packets /\ Ready(f, k, 1)
    BY <1>2 DEF WInv, Chain, MayFollow
  <1>4. PICK s \in 0..k : (s = 0 \/ (renewed /\ k # 0)) /\ Upto(f, k, s)
    <2>1. CASE k = 0
      <3>1. data_per_packet * k = 0
        BY <2>1, Sizes DEF WInv, TInv, Inv
      <3>2. Upto(f, k, 0)
        BY <2>1, <3>1 DEF Upto
      <3>. QED
        BY <3>2
    <2>2. CASE k # 0
      BY <1>1, <1>3, <2>2 DEF Ready, Held
    <2>. QED
      BY <2>1, <2>2
  <1>5. Told
    BY <1>1, Receiving DEF WInv, TInv, Inv, PhoneOK, Later
  <1>6. ~Refused(k) /\ Head(wire).number = k /\ ~Head(wire).stray
    BY <1>3, <1>5, Sizes DEF Refused, Told, Part, WInv, TInv, Inv
  <1>7. CopyFits(k)
    BY <1>5, <1>6, CopyInBounds DEF WInv, TInv, Inv
  <1>8. /\ DOMAIN bitmap = 0..(fb_size - 1)
        /\ bitmap' = [b \in DOMAIN bitmap |->
                        IF b - bitmapStart(k) \in 0..(CopyLength(k) - 1)
                        THEN Head(wire).data[b - bitmapStart(k)] ELSE bitmap[b]]
        /\ renewed' = (renewed /\ k # 0)
    BY <1>5, <1>6, <1>7 DEF OnData, WInv, TInv, TypeOK, Told
  <1>9. PICK start \in Nat, blank \in Nat :
          start = data_per_packet * k /\ blank = data_per_packet * s /\ blank <= start
    BY <1>4, Sizes DEF WInv, TInv, Inv
  <1>10. data_per_packet * (k + 1) = start + data_per_packet
    BY <1>9, Sizes DEF WInv, TInv, Inv
  <1>11. /\ data_per_packet \in Nat \ {0} /\ fb_size \in Nat /\ total_packets \in Nat
         /\ CopyLength(k) = Carried(k)
         /\ k < total_packets - 1 => Carried(k) = data_per_packet
         /\ k = total_packets - 1 => Carried(k) = fb_size - start
         /\ k < total_packets - 1 \/ k = total_packets - 1
    BY <1>3, <1>5, <1>9, Sizes
    DEF CopyLength, bitmapStart, Carried, leftover_bytes, Told, WInv, TInv, Inv
  <1>12. Carried(k) \in 1..data_per_packet
    BY <1>11, PacketsCoverFrame DEF WInv, TInv, Inv, Carried
  <1>13. ASSUME NEW b \in 0..(fb_size - 1)
         PROVE  /\ b < blank => bitmap'[b] = Blank
                /\ blank <= b /\ b < start + data_per_packet => bitmap'[b] = <<f, b>>
    <2>1. CASE b < start
      <3>1. b - start \notin 0..(CopyLength(k) - 1)
        BY <2>1, <1>11
      <3>2. bitmap'[b] = bitmap[b]
        BY <1>8, <1>9, <3>1 DEF bitmapStart
      <3>. QED
        BY <1>4, <1>9, <2>1, <3>2 DEF Upto
    <2>2. CASE b >= start /\ b < start + data_per_packet
      <3>1. /\ b - start \in 0..(CopyLength(k) - 1) /\ b - start < Carried(k)
            /\ b - start \in 0..(data_per_packet - 1) /\ start + (b - start) = b
        BY <1>11, <1>12, <1>13, <2>2
      <3>2. bitmap'[b] = Head(wire).data[b - start]
        BY <1>8, <1>9, <3>1 DEF bitmapStart
      <3>3. Head(wire).data = Payload(f, k)
        BY DEF Part
      <3>4. Payload(f, k)[b - start] = <<f, start + (b - start)>>
        BY <1>9, <3>1 DEF Payload
      <3>5. bitmap'[b] = <<f, b>> /\ ~(b < blank)
        BY <1>9, <2>2, <3>1, <3>2, <3>3, <3>4
      <3>. QED
        BY <3>5
    <2>3. CASE b >= start + data_per_packet
      BY <1>9, <1>11, <2>3
    <2>. QED
      BY <2>1, <2>2, <2>3, <1>9, <1>11
  <1>14. Upto(f, k + 1, s)'
    <2>1. fb_size' = fb_size /\ data_per_packet' = data_per_packet
      BY <1>1, SizesStay
    <2>. QED
      BY <1>9, <1>10, <1>13, <2>1 DEF Upto
  <1>15. s \in 0..(k + 1)
    BY <1>4
  <1>16. s = 0 \/ renewed'
    BY <1>4, <1>8, Zenon
  <1>. QED
    BY <1>14, <1>15, <1>16 DEF Held

\* The packet that the sender adds is a part of its frame only.
LEMMA PartOnly ==
  ASSUME NEW f, NEW k, Part(Data(sent), f, k)
  PROVE  f = frame /\ k = sent /\ ~met
  BY DEF Part, Data

\* A packet that no other thread had a hand in arrives as it was sent.
LEMMA Unmixed ==
  ASSUME TInv, NEW p \in Packets, Arrives(p)
  PROVE  \E q \in Packets : /\ wire' = Append(wire, q)
                            /\ (q = p /\ aligned) \/ q = Dims \/ (~q.whole /\ q.stray)
                            /\ aligned /\ ~met => q = p
  <1>1. Dims \in Packets /\ \A q \in StrayPackets : q \in Packets /\ q.stray /\ ~q.whole
    BY PacketTypes, StrayTypes DEF TInv, Inv
  <1>. QED
    BY <1>1 DEF Arrives

LEMMA Harmless ==
  ASSUME NEW q, q = Dims \/ (~q.whole /\ q.stray), NEW i
  PROVE  MayFollow(q, i)
  BY DEF MayFollow, Part, Closing, Dims

\* The threads meet only in the ways recorded.
LEMMA MetKept ==
  ASSUME WInv, Sends \/ Works
  PROVE  Met'
  <1>0. Met
    BY DEF WInv
  <1>1. CASE WriteReply
    BY <1>0, <1>1 DEF WriteReply, Met
  <1>2. CASE StartSending
    BY <1>0, <1>2 DEF StartSending, Met
  <1>3. CASE PackBegins
    BY <1>0, <1>3 DEF PackBegins, Met, control
  <1>4. CASE WriteSyn
    BY <1>0, <1>4 DEF WriteSyn, Met, control
  <1>5. CASE /\ UNCHANGED met /\ (others' = others \/ ~others')
             /\ sender' = sender \/ sender' \in {"off", "pack"} \/ PackEnds
    BY <1>0, <1>5 DEF Met, PackEnds
  <1>. QED
    BY <1>1, <1>2, <1>3, <1>4, <1>5
    DEF Sends, Works, SendReply, SendPacket, SendSyn, OthersSend, Renew, StopSending,
        CaptureBegins, CaptureEnds, CaptureThreadEnds, PackEnds, CutOff, SenderEnds,
        OthersEnd, control, packing

\* What is on the wire may stay, and the send thread may go on, after its steps and those
\* of the threads beside it that send nothing.
LEMMA WWorksStep ==
  ASSUME WInv, TInv', Works
  PROVE  WInv'
  <1>0. UNCHANGED <<agreed, wire, bitmap, genuine, renewed>>
    BY DaemonFrame DEF mobile
  <1>1. Chain'
    BY <1>0, ReadyStays DEF WInv
  <1>2. Onward'
    <2>1. CASE UNCHANGED <<frame, sent, sender>> /\ (cut' \/ (UNCHANGED <<cut, aligned>> /\ (met => met' \/ sender \notin {"data", "syn"})))
      <3>1. PICK f, k, i : f = frame /\ k = sent /\ i = Len(wire) + 1
        OBVIOUS
      <3>2. Ready(f, k, i)' <=> Ready(f, k, i)
        BY <1>0, ReadyStays
      <3>. QED
        BY <1>0, <2>1, <3>1, <3>2 DEF WInv, Onward, Ready
    <2>2. CASE sender' \notin {"data", "syn"}
      BY <2>2 DEF Onward
    <2>3. CASE PackEnds
      <3>1. sent' = 0
        BY <2>3 DEF PackEnds, WInv, TInv, Counted
      <3>. QED
        BY <3>1 DEF Onward, Ready
    <2>4. CASE WriteSyn
      <3>1. /\ UNCHANGED <<frame, sent, cut, aligned>> /\ (met => met') /\ sender = "data"
        BY <2>4 DEF WriteSyn
      <3>2. PICK f, k, i : f = frame /\ k = sent /\ i = Len(wire) + 1
        OBVIOUS
      <3>3. Ready(f, k, i)' <=> Ready(f, k, i)
        BY <1>0, ReadyStays
      <3>. QED
        BY <1>0, <3>1, <3>2, <3>3 DEF WInv, Onward, Ready
    <2>5. CASE StartSending
      <3>1. \/ sender' \notin {"data", "syn"}
            \/ UNCHANGED <<frame, sent, sender, cut, aligned>> /\ (met => met')
        BY <2>5 DEF StartSending
      <3>. QED
        BY <2>1, <2>2, <3>1
    <2>6. CASE WriteReply
      <3>1. /\ UNCHANGED <<frame, sent, sender, cut, aligned>>
            /\ (met => met' \/ sender \notin {"data", "syn"})
        BY <2>6 DEF WriteReply
      <3>. QED
        BY <2>1, <3>1
    <2>7. CASE PackBegins \/ SenderEnds
      BY <2>2, <2>7 DEF PackBegins, SenderEnds
    <2>8. CASE CutOff
      BY <2>1, <2>8 DEF CutOff
    <2>9. CASE \/ Renew \/ StopSending \/ CaptureBegins \/ CaptureEnds \/ CaptureThreadEnds
               \/ OthersEnd
      <3>1. UNCHANGED packing
        BY <2>9 DEF Renew, StopSending, CaptureBegins, CaptureEnds, CaptureThreadEnds, OthersEnd
      <3>. QED
        BY <2>1, <3>1 DEF packing
    <2>. QED
      BY <2>3, <2>4, <2>5, <2>6, <2>7, <2>8, <2>9 DEF Works
  <1>. QED
    BY <1>1, <1>2, MetKept DEF WInv

LEMMA WSendsStep ==
  ASSUME WInv, TInv', Sends
  PROVE  WInv'
  <1>0. UNCHANGED <<agreed, bitmap, genuine, renewed>>
    BY DaemonFrame DEF mobile
  <1>1. CASE SendReply
    <2>1. PICK q \in Packets : /\ wire' = Append(wire, q) /\ (q = Dims \/ (~q.whole /\ q.stray))
                               /\ aligned /\ ~met => q = Dims
      BY <1>1, PacketTypes, Unmixed DEF SendReply, WInv, TInv
    <2>2. MayFollow(q, Len(wire) + 1)
      BY <2>1, Harmless
    <2>3. /\ Chain'
          /\ Len(wire') = Len(wire) + 1 /\ wire'[Len(wire) + 1] = q /\ Len(wire) \in Nat
      BY <1>0, <2>1, <2>2, Appended DEF WInv
    <2>4. Onward'
      <3>1. UNCHANGED <<sender, cut, aligned, met>>
        BY <1>1 DEF SendReply, packing
      <3>2. CASE aligned /\ ~met
        <4>1. q = Dims
          BY <2>1, <3>2
        <4>2. PICK f, k, i : f = frame' /\ k = sent' /\ i = Len(wire') + 1
          OBVIOUS
        <4>3. i > 1 /\ wire'[i - 1] = Dims
          BY <2>3, <4>1, <4>2
        <4>4. Renews(Dims)
          BY DEF Renews, Dims
        <4>5. Ready(f, k, i)'
          BY <4>3, <4>4 DEF Ready, Renews
        <4>. QED
          BY <4>2, <4>5 DEF Onward, Ready
      <3>. QED
        BY <3>1, <3>2 DEF Onward
    <2>. QED
      BY <1>1, <2>3, <2>4, MetKept DEF WInv
  <1>2. CASE SendPacket
    <2>0. /\ Data(sent) \in Packets /\ sender = "data" /\ sent < total_packets /\ ~cut
          /\ sent' = sent + 1 /\ UNCHANGED <<sender, frame, cut, met, aligned>> /\ sent \in Nat
          /\ frame \in Frames
      BY <1>2, PacketTypes DEF SendPacket, WInv, TInv, Inv
    <2>1. PICK q \in Packets : /\ wire' = Append(wire, q)
                               /\ \/ q = Data(sent) /\ aligned
                                  \/ q = Dims \/ (~q.whole /\ q.stray)
                               /\ aligned /\ ~met => q = Data(sent)
      BY <1>2, <2>0, Unmixed DEF SendPacket, WInv
    <2>2. MayFollow(q, Len(wire) + 1)
      <3>1. CASE q = Data(sent) /\ aligned
        <4>1. \A f : ~Closing(q, f)
          BY <3>1 DEF Closing, Data
        <4>2. ASSUME NEW f \in Frames, NEW k \in Nat, Part(q, f, k)
              PROVE  k < total_packets /\ Ready(f, k, Len(wire) + 1)
          <5>1. f = frame /\ k = sent /\ ~met
            BY <3>1, <4>2, PartOnly
          <5>. QED
            BY <2>0, <3>1, <5>1 DEF WInv, Onward
        <4>. QED
          BY <4>1, <4>2 DEF MayFollow
      <3>. QED
        BY <2>1, <3>1, Harmless
    <2>3. /\ Chain'
          /\ Len(wire') = Len(wire) + 1 /\ wire'[Len(wire) + 1] = q /\ Len(wire) \in Nat
      BY <1>0, <2>1, <2>2, Appended DEF WInv
    <2>4. Onward'
      <3>1. CASE aligned /\ ~met
        <4>1. q = Data(sent) /\ Part(q, frame, sent)
          <5>1. q = Data(sent)
            BY <2>1, <3>1
          <5>2. q.whole = ~met
            BY <5>1 DEF Data
          <5>3. /\ q.flag = "SS_DATA" /\ q.stray = FALSE
                /\ q.of = frame /\ q.number = sent /\ q.data = Payload(frame, sent)
            BY <5>1 DEF Data
          <5>. QED
            BY <3>1, <5>1, <5>2, <5>3, Zenon DEF Part
        <4>2. PICK p, f, k, i : p = q /\ f = frame /\ k = sent + 1 /\ i = Len(wire) + 2
          OBVIOUS
        <4>3. Part(p, f, k - 1)'
          BY <1>0, <2>0, <4>1, <4>2, SizesStay
        <4>4. wire'[i - 1] = p /\ i > 1
          BY <2>3, <4>2
        <4>5. Ready(f, k, i)'
          BY <4>3, <4>4 DEF Ready
        <4>6. f = frame' /\ k = sent' /\ i = Len(wire') + 1
          BY <2>0, <2>3, <4>2
        <4>. QED
          BY <4>5, <4>6 DEF Onward, Ready
      <3>. QED
        BY <2>0, <3>1 DEF Onward
    <2>. QED
      BY <1>2, <2>3, <2>4, MetKept DEF WInv
  <1>3. CASE SendSyn
    <2>0. Syn \in Packets /\ sender = "syn" /\ sender' = "pack"
      BY <1>3, PacketTypes DEF SendSyn, WInv, TInv
    <2>1. PICK q \in Packets : /\ wire' = Append(wire, q)
                               /\ \/ q = Syn /\ aligned
                                  \/ q = Dims \/ (~q.whole /\ q.stray)
      BY <1>3, <2>0, Unmixed DEF SendSyn, WInv
    <2>2. MayFollow(q, Len(wire) + 1)
      <3>1. CASE q = Syn /\ aligned
        <4>1. \A f, k : ~Part(q, f, k)
          BY <3>1 DEF Part, Syn
        <4>2. ASSUME NEW f \in Frames, Closing(q, f) PROVE Ready(f, total_packets, Len(wire) + 1)
          <5>1. f = frame /\ ~met /\ ~cut
            BY <3>1, <4>2 DEF Closing, Syn
          <5>2. sent = total_packets
            BY <2>0, <5>1 DEF WInv, TInv, Counted
          <5>. QED
            BY <2>0, <3>1, <5>1, <5>2 DEF WInv, Onward
        <4>. QED
          BY <4>1, <4>2 DEF MayFollow
      <3>. QED
        BY <2>1, <3>1, Harmless
    <2>3. Chain'
      BY <1>0, <2>1, <2>2, Appended DEF WInv
    <2>4. Onward'
      BY <2>0 DEF Onward
    <2>. QED
      BY <1>3, <2>3, <2>4, MetKept DEF WInv
  <1>4. CASE OthersSend
    <2>1. PICK q \in StrayPackets : wire' = Append(wire, q)
      BY <1>4 DEF OthersSend
    <2>2. q \in Packets /\ q.stray /\ ~q.whole
      BY StrayTypes DEF WInv, TInv, Inv
    <2>3. MayFollow(q, Len(wire) + 1)
      BY <2>2, Harmless
    <2>4. Chain'
      BY <1>0, <2>1, <2>2, <2>3, Appended DEF WInv
    <2>5. Onward'
      BY <1>4 DEF OthersSend, WInv, Met, Onward
    <2>. QED
      BY <1>4, <2>4, <2>5, MetKept DEF WInv
  <1>. QED
    BY <1>1, <1>2, <1>3, <1>4 DEF Sends

LEMMA WPhoneStep ==
  ASSUME WInv, TInv', NEW fl, Receives(fl), UNCHANGED <<agreed, capture, control, packing>>,
         \A f \in Frames : \A k \in Nat : Part(Head(wire), f, k) /\ genuine' => Held(f, k + 1)',
         \A f \in Frames : \A k \in Nat : Renews(Head(wire)) => Held(f, k)'
  PROVE  WInv'
  <1>1. PICK n \in Nat, f \in Frames, k \in Nat : n = Len(wire) /\ f = frame /\ k = sent
    BY DEF WInv, TInv, Inv, WireOK
  <1>2. Chain' /\ Len(wire') + 1 = n /\ (Ready(f, k, n + 1) => Ready(f, k, n)')
    BY <1>1, Taken DEF WInv
  <1>3. Onward'
    <2>1. n = Len(wire') + 1 /\ f = frame' /\ k = sent' /\ UNCHANGED <<sender, cut, met, aligned>>
      BY <1>1, <1>2 DEF packing
    <2>. QED
      BY <1>1, <1>2, <2>1 DEF WInv, Onward, Ready
  <1>4. Met'
    BY DEF WInv, Met, control, packing
  <1>. QED
    BY <1>2, <1>3, <1>4 DEF WInv

LEMMA WInvStep ==
  ASSUME WInv, [Next]_vars
  PROVE  WInv'
  <1>0. TInv'
    BY TInvStep DEF WInv
  <1>1. CASE Sends
    BY <1>0, <1>1, WSendsStep
  <1>2. CASE Works
    BY <1>0, <1>2, WWorksStep
  <1>3. CASE OnData
    <2>1. Receives("SS_DATA") /\ UNCHANGED <<agreed, capture, control, packing>>
      BY <1>3 DEF OnData
    <2>2. ~Renews(Head(wire))
      BY <2>1 DEF Receives, Renews
    <2>. QED
      BY <1>0, <1>3, <2>1, <2>2, Copied, WPhoneStep
  <1>4. CASE OnDims
    <2>1. Receives("REQUEST_FB_DIMS") /\ UNCHANGED <<agreed, capture, control, packing>>
      BY <1>4 DEF OnDims
    <2>2. \A f \in Frames : \A k \in Nat : ~Part(Head(wire), f, k)
      BY <2>1 DEF Receives, Part
    <2>. QED
      BY <1>0, <1>4, <2>1, <2>2, Blanked, WPhoneStep
  <1>5. CASE OnSyn \/ OnOther
    <2>1. PICK fl \in {"SS_SYN", "other"} : Receives(fl)
      BY <1>5 DEF OnSyn, OnOther
    <2>2. \A f \in Frames : \A k \in Nat : ~Part(Head(wire), f, k) /\ ~Renews(Head(wire))
      BY <2>1 DEF Receives, Part, Renews
    <2>3. UNCHANGED <<agreed, capture, control, packing>>
      BY <1>5 DEF OnSyn, OnOther
    <2>. QED
      BY <1>0, <2>1, <2>2, <2>3, WPhoneStep
  <1>6. CASE SetImage \/ UNCHANGED vars
    <2>1. UNCHANGED <<agreed, wire, bitmap, genuine, renewed>> /\ UNCHANGED <<control, packing>>
      BY <1>6 DEF SetImage, vars, mobile
    <2>2. PICK f, k, i : f = frame /\ k = sent /\ i = Len(wire) + 1
      OBVIOUS
    <2>3. Chain' /\ (Ready(f, k, i)' <=> Ready(f, k, i))
      BY <2>1, ReadyStays DEF WInv
    <2>4. Onward' /\ Met'
      BY <2>1, <2>2, <2>3 DEF WInv, Onward, Met, Ready, control, packing
    <2>. QED
      BY <1>0, <2>3, <2>4 DEF WInv
  <1>. QED
    BY <1>1, <1>2, <1>3, <1>4, <1>5, <1>6, Kinds DEF Phone

\* WholeFrameAtSyn: when the phone handles the SS_SYN of a frame whose transfer was not
\* cut off, and for which no other thread used device->buffer, its bitmap holds that
\* frame, every byte at its place, but for a beginning that new dimensions blanked; for
\* every screen and packet size, every capacity of the wire and however the threads
\* interleave (Main.c: sendBufferedScreenCap, ssMode; SSmode.java: onDataReceived).
THEOREM FramesWhole == Spec => WholeFrameAtSyn
  <1>1. Init => WInv
    <2>. SUFFICES ASSUME Init PROVE WInv
      OBVIOUS
    <2>1. TInv
      BY TInitially
    <2>2. wire = <<>> /\ sender = "off"
      BY DEF Init
    <2>. QED
      BY <2>1, <2>2 DEF WInv, Chain, Onward, Met
  <1>2. WInv /\ [Next]_vars => WInv'
    BY WInvStep
  <1>3. ASSUME WInv, OnSyn, Head(wire).whole, genuine
        PROVE  \E k \in 0..total_packets :
                 /\ k = 0 \/ renewed
                 /\ \A b \in 0..(fb_size - 1) :
                      bitmap[b] = IF b < data_per_packet * k THEN Blank
                                                             ELSE <<Head(wire).of, b>>
    <2>1. /\ Head(wire) = wire[1] /\ 1 \in 1..Len(wire) /\ Head(wire) \in Packets
          /\ Head(wire).flag = "SS_SYN"
      BY <1>3 DEF WInv, TInv, Inv, WireOK, OnSyn, Receives
    <2>2. PICK f \in Frames : f = Head(wire).of
      BY <2>1 DEF Packets
    <2>3. Ready(f, total_packets, 1)
      BY <1>3, <2>1, <2>2 DEF WInv, Chain, MayFollow, Closing
    <2>4. /\ fb_size \in Nat /\ total_packets \in Nat \ {0} /\ data_per_packet \in Nat
          /\ data_per_packet * total_packets \in Nat
          /\ fb_size <= data_per_packet * total_packets
      BY <1>3, Sizes DEF WInv, TInv, Inv
    <2>5. Held(f, total_packets)
      BY <1>3, <2>3, <2>4 DEF Ready
    <2>6. PICK s \in 0..total_packets : (s = 0 \/ renewed) /\ Upto(f, total_packets, s)
      BY <2>5 DEF Held
    <2>7. data_per_packet * s \in Nat
      BY <2>4
    <2>8. \A b \in 0..(fb_size - 1) :
            bitmap[b] = IF b < data_per_packet * s THEN Blank ELSE <<f, b>>
      BY <2>4, <2>6, <2>7 DEF Upto
    <2>. QED
      BY <2>2, <2>6, <2>8
  <1>4. WInv /\ [Next]_vars
          => [OnSyn /\ Head(wire).whole /\ genuine
                => \E k \in 0..total_packets :
                     /\ k = 0 \/ renewed
                     /\ \A b \in 0..(fb_size - 1) :
                          bitmap[b] = IF b < data_per_packet * k THEN Blank
                                                                 ELSE <<Head(wire).of, b>>]_vars
    BY <1>3
  <1>. QED
    BY <1>1, <1>2, <1>4, PTL DEF Spec, WholeFrameAtSyn
=============================================================================
