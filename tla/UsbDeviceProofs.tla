-------------------------- MODULE UsbDeviceProofs --------------------------
(* Proofs about UsbDevice, for any number of devices, connections and read *)
(* threads.                                                                *)
EXTENDS UsbDevice, TLAPS

Shapes ==
  /\ handler \in [at : {"idle", "opened", "connected"}, dev : Devices]
  /\ transfer_status \in [Devices -> {"HANDSHAKE", "WAITING", "SCREEN_SHARE"}]
  /\ buffer \in [Devices -> BOOLEAN]
  /\ pc \in [Readers -> Labels]
  /\ threads \in 0..MaxThreads
  /\ DOMAIN reads = Readers
  /\ \A t \in Readers : reads[t] = [dev |-> reads[t].dev, link |-> reads[t].link]
                        /\ reads[t].dev \in Devices

\* A thread that answers a handshake, or calls the callback, found or made a buffer
\* before, and buffers stay.
Buffered ==
  /\ \A t \in Readers : pc[t] \in {"reply", "replied", "callback"} => buffer[dev(t)]
  /\ \A d \in Devices : transfer_status[d] # "HANDSHAKE" => buffer[d]

LEMMA InitOK == Init => Shapes /\ Buffered
  <1> SUFFICES ASSUME Init PROVE Shapes /\ Buffered
    OBVIOUS
  <1>1. buffer \in [Devices -> BOOLEAN]
    BY Zenon DEF Init
  <1>. QED
    BY <1>1, DevicesAssumption
       DEF Init, Shapes, Buffered, Idle, Devices, Readers, Labels, dev

\* Every step of a read thread moves it along one edge and keeps its device.
LEMMA ReaderStep ==
  ASSUME Shapes, Buffered, NEW t \in Readers, ReadThread(t) \/ ReadError(t) \/ ReadPacket(t)
  PROVE  Shapes' /\ Buffered'
  <1>. USE DEF Shapes, Buffered, At, dev, hot, ReaderOnly, Labels, PacketTypes, Expecting
  <1>1. CASE Connected(t)
    BY <1>1 DEF Connected
  <1>2. CASE Disconnected(t) \/ ReadFails(t) \/ ReadError(t)
    BY <1>2 DEF Disconnected, ReadFails, ReadError
  <1>3. CASE Drop(t) \/ Dispatch(t)
    BY <1>3 DEF Drop, Dispatch
  <1>4. CASE Handshake(t)
    <2>1. buffer' \in [Devices -> BOOLEAN]
      BY <1>4, Zenon DEF Handshake
    <2>2. buffer'[dev(t)] /\ \A d \in Devices : buffer[d] => buffer'[d]
      BY <1>4 DEF Handshake
    <2>. QED
      BY <1>4, <2>1, <2>2 DEF Handshake
  <1>5. CASE ReplySent(t) \/ ReplyFails(t)
    BY <1>5 DEF ReplySent, ReplyFails
  <1>6. CASE HandshakeDone(t)
    BY <1>6 DEF HandshakeDone
  <1>7. CASE Close(t)
    BY <1>7 DEF Close
  <1>8. CASE onDataRead(t)
    BY <1>8 DEF onDataRead
  <1>9. CASE ReadPacket(t)
    BY <1>9 DEF ReadPacket
  <1>. QED
    BY <1>1, <1>2, <1>3, <1>4, <1>5, <1>6, <1>7, <1>8, <1>9 DEF ReadThread

LEMMA EventStep ==
  ASSUME Shapes, Buffered, EventThread
  PROVE  Shapes' /\ Buffered'
  <1>. USE DEF Shapes, Buffered, dev, device, reader, Labels, Idle
  <1>1. CASE device_hotplug \/ NotOurs \/ Left
    BY <1>1 DEF device_hotplug, NotOurs, Left
  <1>2. CASE ArrivedOpen
    BY <1>2 DEF ArrivedOpen, Alive
  <1>3. CASE ArrivedConnected
    BY <1>3 DEF ArrivedConnected
  <1>4. CASE ArrivedStarts
    <2>1. threads + 1 \in Readers /\ threads' \in 0..MaxThreads /\ handler' \in
             [at : {"idle", "opened", "connected"}, dev : Devices]
      BY <1>4, DevicesAssumption DEF ArrivedStarts, Readers, Devices
    <2>2. pc' \in [Readers -> Labels] /\ pc'[threads + 1] = "loop"
      BY <1>4, <2>1 DEF ArrivedStarts
    <2>3. /\ \A t \in Readers \ {threads + 1} : pc'[t] = pc[t] /\ reads'[t] = reads[t]
          /\ reads'[threads + 1] = [dev |-> handler.dev, link |-> reads[threads + 1].link]
          /\ DOMAIN reads' = Readers
      BY <1>4, <2>1 DEF ArrivedStarts
    <2>4. handler.dev \in Devices
      OBVIOUS
    <2>5. /\ transfer_status' = [transfer_status EXCEPT ![handler.dev] = "HANDSHAKE"]
          /\ buffer' = buffer
      BY <1>4 DEF ArrivedStarts
    <2>. QED
      BY <2>1, <2>2, <2>3, <2>4, <2>5
  <1>. QED
    BY <1>1, <1>2, <1>3, <1>4 DEF EventThread

LEMMA BufferStep ==
  ASSUME Shapes, Buffered, [Next]_vars
  PROVE  (Shapes /\ Buffered)'
  <1>1. ASSUME NEW d \in Devices, PlugIn(d) \/ PullOut(d) PROVE (Shapes /\ Buffered)'
    BY <1>1 DEF PlugIn, PullOut, Shapes, Buffered, device, reader, dev
  <1>2. CASE StrangerMoves
    BY <1>2 DEF StrangerMoves, Shapes, Buffered, device, reader, dev
  <1>3. CASE UNCHANGED vars
    BY <1>3 DEF vars, Shapes, Buffered, device, hot, reader, dev
  <1>. QED
    BY <1>1, <1>2, <1>3, ReaderStep, EventStep DEF Next

\* The callback never runs without a buffer, whatever hotplug does meanwhile.
THEOREM CallbackFindsBuffer == Spec => []CallbackHasBuffer
  <1>1. Shapes /\ Buffered /\ [Next]_vars => (Shapes /\ Buffered)'
    BY BufferStep
  <1>2. Shapes /\ Buffered => CallbackHasBuffer
    BY DEF Buffered, CallbackHasBuffer
  <1>. QED
    BY <1>1, <1>2, InitOK, PTL DEF Spec

-----------------------------------------------------------------------------
(* The status and the connection.  While the device's callback is not      *)
(* under way the handle stays, and what a read thread does from the answer *)
(* of a handshake on, it does on the connection that was shaken.  A new    *)
(* arrival starts afresh unless an earlier thread is alive: the overlap.   *)
Steady(d) == ~overlap[d] /\ (handler.at = "idle" \/ handler.dev # d)

Shaken(d) ==
  transfer_status[d] # "HANDSHAKE"
    \/ (\E t \in Readers : reads[t].dev = d /\ pc[t] \in {"replied", "callback"})
  => shaken[d] = device_handle[d]

SInv ==
  /\ Shapes
  /\ overlap \in [Devices -> BOOLEAN]
  /\ DOMAIN shaken = Devices /\ DOMAIN device_handle = Devices
  /\ \A d \in Devices : Steady(d) => Shaken(d)

\* Nothing moves but the world outside.
LEMMA SStill ==
  ASSUME SInv, Shapes',
         UNCHANGED <<transfer_status, device_handle, handler, overlap, shaken, pc, reads>>
  PROVE  SInv'
  BY DEF SInv, Steady, Shaken

LEMMA SReaderStep ==
  ASSUME SInv, Shapes', NEW t \in Readers, ReadThread(t) \/ ReadError(t) \/ ReadPacket(t)
  PROVE  SInv'
<1>. USE DEF SInv, Shapes, At, dev, hot, ReaderOnly, PacketTypes, Expecting
<1>1. /\ UNCHANGED <<handler, overlap, device_handle>>
      /\ \A r \in Readers : reads'[r].dev = reads[r].dev
      /\ \A r \in Readers \ {t} : pc'[r] = pc[r]
      /\ \A d \in Devices \ {dev(t)} : transfer_status'[d] = transfer_status[d]
      /\ \A d \in Devices \ {dev(t)} : shaken'[d] = shaken[d]
      /\ DOMAIN shaken' = Devices
  <2>1. CASE ReadError(t) \/ ReadPacket(t)
    BY <2>1 DEF ReadError, ReadPacket
  <2>2. CASE Connected(t)
    BY <2>2 DEF Connected
  <2>3. CASE Disconnected(t) \/ ReadFails(t) \/ Drop(t) \/ Handshake(t) \/ ReplyFails(t) \/ Dispatch(t)
    BY <2>3 DEF Disconnected, ReadFails, Drop, Handshake, ReplyFails, Dispatch
  <2>4. CASE ReplySent(t)
    BY <2>4 DEF ReplySent
  <2>5. CASE HandshakeDone(t) \/ Close(t) \/ onDataRead(t)
    BY <2>5 DEF HandshakeDone, Close, onDataRead
  <2>. QED
    BY <2>1, <2>2, <2>3, <2>4, <2>5 DEF ReadThread
<1>2. Steady(dev(t)) => Shaken(dev(t))'
  <2>. SUFFICES ASSUME Steady(dev(t)) PROVE Shaken(dev(t))'
    OBVIOUS
  <2>1. Shaken(dev(t))
    OBVIOUS
  <2>2. CASE ReadError(t) \/ ReadPacket(t) \/ Connected(t) \/ Disconnected(t) \/ ReadFails(t)
             \/ Drop(t) \/ Handshake(t) \/ ReplyFails(t)
    <3>1. /\ pc'[t] \notin {"replied", "callback"}
          /\ UNCHANGED <<transfer_status, shaken>>
      BY <2>2
      DEF ReadError, ReadPacket, Connected, Disconnected, ReadFails, Drop, Handshake, ReplyFails
    <3>. QED BY <1>1, <2>1, <3>1 DEF Shaken
  <2>3. CASE ReplySent(t)
    BY <1>1, <2>3 DEF ReplySent, Shaken
  <2>4. CASE HandshakeDone(t) \/ Close(t) \/ onDataRead(t) \/ Dispatch(t)
    <3>1. shaken[dev(t)] = device_handle[dev(t)] /\ shaken' = shaken
      BY <2>1, <2>4 DEF HandshakeDone, Close, onDataRead, Dispatch, Shaken
    <3>. QED BY <1>1, <3>1 DEF Shaken
  <2>. QED BY <2>2, <2>3, <2>4 DEF ReadThread
<1>3. \A d \in Devices \ {dev(t)} : Shaken(d) => Shaken(d)'
  BY <1>1 DEF Shaken
<1>. QED
  BY <1>1, <1>2, <1>3 DEF Steady

LEMMA SEventStep ==
  ASSUME SInv, Shapes', EventThread
  PROVE  SInv'
<1>. USE DEF SInv, Shapes
<1>1. CASE device_hotplug \/ NotOurs \/ Left
  BY <1>1, SStill DEF device_hotplug, NotOurs, Left, device, reader, ghosts
<1>2. CASE ArrivedOpen
  <2>1. PICK d \in Devices :
          /\ handler.at = "idle" /\ handler' = [at |-> "opened", dev |-> d]
          /\ DOMAIN device_handle' = Devices
          /\ \A e \in Devices \ {d} : device_handle'[e] = device_handle[e]
    BY <1>2 DEF ArrivedOpen, Handles
  <2>2. /\ UNCHANGED <<transfer_status, overlap, shaken, reads>>
        /\ \A t \in Readers : pc'[t] \in {pc[t], "ended"}
    BY <1>2 DEF ArrivedOpen, ghosts
  <2>3. \A e \in Devices \ {d} : Steady(e)' => Shaken(e)'
    BY <2>1, <2>2 DEF Steady, Shaken
  <2>. QED
    BY <2>1, <2>2, <2>3 DEF Steady
<1>3. CASE ArrivedConnected
  <2>1. \A d \in Devices : Steady(d)' <=> Steady(d)
    BY <1>3 DEF ArrivedConnected, Steady, ghosts
  <2>. QED
    BY <1>3, <2>1 DEF ArrivedConnected, Shaken, ghosts, reader
<1>4. CASE ArrivedStarts
  <2>0. PICK d \in Devices : d = handler.dev
    OBVIOUS
  <2>1. PICK new \in Readers : new = threads + 1
    BY <1>4, DevicesAssumption DEF ArrivedStarts, Readers
  <2>2. /\ UNCHANGED <<device_handle, shaken>>
        /\ transfer_status' = [transfer_status EXCEPT ![d] = "HANDSHAKE"]
        /\ pc' = [pc EXCEPT ![new] = "loop"]
        /\ reads' = [reads EXCEPT ![new].dev = d]
        /\ overlap' = [overlap EXCEPT ![d] = \E t \in Readers : Alive(t) /\ reads[t].dev = d]
        /\ handler.at = "connected"
    BY <1>4, <2>0, <2>1 DEF ArrivedStarts
  <2>3. overlap' \in [Devices -> BOOLEAN]
    <3>1. (\E t \in Readers : Alive(t) /\ reads[t].dev = d) \in BOOLEAN
      OBVIOUS
    <3>. QED BY <2>2, <3>1
  <2>4. ASSUME ~overlap'[d] PROVE Shaken(d)'
    <3>1. \A t \in Readers : reads[t].dev = d => pc[t] \in {"none", "ended"}
      BY <2>2, <2>4 DEF Alive
    <3>2. \A t \in Readers : reads'[t].dev = d => pc'[t] \in {"none", "ended", "loop"}
      BY <2>1, <2>2, <3>1
    <3>3. transfer_status'[d] = "HANDSHAKE"
      BY <2>1, <2>2
    <3>. QED BY <3>2, <3>3 DEF Shaken
  <2>5. ASSUME NEW e \in Devices \ {d}, Steady(e)' PROVE Shaken(e)'
    <3>1. Steady(e)
      BY <2>0, <2>2, <2>5 DEF Steady
    <3>2. /\ \A t \in Readers \ {new} : pc'[t] = pc[t] /\ reads'[t] = reads[t]
          /\ reads'[new].dev = d
      BY <2>1, <2>2
    <3>. QED BY <2>2, <3>1, <3>2 DEF Shaken
  <2>6. \A e \in Devices : Steady(e)' => Shaken(e)'
    BY <2>4, <2>5 DEF Steady
  <2>. QED
    BY <2>2, <2>3, <2>6
<1>. QED
  BY <1>1, <1>2, <1>3, <1>4 DEF EventThread

\* ShakenHere: a device past its handshake has completed one on the connection it is
\* using, unless a read thread of an earlier connection was alive when this one arrived
\* (UsbDevice.c: accessory_hotplug resets the status, the read thread sets it).
THEOREM HandshakeFirst == Spec => []ShakenHere
<1>1. Init => SInv
  <2>. SUFFICES ASSUME Init PROVE SInv
    OBVIOUS
  <2>1. Shapes
    BY InitOK
  <2>2. overlap \in [Devices -> BOOLEAN]
    BY Zenon DEF Init
  <2>. QED
    BY <2>1, <2>2 DEF Init, SInv, Steady, Shaken
<1>2. Shapes /\ Buffered /\ SInv /\ [Next]_vars => (Shapes /\ Buffered /\ SInv)'
  <2>. SUFFICES ASSUME Shapes, Buffered, SInv, [Next]_vars PROVE (Shapes /\ Buffered /\ SInv)'
    OBVIOUS
  <2>1. (Shapes /\ Buffered)'
    BY BufferStep
  <2>2. ASSUME NEW d \in Devices, PlugIn(d) \/ PullOut(d) PROVE SInv'
    BY <2>1, <2>2, SStill DEF PlugIn, PullOut, device, reader, ghosts
  <2>3. CASE StrangerMoves
    BY <2>1, <2>3, SStill DEF StrangerMoves, device, reader, ghosts
  <2>4. CASE UNCHANGED vars
    BY <2>1, <2>4, SStill DEF vars, device, hot, reader, ghosts
  <2>. QED
    BY <2>1, <2>2, <2>3, <2>4, SReaderStep, SEventStep DEF Next
<1>3. SInv => ShakenHere
  BY DEF SInv, ShakenHere, Steady, Shaken
<1>. QED
  BY <1>1, <1>2, <1>3, InitOK, PTL DEF Spec

-----------------------------------------------------------------------------
(* Types.  An arrival that waits names a registered device and a port of   *)
(* the phones; that is where port_numbers comes from.                      *)
Kinds == {"device_arrived", "ARRIVED", "LEFT"}

Events ==
  {e \in [kind : Kinds, dev : 0..Registered, path : Paths \cup StrangerPaths, link : Links] :
     e.kind = "device_arrived" => e.dev \in Devices /\ e.path \in Paths}

World ==
  /\ place \in [Devices -> {"out", "android", "accessory"}]
  /\ path \in [Devices -> Paths \cup {NoPath}]
  /\ \A d \in Devices : place[d] # "out" => path[d] \in Paths
  /\ link \in [Devices -> 0..MaxLinks] /\ links \in 0..MaxLinks
  /\ stranger \in StrangerPaths \cup {NoPath}
  /\ events \in Seq(Events) /\ Len(events) <= MaxEvents

Registry ==
  /\ calls \in 0..(Registered - 1)
  /\ port_numbers \in [Devices -> Paths \cup Uninitialised]
  /\ conncetion_status \in [Devices -> {"CONNECTED", "DISCONNECTED"}]
  /\ device_handle \in [Devices -> Links]
  /\ reads \in [Readers -> [dev : Devices, link : Links]]
  /\ shaken \in [Devices -> Links] /\ overlap \in [Devices -> BOOLEAN]
  /\ daemon \in {"up", "down"}

LEMMA TInitially == Init => World /\ Registry
<1>. SUFFICES ASSUME Init PROVE World /\ Registry
  OBVIOUS
<1>1. World
  BY DevicesAssumption DEF Init, World, Devices
<1>2. overlap \in [Devices -> BOOLEAN]
  BY Zenon DEF Init
<1>3. Registry
  BY <1>2, DevicesAssumption DEF Init, Registry, Devices, Readers, Links, StrangerLink
<1>. QED BY <1>1, <1>3

\* What a phone or the other accessory adds to the queue.
LEMMA Queued ==
  ASSUME World, NEW e \in Events, events' = Append(events, e), Len(events) < MaxEvents
  PROVE  events' \in Seq(Events) /\ Len(events') <= MaxEvents
<1>1. Len(events) \in Nat /\ Len(events') = Len(events) + 1
  BY DEF World
<1>. QED BY <1>1, DevicesAssumption DEF World

LEMMA TWorldStep ==
  ASSUME World, Registry,
         (\E d \in Devices : PlugIn(d) \/ PullOut(d)) \/ StrangerMoves
  PROVE  World' /\ Registry'
<1>0. 0 \in Links /\ StrangerLink \in Links /\ 0..MaxLinks \subseteq Links /\ 0 \in 0..Registered
      /\ Devices \subseteq 0..Registered
  BY DevicesAssumption DEF Links, StrangerLink, Devices
<1>1. Registry'
  BY DEF PlugIn, PullOut, StrangerMoves, Registry, device, hot, reader, ghosts
<1>2. ASSUME NEW d \in Devices, PlugIn(d) PROVE World'
  <2>1. PICK p \in Paths : path' = [path EXCEPT ![d] = p]
    BY <1>2 DEF PlugIn
  <2>2. Event("device_arrived", d, 0) \in Events
    BY <1>0, <2>1 DEF Event, Events, Kinds, World
  <2>3. events' \in Seq(Events) /\ Len(events') <= MaxEvents
    BY <1>2, <2>2, Queued DEF PlugIn
  <2>4. path' \in [Devices -> Paths \cup {NoPath}]
        /\ \A e \in Devices : place'[e] # "out" => path'[e] \in Paths
    BY <1>2, <2>1 DEF PlugIn, World
  <2>. QED BY <1>2, <2>3, <2>4 DEF PlugIn, World
<1>3. ASSUME NEW d \in Devices, PullOut(d) PROVE World'
  <2>1. events' \in Seq(Events) /\ Len(events') <= MaxEvents
    <3>1. CASE place[d] = "accessory"
      <4>1. Event("LEFT", d, link[d]) \in Events
        BY <1>0, <1>3, <3>1 DEF PullOut, Event, Events, Kinds, World
      <4>. QED BY <1>3, <3>1, <4>1, Queued DEF PullOut
    <3>2. CASE place[d] # "accessory"
      BY <1>3, <3>2 DEF PullOut, World
    <3>. QED BY <3>1, <3>2
  <2>2. /\ place' \in [Devices -> {"out", "android", "accessory"}]
        /\ link' \in [Devices -> 0..MaxLinks]
        /\ \A e \in Devices : place'[e] # "out" => path'[e] \in Paths
    BY <1>3, DevicesAssumption DEF PullOut, World
  <2>. QED BY <1>3, <2>1, <2>2 DEF PullOut, World
<1>4. CASE StrangerMoves
  <2>1. PICK kind \in {"ARRIVED", "LEFT"}, p \in StrangerPaths :
          events' = Append(events, StrangerEvent(kind, p))
    BY <1>4 DEF StrangerMoves, World
  <2>2. StrangerEvent(kind, p) \in Events
    BY <1>0 DEF StrangerEvent, Events, Kinds
  <2>3. events' \in Seq(Events) /\ Len(events') <= MaxEvents
    BY <1>4, <2>1, <2>2, Queued DEF StrangerMoves
  <2>. QED BY <1>1, <1>4, <2>3 DEF StrangerMoves, World
<1>. QED BY <1>1, <1>2, <1>3, <1>4

LEMMA TReaderStep ==
  ASSUME World, Registry, NEW t \in Readers, ReadThread(t) \/ ReadError(t) \/ ReadPacket(t)
  PROVE  World' /\ Registry'
<1>. USE DEF ReaderOnly, world, hot
<1>1. CASE Connected(t)
  <2>1. reads' \in [Readers -> [dev : Devices, link : Links]]
    BY <1>1 DEF Connected, Registry, dev
  <2>. QED BY <1>1, <2>1 DEF Connected, World, Registry
<1>2. CASE ReplySent(t)
  <2>1. shaken' \in [Devices -> Links]
    BY <1>2 DEF ReplySent, Registry, dev
  <2>. QED BY <1>2, <2>1 DEF ReplySent, World, Registry
<1>3. CASE \/ Disconnected(t) \/ ReadFails(t) \/ ReadError(t) \/ ReadPacket(t) \/ Drop(t)
           \/ Handshake(t) \/ ReplyFails(t) \/ HandshakeDone(t) \/ Close(t) \/ Dispatch(t)
           \/ onDataRead(t)
  <2>1. UNCHANGED <<world, port_numbers, conncetion_status, device_handle, hot, overlap, daemon,
                    reads, shaken>>
    BY <1>3
    DEF Disconnected, ReadFails, ReadError, ReadPacket, Drop, Handshake, ReplyFails,
        HandshakeDone, Close, Dispatch, onDataRead
  <2>. QED BY <2>1 DEF World, Registry
<1>. QED
  BY <1>1, <1>2, <1>3 DEF ReadThread

\* The event thread takes the first event away, at the last callback at any rate.
LEMMA Served ==
  ASSUME World, calls \in 0..(Registered - 1), events # <<>>, Handled
  PROVE  /\ events' \in Seq(Events) /\ Len(events') <= MaxEvents
         /\ calls' \in 0..(Registered - 1)
<1>1. Tail(events) \in Seq(Events) /\ Len(Tail(events)) <= MaxEvents
  BY DevicesAssumption DEF World
<1>2. events' \in {events, Tail(events)} /\ calls' \in {calls + 1, 0}
  BY DEF Handled
<1>3. calls + 1 # Registered => calls + 1 \in 0..(Registered - 1)
  BY DevicesAssumption
<1>4. calls' \in 0..(Registered - 1)
  BY <1>3, DevicesAssumption DEF Handled
<1>. QED BY <1>1, <1>2, <1>4 DEF World

LEMMA TEventStep ==
  ASSUME World, Registry, Shapes, EventThread, handler.at # "idle" => events # <<>>
  PROVE  World' /\ Registry'
<1>1. CASE device_hotplug
  <2>. DEFINE e == Head(events)
  <2>1. e \in Events /\ e.kind = "device_arrived" /\ events # <<>>
    BY <1>1 DEF device_hotplug, Handles, World
  <2>2. e.dev \in Devices /\ e.path \in Paths
    BY <2>1 DEF Events
  <2>3. Tail(events) \in Seq(Events) /\ Len(Tail(events)) + 1 = Len(events)
    BY <2>1 DEF World
  <2>4. port_numbers' \in [Devices -> Paths \cup Uninitialised]
    BY <1>1, <2>2 DEF device_hotplug, Registry
  <2>5. Registry'
    BY <1>1, <2>4 DEF device_hotplug, Registry, reader, ghosts
  <2>6. CASE UNCHANGED world /\ events' = Tail(events)
    BY <2>3, <2>5, <2>6, DevicesAssumption DEF World, world
  <2>7. CASE /\ place[e.dev] = "android" /\ path[e.dev] = e.path
             /\ links < MaxLinks
             /\ links' = links + 1
             /\ place' = [place EXCEPT ![e.dev] = "accessory"]
             /\ link' = [link EXCEPT ![e.dev] = links + 1]
             /\ UNCHANGED <<path, stranger>>
             /\ events' = Append(Tail(events), Event("ARRIVED", e.dev, links + 1))
    <3>1. links + 1 \in 0..MaxLinks /\ links + 1 \in Links /\ Devices \subseteq 0..Registered
      BY <2>7, DevicesAssumption DEF World, Links, StrangerLink, Devices
    <3>2. Event("ARRIVED", e.dev, links + 1) \in Events
      BY <2>2, <2>7, <3>1 DEF Event, Events, Kinds
    <3>3. events' \in Seq(Events) /\ Len(events') = Len(events)
      BY <2>3, <2>7, <3>2
    <3>4. /\ place' \in [Devices -> {"out", "android", "accessory"}]
          /\ link' \in [Devices -> 0..MaxLinks]
          /\ \A d \in Devices : place'[d] # "out" => path'[d] \in Paths
      BY <2>2, <2>7, <3>1 DEF World
    <3>. QED BY <2>5, <2>7, <3>1, <3>3, <3>4 DEF World
  <2>. QED
    BY <1>1, <2>5, <2>6, <2>7 DEF device_hotplug
<1>2. CASE NotOurs \/ Left
  <2>1. events # <<>> /\ Handled /\ UNCHANGED world
    BY <1>2 DEF NotOurs, Left, Handles
  <2>2. World'
    BY <2>1, Served DEF World, world, Registry
  <2>3. calls' \in 0..(Registered - 1)
    BY <2>1, Served DEF Registry
  <2>4. conncetion_status' \in [Devices -> {"CONNECTED", "DISCONNECTED"}]
    BY <1>2 DEF NotOurs, Left, Registry, device
  <2>5. UNCHANGED <<port_numbers, device_handle, reads, shaken, overlap, daemon>>
    BY <1>2 DEF NotOurs, Left, device, reader, ghosts
  <2>. QED BY <2>2, <2>3, <2>4, <2>5 DEF Registry
<1>3. CASE ArrivedOpen
  <2>1. Head(events).link \in Links
    BY <1>3 DEF ArrivedOpen, Handles, World, Events
  <2>2. device_handle' \in [Devices -> Links] /\ daemon' \in {"up", "down"}
    BY <1>3, <2>1 DEF ArrivedOpen, Registry
  <2>. QED
    BY <1>3, <2>2 DEF ArrivedOpen, World, Registry, world, ghosts
<1>4. CASE ArrivedConnected
  <2>1. conncetion_status' \in [Devices -> {"CONNECTED", "DISCONNECTED"}]
    BY <1>4 DEF ArrivedConnected, Registry
  <2>. QED
    BY <1>4, <2>1 DEF ArrivedConnected, World, Registry, world, reader, ghosts
<1>5. CASE ArrivedStarts
  <2>1. Handled /\ events # <<>> /\ UNCHANGED world
    BY <1>5 DEF ArrivedStarts
  <2>2. World'
    BY <2>1, Served DEF World, world, Registry
  <2>3. calls' \in 0..(Registered - 1)
    BY <2>1, Served DEF Registry
  <2>4. /\ handler.dev \in Devices
        /\ reads' = [reads EXCEPT ![threads + 1].dev = handler.dev]
        /\ UNCHANGED <<port_numbers, conncetion_status, device_handle, shaken, daemon>>
    BY <1>5 DEF ArrivedStarts, Shapes
  <2>5. reads' \in [Readers -> [dev : Devices, link : Links]]
    BY <2>4 DEF Registry
  <2>6. overlap' \in [Devices -> BOOLEAN]
    <3>1. PICK b \in BOOLEAN : overlap' = [overlap EXCEPT ![handler.dev] = b]
      BY <1>5 DEF ArrivedStarts
    <3>. QED BY <3>1 DEF Registry
  <2>. QED BY <2>2, <2>3, <2>4, <2>5, <2>6 DEF Registry
<1>. QED
  BY <1>1, <1>2, <1>3, <1>4, <1>5 DEF EventThread

\* The event an arrival is about stays until its callback is done.
LEMMA HandlesFirst ==
  ASSUME World, [Next]_vars, handler.at # "idle" => events # <<>>
  PROVE  handler'.at # "idle" => events' # <<>>
<1>1. ASSUME NEW e PROVE Append(events, e) # <<>>
  BY DEF World
<1>2. CASE (\E d \in Devices : PlugIn(d) \/ PullOut(d)) \/ StrangerMoves
  BY <1>1, <1>2 DEF PlugIn, PullOut, StrangerMoves
<1>3. CASE EventThread
  BY <1>3
  DEF EventThread, device_hotplug, NotOurs, Left, ArrivedOpen, ArrivedConnected, ArrivedStarts,
      Handles, Idle
<1>4. CASE (\E t \in Readers : ReadThread(t) \/ ReadError(t) \/ ReadPacket(t)) \/ UNCHANGED vars
  BY <1>4
  DEF ReadThread, ReadError, ReadPacket, Connected, Disconnected, ReadFails, Drop, Handshake,
      ReplySent, ReplyFails, HandshakeDone, Close, Dispatch, onDataRead, ReaderOnly, vars, hot
<1>. QED BY <1>2, <1>3, <1>4 DEF Next

Typed == World /\ Registry /\ Shapes /\ Buffered /\ (handler.at # "idle" => events # <<>>)

LEMMA TypedInit == Init => Typed
  BY InitOK, TInitially DEF Init, Idle, Typed

LEMMA TypedStep ==
  ASSUME Typed, [Next]_vars
  PROVE  Typed'
<1>1. (Shapes /\ Buffered)' /\ (handler.at # "idle" => events # <<>>)'
  BY BufferStep, HandlesFirst DEF Typed
<1>2. CASE UNCHANGED vars
  BY <1>1, <1>2 DEF vars, world, device, hot, reader, ghosts, World, Registry, Typed
<1>3. CASE Next
  <2>1. World' /\ Registry'
    BY <1>3, TWorldStep, TReaderStep, TEventStep DEF Next, Typed
  <2>. QED BY <1>1, <2>1 DEF Typed
<1>. QED BY <1>2, <1>3

\* TypeOK: registry, queue and threads keep their types; in particular no event is
\* handled more often than there are callbacks, and the queue stays in its bound
\* (UsbDevice.c: android_device_reg adds a callback for each registration).
THEOREM TypeCorrect == Spec => []TypeOK
<1>1. Typed => TypeOK
  BY DEF Typed, World, Registry, Shapes, TypeOK
<1>. QED
  BY <1>1, TypedInit, TypedStep, PTL DEF Spec

-----------------------------------------------------------------------------
(* The status follows the plug.  The queue is read as a history of the     *)
(* phone: what the events before a place in it will have written to the    *)
(* registry when their turn has come.                                      *)

\* The first n members of q leave v where x was; a member e writes f[e], or nothing.
Leaves(f, nothing, x, q, n, v) ==
  \/ /\ x = v
     /\ \A k \in 1..n : f[q[k]] = nothing
  \/ \E j \in 1..n : /\ f[q[j]] = v /\ v # nothing
                     /\ \A k \in (j + 1)..n : f[q[k]] = nothing

LEMMA LeavesAppend ==
  ASSUME NEW S, NEW q \in Seq(S), NEW e \in S, NEW f, NEW nothing, NEW x, NEW v
  PROVE  /\ \A n \in 0..Len(q) :
              Leaves(f, nothing, x, q, n, v) => Leaves(f, nothing, x, Append(q, e), n, v)
         /\ f[e] = nothing /\ Leaves(f, nothing, x, q, Len(q), v)
              => Leaves(f, nothing, x, Append(q, e), Len(q) + 1, v)
         /\ f[e] = v /\ v # nothing => Leaves(f, nothing, x, Append(q, e), Len(q) + 1, v)
<1>. DEFINE r == Append(q, e)
<1>1. /\ Len(q) \in Nat /\ r[Len(q) + 1] = e
      /\ \A i \in 1..Len(q) : r[i] = q[i]
  OBVIOUS
<1>. HIDE DEF r
<1>2. ASSUME NEW n \in 0..Len(q), Leaves(f, nothing, x, q, n, v)
      PROVE  Leaves(f, nothing, x, r, n, v)
  <2>1. \A i \in 1..n : i \in 1..Len(q)
    BY <1>1
  <2>2. \A j \in 1..n : \A k \in (j + 1)..n : k \in 1..Len(q)
    BY <1>1
  <2>. QED
    BY <1>1, <1>2, <2>1, <2>2 DEF Leaves
<1>3. ASSUME f[e] = nothing, Leaves(f, nothing, x, q, Len(q), v)
      PROVE  Leaves(f, nothing, x, r, Len(q) + 1, v)
  <2>1. \A k \in 1..(Len(q) + 1) : k \in 1..Len(q) \/ k = Len(q) + 1
    BY <1>1
  <2>2. CASE x = v /\ \A k \in 1..Len(q) : f[q[k]] = nothing
    <3>1. \A k \in 1..(Len(q) + 1) : f[r[k]] = nothing
      BY <1>1, <1>3, <2>1, <2>2
    <3>. QED
      BY <2>2, <3>1 DEF Leaves
  <2>3. CASE \E j \in 1..Len(q) : /\ f[q[j]] = v /\ v # nothing
                                  /\ \A k \in (j + 1)..Len(q) : f[q[k]] = nothing
    <3>1. PICK j \in 1..Len(q) : /\ f[q[j]] = v /\ v # nothing
                                 /\ \A k \in (j + 1)..Len(q) : f[q[k]] = nothing
      BY <2>3
    <3>2. \A k \in (j + 1)..(Len(q) + 1) :
            (k \in (j + 1)..Len(q) /\ k \in 1..Len(q)) \/ k = Len(q) + 1
      BY <1>1
    <3>3. \A k \in (j + 1)..(Len(q) + 1) : f[r[k]] = nothing
      BY <1>1, <1>3, <3>1, <3>2
    <3>4. j \in 1..(Len(q) + 1) /\ f[r[j]] = v
      BY <1>1, <3>1
    <3>. QED
      BY <3>1, <3>3, <3>4 DEF Leaves
  <2>. QED
    BY <1>3, <2>2, <2>3 DEF Leaves
<1>4. ASSUME f[e] = v, v # nothing
      PROVE  Leaves(f, nothing, x, r, Len(q) + 1, v)
  <2>1. Len(q) + 1 \in 1..(Len(q) + 1) /\ ((Len(q) + 1) + 1)..(Len(q) + 1) = {}
    BY <1>1
  <2>. QED
    BY <1>1, <1>4, <2>1 DEF Leaves
<1>. QED
  BY <1>2, <1>3, <1>4 DEF r

LEMMA LeavesTail ==
  ASSUME NEW S, NEW q \in Seq(S), q # <<>>, NEW f, NEW nothing, NEW x, NEW v, NEW y,
         NEW n \in 1..Len(q), Leaves(f, nothing, x, q, n, v),
         f[Head(q)] = nothing => y = x, f[Head(q)] # nothing => y = f[Head(q)]
  PROVE  Leaves(f, nothing, y, Tail(q), n - 1, v)
<1>. DEFINE r == Tail(q)
<1>1. /\ Len(q) \in Nat \ {0} /\ Len(r) = Len(q) - 1 /\ Head(q) = q[1]
      /\ \A i \in 1..(Len(q) - 1) : r[i] = q[i + 1]
  OBVIOUS
<1>. HIDE DEF r
<1>2. ASSUME NEW k \in 1..(n - 1) PROVE k + 1 \in 1..n /\ r[k] = q[k + 1]
  BY <1>1
<1>3. CASE x = v /\ \A k \in 1..n : f[q[k]] = nothing
  <2>1. y = v
    BY <1>1, <1>3
  <2>2. \A k \in 1..(n - 1) : f[r[k]] = nothing
    BY <1>2, <1>3
  <2>. QED
    BY <2>1, <2>2 DEF Leaves, r
<1>4. CASE \E j \in 1..n : /\ f[q[j]] = v /\ v # nothing
                           /\ \A k \in (j + 1)..n : f[q[k]] = nothing
  <2>1. PICK j \in 1..n : /\ f[q[j]] = v /\ v # nothing
                          /\ \A k \in (j + 1)..n : f[q[k]] = nothing
    BY <1>4
  <2>2. CASE j = 1
    <3>1. y = v
      BY <1>1, <2>1, <2>2
    <3>2. ASSUME NEW k \in 1..(n - 1) PROVE f[r[k]] = nothing
      <4>1. k + 1 \in (j + 1)..n /\ r[k] = q[k + 1]
        BY <1>1, <1>2, <2>2
      <4>. QED
        BY <2>1, <4>1
    <3>. QED
      BY <3>1, <3>2 DEF Leaves, r
  <2>3. CASE j # 1
    <3>1. j - 1 \in 1..(n - 1) /\ (j - 1) + 1 = j
      BY <1>1, <2>1, <2>3
    <3>2. f[r[j - 1]] = v
      BY <1>2, <2>1, <3>1
    <3>3. ASSUME NEW k \in ((j - 1) + 1)..(n - 1) PROVE f[r[k]] = nothing
      <4>1. k + 1 \in (j + 1)..n /\ k \in 1..(n - 1)
        BY <1>1, <3>1
      <4>. QED
        BY <1>2, <2>1, <4>1
    <3>. QED
      BY <2>1, <3>1, <3>2, <3>3 DEF Leaves, r
  <2>. QED
    BY <2>2, <2>3
<1>. QED
  BY <1>3, <1>4 DEF Leaves

\* One phone, as main registers it, and other accessories behind other root ports.
OnePhone ==
  /\ Registered = 1
  /\ \A p \in StrangerPaths : \A q \in Paths \cup Uninitialised : q[1] # p[1]

\* What an event writes to the registry: the port, and the status.
ports == [e \in Events |-> IF e.kind = "device_arrived" THEN e.path ELSE NoPath]

turns == [e \in Events |->
            IF e.kind = "device_arrived" \/ e.dev = 0 THEN "none"
            ELSE IF e.kind = "ARRIVED" THEN "CONNECTED" ELSE "DISCONNECTED"]

There(where) == IF where = "accessory" THEN "CONNECTED" ELSE "DISCONNECTED"

\* The arrivals and departures of the phone in the queue will find its port noted; when
\* the queue is empty the port and the status will be those of the phone.
Followed(q, port, status, where, p) ==
  /\ q \in Seq(Events)
  /\ \A i \in 1..Len(q) : q[i].kind # "device_arrived" =>
       \/ q[i].dev = 0 /\ q[i].path \in StrangerPaths
       \/ q[i].dev # 0 /\ Leaves(ports, NoPath, port, q, i - 1, q[i].path)
  /\ where # "out" => Leaves(ports, NoPath, port, q, Len(q), p)
  /\ Leaves(turns, "none", status, q, Len(q), There(where))

LEMMA Added ==
  ASSUME NEW q, NEW port, NEW status, NEW where, NEW p, Followed(q, port, status, where, p),
         NEW e \in Events, NEW where2, NEW p2,
         e.kind # "device_arrived" =>
           \/ e.dev = 0 /\ e.path \in StrangerPaths
           \/ e.dev # 0 /\ where # "out" /\ e.path = p,
         where2 # "out" => \/ e.kind = "device_arrived" /\ e.path = p2
                           \/ e.kind # "device_arrived" /\ where # "out" /\ p2 = p,
         turns[e] = "none" => There(where2) = There(where),
         turns[e] # "none" => There(where2) = turns[e]
  PROVE  Followed(Append(q, e), port, status, where2, p2)
<1>. DEFINE r == Append(q, e)
<1>1. q \in Seq(Events) /\ r \in Seq(Events) /\ Len(q) \in Nat /\ Len(r) = Len(q) + 1
      /\ r[Len(q) + 1] = e /\ \A i \in 1..Len(q) : r[i] = q[i]
  BY DEF Followed
<1>. HIDE DEF r
<1>2. /\ \A x, v, f, nothing : \A n \in 0..Len(q) :
           Leaves(f, nothing, x, q, n, v) => Leaves(f, nothing, x, r, n, v)
      /\ \A x, v, f, nothing : f[e] = nothing /\ Leaves(f, nothing, x, q, Len(q), v)
           => Leaves(f, nothing, x, r, Len(r), v)
      /\ \A x, v, f, nothing : f[e] = v /\ v # nothing => Leaves(f, nothing, x, r, Len(r), v)
  BY <1>1, LeavesAppend DEF r
<1>3. ASSUME NEW i \in 1..Len(r), r[i].kind # "device_arrived"
      PROVE  \/ r[i].dev = 0 /\ r[i].path \in StrangerPaths
             \/ r[i].dev # 0 /\ Leaves(ports, NoPath, port, r, i - 1, r[i].path)
  <2>1. CASE i = Len(q) + 1
    <3>1. r[i] = e /\ i - 1 = Len(q) /\ Len(q) \in 0..Len(q)
      BY <1>1, <2>1
    <3>2. CASE e.dev = 0
      BY <1>3, <3>1, <3>2
    <3>3. CASE e.dev # 0
      <4>1. where # "out" /\ e.path = p
        BY <1>3, <3>1, <3>3
      <4>2. Leaves(ports, NoPath, port, q, Len(q), p)
        BY <4>1 DEF Followed
      <4>3. Leaves(ports, NoPath, port, r, Len(q), p)
        BY <1>2, <3>1, <4>2
      <4>. QED
        BY <3>1, <3>3, <4>1, <4>3
    <3>. QED
      BY <3>2, <3>3
  <2>2. CASE i \in 1..Len(q)
    <3>1. i - 1 \in 0..Len(q) /\ r[i] = q[i]
      BY <1>1, <2>2
    <3>2. \/ q[i].dev = 0 /\ q[i].path \in StrangerPaths
          \/ q[i].dev # 0 /\ Leaves(ports, NoPath, port, q, i - 1, q[i].path)
      BY <1>3, <2>2, <3>1 DEF Followed
    <3>. QED
      BY <1>2, <3>1, <3>2
  <2>. QED
    BY <1>1, <1>3, <2>1, <2>2
<1>4. ASSUME where2 # "out" PROVE Leaves(ports, NoPath, port, r, Len(r), p2)
  <2>1. CASE e.kind = "device_arrived"
    <3>1. ports[e] = p2 /\ p2 # NoPath
      BY <1>4, <2>1, DevicesAssumption DEF ports, Events
    <3>. QED
      BY <1>2, <3>1
  <2>2. CASE e.kind # "device_arrived"
    <3>1. ports[e] = NoPath /\ Leaves(ports, NoPath, port, q, Len(q), p2)
      BY <1>4, <2>2 DEF ports, Followed
    <3>. QED
      BY <1>2, <3>1
  <2>. QED
    BY <2>1, <2>2
<1>5. Leaves(turns, "none", status, r, Len(r), There(where2))
  <2>1. CASE turns[e] = "none"
    BY <1>2, <2>1 DEF Followed
  <2>2. CASE turns[e] # "none"
    BY <1>2, <2>2
  <2>. QED
    BY <2>1, <2>2
<1>. QED
  BY <1>1, <1>3, <1>4, <1>5 DEF Followed, r

LEMMA Taken ==
  ASSUME NEW q, NEW port, NEW status, NEW where, NEW p, Followed(q, port, status, where, p),
         q # <<>>, NEW port2, NEW status2,
         ports[Head(q)] = NoPath => port2 = port, ports[Head(q)] # NoPath => port2 = ports[Head(q)],
         turns[Head(q)] = "none" => status2 = status,
         turns[Head(q)] # "none" => status2 = turns[Head(q)]
  PROVE  Followed(Tail(q), port2, status2, where, p)
<1>. DEFINE r == Tail(q)
<1>1. q \in Seq(Events) /\ r \in Seq(Events) /\ Len(q) \in Nat \ {0} /\ Len(r) = Len(q) - 1
      /\ \A i \in 1..Len(r) : r[i] = q[i + 1] /\ i + 1 \in 1..Len(q)
  BY DEF Followed
<1>. HIDE DEF r
<1>2. ASSUME NEW n \in 1..Len(q), NEW v, Leaves(ports, NoPath, port, q, n, v)
      PROVE  Leaves(ports, NoPath, port2, r, n - 1, v)
  BY <1>1, <1>2, LeavesTail DEF r
<1>3. ASSUME NEW v, Leaves(turns, "none", status, q, Len(q), v)
      PROVE  Leaves(turns, "none", status2, r, Len(r), v)
  <2>1. Len(q) \in 1..Len(q) /\ Len(q) - 1 = Len(r)
    BY <1>1
  <2>2. Leaves(turns, "none", status2, r, Len(q) - 1, v)
    BY <1>1, <1>3, <2>1, LeavesTail DEF r
  <2>. QED
    BY <2>1, <2>2
<1>4. ASSUME NEW i \in 1..Len(r), r[i].kind # "device_arrived"
      PROVE  \/ r[i].dev = 0 /\ r[i].path \in StrangerPaths
             \/ r[i].dev # 0 /\ Leaves(ports, NoPath, port2, r, i - 1, r[i].path)
  <2>1. i + 1 \in 1..Len(q) /\ r[i] = q[i + 1] /\ (i + 1) - 1 = i /\ i \in 1..Len(q)
    BY <1>1
  <2>2. \/ r[i].dev = 0 /\ r[i].path \in StrangerPaths
        \/ r[i].dev # 0 /\ Leaves(ports, NoPath, port, q, i, r[i].path)
    BY <1>4, <2>1 DEF Followed
  <2>. QED
    BY <1>2, <2>1, <2>2
<1>5. ASSUME where # "out" PROVE Leaves(ports, NoPath, port2, r, Len(r), p)
  <2>1. Len(q) \in 1..Len(q) /\ Len(q) - 1 = Len(r)
    BY <1>1
  <2>2. Leaves(ports, NoPath, port2, r, Len(q) - 1, p)
    BY <1>2, <1>5, <2>1 DEF Followed
  <2>. QED
    BY <2>1, <2>2
<1>. QED
  BY <1>1, <1>3, <1>4, <1>5 DEF Followed, r

\* While an arrival is being handled it is first in the queue.
PInv ==
  /\ Followed(events, port_numbers[1], conncetion_status[1], place[1], path[1])
  /\ handler.at # "idle" => Head(events).kind = "ARRIVED" /\ Head(events).dev # 0
  /\ handler.at = "connected" => conncetion_status[1] = "CONNECTED"

LEMMA PWorldStep ==
  ASSUME OnePhone, Typed, PInv,
         (\E d \in Devices : PlugIn(d) \/ PullOut(d)) \/ StrangerMoves
  PROVE  PInv'
<1>0. /\ Devices = {1} /\ 0 \in Links /\ StrangerLink \in Links /\ 0..MaxLinks \subseteq Links
      /\ 0 \in 0..Registered /\ 1 \in 0..Registered
  BY DevicesAssumption DEF OnePhone, Devices, Links, StrangerLink
<1>1. /\ World /\ UNCHANGED <<port_numbers, conncetion_status, handler>>
      /\ handler.at # "idle" => events # <<>>
  BY DEF Typed, PlugIn, PullOut, StrangerMoves, device
<1>2. SUFFICES Followed(events', port_numbers[1], conncetion_status[1], place'[1], path'[1])
  <2>1. ASSUME events # <<>>, NEW e, events' = Append(events, e) PROVE Head(events') = Head(events)
    BY <1>1, <2>1 DEF World
  <2>2. events' = events \/ \E e : events' = Append(events, e)
    BY DEF PlugIn, PullOut, StrangerMoves
  <2>. QED
    BY <1>1, <2>1, <2>2 DEF PInv
<1>3. Followed(events, port_numbers[1], conncetion_status[1], place[1], path[1])
  BY DEF PInv
<1>4. CASE PlugIn(1)
  <2>1. PICK p \in Paths : path' = [path EXCEPT ![1] = p]
    BY <1>4 DEF PlugIn
  <2>. DEFINE e == [kind |-> "device_arrived", dev |-> 1, path |-> p, link |-> 0]
  <2>2. path'[1] = p /\ place'[1] = "android" /\ place[1] = "out"
    BY <1>0, <1>1, <1>4, <2>1 DEF PlugIn, World
  <2>3. events' = Append(events, e)
    BY <1>4, <2>2 DEF PlugIn, Event
  <2>4. e \in Events
    BY <1>0 DEF Events, Kinds
  <2>5. turns[e] = "none" /\ There(place'[1]) = There(place[1])
    BY <2>2, <2>4 DEF turns, There
  <2>6. e.kind = "device_arrived" /\ e.path = path'[1]
    BY <2>2
  <2>. HIDE DEF e
  <2>. QED
    BY <1>3, <2>3, <2>4, <2>5, <2>6, Added
<1>5. CASE PullOut(1)
  <2>1. path' = path /\ place[1] # "out" /\ place'[1] = "out"
    BY <1>0, <1>1, <1>5 DEF PullOut, World
  <2>2. CASE place[1] = "accessory"
    <3>. DEFINE e == [kind |-> "LEFT", dev |-> 1, path |-> path[1], link |-> link[1]]
    <3>1. events' = Append(events, e)
      BY <1>5, <2>1, <2>2 DEF PullOut, Event
    <3>2. e \in Events
      BY <1>0, <1>1, <2>1 DEF Events, Kinds, World
    <3>3. turns[e] = "DISCONNECTED" /\ There(place'[1]) = "DISCONNECTED"
      BY <2>1, <3>2 DEF turns, There
    <3>. QED
      BY <1>3, <2>1, <3>1, <3>2, <3>3, Added
  <2>3. CASE place[1] # "accessory"
    <3>1. events' = events /\ There(place'[1]) = There(place[1])
      BY <1>5, <2>1, <2>3 DEF PullOut, There
    <3>. QED
      BY <1>3, <2>1, <3>1 DEF Followed
  <2>. QED
    BY <2>2, <2>3
<1>6. CASE StrangerMoves
  <2>1. PICK kind \in {"ARRIVED", "LEFT"}, p \in StrangerPaths :
          events' = Append(events, StrangerEvent(kind, p))
    BY <1>1, <1>6 DEF StrangerMoves, World
  <2>. DEFINE e == StrangerEvent(kind, p)
  <2>2. e \in Events /\ e.dev = 0 /\ e.path \in StrangerPaths /\ e.kind # "device_arrived"
    BY <1>0 DEF StrangerEvent, Events, Kinds
  <2>3. turns[e] = "none" /\ UNCHANGED <<place, path>>
    BY <1>6, <2>2 DEF turns, StrangerMoves
  <2>. HIDE DEF e
  <2>4. place[1] # "out" \/ place[1] = "out"
    OBVIOUS
  <2>. QED
    BY <1>3, <2>1, <2>2, <2>3, Added DEF e
<1>. QED
  BY <1>0, <1>4, <1>5, <1>6

LEMMA PEventStep ==
  ASSUME OnePhone, Typed, PInv, EventThread
  PROVE  PInv'
<1>0. /\ Devices = {1} /\ Registered = 1 /\ calls = 0
      /\ DOMAIN port_numbers = {1} /\ DOMAIN conncetion_status = {1}
      /\ handler = [at |-> handler.at, dev |-> 1]
      /\ handler.at # "idle" => events # <<>>
  BY DEF OnePhone, Devices, Typed, Registry, Shapes
<1>. DEFINE e == Head(events)
<1>1. events # <<>> => e \in Events /\ 1 \in 1..Len(events) /\ e = events[1]
  BY DEF Typed, World
<1>2. Followed(events, port_numbers[1], conncetion_status[1], place[1], path[1])
  BY DEF PInv
\* A callback for the phone finds its port, one for a stranger does not.
<1>3. ASSUME events # <<>>, e.kind # "device_arrived"
      PROVE  Matches(1, e.path) <=> e.dev # 0
  <2>1. \/ e.dev = 0 /\ e.path \in StrangerPaths
        \/ e.dev # 0 /\ Leaves(ports, NoPath, port_numbers[1], events, 1 - 1, e.path)
    BY <1>1, <1>2, <1>3 DEF Followed
  <2>2. CASE e.dev = 0 /\ e.path \in StrangerPaths
    <3>1. port_numbers[1] \in Paths \cup Uninitialised
      BY <1>0 DEF Typed, Registry
    <3>. QED
      BY <2>2, <3>1 DEF Matches, OnePhone
  <2>3. CASE e.dev # 0 /\ Leaves(ports, NoPath, port_numbers[1], events, 1 - 1, e.path)
    <3>1. 1..(1 - 1) = {}
      OBVIOUS
    <3>2. port_numbers[1] = e.path
      BY <2>3, <3>1 DEF Leaves
    <3>. QED
      BY <2>3, <3>2 DEF Matches
  <2>. QED
    BY <2>1, <2>2, <2>3
<1>4. events # <<>> /\ e.kind # "device_arrived" =>
        /\ ports[e] = NoPath
        /\ e.dev = 0 => turns[e] = "none"
        /\ e.dev # 0 => turns[e] = (IF e.kind = "ARRIVED" THEN "CONNECTED" ELSE "DISCONNECTED")
  BY <1>1 DEF ports, turns
<1>. HIDE DEF e
<1>5. CASE device_hotplug
  <2>1. events # <<>> /\ e.kind = "device_arrived" /\ e.dev = 1 /\ e.path \in Paths
    BY <1>0, <1>1, <1>5 DEF device_hotplug, Handles, Events, e
  <2>2. /\ port_numbers'[1] = e.path /\ UNCHANGED <<conncetion_status, handler>>
        /\ handler.at = "idle"
    BY <1>0, <1>5, <2>1 DEF device_hotplug, Handles, e
  <2>3. ports[e] = e.path /\ e.path # NoPath /\ turns[e] = "none"
    BY <1>1, <2>1, DevicesAssumption DEF ports, turns
  <2>4. Followed(Tail(events), port_numbers'[1], conncetion_status[1], place[1], path[1])
    BY <1>2, <2>1, <2>2, <2>3, Taken DEF e
  <2>5. CASE UNCHANGED world /\ events' = Tail(events)
    BY <2>2, <2>4, <2>5 DEF PInv, world
  <2>6. CASE ~(UNCHANGED world /\ events' = Tail(events))
    <3>. DEFINE a == [kind |-> "ARRIVED", dev |-> 1, path |-> path[1], link |-> links + 1]
    <3>1. /\ place[1] = "android" /\ place'[1] = "accessory" /\ path' = path /\ links < MaxLinks
          /\ events' = Append(Tail(events), a)
      BY <1>0, <1>5, <2>1, <2>6 DEF device_hotplug, e, Event, Typed, World
    <3>2. links + 1 \in Links /\ path[1] \in Paths
      BY <1>0, <3>1, DevicesAssumption DEF Typed, World, Links, StrangerLink
    <3>3. a \in Events
      BY <1>0, <3>2 DEF Events, Kinds
    <3>4. turns[a] = "CONNECTED" /\ There(place'[1]) = "CONNECTED"
      BY <3>1, <3>3 DEF turns, There
    <3>5. a.kind = "ARRIVED" /\ a.path = path[1] /\ a.dev # 0
      OBVIOUS
    <3>. HIDE DEF a
    <3>6. Followed(Append(Tail(events), a), port_numbers'[1], conncetion_status[1],
                   place'[1], path[1])
      BY <2>4, <3>1, <3>3, <3>4, <3>5, Added
    <3>. QED
      BY <2>2, <3>1, <3>6 DEF PInv
  <2>. QED
    BY <2>5, <2>6
<1>6. CASE NotOurs
  <2>1. /\ events # <<>> /\ e.kind # "device_arrived" /\ ~Matches(1, e.path)
        /\ events' = Tail(events) /\ handler.at = "idle"
        /\ UNCHANGED <<place, path, port_numbers, conncetion_status, handler>>
    BY <1>0, <1>6 DEF NotOurs, Handles, Handled, world, device, e
  <2>2. e.dev = 0
    BY <1>3, <2>1
  <2>3. Followed(Tail(events), port_numbers[1], conncetion_status[1], place[1], path[1])
    BY <1>2, <1>4, <2>1, <2>2, Taken DEF e
  <2>. QED
    BY <2>1, <2>3 DEF PInv
<1>7. CASE Left
  <2>1. /\ events # <<>> /\ e.kind = "LEFT" /\ Matches(1, e.path)
        /\ events' = Tail(events) /\ handler.at = "idle"
        /\ conncetion_status'[1] = "DISCONNECTED"
        /\ UNCHANGED <<place, path, port_numbers, handler>>
    BY <1>0, <1>7 DEF Left, Handles, Handled, FirstMatch, world, e
  <2>2. e.dev # 0
    BY <1>3, <2>1
  <2>3. Followed(Tail(events), port_numbers[1], conncetion_status'[1], place[1], path[1])
    BY <1>2, <1>4, <2>1, <2>2, Taken DEF e
  <2>. QED
    BY <2>1, <2>3 DEF PInv
<1>8. CASE ArrivedOpen
  <2>1. /\ events # <<>> /\ e.kind = "ARRIVED" /\ Matches(1, e.path)
        /\ handler'.at = "opened"
        /\ UNCHANGED <<events, place, path, port_numbers, conncetion_status>>
    BY <1>0, <1>8 DEF ArrivedOpen, Handles, FirstMatch, world, e
  <2>2. e.dev # 0
    BY <1>3, <2>1
  <2>. QED
    BY <1>2, <2>1, <2>2 DEF PInv, e
<1>9. CASE ArrivedConnected
  <2>1. /\ handler.at = "opened" /\ handler'.at = "connected"
        /\ conncetion_status'[1] = "CONNECTED"
        /\ UNCHANGED <<events, place, path, port_numbers>>
    BY <1>0, <1>9 DEF ArrivedConnected, world
  <2>2. events # <<>> /\ e.kind = "ARRIVED" /\ e.dev # 0 /\ e = events[1] /\ Len(events) \in Nat
    BY <1>0, <1>1, <2>1 DEF PInv, Typed, World, e
  <2>3. turns[events[1]] = "CONNECTED" /\ 1 \in 1..Len(events)
    BY <1>1, <1>4, <2>2
  <2>4. Leaves(turns, "none", conncetion_status'[1], events, Len(events), There(place[1]))
    <3>1. Leaves(turns, "none", conncetion_status[1], events, Len(events), There(place[1]))
      BY <1>2 DEF Followed
    <3>. QED
      BY <2>3, <3>1 DEF Leaves
  <2>. QED
    BY <1>2, <2>1, <2>2, <2>4 DEF PInv, Followed, e
<1>10. CASE ArrivedStarts
  <2>1. /\ handler.at = "connected" /\ handler'.at = "idle" /\ events' = Tail(events)
        /\ UNCHANGED <<place, path, port_numbers, conncetion_status>>
    BY <1>0, <1>10 DEF ArrivedStarts, Handled, Idle, world
  <2>2. events # <<>> /\ e.kind = "ARRIVED" /\ e.dev # 0 /\ conncetion_status[1] = "CONNECTED"
    BY <1>0, <2>1 DEF PInv, e
  <2>3. Followed(Tail(events), port_numbers[1], conncetion_status[1], place[1], path[1])
    BY <1>2, <1>4, <2>2, Taken DEF e
  <2>. QED
    BY <2>1, <2>3 DEF PInv
<1>. QED
  BY <1>5, <1>6, <1>7, <1>8, <1>9, <1>10 DEF EventThread

\* StatusFollowsPlug, for one registered phone and strangers behind other root ports:
\* once the event thread has caught up, the status says whether the phone is there
\* (UsbDevice.c: accessory_hotplug, device_hotplug, android_device_match_port).
THEOREM PlugFollowed ==
  ASSUME OnePhone
  PROVE  Spec => []StatusFollowsPlug
<1>1. Init => Typed /\ PInv
  <2>. SUFFICES ASSUME Init PROVE PInv
    BY TypedInit
  <2>1. /\ place[1] = "out" /\ conncetion_status[1] = "DISCONNECTED" /\ handler.at = "idle"
        /\ events = <<>> /\ 1..Len(events) = {} /\ events \in Seq(Events)
    BY DEF Init, Idle, OnePhone, Devices
  <2>. QED
    BY <2>1 DEF PInv, Followed, Leaves, There
<1>2. Typed /\ PInv /\ [Next]_vars => (Typed /\ PInv)'
  <2>. SUFFICES ASSUME Typed, PInv, [Next]_vars PROVE PInv'
    BY TypedStep
  <2>1. CASE \/ \E t \in Readers : ReadThread(t) \/ ReadError(t) \/ ReadPacket(t)
             \/ UNCHANGED vars
    <3>1. UNCHANGED <<events, handler, port_numbers, conncetion_status, place, path>>
      BY <2>1
      DEF ReadThread, ReadError, ReadPacket, Connected, Disconnected, ReadFails, Drop, Handshake,
          ReplySent, ReplyFails, HandshakeDone, Close, Dispatch, onDataRead, ReaderOnly, vars, hot,
          world, device
    <3>. QED
      BY <3>1 DEF PInv
  <2>. QED
    BY <2>1, PWorldStep, PEventStep DEF Next
<1>3. Typed /\ PInv => StatusFollowsPlug
  <2>. SUFFICES ASSUME Typed, PInv, events = <<>>
                PROVE  conncetion_status[1] = "CONNECTED" <=> place[1] = "accessory"
    BY DEF StatusFollowsPlug, OnePhone, Devices
  <2>1. Leaves(turns, "none", conncetion_status[1], events, 0, There(place[1]))
    BY DEF PInv, Followed
  <2>2. 1..0 = {}
    OBVIOUS
  <2>. QED
    BY <2>1, <2>2 DEF Leaves, There
<1>. QED
  BY <1>1, <1>2, <1>3, PTL DEF Spec
=============================================================================
