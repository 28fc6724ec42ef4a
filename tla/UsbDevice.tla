----------------------------- MODULE UsbDevice -----------------------------
(* The daemon's USB layer (Linux/UsbDevice.c): the registry of devices,    *)
(* the event thread that runs the hotplug callbacks, and the read threads  *)
(* it starts, one for each accessory that arrives.                         *)
(*                                                                         *)
(* A registered device stands for a phone model.  Plugging the phone in    *)
(* makes the daemon switch it to accessory mode, in which all phones have  *)
(* the same vendor and product id, and the daemon knows it by its port.    *)
EXTENDS Integers, Sequences

CONSTANTS Registered,  \* number of devices registered with android_device_reg
          Paths,       \* port paths of the phones, as sequences of port numbers
          StrangerPaths,  \* port paths of an accessory of another program
          Uninitialised,  \* what the port_numbers of a new device may hold
          MaxLinks,    \* bound: accessory connections
          MaxThreads,  \* bound: read threads
          MaxEvents    \* bound: hotplug events waiting

Devices == 1..Registered
StrangerLink == MaxLinks + 1
Links   == 0..StrangerLink
Readers == 1..MaxThreads
NoPath  == <<0, 0>>

ASSUME DevicesAssumption ==
  /\ Registered \in Nat \ {0} /\ MaxLinks \in Nat /\ MaxThreads \in Nat /\ MaxEvents \in Nat
  /\ NoPath \notin Paths \cup StrangerPaths
  /\ Paths \cap StrangerPaths = {}

VARIABLES
  place,     \* of each phone: "out", "android" or "accessory"
  path,      \* the port path each phone is plugged into
  link,      \* the USB connection of each phone in accessory mode, or 0
  links,     \* number of connections so far
  stranger,  \* where the other accessory is plugged in, or NoPath
  events,    \* hotplug events that the event thread has not handled
  calls,     \* times accessory_hotplug was called for the first of them
  handler,   \* the event thread: [at, dev], where it is inside accessory_hotplug
  port_numbers, conncetion_status, transfer_status, device_handle,
  buffer,    \* the device has a buffer
  pc,        \* where each read thread is; "none" before pthread_create
  reads,     \* [dev, link]: the device of a read thread, the connection it reads from
  threads,   \* number of read threads created
  shaken,    \* the connection each device last completed a handshake on
  overlap,   \* a read thread was alive when the device's last accessory arrived
  daemon     \* "up", or "down" after a crash

world  == <<place, path, link, links, stranger>>
device == <<port_numbers, conncetion_status, transfer_status, device_handle, buffer>>
hot    == <<events, calls, handler>>
reader == <<pc, reads, threads>>
ghosts == <<shaken, overlap>>
vars   == <<world, device, hot, reader, ghosts, daemon>>

Idle == [at |-> "idle", dev |-> 1]

Init ==
  /\ place = [d \in Devices |-> "out"] /\ path = [d \in Devices |-> NoPath]
  /\ link = [d \in Devices |-> 0] /\ links = 0
  /\ stranger = NoPath
  /\ events = <<>> /\ calls = 0 /\ handler = Idle
  /\ port_numbers \in [Devices -> Uninitialised]
  /\ conncetion_status = [d \in Devices |-> "DISCONNECTED"]
  /\ transfer_status = [d \in Devices |-> "HANDSHAKE"]
  /\ device_handle = [d \in Devices |-> 0]
  /\ buffer = [d \in Devices |-> FALSE]
  /\ pc = [t \in Readers |-> "none"]
  /\ reads = [t \in Readers |-> [dev |-> 1, link |-> 0]]
  /\ threads = 0
  /\ shaken = [d \in Devices |-> 0] /\ overlap = [d \in Devices |-> FALSE]
  /\ daemon = "up"

Alive(t)   == pc[t] \notin {"none", "ended"}
Live(l)    == \/ \E d \in Devices : link[d] = l /\ l # 0
              \/ stranger # NoPath /\ l = StrangerLink

Event(kind, d, l)    == [kind |-> kind, dev |-> d, path |-> path'[d], link |-> l]
StrangerEvent(kind, p) == [kind |-> kind, dev |-> 0, path |-> p, link |-> StrangerLink]

-----------------------------------------------------------------------------
(* The phones.                                                             *)

PlugIn(d) ==
  /\ place[d] = "out"
  /\ Len(events) < MaxEvents
  /\ \E p \in Paths :
       /\ \A e \in Devices : place[e] # "out" => path[e] # p
       /\ path' = [path EXCEPT ![d] = p]
  /\ place' = [place EXCEPT ![d] = "android"]
  /\ events' = Append(events, Event("device_arrived", d, 0))
  /\ UNCHANGED <<link, links, stranger, device, calls, handler, reader, ghosts, daemon>>

\* Only accessories are watched for leaving.
PullOut(d) ==
  /\ place[d] # "out"
  /\ Len(events) < MaxEvents
  /\ place' = [place EXCEPT ![d] = "out"]
  /\ link' = [link EXCEPT ![d] = 0]
  /\ UNCHANGED <<path, links, stranger>>
  /\ events' = IF place[d] = "accessory"
               THEN Append(events, Event("LEFT", d, link[d])) ELSE events
  /\ UNCHANGED <<device, calls, handler, reader, ghosts, daemon>>

\* An accessory that another program switched comes and goes.
StrangerMoves ==
  /\ Len(events) < MaxEvents
  /\ \/ /\ stranger = NoPath
        /\ stranger' \in StrangerPaths
        /\ events' = Append(events, StrangerEvent("ARRIVED", stranger'))
     \/ /\ stranger # NoPath
        /\ stranger' = NoPath
        /\ events' = Append(events, StrangerEvent("LEFT", stranger))
  /\ UNCHANGED <<place, path, link, links, device, calls, handler, reader, ghosts, daemon>>

-----------------------------------------------------------------------------
(* The event thread.                                                       *)

Handles(kind) ==
  /\ daemon = "up"
  /\ handler.at = "idle"
  /\ events # <<>>
  /\ Head(events).kind = kind

\* Notes the port and asks the phone to switch; the phone comes back as an accessory
\* on the same port unless a control transfer fails.
device_hotplug ==
  /\ Handles("device_arrived")
  /\ LET e == Head(events) IN
       /\ port_numbers' = [port_numbers EXCEPT ![e.dev] = e.path]
       /\ \/ /\ place[e.dev] = "android" /\ path[e.dev] = e.path
             /\ links < MaxLinks
             /\ links' = links + 1
             /\ place' = [place EXCEPT ![e.dev] = "accessory"]
             /\ link' = [link EXCEPT ![e.dev] = links + 1]
             /\ UNCHANGED <<path, stranger>>
             /\ events' = Append(Tail(events), Event("ARRIVED", e.dev, links + 1))
          \/ /\ UNCHANGED world
             /\ events' = Tail(events)
  /\ UNCHANGED <<conncetion_status, transfer_status, device_handle, buffer,
                 calls, handler, reader, ghosts, daemon>>

\* Mutant: compares the last port number.
MatchesLast(d, p) == port_numbers[d][2] = p[2]

\* The comparison looks at the first port number only.
Matches(d, p) == port_numbers[d][1] = p[1]

\* android_device_match_port returns the first match.
FirstMatch(d, p) == Matches(d, p) /\ \A e \in Devices : Matches(e, p) => d <= e

\* Mutant: the number of callbacks served is not reset.
HandledNoReset ==
  IF calls + 1 >= Registered
  THEN events' = Tail(events) /\ calls' = calls + 1
  ELSE UNCHANGED events /\ calls' = calls + 1

\* Every registration added an accessory callback: each event is handled that often.
Handled ==
  IF calls + 1 = Registered
  THEN events' = Tail(events) /\ calls' = 0
  ELSE UNCHANGED events /\ calls' = calls + 1

NotOurs ==
  /\ Handles("ARRIVED") \/ Handles("LEFT")
  /\ \A d \in Devices : ~Matches(d, Head(events).path)
  /\ Handled
  /\ UNCHANGED <<world, device, handler, reader, ghosts, daemon>>

\* libusb_open; the errors of open, detach and claim are printed and ignored.  The
\* handle of a device that was never opened is uninitialised memory.
ArrivedOpen ==
  /\ Handles("ARRIVED")
  /\ \E d \in Devices :
       /\ FirstMatch(d, Head(events).path)
       /\ handler' = [at |-> "opened", dev |-> d]
       /\ \/ /\ Live(Head(events).link)
             /\ device_handle' = [device_handle EXCEPT ![d] = Head(events).link]
             /\ UNCHANGED <<pc, daemon>>
          \/ /\ ~Live(Head(events).link)
             /\ UNCHANGED <<device_handle, pc, daemon>>
          \/ /\ ~Live(Head(events).link) /\ device_handle[d] = 0
             /\ daemon' = "down"
             /\ pc' = [t \in Readers |-> IF Alive(t) THEN "ended" ELSE pc[t]]
             /\ UNCHANGED device_handle
  /\ UNCHANGED <<world, port_numbers, conncetion_status, transfer_status, buffer,
                 events, calls, reads, threads, ghosts>>

ArrivedConnected ==
  /\ daemon = "up"
  /\ handler.at = "opened"
  /\ conncetion_status' = [conncetion_status EXCEPT ![handler.dev] = "CONNECTED"]
  /\ handler' = [handler EXCEPT !.at = "connected"]
  /\ UNCHANGED <<world, port_numbers, transfer_status, device_handle, buffer,
                 events, calls, reader, ghosts, daemon>>

ArrivedStarts ==
  /\ daemon = "up"
  /\ handler.at = "connected"
  /\ threads < MaxThreads
  /\ transfer_status' = [transfer_status EXCEPT ![handler.dev] = "HANDSHAKE"]
  /\ threads' = threads + 1
  /\ pc' = [pc EXCEPT ![threads + 1] = "loop"]
  /\ reads' = [reads EXCEPT ![threads + 1].dev = handler.dev]
  /\ overlap' = [overlap EXCEPT ![handler.dev] =
                   \E t \in Readers : Alive(t) /\ reads[t].dev = handler.dev]
  /\ handler' = Idle
  /\ Handled
  /\ UNCHANGED <<world, port_numbers, conncetion_status, device_handle, buffer, shaken, daemon>>

Left ==
  /\ Handles("LEFT")
  /\ \E d \in Devices :
       /\ FirstMatch(d, Head(events).path)
       /\ conncetion_status' = [conncetion_status EXCEPT ![d] = "DISCONNECTED"]
  /\ Handled
  /\ UNCHANGED <<world, port_numbers, transfer_status, device_handle, buffer,
                 handler, reader, ghosts, daemon>>

-----------------------------------------------------------------------------
(* A read thread.                                                          *)

dev(t) == reads[t].dev

\* What the steps of a read thread leave alone.
ReaderOnly == UNCHANGED <<world, port_numbers, conncetion_status, device_handle, hot,
                          threads, overlap, daemon>>

At(t, label, next) == pc[t] = label /\ pc' = [pc EXCEPT ![t] = next]

\* The loop condition, and the call of libusb_bulk_transfer with today's handle.
Connected(t) ==
  /\ conncetion_status[dev(t)] = "CONNECTED"
  /\ At(t, "loop", "read")
  /\ reads' = [reads EXCEPT ![t].link = device_handle[dev(t)]]
  /\ UNCHANGED <<transfer_status, buffer, shaken>> /\ ReaderOnly

Disconnected(t) ==
  /\ conncetion_status[dev(t)] # "CONNECTED"
  /\ At(t, "loop", "ended")
  /\ UNCHANGED <<transfer_status, buffer, shaken, reads>> /\ ReaderOnly

\* Mutant: a failed read is repeated at once.
RepeatRead(t) ==
  /\ ~Live(reads[t].link)
  /\ At(t, "read", "read")
  /\ reads' = [reads EXCEPT ![t].link = device_handle[dev(t)]]
  /\ UNCHANGED <<transfer_status, buffer, shaken>> /\ ReaderOnly

\* A read from a connection that is gone fails.
ReadFails(t) ==
  /\ ~Live(reads[t].link)
  /\ At(t, "read", "loop")
  /\ UNCHANGED <<transfer_status, buffer, shaken, reads>> /\ ReaderOnly

\* A read may also fail while the connection lasts.
ReadError(t) ==
  /\ Live(reads[t].link)
  /\ At(t, "read", "loop")
  /\ UNCHANGED <<transfer_status, buffer, shaken, reads>> /\ ReaderOnly

PacketTypes == {"PACKET_HANDSHAKE", "PACKET_DATA", "PACKET_CLOSE"}

ReadPacket(t) ==
  /\ Live(reads[t].link)
  /\ \E type \in PacketTypes : At(t, "read", type)
  /\ UNCHANGED <<transfer_status, buffer, shaken, reads>> /\ ReaderOnly

Expecting(t) == transfer_status[dev(t)] = "HANDSHAKE"

\* Not the packet the transfer status calls for: dropped.
Drop(t) ==
  /\ \/ Expecting(t) /\ (At(t, "PACKET_DATA", "loop") \/ At(t, "PACKET_CLOSE", "loop"))
     \/ ~Expecting(t) /\ At(t, "PACKET_HANDSHAKE", "loop")
  /\ UNCHANGED <<transfer_status, buffer, shaken, reads>> /\ ReaderOnly

\* Mutant: the buffer is left to REQUEST_FB_DIMS.
HandshakeNoBuffer(t) ==
  /\ Expecting(t)
  /\ At(t, "PACKET_HANDSHAKE", "reply")
  /\ UNCHANGED <<transfer_status, buffer, shaken, reads>> /\ ReaderOnly

\* Byte order, packet size and a buffer of that size.
Handshake(t) ==
  /\ Expecting(t)
  /\ At(t, "PACKET_HANDSHAKE", "reply")
  /\ buffer' = [buffer EXCEPT ![dev(t)] = TRUE]
  /\ UNCHANGED <<transfer_status, shaken, reads>> /\ ReaderOnly

\* Mutant: the result of the transfer is not looked at.
ReplyIgnored(t) ==
  /\ At(t, "reply", "replied")
  /\ UNCHANGED <<transfer_status, buffer, shaken, reads>> /\ ReaderOnly

\* android_device_send_data, at most 7.5 s, to the handle the device has by now.
ReplySent(t) ==
  /\ Live(device_handle[dev(t)])
  /\ At(t, "reply", "replied")
  /\ shaken' = [shaken EXCEPT ![dev(t)] = device_handle[dev(t)]]
  /\ UNCHANGED <<transfer_status, buffer, reads>> /\ ReaderOnly

ReplyFails(t) ==
  /\ At(t, "reply", "loop")
  /\ UNCHANGED <<transfer_status, buffer, shaken, reads>> /\ ReaderOnly

HandshakeDone(t) ==
  /\ At(t, "replied", "loop")
  /\ transfer_status' = [transfer_status EXCEPT ![dev(t)] = "WAITING"]
  /\ UNCHANGED <<buffer, shaken, reads>> /\ ReaderOnly

Close(t) ==
  /\ ~Expecting(t)
  /\ At(t, "PACKET_CLOSE", "loop")
  /\ transfer_status' = [transfer_status EXCEPT ![dev(t)] = "HANDSHAKE"]
  /\ UNCHANGED <<buffer, shaken, reads>> /\ ReaderOnly

Dispatch(t) ==
  /\ ~Expecting(t)
  /\ At(t, "PACKET_DATA", "callback")
  /\ UNCHANGED <<transfer_status, buffer, shaken, reads>> /\ ReaderOnly

\* onDataRead (Main.c): keys and dimensions leave the status alone, START and STOP
\* set it.
onDataRead(t) ==
  /\ At(t, "callback", "loop")
  /\ \E s \in {transfer_status[dev(t)], "SCREEN_SHARE", "WAITING"} :
       transfer_status' = [transfer_status EXCEPT ![dev(t)] = s]
  /\ UNCHANGED <<buffer, shaken, reads>> /\ ReaderOnly

-----------------------------------------------------------------------------
EventThread == device_hotplug \/ NotOurs \/ ArrivedOpen \/ ArrivedConnected \/ ArrivedStarts \/ Left

\* The steps a read thread takes without waiting for the phone.
ReadThread(t) ==
  \/ Connected(t) \/ Disconnected(t) \/ ReadFails(t) \/ Drop(t) \/ Handshake(t)
  \/ ReplySent(t) \/ ReplyFails(t) \/ HandshakeDone(t) \/ Close(t)
  \/ Dispatch(t) \/ onDataRead(t)

Next ==
  \/ \E d \in Devices : PlugIn(d) \/ PullOut(d)
  \/ StrangerMoves
  \/ EventThread
  \/ \E t \in Readers : ReadThread(t) \/ ReadError(t) \/ ReadPacket(t)

Spec == Init /\ [][Next]_vars

\* The threads run.  Nothing makes the user plug in a phone, or the phone send.
FairSpec == Spec /\ WF_vars(EventThread) /\ \A t \in Readers : WF_vars(ReadThread(t))

-----------------------------------------------------------------------------
(* Properties.                                                             *)

Labels == {"none", "loop", "read", "reply", "replied", "callback", "ended"} \cup PacketTypes

\* Type correctness of the registry, the event thread and the read threads.
TypeOK ==
  /\ place \in [Devices -> {"out", "android", "accessory"}]
  /\ path \in [Devices -> Paths \cup {NoPath}]
  /\ link \in [Devices -> 0..MaxLinks] /\ links \in 0..MaxLinks
  /\ Len(events) <= MaxEvents /\ calls \in 0..(Registered - 1)
  /\ handler \in [at : {"idle", "opened", "connected"}, dev : Devices]
  /\ stranger \in StrangerPaths \cup {NoPath}
  /\ port_numbers \in [Devices -> Paths \cup Uninitialised]
  /\ conncetion_status \in [Devices -> {"CONNECTED", "DISCONNECTED"}]
  /\ transfer_status \in [Devices -> {"HANDSHAKE", "WAITING", "SCREEN_SHARE"}]
  /\ device_handle \in [Devices -> Links] /\ buffer \in [Devices -> BOOLEAN]
  /\ pc \in [Readers -> Labels] /\ threads \in 0..MaxThreads
  /\ reads \in [Readers -> [dev : Devices, link : Links]]
  /\ shaken \in [Devices -> Links] /\ overlap \in [Devices -> BOOLEAN]
  /\ daemon \in {"up", "down"}

\* Main.c's callback finds a buffer in the device, which it writes without looking:
\* also when the connection was replaced while the packet was on its way to it.
CallbackHasBuffer ==
  /\ \A t \in Readers : pc[t] = "callback" => buffer[dev(t)]
  /\ \A d \in Devices : transfer_status[d] # "HANDSHAKE" => buffer[d]

\* A device past its handshake has completed one on the connection it is using, as
\* long as no read thread of an earlier connection was alive when this one arrived.
\* (With such a thread it fails: it may write the status after the reset.)
ShakenHere ==
  \A d \in Devices :
    conncetion_status[d] = "CONNECTED" /\ transfer_status[d] # "HANDSHAKE"
    /\ ~overlap[d] /\ (handler.at = "idle" \/ handler.dev # d)
      => shaken[d] = device_handle[d]

\* Once the event thread has caught up, the connection status of the one device
\* main registers says whether its phone is there as an accessory, through every
\* change of port, every order of unplugging and handling, and whatever an accessory
\* behind another root port does.
StatusFollowsPlug ==
  events = <<>> /\ handler.at = "idle" /\ daemon = "up"
    => \A d \in Devices : conncetion_status[d] = "CONNECTED" <=> place[d] = "accessory"

\* A device that stays disconnected has no read thread left in the end.
DisconnectEndsReaders ==
  \A d \in Devices :
    <>[](conncetion_status[d] = "DISCONNECTED")
      => <>[](\A t \in Readers : dev(t) = d => ~Alive(t))

\* UsbDevice.c:182: "I destinguish between accessory mode devices using their port
\* address": an arrival is taken for the device that was seen on that port.
ArrivalsByPort ==
  [][ArrivedOpen => port_numbers[handler'.dev] = Head(events).path]_vars
=============================================================================
