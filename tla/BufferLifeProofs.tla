-------------------------- MODULE BufferLifeProofs --------------------------
(* Proofs about BufferLife, for any number of pairs of threads: threads    *)
(* run only when their memory was prepared; undisturbed, they keep to      *)
(* memory that is theirs, and pack at most two frames no capture filled.   *)
EXTENDS BufferLife, ScreenShareProofs

\* BufferLife implements ScreenShare: what becomes of the memory, a crash of the daemon
\* included, changes no thread's control but by stopping it (UsbDevice.c: ssMode,
\* ss_start, x11_thread, usb_send_thread).
THEOREM ImplementsScreenShare == BufferSpec => Spec
<1>1. BufferInit => Init
  BY DEF BufferInit
<1>2. [BufferNext]_all => [Next]_vars
  <2>1. Control \/ DimsOffered \/ AskedStart => Next
    BY DEF Control, DimsOffered, AskedStart, Next, ReaderServes, ReaderWorks, x11_thread, usb_send_thread
  <2>2. HandshakeBuffer \/ DimsReply \/ DimsAllocates \/ StartThreads => [Next]_vars
    BY DEF HandshakeBuffer, DimsReply, DimsAllocates, StartThreads, Next, ReaderServes, ReaderWorks
  <2>3. ASSUME NEW i \in Pairs,
               \/ CopyBegins(i) \/ CopyEnds(i) \/ PackBegins(i) \/ TransferBegins(i)
               \/ TransferEnds(i) \/ SynBegins(i) \/ SynEnds(i)
        PROVE  [Next]_vars
    BY <2>3 DEF CopyBegins, CopyEnds, PackBegins, TransferBegins, TransferEnds, SynBegins,
                SynEnds, Next, x11_thread, usb_send_thread
  <2>4. ASSUME NEW i \in Pairs, CaptureCrashes(i) PROVE UNCHANGED vars
    BY <2>4 DEF CaptureCrashes
  <2>5. UNCHANGED all => UNCHANGED vars
    BY DEF all
  <2> QED BY <2>1, <2>2, <2>3, <2>4, <2>5 DEF BufferNext
<1> QED BY <1>1, <1>2, PTL DEF BufferSpec, Spec

\* So what ScreenShareProofs shows of the control holds with the memory behind it, too:
\* the mutexes are held by one thread each and every wait for one ends, START and STOP
\* keep the promise of one capture at a time, a stopped one winds down, and what is
\* shared has its threads.
THEOREM ControlWithMemory ==
  BufferSpec => [](LocksOwned /\ WaitsEnd /\ SharingHasThreads /\ SlotInBounds)
                /\ KeepsPromise /\ WindsDown
  BY ImplementsScreenShare, MutexesReleased, EveryWaitEnds, StartedSharingIsAlive, SlotsInBounds,
     CapturesAsPromised, StopWindsDown, PTL

LEMMA BaseAlways == BufferSpec => []Base
  BY ImplementsScreenShare, BaseInvariant, PTL

-----------------------------------------------------------------------------
(* What the steps do to the places of the threads.                         *)
Live(i) == pc[X11(i)] \notin {"none", "ended"} \/ pc[Usb(i)] \notin {"none", "ended"}

LEMMA RunningIsLive == Running <=> \E i \in Pairs : Live(i)
  BY DEF Running, Live

\* The places of the steps that leave the memory alone.
Places ==
  /\ \A i \in Pairs : /\ pc[X11(i)] \in {"none", "ended"} => pc'[X11(i)] = pc[X11(i)]
                      /\ pc[Usb(i)] \in {"none", "ended"} => pc'[Usb(i)] = pc[Usb(i)]
  /\ \A t \in Threads : pc[t] \in {"grab", "send", "syn"} => pc'[t] = pc[t]
  /\ pc'[Reader] \in StartLabels => pc[Reader] \in StartLabels \/ (pc[Reader] = "idle" /\ offered)
  /\ pc'[Reader] = "dims_reply" => pc[Reader] = "dims_reply"
  /\ pc[Reader] = "dims_buffers" => pc'[Reader] = "dims_buffers"

\* Frames: a new one is announced by X11Pick and taken by UsbTake.
Frames ==
  \/ /\ UNCHANGED x11_buffer_new
     /\ \A i \in Pairs : /\ pc'[X11(i)] = "grab" <=> pc[X11(i)] = "grab"
                         /\ pc'[Usb(i)] = "send" <=> pc[Usb(i)] = "send"
  \/ \E i \in Pairs :
       /\ pc[X11(i)] = "pick" /\ pc' = [pc EXCEPT ![X11(i)] = "grab"]
       /\ x11_buffer_new'
  \/ \E i \in Pairs :
       /\ pc[Usb(i)] = "take" /\ pc' = [pc EXCEPT ![Usb(i)] = "send"]
       /\ x11_buffer_new /\ ~x11_buffer_new'

LEMMA ReaderPlaces ==
  ASSUME TypeOK,
         \/ HandshakeReplied \/ ServeClose \/ DimsReplied \/ ServeStop \/ x11_thread_stop
         \/ (ServeStart /\ offered) \/ StartCheck \/ StartEnter \/ StartFlags
  PROVE  Places /\ Frames
<1> USE ThreadIds
<1>1. /\ pc[Reader] \notin {"grab", "send", "syn"}
      /\ \A t \in Threads \ {Reader} : pc'[t] = pc[t]
      /\ UNCHANGED x11_buffer_new
  BY LabelsOf DEF TypeOK, ReaderLabels, Goto, HandshakeReplied, ServeClose, DimsReplied, ServeStop,
     x11_thread_stop, ServeStart, StartCheck, StartEnter, StartFlags, InSection, buffers
<1>2. /\ pc'[Reader] \in StartLabels => pc[Reader] \in StartLabels \/ (pc[Reader] = "idle" /\ offered)
      /\ pc'[Reader] = "dims_reply" => pc[Reader] = "dims_reply"
      /\ pc[Reader] = "dims_buffers" => pc'[Reader] = "dims_buffers"
  <2>1. CASE HandshakeReplied \/ ServeClose \/ ServeStop \/ x11_thread_stop
    BY <2>1 DEF TypeOK, StartLabels, Goto, HandshakeReplied, ServeClose, ServeStop,
                x11_thread_stop, InSection, session
  <2>2. CASE DimsReplied
    BY <2>2 DEF TypeOK, StartLabels, Goto, DimsReplied
  <2>3. CASE ServeStart /\ offered
    BY <2>3 DEF TypeOK, StartLabels, Goto, ServeStart
  <2>4. CASE StartCheck
    BY <2>4 DEF TypeOK, StartLabels, Goto, StartCheck, InSection, session
  <2>5. CASE StartEnter \/ StartFlags
    BY <2>5 DEF TypeOK, StartLabels, Goto, StartEnter, StartFlags, InSection, session
  <2> QED BY <2>1, <2>2, <2>3, <2>4, <2>5
<1> QED BY <1>1, <1>2 DEF Places, Frames

LEMMA ThreadPlaces ==
  ASSUME TypeOK, NEW i \in Pairs,
         \/ X11Enter(i) \/ X11Check(i) \/ X11Pick(i) \/ X11Put(i) \/ X11Leave(i)
         \/ UsbCheck(i) \/ UsbTake(i) \/ UsbNothingNew(i) \/ UsbPut(i)
  PROVE  Places /\ Frames
<1> USE ThreadIds
<1>1. PICK t \in {X11(i), Usb(i)}, from \in {"enter", "loop", "pick", "put", "leave", "usb_loop", "take", "usb_put"},
           to \in X11Labels \cup UsbLabels : pc[t] = from /\ pc' = [pc EXCEPT ![t] = to]
  BY DEF X11Enter, X11Check, X11Pick, X11Put, X11Leave, UsbCheck, UsbTake, UsbNothingNew, UsbPut,
         InSection, Goto, X11Labels, UsbLabels
<1>3. Places
  <2>1. /\ pc[t] \notin {"none", "ended", "grab", "send", "syn"} /\ t \in Threads /\ t # Reader
        /\ \A u \in Threads \ {t} : pc'[u] = pc[u]
    BY <1>1 DEF TypeOK
  <2> QED BY <2>1 DEF Places
<1>4. Frames
  <2>1. CASE X11Pick(i)
    BY <2>1 DEF X11Pick, InSection, Goto, Frames
  <2>2. CASE UsbTake(i)
    BY <2>2 DEF UsbTake, InSection, Goto, Frames
  <2>3. CASE X11Enter(i) \/ X11Check(i) \/ X11Put(i) \/ X11Leave(i)
    BY <2>3 DEF X11Enter, X11Check, X11Put, X11Leave, InSection, Goto, Frames, TypeOK, buffers
  <2>4. CASE UsbCheck(i) \/ UsbNothingNew(i) \/ UsbPut(i)
    BY <2>4 DEF UsbCheck, UsbNothingNew, UsbPut, InSection, Goto, Frames, TypeOK, buffers
  <2> QED BY <2>1, <2>2, <2>3, <2>4
<1> QED BY <1>3, <1>4

\* The steps that leave the memory alone.
Quiet == Control \/ DimsOffered \/ AskedStart

LEMMA QuietPlaces == TypeOK /\ Quiet => Places /\ Frames
<1> SUFFICES ASSUME TypeOK, Quiet PROVE Places /\ Frames
  OBVIOUS
<1>1. ASSUME NEW t \in Threads, Acquire(t) PROVE Places /\ Frames
  <2>1. UNCHANGED <<pc, x11_buffer_new>>
    BY <1>1 DEF Acquire, buffers, session
  <2> QED BY <2>1 DEF Places, Frames
<1> QED BY <1>1, ReaderPlaces, ThreadPlaces DEF Quiet, Control, DimsOffered, AskedStart

LEMMA QuietMemory ==
  ASSUME TypeOK, Quiet
  PROVE  /\ UNCHANGED <<memory, pointers, disturbed, unfilled>>
         /\ offered' => offered \/ pc'[Reader] = "dims_buffers"
<1>1. UNCHANGED <<memory, pointers, disturbed, unfilled>>
  BY DEF Quiet, Control, DimsOffered, AskedStart, history
<1>2. CASE DimsOffered
  BY <1>1, <1>2, ThreadIds DEF DimsOffered, DimsReplied, Goto, TypeOK
<1>3. CASE Control \/ AskedStart
  <2>1. UNCHANGED history
    BY <1>3 DEF Control, AskedStart
  <2> QED BY <1>1, <2>1, Zenon DEF history
<1> QED BY <1>1, <1>2, <1>3 DEF Quiet

\* A step of one thread of a pair that uses the memory.
ThreadMemory(i) ==
  \/ CopyBegins(i) \/ CopyEnds(i) \/ PackBegins(i) \/ TransferBegins(i) \/ TransferEnds(i)
  \/ SynBegins(i) \/ SynEnds(i)

LEMMA ThreadMemoryPlaces ==
  ASSUME TypeOK, NEW i \in Pairs, ThreadMemory(i)
  PROVE  /\ pc' = pc \/ \E t \in {X11(i), Usb(i)} :
                        /\ pc[t] \in {"grab", "send", "syn"}
                        /\ \E l \in {"put", "syn", "usb_put"} : pc' = [pc EXCEPT ![t] = l]
         /\ UNCHANGED <<offered, x11_buffer_new, device_buffer, prepared, disturbed>>
  BY DEF ThreadMemory, CopyBegins, CopyEnds, PackBegins, TransferBegins, TransferEnds, SynBegins,
         SynEnds, X11Grab, UsbSend, UsbSyn, Goto, vars, buffers, session, memory, history

LEMMA ThreadMemoryLive ==
  ASSUME TypeOK, NEW i \in Pairs, ThreadMemory(i)
  PROVE  /\ UNCHANGED <<offered, x11_buffer_new, device_buffer, prepared, disturbed>>
         /\ pc'[Reader] = pc[Reader]
         /\ \A j \in Pairs : Live(j)' <=> Live(j)
         /\ Running' <=> Running
<1>1. \A t \in Threads : /\ pc'[t] # pc[t] => t \in {X11(i), Usb(i)}
                         /\ pc'[t] \in {"none", "ended"} <=> pc[t] \in {"none", "ended"}
                         /\ pc'[t] \in {"none", "ended"} => pc'[t] = pc[t]
  BY ThreadIds, ThreadMemoryPlaces DEF TypeOK
<1>2. \A j \in Pairs : Live(j)' <=> Live(j)
  BY <1>1, ThreadIds DEF Live
<1>3. pc'[Reader] = pc[Reader]
  BY <1>1, ThreadIds
<1> QED BY <1>2, <1>3, RunningIsLive, ThreadMemoryPlaces DEF Running, Live

-----------------------------------------------------------------------------
(* Prepared before use.                                                    *)
PInv ==
  /\ prepared \in BOOLEAN
  /\ prepared => device_buffer # "NULL"
  /\ Running \/ pc[Reader] \in StartLabels => prepared
  /\ offered => prepared \/ pc[Reader] = "dims_buffers"

\* New threads are those of StartThreads.
LEMMA RunningKept ==
  ASSUME Places
  PROVE  /\ \A j \in Pairs : Live(j)' => Live(j)
         /\ Running' => Running
  BY DEF Places, Live, Running

LEMMA NoneRunsAtFirst ==
  ASSUME BufferInit
  PROVE  /\ ~Running /\ pc[Reader] \notin StartLabels /\ pc[Reader] # "dims_reply"
         /\ \A i \in Pairs : pc[X11(i)] = "none" /\ pc[Usb(i)] = "none"
<1>1. pc = [t \in Threads |-> IF t = Reader THEN "idle" ELSE "none"]
  BY DEF BufferInit, Init
<1>2. pc[Reader] = "idle" /\ \A i \in Pairs : pc[X11(i)] = "none" /\ pc[Usb(i)] = "none"
  BY <1>1, ThreadIds
<1> QED BY <1>2 DEF Running, StartLabels

LEMMA PInvKept == Base /\ PInv /\ [BufferNext]_all => PInv'
<1> SUFFICES ASSUME Base, PInv, [BufferNext]_all PROVE PInv'
  OBVIOUS
<1>0. TypeOK
  BY DEF Base
<1> USE DEF PInv
<1>1. CASE Quiet
  <2>1. UNCHANGED <<prepared, device_buffer>>
    BY <1>0, <1>1, QuietMemory DEF memory
  <2> QED BY <1>0, <1>1, <2>1, QuietPlaces, QuietMemory, RunningKept DEF Places, StartLabels
<1>2. CASE HandshakeBuffer
  <2>1. /\ pc[Reader] = "idle" /\ pc' = [pc EXCEPT ![Reader] = "handshake"]
        /\ UNCHANGED <<prepared, offered>> /\ device_buffer' = "packet"
    BY <1>2 DEF HandshakeBuffer, ServeHandshake, Goto, session
  <2>2. Running' => Running
    BY <2>1, <1>0, ThreadIds DEF Running, TypeOK
  <2> QED BY <1>0, <2>1, <2>2, ThreadIds DEF TypeOK, StartLabels
<1>3. CASE DimsReply
  <2>1. /\ pc[Reader] = "idle" /\ pc' = [pc EXCEPT ![Reader] = "dims_reply"]
        /\ UNCHANGED <<prepared, offered, device_buffer>>
    BY <1>3 DEF DimsReply, ServeDims, Goto, session
  <2>2. Running' => Running
    BY <2>1, <1>0, ThreadIds DEF Running, TypeOK
  <2> QED BY <1>0, <2>1, <2>2, ThreadIds DEF TypeOK, StartLabels
<1>4. CASE DimsAllocates
  BY <1>4 DEF DimsAllocates
<1>5. CASE StartThreads
  <2>1. pc[Reader] \in StartLabels /\ UNCHANGED <<prepared, offered, device_buffer>>
    BY <1>5 DEF StartThreads, StartCreate, StartLabels, memory
  <2> QED BY <2>1
<1>6. ASSUME NEW i \in Pairs, ThreadMemory(i) PROVE PInv'
  BY <1>0, <1>6, ThreadMemoryLive
<1>7. CASE UNCHANGED <<vars, memory, offered>>
  BY <1>7 DEF vars, memory, session, Running
<1>8. [BufferNext]_all =>
        \/ Quiet \/ HandshakeBuffer \/ DimsReply \/ DimsAllocates \/ StartThreads
        \/ \E i \in Pairs : ThreadMemory(i)
        \/ UNCHANGED <<vars, memory, offered>>
  BY DEF BufferNext, Quiet, Up, ThreadMemory, CaptureCrashes, all, history
<1> QED BY <1>1, <1>2, <1>3, <1>4, <1>5, <1>6, <1>7, <1>8

\* A capture or a send thread never runs before the frame buffers and the parameters
\* exist (Main.c).
THEOREM Prepared == BufferSpec => []PreparedBeforeUse
<1>1. BufferInit => PInv
  <2> SUFFICES ASSUME BufferInit PROVE PInv
    OBVIOUS
  <2>1. ~Running /\ pc[Reader] \notin StartLabels
    BY NoneRunsAtFirst
  <2>2. ~prepared /\ prepared \in BOOLEAN
    BY Zenon DEF BufferInit
  <2>3. ~offered
    BY Zenon DEF BufferInit
  <2> QED BY <2>1, <2>2, <2>3 DEF PInv
<1>2. PInv => PreparedBeforeUse
  BY DEF PInv, PreparedBeforeUse
<1> QED BY <1>1, <1>2, PInvKept, BaseAlways, PTL DEF BufferSpec

-----------------------------------------------------------------------------
(* Types.  A block is used only in the calls that were given it.           *)
Held ==
  /\ device_ptr \in [Threads -> {"none", "live", "freed"}]
  /\ slot_ptr \in [Threads -> {"none", "live", "freed"}]
  /\ \A t \in Threads : device_ptr[t] # "none" => pc[t] \in {"send", "syn"}
  /\ \A t \in Threads : slot_ptr[t] # "none" => pc[t] \in {"grab", "send"}
  /\ \A t \in Threads : device_ptr[t] = "none" \/ slot_ptr[t] = "none"

Shapes ==
  /\ device_buffer \in {"NULL", "packet", "frame"}
  /\ writer \in Threads \cup {Nobody}
  /\ prepared \in BOOLEAN /\ filled \in BOOLEAN /\ offered \in BOOLEAN /\ disturbed \in BOOLEAN
  /\ xshm_image \in BOOLEAN /\ daemon \in {"up", "down"}
  /\ unfilled \in 0..3

LEMMA TypesSplit == Held /\ Shapes => BufferTypeOK
  BY DEF BufferTypeOK, Held, Shapes

LEMMA FreedTypes ==
  ASSUME NEW ptr \in [Threads -> {"none", "live", "freed"}]
  PROVE  /\ Freed(ptr) \in [Threads -> {"none", "live", "freed"}]
         /\ \A t \in Threads : Freed(ptr)[t] = "none" <=> ptr[t] = "none"
  BY DEF Freed

LEMMA ServesPlaces ==
  ASSUME TypeOK, NEW l, pc' = [pc EXCEPT ![Reader] = l]
  PROVE  /\ pc'[Reader] = l
         /\ \A t \in Threads \ {Reader} : pc'[t] = pc[t]
         /\ \A i \in Pairs : Live(i)' <=> Live(i)
         /\ Running' <=> Running
<1>1. pc'[Reader] = l /\ \A t \in Threads \ {Reader} : pc'[t] = pc[t]
  BY ThreadIds DEF TypeOK
<1> QED BY <1>1, ThreadIds DEF Live, Running

LEMMA StartPlaces ==
  ASSUME Base, StartThreads, NEW n, n = pairs + 1
  PROVE  /\ n \in Pairs /\ ~Live(n)
         /\ pc[Reader] = "start_create" /\ pc'[Reader] = "idle"
         /\ pc[X11(n)] = "none" /\ pc'[X11(n)] = "enter"
         /\ pc[Usb(n)] = "none" /\ pc'[Usb(n)] = "usb_loop"
         /\ \A t \in Threads \ {Reader, X11(n), Usb(n)} : pc'[t] = pc[t]
         /\ \A j \in Pairs : Live(j)' <=> Live(j) \/ j = n
<1>1. /\ pc[Reader] = "start_create"
      /\ pc' = [pc EXCEPT ![Reader] = "idle", ![X11(n)] = "enter", ![Usb(n)] = "usb_loop"]
  BY DEF StartThreads, StartCreate
<1>2. n \in Pairs
  BY <1>1, NextPair DEF Base, StartLabels
<1>3. pc[X11(n)] = "none" /\ pc[Usb(n)] = "none"
  BY <1>2 DEF Base, Created, TypeOK, Pairs
<1>4. /\ pc'[Reader] = "idle" /\ pc'[X11(n)] = "enter" /\ pc'[Usb(n)] = "usb_loop"
      /\ \A t \in Threads \ {Reader, X11(n), Usb(n)} : pc'[t] = pc[t]
  BY <1>1, <1>2, ThreadIds DEF Base, TypeOK
<1> QED BY <1>1, <1>2, <1>3, <1>4, ThreadIds DEF Live

LEMMA HeldKept == Base /\ Held /\ [BufferNext]_all => Held'
<1> SUFFICES ASSUME Base, Held, [BufferNext]_all PROVE Held'
  OBVIOUS
<1>0. TypeOK /\ pc[Reader] \notin {"grab", "send", "syn"}
  BY LabelsOf, ThreadIds DEF Base, TypeOK, ReaderLabels
<1> USE DEF Held
<1>1. CASE Quiet
  <2>1. UNCHANGED <<device_ptr, slot_ptr>>
    BY <1>0, <1>1, QuietMemory DEF pointers
  <2> QED BY <1>0, <1>1, <2>1, QuietPlaces DEF Places
<1>2. CASE HandshakeBuffer \/ DimsReply \/ DimsAllocates \/ StartThreads
  <2>1. \A t \in Threads : pc[t] \in {"grab", "send", "syn"} => pc'[t] = pc[t]
    <3>1. CASE StartThreads
      BY <1>0, <3>1, StartPlaces
    <3>2. CASE ~StartThreads
      <4>1. \E l : pc' = [pc EXCEPT ![Reader] = l]
        BY <1>2, <3>2 DEF HandshakeBuffer, DimsReply, DimsAllocates, ServeHandshake, ServeDims,
                          DimsBuffers, Goto
      <4> QED BY <1>0, <4>1, ServesPlaces
    <3> QED BY <3>1, <3>2
  <2>2. /\ device_ptr' = device_ptr \/ device_ptr' = Freed(device_ptr)
        /\ slot_ptr' = slot_ptr \/ slot_ptr' = Freed(slot_ptr)
    BY <1>2 DEF HandshakeBuffer, DimsReply, DimsAllocates, StartThreads, pointers
  <2> QED BY <2>1, <2>2, FreedTypes
<1>3. ASSUME NEW i \in Pairs, ThreadMemory(i) PROVE Held'
  <2> USE ThreadIds DEF Loads, Forgets
  <2>1. CASE CopyBegins(i)
    BY <2>1 DEF CopyBegins, vars
  <2>2. CASE CopyEnds(i)
    BY <1>0, <2>2 DEF CopyEnds, X11Grab, Goto, TypeOK
  <2>3. CASE PackBegins(i)
    <3>1. /\ pc[Usb(i)] = "send" /\ pc' = pc /\ Usb(i) \in Threads
          /\ device_ptr[Usb(i)] = "none" /\ device_ptr' = device_ptr
          /\ slot_ptr' = [slot_ptr EXCEPT ![Usb(i)] = "live"]
      BY <2>3 DEF PackBegins, Transferring, vars
    <3> QED BY <3>1
  <2>4. CASE TransferBegins(i)
    <3>1. /\ pc[Usb(i)] = "send" /\ pc' = pc /\ Usb(i) \in Threads
          /\ slot_ptr' = [slot_ptr EXCEPT ![Usb(i)] = "none"]
          /\ device_ptr' = [device_ptr EXCEPT ![Usb(i)] = "live"]
      BY <2>4 DEF TransferBegins, Packing, vars
    <3> QED BY <3>1
  <2>5. CASE TransferEnds(i)
    <3>1. /\ pc[Usb(i)] = "send" /\ pc' = [pc EXCEPT ![Usb(i)] = "syn"] /\ Usb(i) \in Threads
          /\ device_ptr[Usb(i)] # "none"
          /\ slot_ptr' = slot_ptr
          /\ device_ptr' = [device_ptr EXCEPT ![Usb(i)] = "none"]
      BY <2>5 DEF TransferEnds, Transferring, UsbSend, Goto
    <3>2. slot_ptr[Usb(i)] = "none"
      BY <3>1
    <3> QED BY <1>0, <3>1, <3>2 DEF TypeOK
  <2>6. CASE SynBegins(i)
    BY <2>6 DEF SynBegins, vars
  <2>7. CASE SynEnds(i)
    BY <1>0, <2>7 DEF SynEnds, UsbSyn, Goto, TypeOK
  <2> QED BY <1>3, <2>1, <2>2, <2>3, <2>4, <2>5, <2>6, <2>7 DEF ThreadMemory
<1>4. CASE UNCHANGED <<vars, memory, pointers>>
  BY <1>4 DEF vars, pointers
<1>5. [BufferNext]_all =>
        \/ Quiet \/ HandshakeBuffer \/ DimsReply \/ DimsAllocates \/ StartThreads
        \/ \E i \in Pairs : ThreadMemory(i)
        \/ UNCHANGED <<vars, memory, pointers>>
  BY DEF BufferNext, Quiet, Up, ThreadMemory, CaptureCrashes, all, history
<1> QED BY <1>1, <1>2, <1>3, <1>4, <1>5

\* No thread holds a block when none runs.
LEMMA AllNone ==
  ASSUME TypeOK, Held, ~Running
  PROVE  \A t \in Threads : device_ptr[t] = "none" /\ slot_ptr[t] = "none"
<1> SUFFICES ASSUME NEW t \in Threads PROVE pc[t] \notin {"grab", "send", "syn"}
  BY DEF Held
<1>1. CASE t = Reader
  BY <1>1, LabelsOf DEF TypeOK, ReaderLabels
<1>2. CASE t # Reader
  <2>1. \E i \in Pairs : t = X11(i) \/ t = Usb(i)
    BY <1>2 DEF Threads
  <2> QED BY <2>1 DEF Running
<1> QED BY <1>1, <1>2

LEMMA ShapesKept == Shapes /\ [BufferNext]_all => Shapes'
<1> SUFFICES ASSUME Shapes, [BufferNext]_all PROVE Shapes'
  OBVIOUS
<1> USE ThreadIds DEF Shapes
<1>1. CASE Quiet /\ UNCHANGED <<xshm_image, daemon>>
  BY <1>1 DEF Quiet, Control, DimsOffered, AskedStart, memory, history
<1>2. CASE HandshakeBuffer /\ UNCHANGED <<xshm_image, daemon>>
  <2>1. disturbed' \in BOOLEAN
    BY <1>2, Zenon DEF HandshakeBuffer, Disturbs
  <2> QED BY <1>2, <2>1 DEF HandshakeBuffer, Disturbs
<1>3. CASE DimsReply /\ UNCHANGED <<xshm_image, daemon>>
  <2>1. disturbed' \in BOOLEAN
    BY <1>3, Zenon DEF DimsReply, Disturbs
  <2> QED BY <1>3, <2>1 DEF DimsReply, Disturbs
<1>4. CASE DimsAllocates /\ UNCHANGED <<xshm_image, daemon>>
  <2>1. disturbed' \in BOOLEAN /\ prepared' \in BOOLEAN /\ filled' \in BOOLEAN
    BY <1>4, Zenon DEF DimsAllocates, Running
  <2> QED BY <1>4, <2>1 DEF DimsAllocates
<1>5. CASE StartThreads /\ UNCHANGED <<xshm_image, daemon>>
  <2>1. disturbed' \in BOOLEAN
    BY <1>5, Zenon DEF StartThreads, Disturbs
  <2> QED BY <1>5, <2>1 DEF StartThreads, Disturbs, memory
<1>6. ASSUME NEW i \in Pairs, ThreadMemory(i), UNCHANGED <<xshm_image, daemon>> PROVE Shapes'
  <2>1. CASE CopyEnds(i)
    <3>1. filled' \in BOOLEAN
      BY <2>1, Zenon DEF CopyEnds
    <3> QED BY <1>6, <2>1, <3>1 DEF CopyEnds, history
  <2>2. CASE PackBegins(i)
    <3>1. unfilled' \in 0..3
      BY <2>2 DEF PackBegins
    <3> QED BY <1>6, <2>2, <3>1 DEF PackBegins
  <2>3. CASE CopyBegins(i) \/ TransferBegins(i) \/ TransferEnds(i) \/ SynEnds(i)
    <3>1. UNCHANGED <<device_buffer, writer, prepared, filled, offered, disturbed, unfilled>>
      BY <2>3 DEF CopyBegins, TransferBegins, TransferEnds, SynEnds, memory, history
    <3> QED BY <1>6, <3>1
  <2>4. CASE SynBegins(i)
    BY <1>6, <2>4 DEF SynBegins, history
  <2> QED BY <1>6, <2>1, <2>2, <2>3, <2>4 DEF ThreadMemory
<1>7. CASE \E i \in Pairs : CaptureCrashes(i)
  BY <1>7 DEF CaptureCrashes, memory, history
<1>8. CASE UNCHANGED all
  BY <1>8 DEF all, memory, history
<1> QED BY <1>1, <1>2, <1>3, <1>4, <1>5, <1>6, <1>7, <1>8
     DEF BufferNext, Quiet, Up, ThreadMemory

Typed == Held /\ Shapes

LEMMA TypedInitially == BufferInit => Typed
<1> SUFFICES ASSUME BufferInit PROVE Typed
  OBVIOUS
<1>1. Held
  BY DEF BufferInit, Held
<1>2. prepared \in BOOLEAN /\ filled \in BOOLEAN /\ offered \in BOOLEAN
      /\ disturbed \in BOOLEAN /\ xshm_image \in BOOLEAN
  BY Zenon DEF BufferInit, x11_shminit
<1>3. Shapes
  BY <1>2 DEF BufferInit, Shapes
<1> QED BY <1>1, <1>3 DEF Typed

LEMMA TypedAlways == BufferSpec => []Typed
<1>1. Base /\ Typed /\ [BufferNext]_all => Typed'
  BY HeldKept, ShapesKept DEF Typed
<1> QED BY <1>1, TypedInitially, BaseAlways, PTL DEF BufferSpec

\* Memory keeps its types, and a thread uses a block only in the calls it was given to
\* (Main.c, UsbDevice.c).
THEOREM BuffersTyped == BufferSpec => []BufferTypeOK
<1>1. Typed => BufferTypeOK
  BY TypesSplit DEF Typed
<1> QED BY <1>1, TypedAlways, PTL

-----------------------------------------------------------------------------
(* Undisturbed.  One pair at most runs; what it holds was not replaced, and *)
(* it alone writes to the device buffer.                                   *)
Holds(t) == device_ptr[t] # "none" \/ slot_ptr[t] # "none"

Undisturbed ==
  /\ \A t \in Threads : device_ptr[t] # "freed" /\ slot_ptr[t] # "freed"
  /\ Running \/ pc[Reader] \in StartLabels => device_buffer = "frame"
  /\ offered => device_buffer = "frame" \/ pc[Reader] = "dims_buffers"
  /\ \A i, j \in Pairs : Live(i) /\ Live(j) => i = j
  /\ \A i \in Pairs : Holds(Usb(i)) => writer = Usb(i)
  /\ pc[Reader] = "dims_reply" => writer = Reader /\ ~Running

KInv == ~disturbed => Undisturbed

\* A step of a pair's thread, when it is the only pair that runs.
LEMMA ThreadKeeps ==
  ASSUME TypeOK, Held, Undisturbed, NEW i \in Pairs, ThreadMemory(i)
  PROVE  Undisturbed'
<1>1. /\ UNCHANGED <<offered, device_buffer>> /\ pc'[Reader] = pc[Reader]
      /\ \A j \in Pairs : Live(j)' <=> Live(j)
      /\ Running' <=> Running
  BY ThreadMemoryLive
<1>2. Live(i) /\ Running
  <2>1. pc[X11(i)] = "grab" \/ pc[Usb(i)] \in {"send", "syn"}
    BY DEF ThreadMemory, CopyBegins, CopyEnds, PackBegins, TransferBegins, TransferEnds,
           SynBegins, SynEnds, X11Grab, UsbSend, UsbSyn, Packing
  <2> QED BY <2>1 DEF Live, Running
<1>3. \A t \in Threads : Holds(t) => t \in {X11(i), Usb(i)}
  <2> SUFFICES ASSUME NEW t \in Threads, Holds(t) PROVE t \in {X11(i), Usb(i)}
    OBVIOUS
  <2>1. pc[t] \in {"grab", "send", "syn"} /\ t # Reader
    BY LabelsOf, ThreadIds DEF Held, Holds, TypeOK, ReaderLabels
  <2>2. PICK j \in Pairs : t = X11(j) \/ t = Usb(j)
    BY <2>1 DEF Threads
  <2>3. Live(j)
    BY <2>1, <2>2 DEF Live
  <2> QED BY <1>2, <2>2, <2>3 DEF Undisturbed
<1>4. /\ \A t \in Threads \ {X11(i), Usb(i)} : UNCHANGED <<device_ptr[t], slot_ptr[t]>>
      /\ \A t \in {X11(i), Usb(i)} : device_ptr'[t] \in {device_ptr[t], "live", "none"}
                                    /\ slot_ptr'[t] \in {slot_ptr[t], "live", "none"}
  BY ThreadIds DEF Held, Loads, Forgets, ThreadMemory, CopyBegins, CopyEnds, PackBegins,
       TransferBegins, TransferEnds, SynBegins, SynEnds, memory
<1>5. Holds(Usb(i))' => writer' = Usb(i)
  <2>1. CASE CopyBegins(i) \/ CopyEnds(i)
    <3>1. UNCHANGED <<writer, device_ptr, slot_ptr[Usb(i)]>>
      BY <2>1, ThreadIds DEF CopyBegins, CopyEnds, Held, Loads, Forgets, memory
    <3> QED BY <3>1 DEF Holds, Undisturbed
  <2>2. CASE PackBegins(i) \/ SynBegins(i)
    BY <2>2 DEF PackBegins, SynBegins
  <2>3. CASE TransferBegins(i)
    BY <2>3 DEF TransferBegins, Packing, memory, Holds, Undisturbed
  <2>4. CASE TransferEnds(i) \/ SynEnds(i)
    BY <2>4 DEF TransferEnds, SynEnds, Transferring, memory, Holds, Undisturbed
  <2> QED BY <2>1, <2>2, <2>3, <2>4 DEF ThreadMemory
<1>6. \A j \in Pairs : Holds(Usb(j))' => writer' = Usb(j)
  <2> SUFFICES ASSUME NEW j \in Pairs, j # i, Holds(Usb(j))' PROVE FALSE
    BY <1>5
  <2>1. Holds(Usb(j))
    BY <1>4, ThreadIds DEF Holds
  <2> QED BY <1>3, <2>1, ThreadIds
<1>7. \A t \in Threads : device_ptr'[t] # "freed" /\ slot_ptr'[t] # "freed"
  BY <1>4 DEF Undisturbed
<1> QED BY <1>1, <1>2, <1>6, <1>7 DEF Undisturbed

\* A step of the read thread that leaves no thread undisturbed.
LEMMA ReaderKeeps ==
  ASSUME Base, Held, KInv, HandshakeBuffer \/ DimsReply \/ DimsAllocates, ~disturbed'
  PROVE  Undisturbed'
<1>0. TypeOK
  BY DEF Base
<1>1. PICK l \in {"handshake", "dims_reply", "idle"} : pc' = [pc EXCEPT ![Reader] = l]
  BY DEF HandshakeBuffer, DimsReply, DimsAllocates, ServeHandshake, ServeDims, DimsBuffers, Goto
<1>2. ~Running
  BY Zenon DEF HandshakeBuffer, DimsReply, DimsAllocates, Disturbs
<1>3. /\ pc'[Reader] = l /\ ~Running' /\ \A i \in Pairs : ~Live(i) /\ ~Live(i)'
      /\ UNCHANGED offered
  BY <1>0, <1>1, <1>2, ServesPlaces, RunningIsLive
     DEF HandshakeBuffer, DimsReply, DimsAllocates, ServeHandshake, ServeDims, DimsBuffers, session
<1>4. \A t \in Threads : device_ptr'[t] = "none" /\ slot_ptr'[t] = "none"
  <2>1. \A t \in Threads : device_ptr[t] = "none" /\ slot_ptr[t] = "none"
    BY <1>0, <1>2, AllNone
  <2>2. /\ device_ptr' = device_ptr \/ device_ptr' = Freed(device_ptr)
        /\ slot_ptr' = slot_ptr \/ slot_ptr' = Freed(slot_ptr)
    BY DEF HandshakeBuffer, DimsReply, DimsAllocates, pointers
  <2> QED BY <2>1, <2>2 DEF Freed
<1>5. \A t \in Threads : ~Holds(t)' /\ device_ptr'[t] # "freed" /\ slot_ptr'[t] # "freed"
  BY <1>4 DEF Holds
<1>6. /\ pc'[Reader] \notin StartLabels
      /\ offered' => device_buffer' = "frame" \/ pc'[Reader] = "dims_buffers"
      /\ pc'[Reader] = "dims_reply" => writer' = Reader
  <2>1. CASE HandshakeBuffer
    <3>1. pc' = [pc EXCEPT ![Reader] = "handshake"] /\ ~offered
      BY <2>1, Zenon DEF HandshakeBuffer, ServeHandshake, Goto, Disturbs
    <3> QED BY <1>0, <1>3, <3>1, ThreadIds DEF TypeOK, StartLabels
  <2>2. CASE DimsReply
    <3>1. /\ pc[Reader] = "idle" /\ pc' = [pc EXCEPT ![Reader] = "dims_reply"]
          /\ writer' = Reader /\ UNCHANGED device_buffer
      BY <2>2 DEF DimsReply, ServeDims, Goto
    <3>2. ~disturbed
      BY <2>2, Zenon DEF DimsReply, Disturbs
    <3> QED BY <1>0, <1>3, <3>1, <3>2, ThreadIds DEF TypeOK, StartLabels, KInv, Undisturbed
  <2>3. CASE DimsAllocates
    <3>1. device_buffer' = "frame" /\ pc' = [pc EXCEPT ![Reader] = "idle"]
      BY <2>3 DEF DimsAllocates, DimsBuffers, Goto
    <3> QED BY <1>0, <3>1, ThreadIds DEF TypeOK, StartLabels
  <2> QED BY <2>1, <2>2, <2>3
<1> QED BY <1>3, <1>5, <1>6, ThreadIds DEF Undisturbed

LEMMA StartKeeps ==
  ASSUME Base, Held, KInv, StartThreads, ~disturbed'
  PROVE  Undisturbed'
<1>1. ~disturbed /\ ~Running
  BY Zenon DEF StartThreads, Disturbs
<1>2. PICK n : n = pairs + 1
  OBVIOUS
<1>3. /\ pc[Reader] = "start_create" /\ pc'[Reader] = "idle"
      /\ \A j \in Pairs : Live(j)' => j = n
  BY <1>1, <1>2, StartPlaces, RunningIsLive
<1>4. UNCHANGED <<offered, device_buffer, writer, device_ptr, slot_ptr>>
  BY DEF StartThreads, StartCreate, memory, pointers
<1>5. device_buffer = "frame" /\ Undisturbed
  BY <1>1, <1>3 DEF KInv, Undisturbed, StartLabels
<1> QED BY <1>3, <1>4, <1>5 DEF Undisturbed, Holds, StartLabels

LEMMA KInvKept == Base /\ Held /\ KInv /\ [BufferNext]_all => KInv'
<1> SUFFICES ASSUME Base, Held, KInv, [BufferNext]_all, ~disturbed' PROVE Undisturbed'
  BY DEF KInv
<1>0. TypeOK
  BY DEF Base
<1>1. CASE Quiet
  <2>1. UNCHANGED <<device_ptr, slot_ptr, device_buffer, writer, disturbed>>
    BY <1>0, <1>1, QuietMemory DEF pointers, memory
  <2>2. Undisturbed
    BY <2>1 DEF KInv
  <2>3. Places
    BY <1>0, <1>1, QuietPlaces
  <2>4. \A t \in Threads : Holds(t)' <=> Holds(t)
    BY <2>1 DEF Holds
  <2>5. /\ pc'[Reader] \in StartLabels => device_buffer = "frame"
        /\ offered' => device_buffer = "frame" \/ pc'[Reader] = "dims_buffers"
        /\ pc'[Reader] = "dims_reply" => writer = Reader /\ ~Running
    BY <1>0, <1>1, <2>2, <2>3, QuietMemory DEF Places, Undisturbed
  <2> QED BY <2>1, <2>2, <2>3, <2>4, <2>5, RunningKept, ThreadIds DEF Undisturbed
<1>2. CASE HandshakeBuffer \/ DimsReply \/ DimsAllocates
  BY <1>2, ReaderKeeps
<1>3. CASE StartThreads
  BY <1>3, StartKeeps
<1>4. ASSUME NEW i \in Pairs, ThreadMemory(i) PROVE Undisturbed'
  BY <1>0, <1>4, ThreadKeeps, ThreadMemoryLive DEF KInv
<1>5. CASE UNCHANGED <<vars, memory, pointers, history>>
  BY <1>5 DEF KInv, Undisturbed, Holds, Live, Running, vars, session, memory, pointers, history
<1>6. [BufferNext]_all =>
        \/ Quiet \/ HandshakeBuffer \/ DimsReply \/ DimsAllocates \/ StartThreads
        \/ \E i \in Pairs : ThreadMemory(i)
        \/ UNCHANGED <<vars, memory, pointers, history>>
  BY DEF BufferNext, Quiet, Up, ThreadMemory, CaptureCrashes, all, history
<1> QED BY <1>1, <1>2, <1>3, <1>4, <1>5, <1>6

LEMMA KInvInitially == BufferInit => KInv
<1> SUFFICES ASSUME BufferInit PROVE Undisturbed
  BY DEF KInv
<1>1. /\ ~Running /\ pc[Reader] \notin StartLabels /\ pc[Reader] # "dims_reply"
      /\ \A i \in Pairs : ~Live(i)
  BY NoneRunsAtFirst, RunningIsLive
<1>2. /\ \A t \in Threads : device_ptr[t] = "none" /\ slot_ptr[t] = "none"
      /\ offered = FALSE
  BY DEF BufferInit, Init
<1> QED BY <1>1, <1>2, ThreadIds DEF Undisturbed, Holds

LEMMA KInvAlways == BufferSpec => []KInv
<1>1. Typed => Held
  BY DEF Typed
<1> QED BY <1>1, KInvInitially, KInvKept, BaseAlways, TypedAlways, PTL DEF BufferSpec

\* Undisturbed, no thread uses freed memory, a frame fits where it is packed, and what is
\* sent was written by the one who sends it (Main.c, UsbDevice.c).
THEOREM MemoryKept == BufferSpec => []BuffersKept
<1>1. Typed /\ KInv => BuffersKept
  <2> SUFFICES ASSUME Held, Undisturbed, ~disturbed PROVE BuffersKept
    BY DEF KInv, Typed, BuffersKept
  <2>1. \A i \in Pairs : Packing(i) => device_buffer = "frame"
    <3> SUFFICES ASSUME NEW i \in Pairs, Packing(i) PROVE Running
      BY DEF Undisturbed
    <3> QED BY DEF Packing, Running
  <2> QED BY <2>1, ThreadIds DEF Undisturbed, BuffersKept, Transferring, Holds
<1> QED BY <1>1, KInvAlways, TypedAlways, PTL

-----------------------------------------------------------------------------
(* Unfilled frames.  Each one packed was announced: by an earlier pair, or *)
(* by the first capture before it was made.  Together they are two.        *)
One(b) == IF b THEN 1 ELSE 0

Waiting(i) == pc[Usb(i)] = "send" /\ ~Holds(Usb(i))
Pending    == \E i \in Pairs : Waiting(i)
Grabbing   == \E i \in Pairs : pc[X11(i)] = "grab"

UInv ==
  ~disturbed =>
    /\ unfilled <= 2
    /\ ~filled => unfilled + One(x11_buffer_new) + One(Pending) + One(~Grabbing) <= 2

\* The sum depends on these alone.
LEMMA UnfilledSame ==
  ASSUME UInv, UNCHANGED <<disturbed, unfilled, filled, x11_buffer_new>>,
         Pending' <=> Pending, Grabbing' <=> Grabbing
  PROVE  UInv'
  BY DEF UInv, One

LEMMA UControl ==
  ASSUME TypeOK, Shapes, KInv, UInv, Quiet
  PROVE  UInv'
<1>1. UNCHANGED <<disturbed, unfilled, filled, device_ptr, slot_ptr>>
  BY QuietMemory DEF memory, pointers
<1>2. \A t \in Threads : Holds(t)' <=> Holds(t)
  BY <1>1 DEF Holds
<1>3. SUFFICES ASSUME ~disturbed PROVE UInv'
  BY <1>1 DEF UInv
<1>4. \A i, j \in Pairs : Live(i) /\ Live(j) => i = j
  BY <1>3 DEF KInv, Undisturbed
<1>5. /\ unfilled \in Int /\ unfilled <= 2
      /\ ~filled => unfilled + One(x11_buffer_new) + One(Pending) + One(~Grabbing) <= 2
  BY <1>3 DEF Shapes, UInv
<1>6. CASE /\ UNCHANGED x11_buffer_new
           /\ \A i \in Pairs : /\ pc'[X11(i)] = "grab" <=> pc[X11(i)] = "grab"
                               /\ pc'[Usb(i)] = "send" <=> pc[Usb(i)] = "send"
  <2>1. \A i \in Pairs : Waiting(i)' <=> Waiting(i)
    BY <1>2, <1>6, ThreadIds DEF Waiting
  <2>2. (Pending' <=> Pending) /\ (Grabbing' <=> Grabbing)
    BY <1>6, <2>1 DEF Pending, Grabbing
  <2> QED BY <1>1, <1>6, <2>2, UnfilledSame
<1>7. ASSUME NEW i \in Pairs, pc[X11(i)] = "pick", pc' = [pc EXCEPT ![X11(i)] = "grab"]
      PROVE  UInv'
  <2>1. ~Grabbing
    <3> SUFFICES ASSUME NEW j \in Pairs, pc[X11(j)] = "grab" PROVE FALSE
      BY DEF Grabbing
    <3> QED BY <1>4, <1>7 DEF Live
  <2>2. Grabbing'
    BY <1>7, ThreadIds DEF Grabbing, TypeOK
  <2>3. \A j \in Pairs : Waiting(j)' <=> Waiting(j)
    BY <1>2, <1>7, ThreadIds DEF Waiting, TypeOK
  <2>4. Pending' <=> Pending
    BY <2>3 DEF Pending
  <2> QED BY <1>1, <1>5, <2>1, <2>2, <2>4 DEF UInv, One
<1>8. ASSUME NEW i \in Pairs, pc[Usb(i)] = "take", pc' = [pc EXCEPT ![Usb(i)] = "send"],
             x11_buffer_new, ~x11_buffer_new'
      PROVE  UInv'
  <2>1. \A j \in Pairs : pc'[X11(j)] = pc[X11(j)]
    BY <1>8, ThreadIds DEF TypeOK
  <2>2. Grabbing' <=> Grabbing
    BY <2>1 DEF Grabbing
  <2>3. ~Pending
    <3> SUFFICES ASSUME NEW j \in Pairs, pc[Usb(j)] = "send" PROVE FALSE
      BY DEF Pending, Waiting
    <3> QED BY <1>4, <1>8 DEF Live
  <2> QED BY <1>1, <1>5, <1>8, <2>2, <2>3 DEF UInv, One
<1> QED BY <1>6, <1>7, <1>8, QuietPlaces DEF Frames

\* Steps of the read thread.
LEMMA UReader ==
  ASSUME Base, Shapes, UInv, HandshakeBuffer \/ DimsReply \/ DimsAllocates \/ StartThreads,
         ~disturbed'
  PROVE  UInv'
<1>0. TypeOK
  BY DEF Base
<1>1. UNCHANGED x11_buffer_new
  BY DEF HandshakeBuffer, DimsReply, DimsAllocates, StartThreads, ServeHandshake, ServeDims,
         DimsBuffers, StartCreate, buffers
<1>2. ~Running
  BY Zenon DEF HandshakeBuffer, DimsReply, DimsAllocates, StartThreads, Disturbs
<1>3. \A i \in Pairs : pc'[X11(i)] # "grab" /\ pc'[Usb(i)] # "send"
  <2>1. \A i \in Pairs : pc[X11(i)] \in {"none", "ended"} /\ pc[Usb(i)] \in {"none", "ended"}
    BY <1>2 DEF Running
  <2>2. CASE StartThreads
    <3>1. PICK n : n = pairs + 1
      OBVIOUS
    <3> QED BY <2>1, <2>2, <3>1, StartPlaces, ThreadIds
  <2>3. CASE ~StartThreads
    <3>1. \E l : pc' = [pc EXCEPT ![Reader] = l]
      BY <2>3 DEF HandshakeBuffer, DimsReply, DimsAllocates, ServeHandshake, ServeDims,
                  DimsBuffers, Goto
    <3> QED BY <1>0, <2>1, <3>1, ServesPlaces, ThreadIds
  <2> QED BY <2>2, <2>3
<1>4. ~Pending' /\ ~Grabbing'
  BY <1>3 DEF Pending, Waiting, Grabbing
<1>5. CASE DimsAllocates
  <2>1. unfilled' = 0
    BY <1>5 DEF DimsAllocates
  <2> QED BY <1>4, <2>1 DEF UInv, One
<1>6. CASE HandshakeBuffer \/ DimsReply \/ StartThreads
  <2>1. ~disturbed /\ UNCHANGED <<unfilled, filled>>
    BY <1>6, Zenon DEF HandshakeBuffer, DimsReply, StartThreads, Disturbs, memory
  <2>2. ~Pending /\ ~Grabbing
    BY <1>2 DEF Pending, Waiting, Grabbing, Running
  <2> QED BY <1>1, <1>4, <2>1, <2>2 DEF UInv, One
<1> QED BY <1>5, <1>6

\* Steps of a pair's threads.
LEMMA UThread ==
  ASSUME TypeOK, Held, Shapes, KInv, UInv, NEW i \in Pairs, ThreadMemory(i), ~disturbed'
  PROVE  UInv'
<1>1. ~disturbed /\ Undisturbed /\ UNCHANGED x11_buffer_new
  BY ThreadMemoryLive DEF KInv
<1>2. CASE CopyEnds(i)
  <2>1. filled' /\ UNCHANGED unfilled
    BY <1>1, <1>2, ThreadIds DEF CopyEnds, Undisturbed, Held, history
  <2> QED BY <1>1, <2>1 DEF UInv
<1>3. CASE PackBegins(i)
  <2>1. /\ pc[Usb(i)] = "send" /\ pc' = pc /\ ~Holds(Usb(i)) /\ Holds(Usb(i))'
        /\ \A t \in Threads \ {Usb(i)} : Holds(t)' <=> Holds(t)
    BY <1>3, ThreadIds DEF PackBegins, Packing, Transferring, Holds, Held, Loads, vars
  <2>2. Pending /\ ~Pending'
    <3>1. ASSUME NEW j \in Pairs, Waiting(j)' PROVE FALSE
      <4>1. j = i
        BY <1>1, <2>1, <3>1 DEF Waiting, Live, Undisturbed
      <4> QED BY <2>1, <3>1, <4>1 DEF Waiting
    <3> QED BY <2>1, <3>1 DEF Pending, Waiting
  <2>3. Grabbing' <=> Grabbing
    BY <2>1 DEF Grabbing
  <2>4. UNCHANGED filled /\ unfilled' = IF filled \/ unfilled = 3 THEN unfilled ELSE unfilled + 1
    BY <1>1, <1>3 DEF PackBegins
  <2> QED BY <1>1, <2>2, <2>3, <2>4 DEF UInv, One, Shapes
<1>4. CASE CopyBegins(i)
  <2>1. pc' = pc /\ UNCHANGED <<unfilled, filled, disturbed>>
        /\ \A j \in Pairs : Holds(Usb(j))' <=> Holds(Usb(j))
    BY <1>4, ThreadIds DEF CopyBegins, Held, Loads, Holds, vars, memory, history
  <2>2. (Pending' <=> Pending) /\ (Grabbing' <=> Grabbing)
    BY <2>1 DEF Pending, Waiting, Grabbing
  <2> QED BY <1>1, <2>1, <2>2, UnfilledSame
<1>5. CASE TransferBegins(i) \/ TransferEnds(i) \/ SynBegins(i) \/ SynEnds(i)
  <2>1. UNCHANGED <<unfilled, filled, disturbed>>
    BY <1>5 DEF TransferBegins, TransferEnds, SynBegins, SynEnds, memory, history
  <2>2. /\ \A j \in Pairs : pc'[X11(j)] = pc[X11(j)]
        /\ \A j \in Pairs \ {i} : pc'[Usb(j)] = pc[Usb(j)] /\ (Holds(Usb(j))' <=> Holds(Usb(j)))
        /\ ~Waiting(i) /\ ~Waiting(i)'
    <3>1. CASE TransferBegins(i)
      BY <3>1, ThreadIds DEF TransferBegins, Packing, Waiting, Holds, Held, Loads, Forgets, vars
    <3>2. CASE TransferEnds(i)
      BY <3>2, ThreadIds DEF TransferEnds, Transferring, Waiting, Holds, Held, Forgets, UsbSend, Goto, TypeOK
    <3>3. CASE SynBegins(i)
      BY <3>3, ThreadIds DEF SynBegins, Waiting, Holds, Held, Loads, vars
    <3>4. CASE SynEnds(i)
      BY <3>4, ThreadIds DEF SynEnds, Waiting, Holds, Held, Forgets, UsbSyn, Goto, TypeOK
    <3> QED BY <1>5, <3>1, <3>2, <3>3, <3>4
  <2>3. \A j \in Pairs : Waiting(j)' <=> Waiting(j)
    BY <2>2 DEF Waiting
  <2>4. (Pending' <=> Pending) /\ (Grabbing' <=> Grabbing)
    BY <2>2, <2>3 DEF Pending, Grabbing
  <2> QED BY <1>1, <2>1, <2>4, UnfilledSame
<1> QED BY <1>2, <1>3, <1>4, <1>5 DEF ThreadMemory

LEMMA UInvKept == Base /\ Typed /\ KInv /\ UInv /\ [BufferNext]_all => UInv'
<1> SUFFICES ASSUME Base, Held, Shapes, KInv, UInv, [BufferNext]_all, ~disturbed' PROVE UInv'
  BY DEF UInv, Typed
<1>1. TypeOK
  BY DEF Base
<1>2. CASE UNCHANGED <<vars, memory, pointers, history>>
  <2>1. UNCHANGED <<disturbed, unfilled, filled, x11_buffer_new>>
    BY <1>2 DEF vars, buffers, memory, history
  <2>2. (Pending' <=> Pending) /\ (Grabbing' <=> Grabbing)
    BY <1>2 DEF Pending, Waiting, Holds, Grabbing, vars, pointers
  <2> QED BY <2>1, <2>2, UnfilledSame
<1>3. [BufferNext]_all =>
        \/ Quiet \/ HandshakeBuffer \/ DimsReply \/ DimsAllocates \/ StartThreads
        \/ \E i \in Pairs : ThreadMemory(i)
        \/ UNCHANGED <<vars, memory, pointers, history>>
  BY DEF BufferNext, Quiet, Up, ThreadMemory, CaptureCrashes, all, history
<1> QED BY <1>1, <1>2, <1>3, UControl, UReader, UThread

\* Undisturbed, the phone gets at most two frames that no capture was copied into,
\* although x11_buffer_new is raised before the capture is made (Main.c).
THEOREM TwoUnfilled == BufferSpec => []AtMostTwoUnfilled
<1>1. BufferInit => UInv
  <2> SUFFICES ASSUME BufferInit PROVE UInv
    OBVIOUS
  <2>1. ~Pending /\ ~Grabbing
    BY NoneRunsAtFirst DEF Pending, Waiting, Grabbing
  <2>2. unfilled = 0 /\ x11_buffer_new = FALSE
    BY DEF BufferInit, Init
  <2> QED BY <2>1, <2>2 DEF UInv, One
<1>2. UInv => AtMostTwoUnfilled
  BY DEF UInv, AtMostTwoUnfilled
<1> QED BY <1>1, <1>2, UInvKept, BaseAlways, TypedAlways, KInvAlways, PTL DEF BufferSpec
=============================================================================
