------------------------- MODULE ScreenShareProofs -------------------------
(* Proofs about ScreenShare, for any number of pairs of threads.           *)
EXTENDS ScreenShare, TLAPS

\* The identities of the threads are pairwise different.
LEMMA ThreadIds ==
  /\ Reader \in Threads
  /\ Nobody \notin Threads
  /\ \A i \in Pairs : X11(i) \in Threads /\ Usb(i) \in Threads
  /\ \A i \in Pairs : X11(i) # Reader /\ Usb(i) # Reader
  /\ \A i, j \in Pairs : X11(i) # Usb(j)
  /\ \A i, j \in Pairs : i # j => X11(i) # X11(j) /\ Usb(i) # Usb(j)
  BY DEF Threads, Reader, X11, Usb, Nobody, Pairs

-----------------------------------------------------------------------------
(* Type correctness.  A bound is tested when a request is taken up and the *)
(* counter is raised later: Room carries the test across.                  *)

StartLabels == {"start", "start_thread", "start_flags", "start_create"}

Room == pc[Reader] \in StartLabels => pairs < MaxPairs

LEMMA TypeInit == Init => TypeOK
  <1> SUFFICES ASSUME Init PROVE TypeOK
    OBVIOUS
  <1>1. \A t \in Threads : pc[t] \in Labels(t)
    BY ThreadIds DEF Init, Labels, Threads, ReaderLabels, X11Labels, UsbLabels
  <1>2. pc \in [Threads -> ReaderLabels \cup X11Labels \cup UsbLabels]
    BY DEF Init, ReaderLabels, X11Labels
  <1>3. mutex \in [Mutexes -> Threads \cup {Nobody}]
    BY DEF Init
  <1>4. /\ x11_buffer_used \in [Slots -> {BUFFER_FREE, BUFFER_USED}]
        /\ mIndex \in [Threads -> 0..3]
    BY DEF Init
  <1>5. pairs \in 0..MaxPairs
    BY BoundsAssumption DEF Init
  <1>6. /\ x11_buffer_new \in BOOLEAN
        /\ x11_thread_status \in BOOLEAN
        /\ x11_thread_kill \in BOOLEAN
    BY Zenon DEF Init
  <1>7. /\ x11_buffer_index \in 0..3
        /\ transfer_status \in {"HANDSHAKE", "WAITING", "SCREEN_SHARE"}
    BY DEF Init
  <1>. QED
    BY <1>1, <1>2, <1>3, <1>4, <1>5, <1>6, <1>7 DEF TypeOK

LEMMA GotoType ==
  ASSUME TypeOK, NEW t \in Threads, NEW l \in Labels(t), Goto(t, l)
  PROVE  /\ pc' \in [Threads -> ReaderLabels \cup X11Labels \cup UsbLabels]
         /\ \A u \in Threads : pc'[u] \in Labels(u)
  BY DEF TypeOK, Goto, Labels

LEMMA UnlockType ==
  ASSUME TypeOK, NEW m \in Mutexes, Unlock(m)
  PROVE  mutex' \in [Mutexes -> Threads \cup {Nobody}]
  BY DEF TypeOK, Unlock

LEMMA LabelsOf ==
  /\ Labels(Reader) = ReaderLabels
  /\ \A i \in Pairs : Labels(X11(i)) = X11Labels /\ Labels(Usb(i)) = UsbLabels
  BY ThreadIds DEF Labels

\* pthread_create makes threads the model has identities for.
LEMMA NextPair ==
  ASSUME TypeOK, Room, pc[Reader] \in StartLabels
  PROVE  pairs + 1 \in Pairs
  BY BoundsAssumption DEF TypeOK, Room, Pairs

LEMMA TypeStep == TypeOK /\ Room /\ [Next]_vars => TypeOK'
  <1> SUFFICES ASSUME TypeOK, Room, [Next]_vars PROVE TypeOK'
    OBVIOUS
  <1>. USE BoundsAssumption, ThreadIds, LabelsOf DEF flags, buffers, session, Goto, Unlock, InSection
  <1>1. CASE ServeHandshake
    BY <1>1 DEF TypeOK, ServeHandshake, ReaderLabels, X11Labels, UsbLabels
  <1>2. CASE HandshakeReplied
    BY <1>2 DEF TypeOK, HandshakeReplied, ReaderLabels, X11Labels, UsbLabels
  <1>3. CASE ServeClose
    BY <1>3 DEF TypeOK, ServeClose, ReaderLabels, X11Labels, UsbLabels
  <1>4. CASE ServeDims
    BY <1>4 DEF TypeOK, ServeDims, ReaderLabels, X11Labels, UsbLabels
  <1>5. CASE DimsReplied
    BY <1>5 DEF TypeOK, Room, DimsReplied, ReaderLabels, X11Labels, UsbLabels
  <1>6. CASE DimsBuffers
    BY <1>6 DEF TypeOK, DimsBuffers, ReaderLabels, X11Labels, UsbLabels
  <1>7. CASE ServeStop
    BY <1>7 DEF TypeOK, ServeStop, ReaderLabels, X11Labels, UsbLabels
  <1>8. CASE x11_thread_stop
    BY <1>8 DEF TypeOK, x11_thread_stop, ReaderLabels, X11Labels, UsbLabels
  <1>9. CASE ServeStart
    BY <1>9 DEF TypeOK, ServeStart, ReaderLabels, X11Labels, UsbLabels
  <1>10. CASE StartCheck
    BY <1>10 DEF TypeOK, StartCheck, ReaderLabels, X11Labels, UsbLabels
  <1>11. CASE StartEnter
    BY <1>11 DEF TypeOK, StartEnter, ReaderLabels, X11Labels, UsbLabels
  <1>12. CASE StartFlags
    BY <1>12 DEF TypeOK, StartFlags, ReaderLabels, X11Labels, UsbLabels
  <1>13. CASE StartCreate
    <2>1. pairs + 1 \in Pairs
      BY <1>13, NextPair DEF StartLabels, StartCreate
    <2>2. /\ pc' \in [Threads -> ReaderLabels \cup X11Labels \cup UsbLabels]
          /\ \A t \in Threads : pc'[t] \in Labels(t)
      BY <1>13, <2>1 DEF TypeOK, StartCreate, ReaderLabels, X11Labels, UsbLabels
    <2>3. pairs' \in 0..MaxPairs
      BY <1>13, <2>1 DEF TypeOK, StartCreate, Pairs
    <2>. QED
      BY <1>13, <2>2, <2>3 DEF TypeOK, StartCreate
  <1>14. ASSUME NEW i \in Pairs, X11Enter(i) PROVE TypeOK'
    BY <1>14 DEF TypeOK, X11Enter, ReaderLabels, X11Labels, UsbLabels
  <1>15. ASSUME NEW i \in Pairs, X11Check(i) PROVE TypeOK'
    BY <1>15 DEF TypeOK, X11Check, ReaderLabels, X11Labels, UsbLabels
  <1>16. ASSUME NEW i \in Pairs, X11Pick(i) PROVE TypeOK'
    <2>1. PickedSlot \in 0..3
      BY DEF PickedSlot, BUFFER_FREE
    <2>2. x11_buffer_used' \in [Slots -> {BUFFER_FREE, BUFFER_USED}]
      BY <1>16, <2>1 DEF TypeOK, X11Pick
    <2>3. mIndex' \in [Threads -> 0..3]
      BY <1>16, <2>1 DEF TypeOK, X11Pick
    <2>4. x11_buffer_new' \in BOOLEAN
      BY <1>16, Zenon DEF X11Pick
    <2>. QED
      BY <1>16, <2>2, <2>3, <2>4 DEF TypeOK, X11Pick, X11Labels
  <1>17. ASSUME NEW i \in Pairs, X11Grab(i) PROVE TypeOK'
    BY <1>17 DEF TypeOK, X11Grab, ReaderLabels, X11Labels, UsbLabels
  <1>18. ASSUME NEW i \in Pairs, X11Put(i) PROVE TypeOK'
    <2>1. x11_buffer_used' \in [Slots -> {BUFFER_FREE, BUFFER_USED}]
      BY <1>18 DEF TypeOK, X11Put
    <2>. QED
      BY <1>18, <2>1 DEF TypeOK, X11Put, X11Labels
  <1>19. ASSUME NEW i \in Pairs, X11Leave(i) PROVE TypeOK'
    BY <1>19 DEF TypeOK, X11Leave, ReaderLabels, X11Labels, UsbLabels
  <1>20. ASSUME NEW i \in Pairs, UsbCheck(i) PROVE TypeOK'
    BY <1>20 DEF TypeOK, UsbCheck, ReaderLabels, X11Labels, UsbLabels
  <1>21. ASSUME NEW i \in Pairs, UsbTake(i) PROVE TypeOK'
    BY <1>21 DEF TypeOK, UsbTake, ReaderLabels, X11Labels, UsbLabels
  <1>22. ASSUME NEW i \in Pairs, UsbNothingNew(i) PROVE TypeOK'
    BY <1>22 DEF TypeOK, UsbNothingNew, ReaderLabels, X11Labels, UsbLabels
  <1>23. ASSUME NEW i \in Pairs, UsbSend(i) PROVE TypeOK'
    BY <1>23 DEF TypeOK, UsbSend, ReaderLabels, X11Labels, UsbLabels
  <1>24. ASSUME NEW i \in Pairs, UsbSyn(i) PROVE TypeOK'
    BY <1>24 DEF TypeOK, UsbSyn, ReaderLabels, X11Labels, UsbLabels
  <1>25. ASSUME NEW i \in Pairs, UsbPut(i) PROVE TypeOK'
    BY <1>25 DEF TypeOK, UsbPut, ReaderLabels, X11Labels, UsbLabels
  <1>26. ASSUME NEW t \in Threads, Acquire(t) PROVE TypeOK'
    BY <1>26 DEF TypeOK, Acquire
  <1>27. CASE UNCHANGED vars
    BY <1>27 DEF TypeOK, vars
  <1>. QED
    BY <1>1, <1>2, <1>3, <1>4, <1>5, <1>6, <1>7, <1>8, <1>9, <1>10, <1>11, <1>12,
       <1>13, <1>14, <1>15, <1>16, <1>17, <1>18, <1>19, <1>20, <1>21, <1>22,
       <1>23, <1>24, <1>25, <1>26, <1>27
       DEF Next, ReaderServes, ReaderWorks, x11_thread, usb_send_thread

LEMMA RoomStep == TypeOK /\ Room /\ [Next]_vars => Room'
  <1> SUFFICES ASSUME TypeOK, Room, [Next]_vars PROVE Room'
    OBVIOUS
  <1>. USE BoundsAssumption, ThreadIds
       DEF flags, buffers, session, Goto, Unlock, InSection, Room, StartLabels, TypeOK
  <1>1. CASE ReaderServes
    BY <1>1 DEF ReaderServes, ServeHandshake, ServeClose, ServeDims, ServeStop, ServeStart
  <1>2. CASE ReaderWorks
    BY <1>2 DEF ReaderWorks, HandshakeReplied, DimsBuffers, x11_thread_stop, 
                StartCheck, StartEnter, StartFlags, StartCreate
  <1>3. CASE DimsReplied
    BY <1>3 DEF DimsReplied
  <1>4. ASSUME NEW i \in Pairs, x11_thread(i) PROVE Room'
    BY <1>4 DEF x11_thread, X11Enter, X11Check, X11Pick, X11Grab, X11Put, X11Leave
  <1>5. ASSUME NEW i \in Pairs, usb_send_thread(i) \/ UsbSyn(i) PROVE Room'
    BY <1>5 DEF usb_send_thread, UsbCheck, UsbTake, UsbNothingNew, UsbSend, UsbSyn, UsbPut
  <1>6. ASSUME NEW t \in Threads, Acquire(t) PROVE Room'
    BY <1>6 DEF Acquire
  <1>7. CASE UNCHANGED vars
    BY <1>7 DEF vars
  <1>. QED
    BY <1>1, <1>2, <1>3, <1>4, <1>5, <1>6, <1>7 DEF Next

\* Type correctness of the screen sharing threads, for any number of pairs.
THEOREM TypeCorrect == Spec => []TypeOK
  <1>1. Init => TypeOK /\ Room
    BY TypeInit, ThreadIds DEF Init, Room, StartLabels
  <1>2. TypeOK /\ Room /\ [Next]_vars => (TypeOK /\ Room)'
    BY TypeStep, RoomStep
  <1>. QED
    BY <1>1, <1>2, PTL DEF Spec

-----------------------------------------------------------------------------
(* Mutual exclusion.                                                       *)

Created == \A i \in Pairs : /\ pc[X11(i)] = "none" <=> i > pairs
                            /\ pc[Usb(i)] = "none" <=> i > pairs

\* The reader owns the thread mutex from StartEnter until StartCreate.
ReaderStarts == pc[Reader] \in {"start_flags", "start_create"} => mutex["thread"] = Reader

Locks == LocksOwned /\ CaptureExclusive /\ ReaderStarts

LEMMA CreatedStep == TypeOK /\ Room /\ Created /\ [Next]_vars => Created'
  <1> SUFFICES ASSUME TypeOK, Room, Created, [Next]_vars PROVE Created'
    OBVIOUS
  <1>. USE ThreadIds DEF flags, buffers, session, Goto, InSection, Created, TypeOK
  <1>1. CASE ReaderServes
    BY <1>1 DEF ReaderServes, ServeHandshake, ServeClose, ServeDims, ServeStop, ServeStart
  <1>2. CASE ReaderWorks
    <2>1. CASE StartCreate
      <3>1. pairs + 1 \in Pairs
        BY <2>1, NextPair DEF StartCreate, StartLabels
      <3>2. \A i \in Pairs \ {pairs + 1} :
              pc'[X11(i)] = pc[X11(i)] /\ pc'[Usb(i)] = pc[Usb(i)]
        BY <2>1, <3>1 DEF StartCreate
      <3>3. pc'[X11(pairs + 1)] = "enter" /\ pc'[Usb(pairs + 1)] = "usb_loop"
        BY <2>1, <3>1 DEF StartCreate
      <3>4. pairs' = pairs + 1
        BY <2>1 DEF StartCreate
      <3>. QED
        BY <3>1, <3>2, <3>3, <3>4 DEF Pairs
    <2>. QED
      BY <1>2, <2>1 DEF ReaderWorks, HandshakeReplied, DimsBuffers, x11_thread_stop,
                        StartCheck, StartEnter, StartFlags
  <1>3. CASE DimsReplied
    BY <1>3 DEF DimsReplied
  <1>4. ASSUME NEW i \in Pairs, x11_thread(i) PROVE Created'
    BY <1>4 DEF x11_thread, X11Enter, X11Check, X11Pick, X11Grab, X11Put, X11Leave
  <1>5. ASSUME NEW i \in Pairs, usb_send_thread(i) \/ UsbSyn(i) PROVE Created'
    BY <1>5 DEF usb_send_thread, UsbCheck, UsbTake, UsbNothingNew, UsbSend, UsbSyn, UsbPut
  <1>6. ASSUME NEW t \in Threads, Acquire(t) PROVE Created'
    BY <1>6 DEF Acquire
  <1>7. CASE UNCHANGED vars
    BY <1>7 DEF vars
  <1>. QED
    BY <1>1, <1>2, <1>3, <1>4, <1>5, <1>6, <1>7 DEF Next

LEMMA LocksStep ==
  TypeOK /\ Room /\ Created /\ Locks /\ [Next]_vars => Locks'
  <1> SUFFICES ASSUME TypeOK, Room, Created, Locks, [Next]_vars PROVE Locks'
    OBVIOUS
  <1>. USE ThreadIds
       DEF flags, buffers, session, Goto, InSection, Unlock, TypeOK, Mutexes,
           Locks, LocksOwned, CaptureExclusive, ReaderStarts, HoldPoints, WaitPoints, Capturing
  <1>1. CASE ReaderServes
    BY <1>1 DEF ReaderServes, ServeHandshake, ServeClose, ServeDims, ServeStop, ServeStart
  <1>2. CASE ReaderWorks
    <2>1. CASE StartCreate
      <3>1. pairs + 1 \in Pairs /\ pc[X11(pairs + 1)] = "none" /\ pc[Usb(pairs + 1)] = "none"
        <4>1. pairs + 1 \in Pairs
          BY <2>1, NextPair DEF StartCreate, StartLabels
        <4>. QED
          BY <4>1 DEF Created
      <3>2. /\ \A t \in Threads \ {Reader, X11(pairs + 1), Usb(pairs + 1)} : pc'[t] = pc[t]
            /\ pc'[Reader] = "idle" /\ pc'[X11(pairs + 1)] = "enter"
        BY <2>1, <3>1 DEF StartCreate
      <3>3. /\ mutex["thread"] = Reader /\ mutex'["thread"] = Nobody
            /\ \A m \in {"status", "buffer"} : mutex'[m] = mutex[m] /\ mutex[m] # Reader
        BY <2>1 DEF StartCreate
      <3>4. \A i \in Pairs : pc'[X11(i)] \notin {"loop", "pick", "grab", "put", "leave"}
        BY <3>1, <3>2, <3>3
      <3>5. ASSUME NEW m \in Mutexes, mutex'[m] # Nobody
            PROVE  pc'[mutex'[m]] \in HoldPoints[m]
        <4>1. mutex'[m] = mutex[m] /\ mutex[m] \in Threads \ {Reader}
          BY <3>3, <3>5
        <4>2. pc[mutex[m]] \in HoldPoints[m]
          BY <3>5, <4>1
        <4>3. "none" \notin HoldPoints[m]
          OBVIOUS
        <4>4. mutex[m] \notin {X11(pairs + 1), Usb(pairs + 1)}
          BY <3>1, <4>2, <4>3
        <4>. QED
          BY <3>2, <4>1, <4>2, <4>4
      <3>. QED
        BY <3>2, <3>4, <3>5
    <2>2. CASE x11_thread_stop
      BY <2>2 DEF x11_thread_stop
    <2>3. CASE StartCheck
      BY <2>3 DEF StartCheck
    <2>4. CASE StartEnter
      BY <2>4 DEF StartEnter
    <2>5. CASE StartFlags
      BY <2>5 DEF StartFlags
    <2>. QED
      BY <1>2, <2>1, <2>2, <2>3, <2>4, <2>5 DEF ReaderWorks, HandshakeReplied, DimsBuffers
  <1>3. CASE DimsReplied
    BY <1>3 DEF DimsReplied
  <1>4. ASSUME NEW i \in Pairs, x11_thread(i) PROVE Locks'
    <2>1. CASE X11Enter(i)
      BY <2>1 DEF X11Enter
    <2>2. CASE X11Check(i)
      BY <2>2 DEF X11Check
    <2>3. CASE X11Pick(i)
      BY <2>3 DEF X11Pick
    <2>4. CASE X11Grab(i)
      BY <2>4 DEF X11Grab
    <2>5. CASE X11Put(i)
      BY <2>5 DEF X11Put
    <2>6. CASE X11Leave(i)
      BY <2>6 DEF X11Leave
    <2>. QED
      BY <1>4, <2>1, <2>2, <2>3, <2>4, <2>5, <2>6 DEF x11_thread
  <1>5. ASSUME NEW i \in Pairs, usb_send_thread(i) \/ UsbSyn(i) PROVE Locks'
    <2>1. CASE UsbCheck(i)
      BY <2>1 DEF UsbCheck
    <2>2. CASE UsbTake(i) \/ UsbNothingNew(i)
      BY <2>2 DEF UsbTake, UsbNothingNew
    <2>3. CASE UsbSend(i) \/ UsbSyn(i)
      BY <2>3 DEF UsbSend, UsbSyn
    <2>4. CASE UsbPut(i)
      BY <2>4 DEF UsbPut
    <2>. QED
      BY <1>5, <2>1, <2>2, <2>3, <2>4 DEF usb_send_thread
  <1>6. ASSUME NEW t \in Threads, Acquire(t) PROVE Locks'
    BY <1>6 DEF Acquire
  <1>7. CASE UNCHANGED vars
    BY <1>7 DEF vars
  <1>. QED
    BY <1>1, <1>2, <1>3, <1>4, <1>5, <1>6, <1>7 DEF Next

Base == TypeOK /\ Room /\ Created /\ Locks

LEMMA BaseInvariant == Spec => []Base
  <1>1. Init => TypeOK /\ Room /\ Created
    BY TypeInit, ThreadIds DEF Init, Room, StartLabels, Created, Pairs
  <1>2. Init => Locks
    BY ThreadIds
       DEF Init, Locks, LocksOwned, CaptureExclusive, ReaderStarts, Capturing
  <1>3. Base /\ [Next]_vars => Base'
    BY TypeStep, RoomStep, CreatedStep, LocksStep DEF Base
  <1>. QED
    BY <1>1, <1>2, <1>3, PTL DEF Spec, Base

\* Every mutex is owned by a thread inside its critical section.
THEOREM MutexesReleased == Spec => []LocksOwned
  BY BaseInvariant, PTL DEF Base, Locks

\* At most one x11_thread captures.
THEOREM OneCapture == Spec => []CaptureExclusive
  BY BaseInvariant, PTL DEF Base, Locks

\* A START lowers the kill flag only when no capture is in its loop.
THEOREM KillIsNotTakenBack == Spec => KillHeldUntilCaptureLeft
  <1>1. Base /\ [Next]_vars
          => [x11_thread_kill /\ ~x11_thread_kill'
                => \A i \in Pairs : pc[X11(i)] \notin Capturing]_vars
    <2> SUFFICES ASSUME Base, [Next]_vars, x11_thread_kill, ~x11_thread_kill',
                        NEW i \in Pairs
                 PROVE  pc[X11(i)] \notin Capturing
      OBVIOUS
    <2>1. StartFlags
      BY Zenon
         DEF Next, vars, flags, ReaderServes, ReaderWorks, x11_thread, usb_send_thread,
             ServeHandshake, ServeClose, ServeDims, ServeStop, ServeStart, HandshakeReplied,
             DimsReplied, DimsBuffers, x11_thread_stop, StartCheck, StartEnter, StartCreate,
             Acquire, X11Enter, X11Check, X11Pick, X11Grab, X11Put, X11Leave,
             UsbCheck, UsbTake, UsbNothingNew, UsbSend, UsbSyn, UsbPut
    <2>2. mutex["thread"] = Reader
      BY <2>1 DEF StartFlags, InSection, Base, Locks, ReaderStarts
    <2>. QED
      BY <2>2, ThreadIds DEF Base, Locks, CaptureExclusive
  <1>. QED
    BY <1>1, BaseInvariant, PTL DEF Spec, KillHeldUntilCaptureLeft

-----------------------------------------------------------------------------
(* ScreenShare implements CapturePromise.                                  *)

\* A capture on its way out still sees the flag that sent it there.
LeavesKilled == \A i \in Pairs : pc[X11(i)] = "leave" => x11_thread_kill

Captured == {i \in Pairs : pc[X11(i)] \in Capturing}
Finished == {i \in Pairs : pc[X11(i)] = "ended"}

\* The steps that say nothing to the promise.
LEMMA OtherSteps ==
  ASSUME Base, [Next]_vars, ~x11_thread_stop, ~StartFlags,
         \A i \in Pairs : ~X11Enter(i) /\ ~X11Leave(i)
  PROVE  /\ x11_thread_kill' = x11_thread_kill
         /\ Captured' = Captured /\ Finished' = Finished
         /\ \A i \in Pairs : pc'[X11(i)] = "leave" => x11_thread_kill \/ pc[X11(i)] = "leave"
  <1>. USE ThreadIds DEF Base, TypeOK, Captured, Finished, Capturing, flags, Goto, InSection
  <1>1. CASE ReaderServes
    BY <1>1 DEF ReaderServes, ServeHandshake, ServeClose, ServeDims, ServeStop, ServeStart
  <1>2. CASE ReaderWorks
    <2>1. CASE StartCreate
      <3>1. pairs + 1 \in Pairs /\ pc[X11(pairs + 1)] = "none"
        <4>1. pairs + 1 \in Pairs
          BY <2>1, NextPair DEF StartCreate, StartLabels
        <4>. QED
          BY <4>1 DEF Created
      <3>2. /\ \A i \in Pairs \ {pairs + 1} : pc'[X11(i)] = pc[X11(i)]
            /\ pc'[X11(pairs + 1)] = "enter" /\ x11_thread_kill' = x11_thread_kill
        BY <2>1, <3>1 DEF StartCreate
      <3>. QED
        BY <3>1, <3>2
    <2>. QED
      BY <1>2, <2>1 DEF ReaderWorks, HandshakeReplied, DimsBuffers, StartCheck, StartEnter
  <1>3. CASE DimsReplied
    BY <1>3 DEF DimsReplied
  <1>4. ASSUME NEW i \in Pairs, x11_thread(i)
        PROVE  /\ x11_thread_kill' = x11_thread_kill
               /\ Captured' = Captured /\ Finished' = Finished
               /\ \A j \in Pairs : pc'[X11(j)] = "leave"
                                     => x11_thread_kill \/ pc[X11(j)] = "leave"
    BY <1>4 DEF x11_thread, X11Check, X11Pick, X11Grab, X11Put
  <1>5. ASSUME NEW i \in Pairs, usb_send_thread(i) \/ UsbSyn(i)
        PROVE  /\ x11_thread_kill' = x11_thread_kill
               /\ \A j \in Pairs : pc'[X11(j)] = pc[X11(j)]
    BY <1>5 DEF usb_send_thread, UsbCheck, UsbTake, UsbNothingNew, UsbSend, UsbSyn, UsbPut
  <1>6. ASSUME NEW t \in Threads, Acquire(t)
        PROVE  x11_thread_kill' = x11_thread_kill /\ pc' = pc
    BY <1>6 DEF Acquire
  <1>7. CASE UNCHANGED vars
    BY <1>7 DEF vars
  <1>. QED
    BY <1>1, <1>2, <1>3, <1>4, <1>5, <1>6, <1>7 DEF Next

LEMMA PromiseStep ==
  ASSUME Base, LeavesKilled, [Next]_vars
  PROVE  LeavesKilled' /\ [Promise!Next]_(Promise!promised)
  <1>. USE ThreadIds DEF Base, TypeOK, Capturing
  <1>1. CASE x11_thread_stop
    <2>1. LeavesKilled' /\ pc' = [pc EXCEPT ![Reader] = "idle"] /\ x11_thread_kill' = TRUE
      BY <1>1 DEF x11_thread_stop, LeavesKilled, Goto
    <2>2. Captured' = Captured /\ Finished' = Finished
      BY <2>1 DEF Captured, Finished
    <2>3. Promise!Stop
      BY <2>1, <2>2, Zenon DEF Promise!Stop, Captured, Finished
    <2>. QED
      BY <2>1, <2>3 DEF Promise!Next
  <1>2. CASE StartFlags
    <2>1. pc' = [pc EXCEPT ![Reader] = "start_create"] /\ x11_thread_kill' = FALSE
      BY <1>2 DEF StartFlags, Goto
    <2>2. \A i \in Pairs : pc[X11(i)] \notin Capturing
      BY <1>2 DEF StartFlags, InSection, Locks, ReaderStarts, CaptureExclusive
    <2>3. LeavesKilled'
      BY <2>1, <2>2 DEF LeavesKilled
    <2>4. Captured' = Captured /\ Finished' = Finished /\ Captured = {}
      BY <2>1, <2>2 DEF Captured, Finished
    <2>5. Promise!Resume
      BY <2>1, <2>4, Zenon DEF Promise!Resume, Captured, Finished
    <2>. QED
      BY <2>3, <2>5 DEF Promise!Next
  <1>3. ASSUME NEW i \in Pairs, X11Enter(i)
        PROVE  LeavesKilled' /\ Promise!Begin(i)
    <2>1. /\ pc' = [pc EXCEPT ![X11(i)] = "loop"] /\ pc[X11(i)] = "enter"
          /\ x11_thread_kill' = x11_thread_kill /\ mutex["thread"] = X11(i)
      BY <1>3 DEF X11Enter, InSection, Goto
    <2>2. LeavesKilled'
      BY <2>1 DEF LeavesKilled
    <2>3. \A j \in Pairs : pc[X11(j)] \notin Capturing
      BY <2>1 DEF Locks, CaptureExclusive
    <2>4. Captured = {} /\ Captured' = {i} /\ Finished' = Finished /\ i \notin Finished
      BY <2>1, <2>3 DEF Captured, Finished
    <2>. QED
      BY <2>1, <2>2, <2>4, Zenon DEF Promise!Begin, Captured, Finished
  <1>4. ASSUME NEW i \in Pairs, X11Leave(i)
        PROVE  LeavesKilled' /\ Promise!End(i)
    <2>1. /\ pc' = [pc EXCEPT ![X11(i)] = "ended"] /\ pc[X11(i)] = "leave"
          /\ x11_thread_kill' = x11_thread_kill
      BY <1>4 DEF X11Leave, flags, Goto
    <2>2. LeavesKilled' /\ x11_thread_kill
      BY <2>1 DEF LeavesKilled
    <2>3. /\ i \in Captured /\ Captured' = Captured \ {i}
          /\ Finished' = Finished \cup {i}
      BY <2>1 DEF Captured, Finished
    <2>. QED
      BY <2>1, <2>2, <2>3, Zenon DEF Promise!End, Captured, Finished
  <1>5. ASSUME ~x11_thread_stop, ~StartFlags,
               \A i \in Pairs : ~X11Enter(i) /\ ~X11Leave(i)
        PROVE  LeavesKilled' /\ UNCHANGED Promise!promised
    <2>1. /\ x11_thread_kill' = x11_thread_kill
          /\ Captured' = Captured /\ Finished' = Finished
          /\ \A i \in Pairs : pc'[X11(i)] = "leave" => x11_thread_kill \/ pc[X11(i)] = "leave"
      BY <1>5, OtherSteps
    <2>2. LeavesKilled'
      BY <2>1 DEF LeavesKilled
    <2>3. UNCHANGED Promise!promised
      BY <2>1, Zenon DEF Promise!promised, Captured, Finished
    <2>. QED
      BY <2>2, <2>3
  <1>. QED
    BY <1>1, <1>2, <1>3, <1>4, <1>5 DEF Promise!Next

\* The threads implement the promise: one capture at a time, ended only by a
\* stop that still stands, sharing resumed only when the capture is over.
THEOREM CapturesAsPromised == Spec => KeepsPromise
  <1>1. Init => LeavesKilled /\ Promise!Init
    <2> SUFFICES ASSUME Init PROVE LeavesKilled /\ Promise!Init
      OBVIOUS
    <2>1. \A i \in Pairs : pc[X11(i)] = "none"
      BY ThreadIds DEF Init
    <2>2. LeavesKilled /\ Captured = {} /\ Finished = {}
      BY <2>1 DEF LeavesKilled, Captured, Finished, Capturing
    <2>. QED
      BY <2>2, Zenon DEF Init, Promise!Init, Captured, Finished
  <1>. QED
    BY <1>1, PromiseStep, BaseInvariant, PTL DEF Spec, KeepsPromise, Promise!Spec

-----------------------------------------------------------------------------
(* A START is never answered by doing nothing.                             *)

\* The status flag is up once a pair exists; while sharing is on, and while the
\* reader is not between raising the flags and creating threads, the newest pair
\* is alive.
NewestAlive ==
  /\ pairs > 0 => x11_thread_status
  /\ x11_thread_status /\ ~x11_thread_kill /\ pc[Reader] # "start_create"
       => pairs > 0 /\ Alive(pairs)

\* The transfer status follows the flags, except while the reader serves a START.
StatusFollows ==
  /\ pc[Reader] = "stop" => transfer_status = "WAITING"
  /\ transfer_status = "SCREEN_SHARE" /\ pc[Reader] \notin StartLabels
       => x11_thread_status /\ ~x11_thread_kill
  /\ pc[Reader] = "start_create" => x11_thread_status /\ ~x11_thread_kill

Sharing == NewestAlive /\ StatusFollows

LEMMA SharingStep == Base /\ Sharing /\ [Next]_vars => Sharing'
  <1> SUFFICES ASSUME Base, Sharing, [Next]_vars PROVE Sharing'
    OBVIOUS
  <1>. USE ThreadIds
       DEF flags, buffers, session, Goto, InSection, TypeOK, Base, Created,
           Sharing, NewestAlive, StatusFollows, Alive, StartLabels, X11Labels, UsbLabels
  <1>1. CASE ReaderServes
    BY <1>1 DEF ReaderServes, ServeHandshake, ServeClose, ServeDims, ServeStop, ServeStart, Pairs
  <1>2. CASE ReaderWorks
    <2>1. CASE StartCreate
      BY <2>1, NextPair DEF StartCreate
    <2>2. CASE x11_thread_stop
      BY <2>2 DEF x11_thread_stop
    <2>3. CASE StartCheck
      BY <2>3 DEF StartCheck, AlreadySharing, Pairs
    <2>4. CASE StartEnter
      BY <2>4 DEF StartEnter, Pairs
    <2>5. CASE StartFlags
      BY <2>5 DEF StartFlags
    <2>. QED
      BY <1>2, <2>1, <2>2, <2>3, <2>4, <2>5 DEF ReaderWorks, HandshakeReplied, DimsBuffers, Pairs
  <1>3. CASE DimsReplied
    BY <1>3 DEF DimsReplied, Pairs
  <1>4. ASSUME NEW i \in Pairs, x11_thread(i) PROVE Sharing'
    BY <1>4 DEF x11_thread, X11Enter, X11Check, X11Pick, X11Grab, X11Put, X11Leave, Pairs
  <1>5. ASSUME NEW i \in Pairs, usb_send_thread(i) \/ UsbSyn(i) PROVE Sharing'
    BY <1>5 DEF usb_send_thread, UsbCheck, UsbTake, UsbNothingNew, UsbSend, UsbSyn, UsbPut, Pairs
  <1>6. ASSUME NEW t \in Threads, Acquire(t) PROVE Sharing'
    BY <1>6 DEF Acquire
  <1>7. CASE UNCHANGED vars
    BY <1>7 DEF vars
  <1>. QED
    BY <1>1, <1>2, <1>3, <1>4, <1>5, <1>6, <1>7 DEF Next

\* While the device is in SCREEN_SHARE and the reader is idle, sharing is on and
\* the newest capture and send threads exist.
THEOREM StartedSharingIsAlive == Spec => []SharingHasThreads
  <1>1. Init => Sharing
    BY ThreadIds DEF Init, Sharing, NewestAlive, StatusFollows
  <1>2. Base /\ Sharing => SharingHasThreads
    BY DEF Sharing, NewestAlive, StatusFollows, SharingHasThreads, StartLabels
  <1>. QED
    BY <1>1, <1>2, SharingStep, BaseInvariant, PTL DEF Spec

-----------------------------------------------------------------------------
(* Waiting.                                                                *)

\* An owner inside a critical section of the status or of the buffer mutex waits
\* for nothing: sections of these two neither overlap nor call the phone.
LEMMA ShortSections ==
  ASSUME Base, NEW m \in {"status", "buffer"}, mutex[m] # Nobody
  PROVE  GoesOn(mutex[m])
  <1>1. pc[mutex[m]] \in WaitPoints[m]
    BY DEF Base, Locks, LocksOwned, HoldPoints, Mutexes
  <1>2. pc[mutex[m]] \notin {"none", "ended", "idle", "dims_reply", "syn"}
    BY <1>1 DEF WaitPoints
  <1>3. \A n \in Mutexes \ {m} : pc[mutex[m]] \notin WaitPoints[n]
    BY <1>1 DEF WaitPoints, Mutexes
  <1>. QED
    BY <1>2, <1>3 DEF GoesOn, Waits

\* The owner of the thread mutex is on its way, or waits for one of the other two.
LEMMA LongSections ==
  ASSUME Base, mutex["thread"] # Nobody
  PROVE  \/ GoesOn(mutex["thread"])
         \/ \E n \in {"status", "buffer"} : Waits(mutex["thread"], n)
  <1>1. pc[mutex["thread"]] \in {"enter", "start_thread", "loop", "pick", "grab", "put", "leave",
                                "start_flags", "start_create"}
    BY DEF Base, Locks, LocksOwned, HoldPoints, WaitPoints, Capturing, Mutexes
  <1>. QED
    BY <1>1 DEF GoesOn, Waits, Mutexes

\* No circle of waiting threads, and no mutex whose owner waits for the phone, for
\* any number of pairs.
THEOREM EveryWaitEnds == Spec => []WaitsEnd
  <1>1. Base => WaitsEnd
    <2> SUFFICES ASSUME Base, NEW t \in Threads, NEW m \in Mutexes,
                        mutex[m] # Nobody, ~GoesOn(mutex[m])
                 PROVE  \E n \in Mutexes : /\ Waits(mutex[m], n)
                                           /\ mutex[n] = Nobody \/ GoesOn(mutex[n])
      BY DEF WaitsEnd
    <2>1. m = "thread"
      BY ShortSections DEF Mutexes
    <2>2. PICK n \in {"status", "buffer"} : Waits(mutex[m], n)
      BY <2>1, LongSections
    <2>3. n \in Mutexes /\ (mutex[n] = Nobody \/ GoesOn(mutex[n]))
      BY ShortSections DEF Mutexes
    <2>. QED
      BY <2>2, <2>3
  <1>. QED
    BY <1>1, BaseInvariant, PTL

-----------------------------------------------------------------------------
(* After a STOP.                                                           *)

\* How many steps of its own a thread is from its end once the kill flag is up.
X11Left == [none |-> 0, enter |-> 3, pick |-> 5, grab |-> 4, put |-> 3, loop |-> 2,
            leave |-> 1, ended |-> 0]
UsbLeft == [none |-> 0, take |-> 5, send |-> 4, syn |-> 3, usb_put |-> 2, usb_loop |-> 1,
            ended |-> 0]

Left(i) == X11Left[pc[X11(i)]] + UsbLeft[pc[Usb(i)]]

\* While the kill flag is up no thread is created, no step leads a thread away from its
\* end, and each step of a capture or send thread, but for taking a mutex, leads it
\* nearer: after a STOP a pair makes ten steps at most.
WindsDown ==
  [][x11_thread_kill
       => \A i \in Pairs :
            /\ Left(i)' <= Left(i)
            /\ x11_thread(i) \/ usb_send_thread(i) \/ UsbSyn(i) => Left(i)' < Left(i)]_vars

LEMMA LeftType ==
  ASSUME TypeOK, NEW i \in Pairs
  PROVE  pc[X11(i)] \in X11Labels /\ pc[Usb(i)] \in UsbLabels
  BY ThreadIds, LabelsOf DEF TypeOK

\* The threads of a pair that make no step are where they were.
LEMMA LeftStays ==
  ASSUME TypeOK, NEW i \in Pairs, pc'[X11(i)] = pc[X11(i)], pc'[Usb(i)] = pc[Usb(i)]
  PROVE  Left(i)' <= Left(i)
  <1>1. X11Left[pc[X11(i)]] \in Int /\ UsbLeft[pc[Usb(i)]] \in Int
    BY LeftType DEF X11Left, UsbLeft, X11Labels, UsbLabels
  <1>. QED
    BY <1>1 DEF Left

LEMMA X11Nearer ==
  ASSUME TypeOK, x11_thread_kill, NEW i \in Pairs, x11_thread(i)
  PROVE  /\ Left(i)' < Left(i)
         /\ \A j \in Pairs \ {i} : pc'[X11(j)] = pc[X11(j)] /\ pc'[Usb(j)] = pc[Usb(j)]
  <1>. USE ThreadIds DEF TypeOK, Goto, InSection
  <1>1. /\ pc' = [pc EXCEPT ![X11(i)] = pc'[X11(i)]]
        /\ \/ pc[X11(i)] = "enter" /\ pc'[X11(i)] = "loop"
           \/ pc[X11(i)] = "loop"  /\ pc'[X11(i)] = "leave"
           \/ pc[X11(i)] = "pick"  /\ pc'[X11(i)] = "grab"
           \/ pc[X11(i)] = "grab"  /\ pc'[X11(i)] = "put"
           \/ pc[X11(i)] = "put"   /\ pc'[X11(i)] = "loop"
           \/ pc[X11(i)] = "leave" /\ pc'[X11(i)] = "ended"
    BY DEF x11_thread, X11Enter, X11Check, X11Pick, X11Grab, X11Put, X11Leave
  <1>2. \A t \in Threads \ {X11(i)} : pc'[t] = pc[t]
    BY <1>1
  <1>3. X11Left[pc'[X11(i)]] < X11Left[pc[X11(i)]] /\ X11Left[pc[X11(i)]] \in Int
    BY <1>1 DEF X11Left
  <1>4. UsbLeft[pc'[Usb(i)]] = UsbLeft[pc[Usb(i)]] /\ UsbLeft[pc[Usb(i)]] \in Int
    BY <1>2, LeftType DEF UsbLeft, UsbLabels
  <1>5. X11Left[pc'[X11(i)]] \in Int
    BY <1>1 DEF X11Left
  <1>. QED
    BY <1>2, <1>3, <1>4, <1>5 DEF Left

LEMMA UsbNearer ==
  ASSUME TypeOK, x11_thread_kill, NEW i \in Pairs, usb_send_thread(i) \/ UsbSyn(i)
  PROVE  /\ Left(i)' < Left(i)
         /\ \A j \in Pairs \ {i} : pc'[X11(j)] = pc[X11(j)] /\ pc'[Usb(j)] = pc[Usb(j)]
  <1>. USE ThreadIds DEF TypeOK, Goto, InSection
  <1>1. /\ pc' = [pc EXCEPT ![Usb(i)] = pc'[Usb(i)]]
        /\ \/ pc[Usb(i)] = "usb_loop" /\ pc'[Usb(i)] = "ended"
           \/ pc[Usb(i)] = "take"     /\ pc'[Usb(i)] \in {"send", "usb_loop"}
           \/ pc[Usb(i)] = "send"     /\ pc'[Usb(i)] = "syn"
           \/ pc[Usb(i)] = "syn"      /\ pc'[Usb(i)] = "usb_put"
           \/ pc[Usb(i)] = "usb_put"  /\ pc'[Usb(i)] = "usb_loop"
    BY DEF usb_send_thread, UsbCheck, UsbTake, UsbNothingNew, UsbSend, UsbSyn, UsbPut
  <1>2. \A t \in Threads \ {Usb(i)} : pc'[t] = pc[t]
    BY <1>1
  <1>3. /\ UsbLeft[pc'[Usb(i)]] < UsbLeft[pc[Usb(i)]]
        /\ UsbLeft[pc[Usb(i)]] \in Int /\ UsbLeft[pc'[Usb(i)]] \in Int
    BY <1>1 DEF UsbLeft
  <1>4. X11Left[pc'[X11(i)]] = X11Left[pc[X11(i)]] /\ X11Left[pc[X11(i)]] \in Int
    BY <1>2, LeftType DEF X11Left, X11Labels
  <1>. QED
    BY <1>2, <1>3, <1>4 DEF Left

\* A STOP winds the threads down, for any number of pairs.
THEOREM StopWindsDown == Spec => WindsDown
  <1>1. Base /\ Sharing /\ [Next]_vars
          => [x11_thread_kill
                => \A i \in Pairs :
                     /\ Left(i)' <= Left(i)
                     /\ x11_thread(i) \/ usb_send_thread(i) \/ UsbSyn(i)
                          => Left(i)' < Left(i)]_vars
    <2> SUFFICES ASSUME Base, Sharing, [Next]_vars, x11_thread_kill, NEW i \in Pairs
                 PROVE  /\ Left(i)' <= Left(i)
                        /\ x11_thread(i) \/ usb_send_thread(i) \/ UsbSyn(i)
                             => Left(i)' < Left(i)
      OBVIOUS
    <2>1. TypeOK /\ Left(i) \in Int /\ Left(i)' \in Int
      <3>1. TypeOK /\ TypeOK'
        BY TypeStep DEF Base
      <3>2. /\ pc[X11(i)] \in X11Labels /\ pc[Usb(i)] \in UsbLabels
            /\ pc'[X11(i)] \in X11Labels /\ pc'[Usb(i)] \in UsbLabels
        BY <3>1, ThreadIds, LabelsOf DEF TypeOK
      <3>. QED
        BY <3>1, <3>2 DEF Left, X11Left, UsbLeft, X11Labels, UsbLabels
    <2>2. CASE x11_thread(i) \/ usb_send_thread(i) \/ UsbSyn(i)
      BY <2>1, <2>2, X11Nearer, UsbNearer
    <2>3. ASSUME NEW j \in Pairs \ {i}, x11_thread(j) \/ usb_send_thread(j) \/ UsbSyn(j)
          PROVE  Left(i)' <= Left(i)
      BY <2>1, <2>3, X11Nearer, UsbNearer, LeftStays
    <2>4. CASE ReaderServes \/ ReaderWorks \/ DimsReplied \/ (\E t \in Threads : Acquire(t))
               \/ UNCHANGED vars
      <3>1. pc[Reader] # "start_create"
        BY DEF Sharing, StatusFollows
      <3>2. pc'[X11(i)] = pc[X11(i)] /\ pc'[Usb(i)] = pc[Usb(i)]
        <4>. USE <2>1, <3>1, ThreadIds DEF TypeOK, Goto
        <4>1. CASE ReaderServes
          BY <4>1 DEF ReaderServes, ServeHandshake, ServeClose, ServeDims, ServeStop, ServeStart
        <4>2. CASE ReaderWorks
          BY <4>2 DEF ReaderWorks, HandshakeReplied, DimsBuffers, x11_thread_stop, StartCheck,
                      StartEnter, StartFlags, StartCreate
        <4>3. CASE DimsReplied \/ (\E t \in Threads : Acquire(t)) \/ UNCHANGED vars
          BY <4>3 DEF DimsReplied, Acquire, vars
        <4>. QED
          BY <2>4, <4>1, <4>2, <4>3
      <3>3. Left(i)' <= Left(i)
        BY <2>1, <3>2, LeftStays
      <3>4. ~(x11_thread(i) \/ usb_send_thread(i) \/ UsbSyn(i))
        BY <2>1, <3>2, X11Nearer, UsbNearer DEF Left
      <3>. QED
        BY <3>3, <3>4
    <2>5. \/ \E j \in Pairs : x11_thread(j) \/ usb_send_thread(j) \/ UsbSyn(j)
          \/ ReaderServes \/ ReaderWorks \/ DimsReplied \/ (\E t \in Threads : Acquire(t))
          \/ UNCHANGED vars
      BY DEF Next
    <2>. QED
      BY <2>2, <2>3, <2>4, <2>5
  <1>2. Init => Sharing
    BY ThreadIds DEF Init, Sharing, NewestAlive, StatusFollows
  <1>. QED
    BY <1>1, <1>2, SharingStep, BaseInvariant, PTL DEF Spec, WindsDown

-----------------------------------------------------------------------------
(* Buffer slots.                                                           *)

\* Only slot 0 is ever marked or handed on, so the search always finds a free one.
OnlySlotZero ==
  /\ x11_buffer_index = 0
  /\ \A t \in Threads : mIndex[t] = 0
  /\ x11_buffer_used[1] = BUFFER_FREE /\ x11_buffer_used[2] = BUFFER_FREE

LEMMA SlotStep == TypeOK /\ OnlySlotZero /\ [Next]_vars => OnlySlotZero'
  <1> SUFFICES ASSUME TypeOK, OnlySlotZero, [Next]_vars PROVE OnlySlotZero'
    OBVIOUS
  <1>. USE ThreadIds DEF buffers, TypeOK, OnlySlotZero, BUFFER_FREE, BUFFER_USED, Slots
  <1>1. CASE UNCHANGED buffers
    BY <1>1
  <1>2. ASSUME NEW i \in Pairs, X11Pick(i) PROVE OnlySlotZero'
    <2>1. PickedSlot = 0
      BY DEF PickedSlot
    <2>. QED
      BY <1>2, <2>1 DEF X11Pick
  <1>3. ASSUME NEW i \in Pairs, X11Put(i) PROVE OnlySlotZero'
    BY <1>3 DEF X11Put
  <1>4. ASSUME NEW i \in Pairs, UsbTake(i) PROVE OnlySlotZero'
    BY <1>4 DEF UsbTake
  <1>5. ASSUME NEW i \in Pairs, UsbPut(i) PROVE OnlySlotZero'
    BY <1>5 DEF UsbPut
  <1>6. \/ UNCHANGED buffers
        \/ \E i \in Pairs : X11Pick(i) \/ X11Put(i) \/ UsbTake(i) \/ UsbPut(i)
    BY Zenon
       DEF Next, vars, ReaderServes, ReaderWorks, x11_thread, usb_send_thread,
           ServeHandshake, ServeClose, ServeDims, ServeStop, ServeStart, HandshakeReplied,
           DimsReplied, DimsBuffers, x11_thread_stop, StartCheck, StartEnter, StartFlags,
           StartCreate, Acquire, X11Enter, X11Check, X11Grab, X11Leave,
           UsbCheck, UsbNothingNew, UsbSend, UsbSyn
  <1>. QED
    BY <1>1, <1>2, <1>3, <1>4, <1>5, <1>6

\* No access to x11_buffer_used or x11_buffer is out of bounds.
THEOREM SlotsInBounds == Spec => []SlotInBounds
  <1>1. Init => OnlySlotZero
    BY DEF Init, OnlySlotZero, Slots
  <1>2. OnlySlotZero => SlotInBounds
    BY DEF OnlySlotZero, SlotInBounds, Slots
  <1>. QED
    BY <1>1, <1>2, SlotStep, TypeCorrect, PTL DEF Spec
=============================================================================
