---------------------------- MODULE DriverProofs ----------------------------
(***************************************************************************)
(* The driver never waits without a wake-up, it implements the driver of   *)
(* Dispatch, keeps its types, and never cuts a frame it heard from its     *)
(* beginning, for any number of slots, messages, pages and bytes.          *)
(*                                                                         *)
(* Armed speaks of the driver between two interrupts.  Ready says what     *)
(* each state relies on whether or not an interrupt is pending, so that it *)
(* is kept by the hardware and by every pass of the handler.  Heard says   *)
(* what a page that begins with the first byte of a frame has to do with   *)
(* the bytes still on the bus.                                             *)
(***************************************************************************)
EXTENDS Driver, SequenceTheorems, TLAPS

Ready ==
  /\ state = "Idle" => again \/ (timer \in {"long", "done"} /\ timerInt)
  /\ state = "RxAwaitFirstByte" =>
       /\ timer \in {"long", "done"} /\ timerInt
       /\ "rxdrdy" \in inten
       /\ \/ dma /\ Listening
          \/ "rxdrdy" \in events
  /\ state = "RxReceiving" =>
       /\ timer \in {"quiet", "done"} /\ timerInt
       /\ \/ dma /\ Listening
          \/ "rxdrdy" \in events
  /\ state = "TxSending" => "endtx" \in inten /\ (tx \/ "endtx" \in events)

States == {"Idle", "RxAwaitFirstByte", "RxReceiving", "TxSending", "panic"}

BufOK == buf \in Seq(Bytes) /\ line \in Seq(Bytes)

IInv == state \in States /\ Ready /\ BufOK

-----------------------------------------------------------------------------
LEMMA InitIInv == Init => IInv
BY DEF Init, IInv, States, Ready, BufOK

LEMMA InvArmed == IInv => Armed
BY DEF IInv, States, Ready, Armed, Interrupt

(* The hardware. *)
LEMMA TimerStep == IInv /\ TimerFires => IInv'
BY DEF IInv, States, Ready, BufOK, TimerFires, uarteVars, Listening

LEMMA ByteStep ==
  ASSUME IInv, Byte
  PROVE  IInv'
<1>1. BufOK'
  <2>1. line \in Seq(Bytes) /\ line # << >> /\ buf \in Seq(Bytes)
    BY DEF IInv, BufOK, Byte
  <2>2. Head(line) \in Bytes /\ Tail(line) \in Seq(Bytes)
    BY <2>1, HeadTailProperties
  <2>3. Append(buf, Head(line)) \in Seq(Bytes)
    BY <2>1, <2>2
  <2>4. line' = Tail(line) /\ (buf' = Append(buf, Head(line)) \/ buf' = buf)
    BY DEF Byte
  <2>5. QED
    BY <2>1, <2>2, <2>3, <2>4 DEF BufOK
<1>2. state' = state /\ again' = again /\ timer' = timer /\ timerInt' = timerInt
      /\ inten' = inten /\ tx' = tx /\ pins' = pins
  BY DEF Byte, timerVars
<1>3. CASE Listening /\ dma
  <2>1. "rxdrdy" \in events' /\ ("endtx" \in events => "endtx" \in events')
    BY <1>3 DEF Byte
  <2>2. QED
    BY <1>1, <1>2, <2>1 DEF IInv, States, Ready
<1>4. CASE ~(Listening /\ dma)
  <2>1. events' = events /\ dma' = dma
    BY <1>4 DEF Byte
  <2>2. QED
    BY <1>1, <1>2, <2>1 DEF IInv, States, Ready, Listening
<1>5. QED
  BY <1>3, <1>4

LEMMA TransmissionStep == IInv /\ TransmissionEnds => IInv'
BY DEF IInv, States, Ready, BufOK, TransmissionEnds, timerVars, Listening

LEMMA FrameStep ==
  ASSUME IInv, NEW m \in Frames, FrameBegins(m)
  PROVE  IInv'
<1>1. line' \in Seq(Bytes)
  <2>1. line' \in [1 .. FrameBytes -> Bytes]
    BY DEF FrameBegins, Bytes
  <2>2. QED
    BY <2>1, BytesAssumption, SMTT(20)
<1>2. QED
  BY <1>1 DEF IInv, States, Ready, BufOK, FrameBegins, timerVars, uarteVars, Listening

(* The passes of the handler. *)
LEMMA HandlerStep ==
  ASSUME IInv, Handler
  PROVE  IInv'
<1>1. CASE IdleReceive
  <2>1. line' = line
    BY <1>1 DEF IdleReceive
  <2>2. CASE state' = "RxAwaitFirstByte" /\ prepare_recv_initial
    BY <2>1, <2>2 DEF IInv, States, Ready, BufOK, prepare_recv_initial, setup_timer, Listening
  <2>3. CASE state' = state /\ setup_timer /\ buf' = buf
    BY <1>1, <2>1, <2>3 DEF IInv, States, Ready, BufOK, IdleReceive, setup_timer
  <2>4. QED
    BY <1>1, <2>2, <2>3 DEF IdleReceive
<1>2. CASE IdleSend
  BY <1>2 DEF IInv, States, Ready, BufOK, IdleSend, prepare_send, StopTimer
<1>3. CASE IdleEmpty
  BY <1>3 DEF IInv, States, Ready, BufOK, IdleEmpty, setup_timer
<1>4. CASE AwaitTimeout
  <2>1. \/ state' = "Idle" /\ again'
        \/ state' = "RxAwaitFirstByte" /\ setup_timer
    BY <1>4 DEF AwaitTimeout
  <2>2. QED
    BY <1>4, <2>1 DEF IInv, States, Ready, BufOK, AwaitTimeout, setup_timer, uarteVars, Listening
<1>5. CASE AwaitFirstByte
  BY <1>5 DEF IInv, States, Ready, BufOK, AwaitFirstByte, prepare_steady_recv, Listening
<1>6. CASE ReceiveDone
  <2>1. \/ state' = "Idle" /\ again'
        \/ state' = "panic"
    BY <1>6 DEF ReceiveDone, push_incoming
  <2>2. buf' = << >> /\ line' = line
    BY <1>6 DEF ReceiveDone
  <2>3. QED
    BY <2>1, <2>2 DEF IInv, States, Ready, BufOK
<1>7. CASE SendDone
  BY <1>7 DEF IInv, States, Ready, BufOK, SendDone
<1>8. CASE NotYet
  BY <1>8 DEF IInv, States, Ready, BufOK, NotYet, hwVars, timerVars, uarteVars, Listening
<1>9. QED
  BY <1>1, <1>2, <1>3, <1>4, <1>5, <1>6, <1>7, <1>8 DEF Handler

(* Everything else leaves the driver alone. *)
LEMMA ElseStep ==
  ASSUME IInv, UNCHANGED driverVars
  PROVE  IInv'
BY DEF IInv, States, Ready, BufOK, driverVars, hwVars, timerVars, uarteVars, Listening

LEMMA MainLeaves == MainStep \/ TaskStep \/ Clock => UNCHANGED driverVars
BY DEF MainStep, TaskStep, Clock, Main

LEMMA StepIInv == IInv /\ [Next]_vars => IInv'
<1> SUFFICES ASSUME IInv, [Next]_vars PROVE IInv'
  OBVIOUS
<1>1. CASE Handler
  BY <1>1, HandlerStep
<1>2. CASE MainStep \/ TaskStep \/ Clock
  BY <1>2, MainLeaves, ElseStep
<1>3. CASE TimerFires \/ Byte \/ TransmissionEnds
  BY <1>3, TimerStep, ByteStep, TransmissionStep
<1>4. CASE \E m \in Frames : FrameBegins(m)
  BY <1>4, FrameStep
<1>5. CASE UNCHANGED vars
  BY <1>5, ElseStep DEF vars
<1>6. QED
  BY <1>1, <1>2, <1>3, <1>4, <1>5 DEF Next

(* What each state of the driver waits for is always under way             *)
(* (uarte-485/src/lib.rs:440-661).                                         *)
THEOREM Invariance == Spec => []IInv
BY InitIInv, StepIInv, PTL DEF Spec

(* Between two interrupts, in every state, something that will happen has  *)
(* its interrupt enabled (uarte-485/src/lib.rs:547-684): no sequence of    *)
(* bytes, timers, flushes and authorizations puts the driver to sleep for  *)
(* ever.                                                                   *)
THEOREM AlwaysArmed == Spec => []Armed
BY Invariance, InvArmed, PTL

-----------------------------------------------------------------------------
(* The refinement: what a pass of the handler is for Dispatch. *)
LEMMA FlushMaps ==
  ASSUME FlushIfAuthd
  PROVE  flush' = FALSE /\ hi' = D!Flushed(hi) /\ lo' = D!Flushed(lo)
BY DEF FlushIfAuthd

LEMMA ReceiveMaps ==
  ASSUME IdleReceive
  PROVE  D!IoReceive
<1>1. flush' = FALSE /\ hi' = D!Flushed(hi) /\ lo' = D!Flushed(lo) /\ auth' = D!AuthLeft
  BY FlushMaps DEF IdleReceive
<1>2. D!should_be_rxin /\ io = "idle"
  BY DEF IdleReceive, io
<1>3. io' = IF D!alloc_box \/ (flush /\ D!Waiting) THEN "rx" ELSE "idle"
  BY DEF IdleReceive, io
<1>4. UNCHANGED <<own, out, inq, rx, shame, pc, at, sending, default_to, receive_for>>
  BY DEF IdleReceive, taskVars, modeVars
<1>5. QED
  BY <1>1, <1>2, <1>3, <1>4 DEF D!IoReceive, D!procVars, D!modeVars

LEMMA SendMaps ==
  ASSUME IdleSend
  PROVE  D!IoSend
<1>1. io = "idle" /\ io' = "tx"
  BY DEF IdleSend, io
<1>2. ~D!should_be_rxin /\ ~flush /\ D!Waiting
  BY DEF IdleSend
<1>3. /\ flush' = FALSE /\ auth' = FALSE
      /\ UNCHANGED <<own, out, inq, rx, shame, pc, at, default_to>>
  BY <1>2 DEF IdleSend, taskVars
<1>4. /\ sending' = <<D!NextToGo>>
      /\ hi' = IF hi # << >> THEN Tail(hi) ELSE hi
      /\ lo' = IF hi # << >> THEN lo ELSE Tail(lo)
      /\ receive_for' \in IF hi # << >> THEN BOOLEAN ELSE {FALSE}
  BY DEF IdleSend
<1>5. QED
  BY <1>1, <1>2, <1>3, <1>4 DEF D!IoSend, D!procVars

LEMMA EmptyMaps ==
  ASSUME IdleEmpty
  PROVE  D!IoSend
<1>1. io = "idle" /\ io' = io
  BY DEF IdleEmpty, io
<1>2. QED
  BY <1>1, FlushMaps DEF IdleEmpty, D!IoSend, D!procVars, taskVars, modeVars

(* The wait for a first byte that goes on, its end and the beginning of    *)
(* the frame are inside of one reception.                                  *)
LEMMA RunningMaps ==
  ASSUME AwaitTimeout \/ AwaitFirstByte \/ NotYet
  PROVE  D!IoGoesOn \/ D!IoReceivedNothing
<1>1. /\ flush' = FALSE /\ hi' = D!Flushed(hi) /\ lo' = D!Flushed(lo) /\ auth' = D!AuthLeft
      /\ UNCHANGED <<own, out, inq, rx, shame, pc, at, sending, default_to, receive_for>>
  BY FlushMaps DEF AwaitTimeout, AwaitFirstByte, NotYet, taskVars, modeVars
<1>2. \/ io \in {"rx", "tx"} /\ io' = io
      \/ io = "rx" /\ io' = "idle"
  BY DEF AwaitTimeout, AwaitFirstByte, NotYet, io
<1>3. QED
  BY <1>1, <1>2 DEF D!IoGoesOn, D!IoReceivedNothing, D!procVars, D!modeVars, D!ioVars

(* What is in the page is a message that Dispatch knows, whatever bytes    *)
(* the page has.                                                           *)
LEMMA PacketIsMessage ==
  ASSUME BufOK, buf # << >>
  PROVE  Packet \in InMsgs
<1>1. buf[1] \in Bytes
  BY DEF BufOK
<1>2. buf[1].msg \in InMsgs
  BY <1>1, FramesAssumption DEF Bytes
<1>3. Refused \in InMsgs
  BY FramesAssumption DEF Refused
<1>4. QED
  BY <1>2, <1>3 DEF Packet

LEMMA DoneMaps ==
  ASSUME IInv, ReceiveDone
  PROVE  D!Next
<1>1. /\ flush' = FALSE /\ hi' = D!Flushed(hi) /\ lo' = D!Flushed(lo) /\ auth' = D!AuthLeft
      /\ UNCHANGED <<own, out, inq, shame, pc, at, sending, default_to, receive_for>>
      /\ io = "rx"
  BY FlushMaps DEF ReceiveDone, taskVars, modeVars, io
<1>2. CASE buf = << >>
  <2>1. rx' = rx /\ io' = "idle"
    BY <1>2 DEF ReceiveDone, io
  <2>2. D!IoReceivedNothing
    BY <1>1, <2>1 DEF D!IoReceivedNothing, D!procVars, D!modeVars
  <2>3. QED
    BY <2>2 DEF D!Next, D!Io
<1>3. CASE buf # << >>
  <2>1. Packet \in InMsgs
    BY <1>3, PacketIsMessage DEF IInv
  <2>2. push_incoming(Packet)
    BY <1>3 DEF ReceiveDone
  <2>3. IF Len(rx) < IoDepth THEN rx' = Append(rx, Packet) /\ io' = "idle"
                             ELSE rx' = rx /\ io' = "panic"
    BY <2>2 DEF push_incoming, io
  <2>4. D!IoReceived(Packet)
    BY <1>1, <2>3 DEF D!IoReceived, D!procVars, D!modeVars
  <2>5. QED
    BY <2>1, <2>4 DEF D!Next
<1>4. QED
  BY <1>2, <1>3

LEMMA SentMaps ==
  ASSUME SendDone
  PROVE  D!IoSent
<1>1. io = "tx" /\ io' = "idle"
  BY DEF SendDone, io
<1>2. QED
  BY <1>1, FlushMaps DEF SendDone, D!IoSent, D!procVars, D!modeVars, taskVars, modeVars

LEMMA HandlerMaps ==
  ASSUME IInv, Handler
  PROVE  D!Next
<1>1. CASE IdleReceive
  BY <1>1, ReceiveMaps DEF D!Next, D!Io
<1>2. CASE IdleSend \/ IdleEmpty
  BY <1>2, SendMaps, EmptyMaps DEF D!Next, D!Io
<1>3. CASE AwaitTimeout \/ AwaitFirstByte \/ NotYet
  BY <1>3, RunningMaps DEF D!Next, D!Io
<1>4. CASE ReceiveDone
  BY <1>4, DoneMaps
<1>5. CASE SendDone
  BY <1>5, SentMaps DEF D!Next, D!Io
<1>6. QED
  BY <1>1, <1>2, <1>3, <1>4, <1>5 DEF Handler

LEMMA HardwareMaps ==
  ASSUME TimerFires \/ Byte \/ TransmissionEnds \/ (\E m \in Frames : FrameBegins(m))
  PROVE  UNCHANGED D!vars
<1>1. UNCHANGED <<own, out, inq, shame, pc, at, rx, hi, lo, auth, flush, default_to,
                  receive_for, sending, state>>
  BY DEF TimerFires, Byte, TransmissionEnds, FrameBegins, taskVars, queueVars, modeVars
<1>2. QED
  BY <1>1 DEF D!vars, D!outVars, D!procVars, D!ioVars, D!modeVars, io

LEMMA StepMaps == IInv /\ [Next]_vars => [D!Next]_(D!vars)
<1> SUFFICES ASSUME IInv, [Next]_vars PROVE [D!Next]_(D!vars)
  OBVIOUS
<1>1. CASE Handler
  BY <1>1, HandlerMaps
<1>2. CASE MainStep \/ TaskStep \/ Clock
  BY <1>2 DEF MainStep, TaskStep, Clock, Main, D!Next
<1>3. CASE TimerFires \/ Byte \/ TransmissionEnds \/ (\E m \in Frames : FrameBegins(m))
  BY <1>3, HardwareMaps
<1>4. CASE UNCHANGED vars
  BY <1>4 DEF vars, taskVars, queueVars, modeVars, driverVars, io,
              D!vars, D!outVars, D!procVars, D!ioVars, D!modeVars
<1>5. QED
  BY <1>1, <1>2, <1>3, <1>4 DEF Next

(* The driver with its timers, interrupts and bytes does what Dispatch     *)
(* takes a driver to do (uarte-485/src/lib.rs:546-606), for any number of  *)
(* slots, pages and bytes; whatever was shown of Dispatch without fairness *)
(* is so of the device with this driver.                                   *)
THEOREM DriverImplementsDispatch == Spec => Implements
<1>1. Init => D!Init
  BY DEF Init
<1>2. QED
  BY <1>1, StepMaps, Invariance, PTL DEF Spec, Implements, D!Spec
-----------------------------------------------------------------------------
(* The types: those of the queues are Dispatch's, by the refinement.       *)
DP == INSTANCE DispatchProofs

LEMMA SamePages == DP!alloc_box = D!alloc_box
BY DEF DP!alloc_box, D!alloc_box, DP!Used, D!Used, DP!MapThenSumSet, D!MapThenSumSet,
       DP!MapThenFoldSet, D!MapThenFoldSet

LEMMA SameSteps ==
  /\ D!Init => DP!Init
  /\ [D!Next]_(D!vars) => [DP!Next]_(DP!vars)
  /\ DP!TypeOK => D!TypeOK
<1>1. D!Init => DP!Init
  BY DEF D!Init, DP!Init, D!FirstSlot, DP!FirstSlot
<1>2. DP!TypeOK => D!TypeOK
  BY DEF D!TypeOK, DP!TypeOK, D!OutMsgs, DP!OutMsgs
<1> SUFFICES ASSUME [D!Next]_(D!vars) PROVE [DP!Next]_(DP!vars)
  BY <1>1, <1>2
<1> USE DEF D!vars, DP!vars, D!outVars, DP!outVars, D!ioVars, DP!ioVars,
            D!procVars, DP!procVars, D!modeVars, DP!modeVars
<1>3. CASE UNCHANGED D!vars
  BY <1>3
<1>4. CASE \E i \in Slots : D!TrySend(i) \/ D!TrySendAuthd(i) \/ D!TryRecv(i)
  BY <1>4, SamePages
     DEF DP!Next, D!TrySend, DP!TrySend, D!TrySendAuthd, DP!TrySendAuthd, D!try_send, DP!try_send,
         D!TryRecv, DP!TryRecv, D!Tasks, DP!Tasks
<1>5. CASE D!AuthSend \/ D!AuthFlush \/ D!SetAddr \/ D!ChangeDefault \/ D!ReceiveTimeOver
  BY <1>5
     DEF DP!Next, D!AuthSend, DP!AuthSend, D!AuthFlush, DP!AuthFlush, D!SetAddr, DP!SetAddr,
         D!ChangeDefault, DP!ChangeDefault, D!ReceiveTimeOver, DP!ReceiveTimeOver
<1>6. CASE D!ProcessMessages \/ D!ProcessIncoming \/ D!NoAddress \/ D!NothingLeftOver
           \/ D!LeftOverMoves \/ D!LeftOverStays
  BY <1>6
     DEF DP!Next, DP!Process, D!ProcessMessages, DP!ProcessMessages,
         D!ProcessIncoming, DP!ProcessIncoming, D!Deliver, DP!Deliver, D!Accepts, DP!Accepts,
         D!MatchingSlots, DP!MatchingSlots, D!port, DP!port, D!INVALID_PORT, DP!INVALID_PORT,
         D!NoAddress, DP!NoAddress, D!NothingLeftOver, DP!NothingLeftOver,
         D!LeftOverMoves, DP!LeftOverMoves, D!LeftOverStays, DP!LeftOverStays,
         D!FirstSlot, DP!FirstSlot
<1>7. CASE D!OutgoingBox \/ D!NoneLeft \/ D!OutgoingOversize \/ D!OutgoingUrgent
           \/ D!OutgoingToIo \/ D!OutgoingLeftOver
  BY <1>7, SamePages
     DEF DP!Next, DP!Process, D!OutgoingBox, DP!OutgoingBox, D!NoneLeft, DP!NoneLeft,
         D!FirstSlot, DP!FirstSlot, D!Outgoing, DP!Outgoing, D!TakeOutgoing, DP!TakeOutgoing,
         D!OutgoingOversize, DP!OutgoingOversize, D!Urgent, DP!Urgent,
         D!OutgoingUrgent, DP!OutgoingUrgent, D!OutgoingToIo, DP!OutgoingToIo,
         D!OutgoingLeftOver, DP!OutgoingLeftOver
<1> USE DEF D!AuthLeft, DP!AuthLeft, D!Flushed, DP!Flushed, D!Waiting, DP!Waiting
<1>8. CASE D!Io
  BY <1>8, SamePages
     DEF D!Io, DP!Next, DP!Io, D!should_be_rxin, DP!should_be_rxin, D!NextToGo, DP!NextToGo,
         D!IoReceive, DP!IoReceive, D!IoSend, DP!IoSend, D!IoSent, DP!IoSent,
         D!IoReceivedNothing, DP!IoReceivedNothing, D!IoGoesOn, DP!IoGoesOn
<1>9. CASE \E m \in InMsgs : D!IoReceived(m)
  BY <1>9 DEF DP!Next, D!IoReceived, DP!IoReceived
<1>10. QED
  BY <1>3, <1>4, <1>5, <1>6, <1>7, <1>8, <1>9 DEF D!Next, D!Process

LEMMA DispatchTypes == Spec => []D!TypeOK
<1>1. /\ DP!SlotsAssumption /\ DP!SendsAssumption /\ DP!InMsgsAssumption
      /\ DP!DefaultsAssumption /\ DP!DepthAssumption /\ DP!PagesAssumption
  BY DispatchAssumption
     DEF D!Tasks, DP!Tasks, DP!INVALID_PORT, D!INVALID_PORT,
         D!IsFiniteSet, DP!IsFiniteSet, D!Cardinality, DP!Cardinality
<1>2. DP!Spec => []DP!TypeOK
  BY <1>1, DP!TypesKept
<1>3. Implements => DP!Spec
  BY SameSteps, PTL DEF Implements, D!Spec, DP!Spec
<1>4. QED
  BY <1>2, <1>3, SameSteps, DriverImplementsDispatch, PTL

(* And the driver's own: a reception runs only while its page has room.    *)
OwnTypes ==
  /\ again \in BOOLEAN
  /\ timer \in {"stopped", "long", "quiet", "done"}
  /\ timerInt \in BOOLEAN /\ channel \in BOOLEAN
  /\ inten \subseteq {"rxdrdy", "endrx", "endtx"}
  /\ events \subseteq {"rxdrdy", "endrx", "endtx"}
  /\ dma \in BOOLEAN /\ tx \in BOOLEAN
  /\ pins \in {"idle", "send", "recv"}

Room == /\ Len(buf) <= PageBytes /\ (dma => Len(buf) < PageBytes)
        /\ Len(line) <= FrameBytes

LEMMA OwnTypesStep ==
  ASSUME OwnTypes, [Next]_vars
  PROVE  OwnTypes'
<1>1. CASE IdleReceive
  BY <1>1 DEF OwnTypes, IdleReceive, prepare_recv_initial, setup_timer
<1>2. CASE IdleSend
  BY <1>2 DEF OwnTypes, IdleSend, prepare_send, StopTimer
<1>3. CASE IdleEmpty
  BY <1>3 DEF OwnTypes, IdleEmpty, setup_timer
<1>4. CASE AwaitTimeout
  BY <1>4 DEF OwnTypes, AwaitTimeout, setup_timer, timerVars, uarteVars
<1>5. CASE AwaitFirstByte
  BY <1>5 DEF OwnTypes, AwaitFirstByte, prepare_steady_recv
<1>6. CASE ReceiveDone
  <2>1. again' \in BOOLEAN
    BY <1>6 DEF ReceiveDone, push_incoming
  <2>2. QED
    BY <1>6, <2>1 DEF OwnTypes, ReceiveDone, StopTimer
<1>7. CASE SendDone
  BY <1>7 DEF OwnTypes, SendDone, StopTimer
<1>8. CASE NotYet
  BY <1>8 DEF OwnTypes, NotYet, hwVars, timerVars, uarteVars
<1>9. CASE Byte
  <2>1. dma' \in BOOLEAN
    <3>1. dma' = (Len(buf') < PageBytes) \/ dma' = dma
      BY <1>9 DEF Byte
    <3>2. (Len(buf') < PageBytes) \in BOOLEAN
      OBVIOUS
    <3>3. QED
      BY <3>1, <3>2, Zenon DEF OwnTypes
  <2>2. events' \subseteq {"rxdrdy", "endrx", "endtx"}
    BY <1>9 DEF OwnTypes, Byte
  <2>3. QED
    BY <1>9, <2>1, <2>2 DEF OwnTypes, Byte, timerVars
<1>10. CASE TimerFires \/ TransmissionEnds \/ \E m \in Frames : FrameBegins(m)
  BY <1>10 DEF OwnTypes, TimerFires, TransmissionEnds, FrameBegins, timerVars, uarteVars
<1>11. CASE MainStep \/ TaskStep \/ Clock \/ UNCHANGED vars
  <2>1. UNCHANGED driverVars
    BY <1>11, MainLeaves DEF vars
  <2>2. QED
    BY <2>1 DEF OwnTypes, driverVars, hwVars, timerVars, uarteVars
<1>12. QED
  BY <1>1, <1>2, <1>3, <1>4, <1>5, <1>6, <1>7, <1>8, <1>9, <1>10, <1>11 DEF Next, Handler

LEMMA FunctionIsSeq ==
  ASSUME NEW S, NEW n \in Nat, NEW f \in [1 .. n -> S]
  PROVE  f \in Seq(S) /\ Len(f) = n
OBVIOUS

LEMMA FrameLength ==
  ASSUME NEW m, FrameBegins(m)
  PROVE  /\ line' \in Seq([msg : {m}, n : 1 .. FrameBytes]) /\ Len(line') = FrameBytes
         /\ \A k \in 1 .. FrameBytes : line'[k] = [msg |-> m, n |-> k]
<1>1. line' \in [1 .. FrameBytes -> [msg : {m}, n : 1 .. FrameBytes]]
  BY DEF FrameBegins
<1>2. line' \in Seq([msg : {m}, n : 1 .. FrameBytes]) /\ Len(line') = FrameBytes
  BY <1>1, FunctionIsSeq, BytesAssumption
<1>3. QED
  BY <1>2 DEF FrameBegins

LEMMA RoomStep ==
  ASSUME IInv, Room, [Next]_vars
  PROVE  Room'
<1>1. CASE Byte
  <2>1. line \in Seq(Bytes) /\ line # << >> /\ buf \in Seq(Bytes)
    BY <1>1 DEF IInv, BufOK, Byte
  <2>2. Len(line') <= Len(line)
    BY <1>1, <2>1, HeadTailProperties DEF Byte
  <2>3. CASE Listening /\ dma
    <3>1. Len(buf') = Len(buf) + 1
      BY <1>1, <2>1, <2>3, AppendProperties, HeadTailProperties DEF Byte
    <3>2. dma' => Len(buf') < PageBytes
      BY <1>1, <2>3 DEF Byte
    <3>3. Len(buf) \in Nat /\ Len(line) \in Nat /\ Len(line') \in Nat
      BY <1>1, <2>1, HeadTailProperties DEF Byte
    <3>4. QED
      BY <2>2, <2>3, <3>1, <3>2, <3>3, BytesAssumption DEF Room
  <2>4. CASE ~(Listening /\ dma)
    <3>1. buf' = buf /\ dma' = dma
      BY <1>1, <2>4 DEF Byte
    <3>2. Len(line) \in Nat /\ Len(line') \in Nat
      BY <1>1, <2>1, HeadTailProperties DEF Byte
    <3>3. QED
      BY <2>2, <3>1, <3>2, BytesAssumption DEF Room
  <2>5. QED
    BY <2>3, <2>4
<1>2. CASE \E m \in Frames : FrameBegins(m)
  BY <1>2, FrameLength, BytesAssumption DEF Room, FrameBegins, uarteVars
<1>3. CASE Handler
  <2>1. line' = line
    BY <1>3 DEF Handler, IdleReceive, IdleSend, IdleEmpty, AwaitTimeout, AwaitFirstByte,
                ReceiveDone, SendDone, NotYet, hwVars
  <2>2. \/ buf' = buf /\ dma' = dma
        \/ buf' = << >> /\ dma' \in BOOLEAN
    BY <1>3 DEF Handler, IdleReceive, IdleSend, IdleEmpty, AwaitTimeout, AwaitFirstByte,
                ReceiveDone, SendDone, NotYet, hwVars, uarteVars, prepare_recv_initial
  <2>3. Len(<< >>) = 0
    OBVIOUS
  <2>4. QED
    BY <2>1, <2>2, <2>3, BytesAssumption DEF Room
<1>4. CASE TimerFires \/ TransmissionEnds
  BY <1>4 DEF Room, TimerFires, TransmissionEnds, uarteVars
<1>5. CASE MainStep \/ TaskStep \/ Clock \/ UNCHANGED vars
  <2>1. UNCHANGED driverVars
    BY <1>5, MainLeaves DEF vars
  <2>2. QED
    BY <2>1 DEF Room, driverVars, hwVars, uarteVars
<1>6. QED
  BY <1>1, <1>2, <1>3, <1>4, <1>5 DEF Next

(* The driver and the queues it shares with process_messages keep their    *)
(* types and bounds, and no reception writes past the end of its page      *)
(* (uarte-485/src/lib.rs:404-428).                                         *)
THEOREM TypeCorrect == Spec => []TypeOK
<1>1. Init => OwnTypes /\ Room
  <2>1. Len(<< >>) = 0 /\ 0 <= PageBytes /\ 0 <= FrameBytes
    BY BytesAssumption
  <2>2. QED
    BY <2>1 DEF Init, OwnTypes, Room
<1>2. OwnTypes /\ [Next]_vars => OwnTypes'
  BY OwnTypesStep
<1>3. IInv /\ Room /\ [Next]_vars => Room'
  BY RoomStep
<1>4. IInv /\ OwnTypes /\ Room /\ D!TypeOK => TypeOK
  BY DEF IInv, States, BufOK, OwnTypes, Room, TypeOK
<1>5. QED
  BY <1>1, <1>2, <1>3, <1>4, DispatchTypes, Invariance, PTL DEF Spec
-----------------------------------------------------------------------------
(* Whole frames.  What is on the bus is the end of one frame; a page that  *)
(* begins with the first byte of a frame has that frame as far as it is    *)
(* over, and while bytes of it are missing, those on the bus are they.     *)
LineIsEnd ==
  line # << >> => \E m \in Frames : \A k \in 1 .. Len(line) :
                    line[k] = [msg |-> m, n |-> FrameBytes - Len(line) + k]

SoFar == \A k \in 1 .. FrameBytes : k <= Len(buf) => buf[k] = [msg |-> buf[1].msg, n |-> k]

Missing == dma /\ Len(buf) < FrameBytes =>
             /\ line # << >> /\ Len(line) = FrameBytes - Len(buf)
             /\ line[1].msg = buf[1].msg

InReception ==
  state \in {"RxAwaitFirstByte", "RxReceiving"} =>
    /\ pins = "recv"
    /\ dma \/ Len(buf) = PageBytes
    /\ "rxdrdy" \in events => buf # << >>
    /\ FromStart => SoFar /\ Missing

(* The reasons for which a reception ends. *)
AtItsEnd ==
  state = "RxReceiving" =>
    /\ buf # << >> /\ channel
    /\ "endrx" \in events => Len(buf) = PageBytes
    /\ timer = "done" /\ FromStart => Len(buf) >= FrameBytes

Heard == LineIsEnd /\ InReception /\ AtItsEnd

LEMMA BytesOnTheLine ==
  ASSUME IInv, Byte
  PROVE  /\ buf \in Seq(Bytes) /\ line \in Seq(Bytes) /\ line # << >>
         /\ Len(buf) \in Nat /\ Len(line) \in Nat \ {0}
         /\ line' \in Seq(Bytes) /\ Len(line') = Len(line) - 1
         /\ \A k \in 1 .. Len(line) - 1 : line'[k] = line[k + 1]
<1>1. buf \in Seq(Bytes) /\ line \in Seq(Bytes) /\ line # << >> /\ line' = Tail(line)
  BY DEF IInv, BufOK, Byte
<1>2. /\ Tail(line) \in Seq(Bytes) /\ Len(Tail(line)) = Len(line) - 1
      /\ \A k \in 1 .. Len(Tail(line)) : Tail(line)[k] = line[k + 1]
  BY <1>1, HeadTailProperties
<1>3. Len(buf) \in Nat /\ Len(line) \in Nat /\ Len(line) # 0
  BY <1>1
<1>4. QED
  BY <1>1, <1>2, <1>3

LEMMA LineStep ==
  ASSUME IInv, LineIsEnd, [Next]_vars
  PROVE  LineIsEnd'
<1>1. CASE Byte
  <2>1. PICK m \in Frames : \A k \in 1 .. Len(line) :
                              line[k] = [msg |-> m, n |-> FrameBytes - Len(line) + k]
    BY <1>1 DEF LineIsEnd, Byte
  <2>2. /\ Len(line) \in Nat \ {0} /\ Len(line') = Len(line) - 1
        /\ \A k \in 1 .. Len(line) - 1 : line'[k] = line[k + 1]
    BY <1>1, BytesOnTheLine
  <2>3. ASSUME NEW k \in 1 .. Len(line')
        PROVE  line'[k] = [msg |-> m, n |-> FrameBytes - Len(line') + k]
    <3>1. k + 1 \in 1 .. Len(line) /\ k \in 1 .. Len(line) - 1
      BY <2>2
    <3>2. FrameBytes - Len(line) + (k + 1) = FrameBytes - Len(line') + k
      BY <2>2, BytesAssumption
    <3>3. QED
      BY <2>1, <2>2, <3>1, <3>2
  <2>4. QED
    BY <2>3 DEF LineIsEnd
<1>2. CASE \E m \in Frames : FrameBegins(m)
  <2>1. PICK m \in Frames : FrameBegins(m)
    BY <1>2
  <2>2. /\ Len(line') = FrameBytes
        /\ \A k \in 1 .. FrameBytes : line'[k] = [msg |-> m, n |-> k]
    BY <2>1, FrameLength
  <2>3. \A k \in 1 .. FrameBytes : FrameBytes - Len(line') + k = k
    BY <2>2, BytesAssumption
  <2>4. QED
    BY <2>2, <2>3 DEF LineIsEnd
<1>3. CASE Handler \/ TimerFires \/ TransmissionEnds \/ MainStep \/ TaskStep \/ Clock \/ UNCHANGED vars
  <2>1. MainStep \/ TaskStep \/ Clock \/ UNCHANGED vars => UNCHANGED driverVars
    BY MainLeaves DEF vars
  <2>2. line' = line
    BY <1>3, <2>1
       DEF Handler, IdleReceive, IdleSend, IdleEmpty, AwaitTimeout, AwaitFirstByte, ReceiveDone,
           SendDone, NotYet, TimerFires, TransmissionEnds, driverVars, hwVars
  <2>3. QED
    BY <2>2 DEF LineIsEnd
<1>4. QED
  BY <1>1, <1>2, <1>3 DEF Next

(* A byte that is stored. *)
LEMMA StoredByte ==
  ASSUME IInv, Room, Heard, Byte, Listening, dma
  PROVE  /\ buf' = Append(buf, line[1]) /\ Len(buf') = Len(buf) + 1 /\ buf' # << >>
         /\ \A k \in 1 .. Len(buf) : buf'[k] = buf[k]
         /\ buf'[Len(buf) + 1] = line[1]
         /\ dma' \/ Len(buf') = PageBytes
         /\ Len(buf) < PageBytes
         /\ "endrx" \in events' => "endrx" \in events \/ Len(buf') = PageBytes
<1>1. /\ buf \in Seq(Bytes) /\ line \in Seq(Bytes) /\ line # << >> /\ Len(buf) \in Nat
      /\ Len(line) \in Nat \ {0}
  BY BytesOnTheLine
<1>2. buf' = Append(buf, line[1]) /\ line[1] \in Bytes
  BY <1>1, HeadTailProperties DEF Byte
<1>3. /\ Len(buf') = Len(buf) + 1 /\ buf' # << >> /\ buf'[Len(buf) + 1] = line[1]
      /\ \A k \in 1 .. Len(buf) : buf'[k] = buf[k]
  BY <1>1, <1>2, AppendProperties
<1>4. Len(buf) < PageBytes
  BY DEF Room
<1>5. dma' = (Len(buf') < PageBytes)
  BY DEF Byte
<1>6. dma' \/ Len(buf') = PageBytes
  <2>1. Len(buf') < PageBytes => dma'
    BY <1>5, Zenon
  <2>2. Len(buf') < PageBytes \/ Len(buf') = PageBytes
    BY <1>1, <1>3, <1>4, BytesAssumption
  <2>3. QED
    BY <2>1, <2>2
<1>7. "endrx" \in events' => "endrx" \in events \/ ~dma'
  BY DEF Byte
<1>8. QED
  BY <1>2, <1>3, <1>4, <1>6, <1>7

LEMMA StoredOfFrame ==
  ASSUME IInv, Room, Heard, Byte, Listening, dma, FromStart',
         state \in {"RxAwaitFirstByte", "RxReceiving"}
  PROVE  (SoFar /\ Missing)'
<1>1. /\ Len(buf) \in Nat /\ Len(line) \in Nat \ {0} /\ Len(line') = Len(line) - 1
      /\ \A k \in 1 .. Len(line) - 1 : line'[k] = line[k + 1]
      /\ buf \in Seq(Bytes) /\ line' \in Seq(Bytes)
  BY BytesOnTheLine
<1>2. /\ Len(buf') = Len(buf) + 1
      /\ \A k \in 1 .. Len(buf) : buf'[k] = buf[k]
      /\ buf'[Len(buf) + 1] = line[1]
  BY StoredByte
<1>3. PICK m \in Frames : \A k \in 1 .. Len(line) :
                            line[k] = [msg |-> m, n |-> FrameBytes - Len(line) + k]
  BY DEF Heard, LineIsEnd, Byte
<1>4. line[1] = [msg |-> m, n |-> FrameBytes - Len(line) + 1]
  BY <1>1, <1>3
<1>5. Len(line) > 1 => line'[1].msg = m
  <2>1. Len(line) > 1 => 1 \in 1 .. Len(line) - 1 /\ 1 + 1 \in 1 .. Len(line)
    BY <1>1
  <2>2. Len(line) > 1 => line'[1] = line[1 + 1]
    BY <1>1, <2>1
  <2>3. Len(line) > 1 => line[1 + 1] = [msg |-> m, n |-> FrameBytes - Len(line) + (1 + 1)]
    BY <1>3, <2>1
  <2>4. QED
    BY <2>2, <2>3
<1>6. FrameBytes \in Nat \ {0}
  BY BytesAssumption
<1>7. CASE buf = << >>
  <2>1. Len(buf) = 0
    BY <1>7
  <2>2. buf'[1] = line[1] /\ Len(buf') = 1 /\ buf'[1].n = 1
    BY <1>2, <2>1 DEF FromStart
  <2>3. FrameBytes - Len(line) + 1 = 1
    BY <1>4, <2>2
  <2>4. Len(line) = FrameBytes
    BY <1>1, <1>6, <2>3
  <2>5. buf'[1] = [msg |-> m, n |-> 1]
    BY <1>4, <2>2, <2>3
  <2>6. SoFar'
    BY <1>6, <2>2, <2>5 DEF SoFar
  <2>7. Missing'
    <3>1. Len(buf') < FrameBytes => Len(line) > 1 /\ Len(line') = FrameBytes - Len(buf') /\ Len(line') # 0
      BY <1>1, <1>6, <2>2, <2>4
    <3>2. QED
      BY <1>5, <2>5, <3>1 DEF Missing
  <2>8. QED
    BY <2>6, <2>7
<1>8. CASE buf # << >>
  <2>1. Len(buf) >= 1
    BY <1>1, <1>8
  <2>2. buf'[1] = buf[1] /\ FromStart
    BY <1>1, <1>2, <1>8, <2>1 DEF FromStart
  <2>3. SoFar /\ Missing
    BY <2>2 DEF Heard, InReception
  <2>4. CASE Len(buf) < FrameBytes
    <3>1. Len(line) = FrameBytes - Len(buf) /\ line[1].msg = buf[1].msg
      BY <2>3, <2>4 DEF Missing
    <3>2. FrameBytes - Len(line) + 1 = Len(buf) + 1
      BY <1>1, <1>6, <3>1
    <3>3. m = buf[1].msg /\ buf'[Len(buf) + 1] = [msg |-> m, n |-> Len(buf) + 1]
      BY <1>2, <1>4, <3>1, <3>2
    <3>4. ASSUME NEW k \in 1 .. FrameBytes, k <= Len(buf')
          PROVE  buf'[k] = [msg |-> buf'[1].msg, n |-> k]
      <4>1. k \in 1 .. Len(buf) \/ k = Len(buf) + 1
        BY <1>1, <1>2, <3>4
      <4>2. CASE k \in 1 .. Len(buf)
        <5>1. k <= Len(buf) /\ buf'[k] = buf[k]
          BY <1>1, <1>2, <4>2
        <5>2. buf[k] = [msg |-> buf[1].msg, n |-> k]
          BY <2>3, <5>1 DEF SoFar
        <5>3. QED
          BY <2>2, <5>1, <5>2
      <4>3. CASE k = Len(buf) + 1
        BY <2>2, <3>3, <4>3
      <4>4. QED
        BY <4>1, <4>2, <4>3
    <3>5. Missing'
      <4>1. Len(buf') < FrameBytes =>
              Len(line) > 1 /\ Len(line') = FrameBytes - Len(buf') /\ Len(line') # 0
        BY <1>1, <1>2, <1>6, <3>1
      <4>2. QED
        BY <1>5, <2>2, <3>3, <4>1 DEF Missing
    <3>6. QED
      BY <3>4, <3>5 DEF SoFar
  <2>5. CASE Len(buf) >= FrameBytes
    <3>1. ASSUME NEW k \in 1 .. FrameBytes PROVE buf'[k] = [msg |-> buf'[1].msg, n |-> k]
      <4>1. k \in 1 .. Len(buf) /\ k <= Len(buf)
        BY <1>1, <1>6, <2>5
      <4>2. QED
        BY <1>2, <2>2, <2>3, <4>1 DEF SoFar
    <3>2. ~(Len(buf') < FrameBytes)
      BY <1>1, <1>2, <1>6, <2>5
    <3>3. QED
      BY <3>1, <3>2 DEF SoFar, Missing
  <2>6. QED
    BY <1>1, <1>6, <2>4, <2>5
<1>9. QED
  BY <1>7, <1>8

LEMMA HeardByte ==
  ASSUME IInv, Room, Heard, Byte
  PROVE  (InReception /\ AtItsEnd)'
<1>1. state' = state /\ pins' = pins /\ channel' = channel /\ timer' = timer
  BY DEF Byte, timerVars
<1>2. Len(buf) \in Nat /\ PageBytes \in Nat /\ buf \in Seq(Bytes)
  BY BytesOnTheLine, BytesAssumption
<1>3. CASE Listening /\ dma
  <2>1. /\ Len(buf') = Len(buf) + 1 /\ buf' # << >>
        /\ \A k \in 1 .. Len(buf) : buf'[k] = buf[k]
        /\ dma' \/ Len(buf') = PageBytes
        /\ Len(buf) < PageBytes
        /\ "endrx" \in events' => "endrx" \in events \/ Len(buf') = PageBytes
    BY <1>3, StoredByte
  <2>2. InReception'
    BY <1>1, <1>3, <2>1, StoredOfFrame DEF Heard, InReception
  <2>3. ASSUME state = "RxReceiving" PROVE AtItsEnd'
    <3>1. buf # << >> /\ channel /\ ("endrx" \in events => Len(buf) = PageBytes)
          /\ (timer = "done" /\ FromStart => Len(buf) >= FrameBytes)
      BY <2>3 DEF Heard, AtItsEnd
    <3>2. Len(buf) >= 1
      BY <1>2, <3>1
    <3>3. buf'[1] = buf[1]
      BY <1>2, <2>1, <3>2
    <3>4. FromStart' => FromStart
      BY <3>1, <3>3 DEF FromStart
    <3>5. Len(buf) # PageBytes /\ (Len(buf) >= FrameBytes => Len(buf') >= FrameBytes)
      BY <1>2, <2>1, BytesAssumption
    <3>6. QED
      BY <1>1, <2>1, <3>1, <3>4, <3>5 DEF AtItsEnd
  <2>4. QED
    BY <1>1, <2>2, <2>3 DEF AtItsEnd
<1>4. CASE ~(Listening /\ dma)
  <2>1. buf' = buf /\ dma' = dma /\ events' = events
    BY <1>4 DEF Byte
  <2>2. AtItsEnd'
    BY <1>1, <2>1 DEF Heard, AtItsEnd, FromStart
  <2>3. state \in {"RxAwaitFirstByte", "RxReceiving"} => ~dma
    BY <1>4 DEF Heard, InReception, Listening
  <2>4. InReception'
    BY <1>1, <2>1, <2>3 DEF Heard, InReception, FromStart, SoFar, Missing
  <2>5. QED
    BY <2>2, <2>4
<1>5. QED
  BY <1>3, <1>4

LEMMA HeardStep ==
  ASSUME IInv, Room, Heard, [Next]_vars
  PROVE  Heard'
<1>1. LineIsEnd'
  BY LineStep DEF Heard
<1> DEFINE Rx == {"RxAwaitFirstByte", "RxReceiving"}
<1>2. CASE Byte
  BY <1>1, <1>2, HeardByte DEF Heard
<1>3. CASE \E m \in Frames : FrameBegins(m)
  <2>1. line = << >> /\ UNCHANGED <<state, pins, timer, channel, dma, buf, events>>
    BY <1>3 DEF FrameBegins, timerVars, uarteVars
  <2>2. QED
    BY <1>1, <2>1 DEF Heard, InReception, AtItsEnd, FromStart, SoFar, Missing
<1>4. CASE TimerFires
  <2>1. /\ UNCHANGED <<state, pins, channel, dma, buf, events, line>>
        /\ timer = "quiet" => (channel /\ Listening /\ dma => line = << >>)
        /\ timer \in {"long", "quiet"}
    BY <1>4 DEF TimerFires, uarteVars
  <2>2. InReception'
    BY <2>1 DEF Heard, InReception, FromStart, SoFar, Missing
  <2>3. ASSUME state = "RxReceiving", FromStart PROVE Len(buf) >= FrameBytes
    <3>1. timer = "quiet"
      BY <2>1, <2>3 DEF IInv, Ready
    <3>2. /\ channel /\ Listening /\ (dma \/ Len(buf) = PageBytes) /\ Missing
      BY <2>3 DEF Heard, InReception, AtItsEnd, Listening
    <3>3. Len(buf) \in Nat
      BY DEF IInv, BufOK
    <3>4. CASE dma
      <4>1. ~(Len(buf) < FrameBytes)
        BY <2>1, <3>1, <3>2, <3>4 DEF Missing
      <4>2. QED
        BY <3>3, <4>1, BytesAssumption
    <3>5. CASE Len(buf) = PageBytes
      BY <3>5, BytesAssumption
    <3>6. QED
      BY <3>2, <3>4, <3>5
  <2>4. AtItsEnd'
    BY <2>1, <2>3 DEF Heard, AtItsEnd, FromStart
  <2>5. QED
    BY <1>1, <2>2, <2>4 DEF Heard
<1>5. CASE TransmissionEnds
  <2>1. /\ UNCHANGED <<state, pins, timer, channel, dma, buf, line>>
        /\ events' = events \cup {"endtx"}
    BY <1>5 DEF TransmissionEnds, timerVars
  <2>2. QED
    BY <1>1, <2>1 DEF Heard, InReception, AtItsEnd, FromStart, SoFar, Missing
<1>6. CASE IdleReceive
  <2>1. \/ state' = "Idle"
        \/ /\ state' = "RxAwaitFirstByte" /\ pins' = "recv" /\ dma' /\ buf' = << >>
           /\ "rxdrdy" \notin events'
    BY <1>6 DEF IdleReceive, prepare_recv_initial
  <2>2. QED
    BY <1>1, <2>1 DEF Heard, InReception, AtItsEnd, FromStart
<1>7. CASE AwaitTimeout
  <2>1. /\ UNCHANGED <<pins, dma, buf, events, line>>
        /\ state = "RxAwaitFirstByte" /\ state' \in {"RxAwaitFirstByte", "Idle"}
    BY <1>7 DEF AwaitTimeout, uarteVars
  <2>2. QED
    BY <1>1, <2>1 DEF Heard, InReception, AtItsEnd, FromStart, SoFar, Missing
<1>8. CASE AwaitFirstByte
  <2>1. /\ UNCHANGED <<pins, dma, buf, line>> /\ events' = events \ {"endrx"}
        /\ state = "RxAwaitFirstByte" /\ "rxdrdy" \in events
        /\ channel' /\ timer' = "quiet"
    BY <1>8 DEF AwaitFirstByte, prepare_steady_recv
  <2>2. QED
    BY <1>1, <2>1 DEF Heard, InReception, AtItsEnd, FromStart, SoFar, Missing
<1>9. CASE IdleSend \/ IdleEmpty \/ ReceiveDone \/ SendDone
  <2>1. state' \in {"Idle", "TxSending", "panic"}
    BY <1>9 DEF IdleSend, IdleEmpty, ReceiveDone, SendDone, push_incoming
  <2>2. QED
    BY <1>1, <2>1 DEF Heard, InReception, AtItsEnd
<1>10. CASE NotYet \/ MainStep \/ TaskStep \/ Clock \/ UNCHANGED vars
  <2>1. MainStep \/ TaskStep \/ Clock \/ UNCHANGED vars => UNCHANGED driverVars
    BY MainLeaves DEF vars
  <2>2. UNCHANGED <<state, pins, timer, channel, dma, buf, events, line>>
    BY <1>10, <2>1 DEF NotYet, driverVars, hwVars, timerVars, uarteVars
  <2>3. QED
    BY <1>1, <2>2 DEF Heard, InReception, AtItsEnd, FromStart, SoFar, Missing
<1>11. QED
  BY <1>2, <1>3, <1>4, <1>5, <1>6, <1>7, <1>8, <1>9, <1>10 DEF Next, Handler

(* A reception ends when it gives up the wait for a byte, or is complete. *)
LEMMA ReceptionEnds ==
  ASSUME [Next]_vars, Receiving, ~Receiving'
  PROVE  AwaitTimeout \/ ReceiveDone
<1>1. state' # state
  BY DEF Receiving
<1>2. CASE Handler
  <2>1. ~(IdleReceive \/ IdleSend \/ IdleEmpty \/ SendDone)
    BY DEF Receiving, IdleReceive, IdleSend, IdleEmpty, SendDone
  <2>2. ~AwaitFirstByte
    BY DEF Receiving, AwaitFirstByte
  <2>3. ~NotYet
    BY <1>1 DEF NotYet
  <2>4. QED
    BY <1>2, <2>1, <2>2, <2>3 DEF Handler
<1>3. CASE TimerFires \/ Byte \/ TransmissionEnds \/ \E m \in Frames : FrameBegins(m)
  BY <1>1, <1>3 DEF TimerFires, Byte, TransmissionEnds, FrameBegins
<1>4. CASE MainStep \/ TaskStep \/ Clock \/ UNCHANGED vars
  BY <1>1, <1>4, MainLeaves DEF vars, driverVars
<1>5. QED
  BY <1>2, <1>3, <1>4 DEF Next

LEMMA WholeStep ==
  ASSUME IInv, Heard, D!TypeOK, [Next]_vars, Receiving, FromStart, ~Receiving'
  PROVE  \/ rx' = Append(rx, buf[1].msg)
         \/ Len(rx) >= IoDepth
         \/ state = "RxAwaitFirstByte" /\ ~timer_running /\ ~D!should_be_rxin
<1>1. CASE AwaitTimeout
  BY <1>1 DEF AwaitTimeout, Receiving
<1>2. CASE ReceiveDone
  <2>1. state = "RxReceiving" /\ (timer = "done" \/ "endrx" \in events)
    BY <1>2 DEF ReceiveDone, timer_running
  <2>2. SoFar
    BY <2>1 DEF Heard, InReception
  <2>3. Len(buf) >= FrameBytes
    BY <2>1, BytesAssumption DEF Heard, AtItsEnd
  <2>4. \A n \in 1 .. FrameBytes : n <= Len(buf) /\ buf[n] = [msg |-> buf[1].msg, n |-> n]
    <3>1. Len(buf) \in Nat
      BY DEF IInv, BufOK
    <3>2. \A n \in 1 .. FrameBytes : n <= Len(buf)
      BY <2>3, <3>1, BytesAssumption
    <3>3. QED
      BY <2>2, <3>2 DEF SoFar
  <2>5. Packet = buf[1].msg
    BY <2>4 DEF Packet
  <2>6. push_incoming(buf[1].msg)
    BY <1>2, <2>5 DEF ReceiveDone, FromStart
  <2>7. rx' = Append(rx, buf[1].msg) \/ ~(Len(rx) < IoDepth)
    BY <2>6 DEF push_incoming
  <2>8. QED
    BY <2>7, DispatchAssumption DEF D!TypeOK, D!DepthAssumption
<1>3. QED
  BY <1>1, <1>2, ReceptionEnds

(* A reception that has stored the first byte of a frame ends with the     *)
(* whole frame handed on, whatever the length of frames and pages, and     *)
(* whenever the timers go off and the interrupts are served                *)
(* (uarte-485/src/lib.rs:461-474, 562-583), unless the queue is full or a  *)
(* device that may want to send gives up at the end of its wait for the    *)
(* first byte.                                                             *)
THEOREM FramesAreWhole == Spec => WholeFrame
<1>1. Init => Heard
  BY DEF Init, Heard, LineIsEnd, InReception, AtItsEnd
<1>2. IInv /\ Room /\ Heard /\ [Next]_vars => Heard'
  BY HeardStep
<1>3. IInv /\ Heard /\ D!TypeOK /\ [Next]_vars =>
        [Receiving /\ FromStart /\ ~Receiving' =>
           \/ rx' = Append(rx, buf[1].msg)
           \/ Len(rx) >= IoDepth
           \/ state = "RxAwaitFirstByte" /\ ~timer_running /\ ~D!should_be_rxin]_vars
  BY WholeStep
<1>4. Init => Room
  BY BytesAssumption DEF Init, Room
<1>5. IInv /\ Room /\ [Next]_vars => Room'
  BY RoomStep
<1>6. QED
  BY <1>1, <1>2, <1>3, <1>4, <1>5, Invariance, DispatchTypes, PTL DEF Spec, WholeFrame
=============================================================================
