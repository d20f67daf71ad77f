--------------------------- MODULE DispatchProofs ---------------------------
(***************************************************************************)
(* The queues of Dispatch keep their types and bounds, and at most one     *)
(* message is left over, for any number of slots, any depths and pages.    *)
(*                                                                         *)
(* That the room for two messages of shame is never used up depends on the *)
(* order in which process_messages works: it comes to the ports only after *)
(* the message left over is gone, and leaves them with the first one that  *)
(* finds no room.  The invariant says the first half.                      *)
(*                                                                         *)
(* The second part shows that Dispatch keeps the order of the messages of  *)
(* each port, as PortStream promises.                                      *)
(***************************************************************************)
EXTENDS Dispatch, SequenceTheorems, WellFoundedInduction, TLAPS

Queue(Elems, n) == {q \in Seq(Elems) : Len(q) <= n}

NothingOverAtPorts == pc \in {"ports", "boxed"} => shame = << >>

Queues ==
  /\ out \in [Slots -> Queue(OutVals, TaskDepth)]
  /\ inq \in [Slots -> Queue(InMsgs, TaskDepth)]
  /\ rx \in Queue(InMsgs, IoDepth)
  /\ hi \in Queue(OutMsgs, IoDepth) /\ lo \in Queue(OutMsgs, IoDepth)
  /\ shame \in Queue(OutMsgs, 1)

Flags == /\ own \in BOOLEAN /\ auth \in BOOLEAN /\ flush \in BOOLEAN
         /\ default_to \in Defaults /\ receive_for \in BOOLEAN

Places == /\ pc \in {"main", "rx", "ports", "boxed"} /\ at \in Slots
          /\ io \in {"idle", "rx", "tx", "panic"}
          /\ IF io = "tx" THEN \E m \in OutMsgs : sending = <<m>> ELSE sending = << >>

IInv == Queues /\ NothingOverAtPorts /\ Flags /\ Places

-----------------------------------------------------------------------------
(* What happens to one queue. *)
LEMMA EmptyQueue ==
  ASSUME NEW Elems, NEW n \in Nat
  PROVE  << >> \in Queue(Elems, n)
BY EmptySeq DEF Queue

LEMMA AppendQueue ==
  ASSUME NEW Elems, NEW n \in Nat, NEW q \in Queue(Elems, n), NEW e \in Elems, Len(q) < n
  PROVE  Append(q, e) \in Queue(Elems, n)
BY AppendProperties, LenProperties DEF Queue

LEMMA TailQueue ==
  ASSUME NEW Elems, NEW n \in Nat, NEW q \in Queue(Elems, n), q # << >>
  PROVE  Head(q) \in Elems /\ Tail(q) \in Queue(Elems, n)
BY HeadTailProperties, LenProperties DEF Queue

(* A queue of at most one message that has one. *)
LEMMA OnlyOne ==
  ASSUME NEW Elems, NEW q \in Queue(Elems, 1), q # << >>
  PROVE  /\ Head(q) \in Elems
         /\ Tail(q) = << >>
         /\ Append(Tail(q), Head(q)) \in Queue(Elems, 1)
<1>1. q \in Seq(Elems) /\ Len(q) = 1
  <2>1. q \in Seq(Elems) /\ Len(q) <= 1
    BY DEF Queue
  <2>2. Len(q) \in Nat \ {0}
    BY <2>1, EmptySeq
  <2>3. \A n \in Nat \ {0} : n <= 1 => n = 1
    OBVIOUS
  <2>4. QED
    BY <2>1, <2>2, <2>3, Zenon
<1>2. Head(q) \in Elems /\ Tail(q) \in Seq(Elems) /\ Len(Tail(q)) = 0
  BY <1>1, HeadTailProperties
<1>3. Tail(q) = << >>
  BY <1>2, EmptySeq
<1>4. << >> \in Queue(Elems, 1) /\ Len(<< >>) < 1
  BY EmptyQueue
<1>5. Append(<< >>, Head(q)) \in Queue(Elems, 1)
  BY <1>2, <1>4, AppendQueue
<1>6. QED
  BY <1>2, <1>3, <1>5

(* A set of numbers has a least one, where the loops over the ports begin  *)
(* and go on.                                                              *)
LEMMA LeastOf ==
  ASSUME NEW T, T \subseteq Nat, T # {}
  PROVE  \E x \in T : \A y \in T : x <= y
<1> DEFINE R == OpToRel(<, Nat)
<1>1. IsWellFoundedOn(R, Nat)
  BY NatLessThanWellFounded
<1>2. \A x, y \in Nat : y < x => <<y, x>> \in R
  BY DEF OpToRel
<1> HIDE DEF R
<1>3. PICK x \in T : \A y \in T : <<y, x>> \notin R
  BY <1>1, WFMin
<1>4. \A y \in T : x <= y
  <2>1. TAKE y \in T
  <2>2. x \in Nat /\ y \in Nat /\ ~(y < x)
    BY <1>2, <1>3
  <2>3. QED
    BY <2>2
<1>5. QED
  BY <1>4

LEMMA FirstIsSlot == FirstSlot \in Slots
<1>1. \E i \in Slots : \A j \in Slots : i <= j
  BY LeastOf, SlotsAssumption
<1>2. QED
  BY <1>1 DEF FirstSlot

-----------------------------------------------------------------------------
LEMMA InitIInv == Init => IInv
<1> SUFFICES ASSUME Init PROVE IInv
  OBVIOUS
<1>1. Queues
  BY EmptyQueue, DepthAssumption DEF Init, Queues
<1>2. QED
  BY <1>1, FirstIsSlot DEF Init, IInv, NothingOverAtPorts, Flags, Places

LEMMA InvTypeOK == IInv => TypeOK
<1> SUFFICES ASSUME IInv PROVE TypeOK
  OBVIOUS
<1>1. /\ out \in [Slots -> Seq(OutVals)] /\ \A i \in Slots : Len(out[i]) <= TaskDepth
      /\ inq \in [Slots -> Seq(InMsgs)]  /\ \A i \in Slots : Len(inq[i]) <= TaskDepth
  BY DEF IInv, Queues, Queue
<1>2. /\ rx \in Seq(InMsgs)  /\ Len(rx) <= IoDepth
      /\ hi \in Seq(OutMsgs) /\ Len(hi) <= IoDepth
      /\ lo \in Seq(OutMsgs) /\ Len(lo) <= IoDepth
  BY DEF IInv, Queues, Queue
<1>3. shame \in Seq(OutMsgs) /\ Len(shame) <= 2
  BY LenProperties DEF IInv, Queues, Queue
<1>4. sending \in Seq(OutMsgs) /\ Len(sending) = IF io = "tx" THEN 1 ELSE 0
  <2>1. CASE io = "tx"
    <3>1. PICK m \in OutMsgs : sending = <<m>>
      BY <2>1 DEF IInv, Places
    <3>2. <<m>> \in Seq(OutMsgs) /\ Len(<<m>>) = 1
      OBVIOUS
    <3>3. QED
      BY <2>1, <3>1, <3>2
  <2>2. CASE io # "tx"
    <3>1. sending = << >>
      BY <2>2 DEF IInv, Places
    <3>2. << >> \in Seq(OutMsgs) /\ Len(<< >>) = 0
      OBVIOUS
    <3>3. QED
      BY <2>2, <3>1, <3>2
  <2>3. QED
    BY <2>1, <2>2
<1>5. QED
  BY <1>1, <1>2, <1>3, <1>4 DEF IInv, Flags, Places, TypeOK

LEMMA InvShame == IInv => ShameAtMostOne
BY DEF IInv, Queues, Queue, ShameAtMostOne

-----------------------------------------------------------------------------
(* The tasks. *)
LEMMA TaskStep ==
  ASSUME IInv, NEW i \in Slots,
         TrySend(i) \/ TrySendAuthd(i) \/ TryRecv(i) \/ AuthSend \/ AuthFlush \/ SetAddr
  PROVE  IInv'
<1>1. CASE TrySend(i) \/ TrySendAuthd(i)
  <2>1. PICK v \in Sends[i] : out' = [out EXCEPT ![i] = Append(@, v)] /\ Len(out[i]) < TaskDepth
    BY <1>1 DEF TrySend, TrySendAuthd, try_send
  <2>2. Append(out[i], v) \in Queue(OutVals, TaskDepth)
    BY <2>1, AppendQueue, DepthAssumption, SendsAssumption DEF IInv, Queues
  <2>3. out' \in [Slots -> Queue(OutVals, TaskDepth)]
    BY <2>1, <2>2 DEF IInv, Queues
  <2>4. /\ UNCHANGED <<own, inq, rx, hi, lo, shame, flush, pc, at, io, sending,
                       default_to, receive_for>>
        /\ auth' \in {auth, TRUE}
    BY <1>1 DEF TrySend, TrySendAuthd, outVars, procVars, ioVars, modeVars
  <2>5. QED
    BY <2>3, <2>4 DEF IInv, Queues, NothingOverAtPorts, Flags, Places
<1>2. CASE TryRecv(i)
  <2>1. Tail(inq[i]) \in Queue(InMsgs, TaskDepth)
    BY <1>2, TailQueue, DepthAssumption DEF TryRecv, IInv, Queues
  <2>2. inq' \in [Slots -> Queue(InMsgs, TaskDepth)]
    BY <1>2, <2>1 DEF TryRecv, IInv, Queues
  <2>3. UNCHANGED <<own, out, rx, hi, lo, shame, auth, flush, pc, at, io, sending,
                    default_to, receive_for>>
    BY <1>2 DEF TryRecv, outVars, procVars, ioVars, modeVars
  <2>4. QED
    BY <2>2, <2>3 DEF IInv, Queues, NothingOverAtPorts, Flags, Places
<1>3. CASE AuthSend \/ AuthFlush \/ SetAddr
  BY <1>3 DEF AuthSend, AuthFlush, SetAddr, outVars, procVars, ioVars, modeVars,
              IInv, Queues, NothingOverAtPorts, Flags, Places
<1>4. QED
  BY <1>1, <1>2, <1>3

-----------------------------------------------------------------------------
(* process_messages: what comes in ... *)
LEMMA DeliverFits ==
  ASSUME IInv, NEW m \in InMsgs, Deliver(m)
  PROVE  inq' \in [Slots -> Queue(InMsgs, TaskDepth)]
<1>1. CASE Accepts(m) /\ MatchingSlots(m) # {}
  <2> DEFINE i == CHOOSE j \in MatchingSlots(m) : \A k \in MatchingSlots(m) : j <= k
  <2>1. \E j \in MatchingSlots(m) : \A k \in MatchingSlots(m) : j <= k
    BY <1>1, LeastOf, SlotsAssumption DEF MatchingSlots
  <2>2. i \in Slots
    BY <2>1 DEF MatchingSlots
  <2>3. inq' = IF Len(inq[i]) < TaskDepth THEN [inq EXCEPT ![i] = Append(@, m)] ELSE inq
    BY <1>1 DEF Deliver
  <2> HIDE DEF i
  <2>4. CASE Len(inq[i]) < TaskDepth
    <3>1. Append(inq[i], m) \in Queue(InMsgs, TaskDepth)
      BY <2>2, <2>4, AppendQueue, DepthAssumption DEF IInv, Queues
    <3>2. QED
      BY <2>3, <2>4, <3>1 DEF IInv, Queues
  <2>5. QED
    BY <2>3, <2>4 DEF IInv, Queues
<1>2. CASE ~(Accepts(m) /\ MatchingSlots(m) # {})
  BY <1>2 DEF Deliver, IInv, Queues
<1>3. QED
  BY <1>1, <1>2

LEMMA IncomingStep ==
  ASSUME IInv, ProcessMessages \/ ProcessIncoming \/ NoAddress
  PROVE  IInv'
<1>1. CASE ProcessMessages \/ NoAddress
  BY <1>1 DEF ProcessMessages, NoAddress, outVars, ioVars, modeVars,
              IInv, Queues, NothingOverAtPorts, Flags, Places
<1>2. CASE ProcessIncoming
  <2>1. Head(rx) \in InMsgs /\ Tail(rx) \in Queue(InMsgs, IoDepth)
    BY <1>2, TailQueue, DepthAssumption DEF ProcessIncoming, IInv, Queues
  <2>2. inq' \in [Slots -> Queue(InMsgs, TaskDepth)]
    BY <1>2, <2>1, DeliverFits DEF ProcessIncoming
  <2>3. /\ rx' = Tail(rx)
        /\ UNCHANGED <<own, out, hi, lo, shame, auth, flush, pc, at, io, sending,
                       default_to, receive_for>>
    BY <1>2 DEF ProcessIncoming, outVars, procVars, ioVars, modeVars
  <2>4. QED
    BY <2>1, <2>2, <2>3 DEF IInv, Queues, NothingOverAtPorts, Flags, Places
<1>3. QED
  BY <1>1, <1>2

(* ... the message left over, without which the ports are looked at ... *)
LEMMA LeftOverStep ==
  ASSUME IInv, NothingLeftOver \/ LeftOverMoves \/ LeftOverStays
  PROVE  IInv'
<1>1. CASE NothingLeftOver
  BY <1>1, FirstIsSlot DEF NothingLeftOver, outVars, ioVars, modeVars,
              IInv, Queues, NothingOverAtPorts, Flags, Places
<1>2. CASE LeftOverMoves
  <2>1. Head(shame) \in OutMsgs /\ Tail(shame) = << >>
    BY <1>2, OnlyOne DEF LeftOverMoves, IInv, Queues
  <2>2. lo' \in Queue(OutMsgs, IoDepth)
    BY <1>2, <2>1, AppendQueue, DepthAssumption DEF LeftOverMoves, IInv, Queues
  <2>3. shame' = << >> /\ shame' \in Queue(OutMsgs, 1)
    BY <1>2, <2>1, EmptyQueue DEF LeftOverMoves
  <2>4. /\ pc' = "ports" /\ at' = FirstSlot
        /\ UNCHANGED <<own, out, inq, rx, hi, auth, flush, io, sending, default_to, receive_for>>
    BY <1>2 DEF LeftOverMoves, ioVars, modeVars
  <2>5. QED
    BY <2>2, <2>3, <2>4, FirstIsSlot DEF IInv, Queues, NothingOverAtPorts, Flags, Places
<1>3. CASE LeftOverStays
  <2>1. shame' \in Queue(OutMsgs, 1)
    BY <1>3, OnlyOne DEF LeftOverStays, IInv, Queues
  <2>2. /\ pc' = "main"
        /\ UNCHANGED <<own, out, inq, rx, hi, lo, auth, flush, at, io, sending,
                       default_to, receive_for>>
    BY <1>3 DEF LeftOverStays, ioVars, modeVars
  <2>3. QED
    BY <2>1, <2>2 DEF IInv, Queues, NothingOverAtPorts, Flags, Places
<1>4. QED
  BY <1>1, <1>2, <1>3

(* ... and the ports, which the first message without room ends. *)
LEMMA PortsStep ==
  ASSUME IInv, OutgoingBox \/ NoneLeft
  PROVE  IInv'
<1>1. CASE OutgoingBox
  BY <1>1 DEF OutgoingBox, outVars, ioVars, modeVars,
              IInv, Queues, NothingOverAtPorts, Flags, Places
<1>2. CASE NoneLeft
  <2>1. at' \in Slots /\ pc' \in {"ports", "main"}
    <3>1. CASE \E j \in Slots : j > at
      <4> DEFINE T == {j \in Slots : j > at}
      <4>1. \E x \in T : \A y \in T : x <= y
        BY <3>1, LeastOf, SlotsAssumption
      <4>2. \E j \in Slots : j > at /\ \A k \in Slots : k > at => j <= k
        BY <4>1
      <4>3. at' = CHOOSE j \in Slots : j > at /\ \A k \in Slots : k > at => j <= k
        BY <1>2, <3>1 DEF NoneLeft
      <4>4. at' \in Slots
        <5> HIDE DEF T
        <5>1. QED
          BY <4>2, <4>3
      <4>5. QED
        BY <1>2, <3>1, <4>4 DEF NoneLeft
    <3>2. CASE ~ \E j \in Slots : j > at
      BY <1>2, <3>2, FirstIsSlot DEF NoneLeft
    <3>3. QED
      BY <3>1, <3>2
  <2>2. /\ pc = "boxed"
        /\ UNCHANGED <<own, out, inq, rx, hi, lo, shame, auth, flush, io, sending,
                       default_to, receive_for>>
    BY <1>2 DEF NoneLeft, outVars, ioVars, modeVars
  <2>3. QED
    BY <2>1, <2>2 DEF IInv, Queues, NothingOverAtPorts, Flags, Places
<1>3. QED
  BY <1>1, <1>2

LEMMA TakeFits ==
  ASSUME IInv, TakeOutgoing
  PROVE  /\ Outgoing \in OutMsgs
         /\ out' \in [Slots -> Queue(OutVals, TaskDepth)]
         /\ shame = << >>
<1>1. at \in Slots /\ pc = "boxed" /\ out[at] # << >>
  BY DEF IInv, Places, TakeOutgoing
<1>2. Head(out[at]) \in OutVals /\ Tail(out[at]) \in Queue(OutVals, TaskDepth)
  BY <1>1, TailQueue, DepthAssumption DEF IInv, Queues
<1>3. QED
  BY <1>1, <1>2 DEF TakeOutgoing, Outgoing, OutMsgs, IInv, Queues, NothingOverAtPorts

LEMMA OutgoingStep ==
  ASSUME IInv, OutgoingOversize \/ OutgoingUrgent \/ OutgoingToIo \/ OutgoingLeftOver
  PROVE  IInv'
<1>1. TakeOutgoing
  BY DEF OutgoingOversize, OutgoingUrgent, OutgoingToIo, OutgoingLeftOver
<1>2. /\ pc' \in {"main", "ports"}
      /\ UNCHANGED <<own, inq, rx, auth, flush, at, io, sending, default_to, receive_for>>
  BY DEF OutgoingOversize, OutgoingUrgent, OutgoingToIo, OutgoingLeftOver, ioVars, modeVars
<1>3. hi' \in Queue(OutMsgs, IoDepth)
  <2>1. Urgent(Outgoing) \in Queue(OutMsgs, IoDepth)
    BY <1>1, TakeFits, AppendQueue, DepthAssumption DEF Urgent, IInv, Queues
  <2>2. hi' \in {hi, Urgent(Outgoing)}
    BY DEF OutgoingOversize, OutgoingUrgent, OutgoingToIo, OutgoingLeftOver, outVars
  <2>3. QED
    BY <2>1, <2>2 DEF IInv, Queues
<1>4. lo' \in Queue(OutMsgs, IoDepth)
  <2>1. CASE OutgoingToIo
    BY <1>1, <2>1, TakeFits, AppendQueue, DepthAssumption DEF OutgoingToIo, IInv, Queues
  <2>2. CASE ~OutgoingToIo
    BY <2>2 DEF OutgoingOversize, OutgoingUrgent, OutgoingLeftOver, outVars, IInv, Queues
  <2>3. QED
    BY <2>1, <2>2
<1>5. \/ shame' = << >>
      \/ shame' = Append(<< >>, Outgoing) /\ pc' = "main"
  <2>1. shame = << >> /\ Len(<< >>) < 2
    BY <1>1, TakeFits
  <2>2. QED
    BY <2>1 DEF OutgoingOversize, OutgoingUrgent, OutgoingToIo, OutgoingLeftOver, outVars
<1>6. shame' \in Queue(OutMsgs, 1)
  <2>1. << >> \in Queue(OutMsgs, 1) /\ Len(<< >>) < 1
    BY EmptyQueue
  <2>2. Append(<< >>, Outgoing) \in Queue(OutMsgs, 1)
    BY <1>1, <2>1, TakeFits, AppendQueue
  <2>3. QED
    BY <1>5, <2>1, <2>2
<1>7. QED
  BY <1>1, <1>2, <1>3, <1>4, <1>5, <1>6, TakeFits
     DEF IInv, Queues, NothingOverAtPorts, Flags, Places

-----------------------------------------------------------------------------
(* The driver. *)
LEMMA FlushedFits ==
  ASSUME IInv
  PROVE  Flushed(hi) \in Queue(OutMsgs, IoDepth) /\ Flushed(lo) \in Queue(OutMsgs, IoDepth)
BY EmptyQueue, DepthAssumption DEF Flushed, IInv, Queues

LEMMA ReceptionStep ==
  ASSUME IInv, IoReceive \/ IoReceivedNothing \/ IoSent \/ IoGoesOn
  PROVE  IInv'
<1>1. /\ hi' = Flushed(hi) /\ lo' = Flushed(lo)
      /\ flush' = FALSE /\ auth' = AuthLeft
      /\ UNCHANGED <<own, out, inq, rx, shame, pc, at, default_to, receive_for>>
  BY DEF IoReceive, IoReceivedNothing, IoSent, IoGoesOn, procVars, modeVars, ioVars
<1>2. \/ io' \in {"rx", "idle"} /\ io # "tx" /\ sending' = sending
      \/ io' = "idle" /\ sending' = << >>
      \/ io' = io /\ sending' = sending
  BY DEF IoReceive, IoReceivedNothing, IoSent, IoGoesOn, ioVars
<1>3. AuthLeft \in BOOLEAN
  BY DEF AuthLeft
<1>4. Queues'
  BY <1>1, FlushedFits DEF IInv, Queues
<1>5. Places'
  BY <1>1, <1>2 DEF IInv, Places
<1>6. QED
  BY <1>1, <1>3, <1>4, <1>5 DEF IInv, NothingOverAtPorts, Flags

LEMMA ReceivedStep ==
  ASSUME IInv, NEW m \in InMsgs, IoReceived(m)
  PROVE  IInv'
<1>1. /\ hi' = Flushed(hi) /\ lo' = Flushed(lo)
      /\ flush' = FALSE /\ auth' = AuthLeft
      /\ UNCHANGED <<own, out, inq, shame, pc, at, sending, default_to, receive_for>>
      /\ io = "rx" /\ io' \in {"idle", "panic"}
  BY DEF IoReceived, procVars, modeVars
<1>2. rx' \in Queue(InMsgs, IoDepth)
  <2>1. rx \in Queue(InMsgs, IoDepth) /\ IoDepth \in Nat
    BY DepthAssumption DEF IInv, Queues
  <2>2. Len(rx) < IoDepth => Append(rx, m) \in Queue(InMsgs, IoDepth)
    BY <2>1, AppendQueue
  <2>3. rx' = IF Len(rx) < IoDepth THEN Append(rx, m) ELSE rx
    BY DEF IoReceived
  <2>4. QED
    BY <2>1, <2>2, <2>3
<1>3. AuthLeft \in BOOLEAN
  BY DEF AuthLeft
<1>4. QED
  BY <1>1, <1>2, <1>3, FlushedFits DEF IInv, Queues, NothingOverAtPorts, Flags, Places

LEMMA SendStep ==
  ASSUME IInv, IoSend
  PROVE  IInv'
<1>1. /\ flush' = FALSE /\ auth' = FALSE
      /\ UNCHANGED <<own, out, inq, rx, shame, pc, at, default_to>>
  BY DEF IoSend, procVars
<1>2. CASE ~flush /\ Waiting
  <2>1. /\ hi # << >> => Head(hi) \in OutMsgs /\ Tail(hi) \in Queue(OutMsgs, IoDepth)
        /\ lo # << >> => Head(lo) \in OutMsgs /\ Tail(lo) \in Queue(OutMsgs, IoDepth)
    BY TailQueue, DepthAssumption DEF IInv, Queues
  <2>2. NextToGo \in OutMsgs
    BY <1>2, <2>1 DEF Waiting, NextToGo
  <2>3. hi' \in Queue(OutMsgs, IoDepth) /\ lo' \in Queue(OutMsgs, IoDepth)
    BY <1>2, <2>1 DEF IoSend, Waiting, IInv, Queues
  <2>4. io' = "tx" /\ sending' = <<NextToGo>> /\ receive_for' \in BOOLEAN
    BY <1>2 DEF IoSend
  <2>5. QED
    BY <1>1, <2>2, <2>3, <2>4 DEF IInv, Queues, NothingOverAtPorts, Flags, Places
<1>3. CASE ~(~flush /\ Waiting)
  <2>1. hi' = Flushed(hi) /\ lo' = Flushed(lo) /\ UNCHANGED <<io, sending, receive_for>>
    BY <1>3 DEF IoSend
  <2>2. QED
    BY <1>1, <2>1, FlushedFits DEF IInv, Queues, NothingOverAtPorts, Flags, Places
<1>4. QED
  BY <1>2, <1>3

LEMMA ModeStep ==
  ASSUME IInv, ChangeDefault \/ ReceiveTimeOver
  PROVE  IInv'
BY DEF ChangeDefault, ReceiveTimeOver, outVars, procVars,
       IInv, Queues, NothingOverAtPorts, Flags, Places

-----------------------------------------------------------------------------
LEMMA StepIInv == IInv /\ [Next]_vars => IInv'
<1> SUFFICES ASSUME IInv, [Next]_vars PROVE IInv'
  OBVIOUS
<1>1. CASE \/ \E i \in Slots : TrySend(i) \/ TrySendAuthd(i) \/ TryRecv(i)
           \/ AuthSend \/ AuthFlush \/ SetAddr
  BY <1>1, TaskStep, FirstIsSlot
<1>2. CASE Process
  BY <1>2, IncomingStep, LeftOverStep, PortsStep, OutgoingStep DEF Process
<1>3. CASE Io \/ ChangeDefault \/ ReceiveTimeOver
  BY <1>3, ReceptionStep, SendStep, ModeStep DEF Io
<1>4. CASE \E m \in InMsgs : IoReceived(m)
  BY <1>4, ReceivedStep
<1>5. CASE UNCHANGED vars
  BY <1>5 DEF vars, outVars, procVars, ioVars, modeVars,
              IInv, Queues, NothingOverAtPorts, Flags, Places
<1>6. QED
  BY <1>1, <1>2, <1>3, <1>4, <1>5 DEF Next

(* The queues keep their bounds, and nothing is left over while            *)
(* process_messages looks at the ports (dispatch.rs:424-437).              *)
THEOREM Invariance == Spec => []IInv
BY InitIInv, StepIInv, PTL DEF Spec

(* The queues of a device hold what they are for, up to their depths, and  *)
(* the driver has one message when it transmits and none otherwise         *)
(* (dispatch.rs:139-208, uarte-485/src/lib.rs:112-122).                    *)
THEOREM TypesKept == Spec => []TypeOK
BY Invariance, InvTypeOK, PTL

(* The enqueue of a message left over, whose error is ignored              *)
(* (dispatch.rs:516-519), finds room for any depths of the queues and      *)
(* however the driver's interrupts fall between its steps.                 *)
THEOREM OneLeftOver == Spec => []ShameAtMostOne
BY Invariance, InvShame, PTL

-----------------------------------------------------------------------------
(* The order of the messages: Dispatch implements PortStream.  What is on   *)
(* the way for a port comes from four queues, so a message may move from    *)
(* one to the next only when nothing of its port is in the one it passes.   *)
(* Apart says so: hi has the management ports and nothing else has them, so *)
(* a port's messages pass lo or hi and never both; and the message left     *)
(* over is gone before a port is read again (NothingOverAtPorts).           *)

(* Induction: a set of numbers that has zero and the next of each has all.  *)
LEMMA SetInduction ==
  ASSUME NEW T, 0 \in T, \A n \in Nat : n \in T => n + 1 \in T
  PROVE  Nat \subseteq T
<1> SUFFICES ASSUME Nat \ T # {} PROVE FALSE
  OBVIOUS
<1>1. PICK x \in Nat \ T : \A y \in Nat \ T : x <= y
  <2>1. Nat \ T \subseteq Nat
    OBVIOUS
  <2>2. QED
    BY <2>1, LeastOf
<1>2. x # 0 /\ x - 1 \in Nat /\ ~(x <= x - 1)
  BY <1>1
<1>3. x - 1 \in T
  BY <1>1, <1>2
<1>4. (x - 1) + 1 = x
  BY <1>2
<1>5. QED
  BY <1>1, <1>2, <1>3, <1>4

-----------------------------------------------------------------------------
(* What Of computes: f[n] is for the first n messages of the queue.        *)
With(i, r, m) == IF m.slot = i THEN Append(r, m.val) ELSE r

Counted(i, q, f) == f = [n \in 0 .. Len(q) |-> IF n = 0 THEN << >> ELSE With(i, f[n - 1], q[n])]

OfUpTo(i, q, f, n) == f[0] = << >> /\ \A k \in 1 .. n : f[k] = With(i, f[k - 1], q[k])

LEMMA OfIsCounted ==
  ASSUME NEW i, NEW q
  PROVE  Of(i, q) = (CHOOSE f : Counted(i, q, f))[Len(q)]
BY DEF Of, Counted, With

LEMMA UpToExists ==
  ASSUME NEW i, NEW q
  PROVE  \A m \in Nat : \E f : DOMAIN f = 0 .. m /\ OfUpTo(i, q, f, m)
<1> DEFINE T == {m \in Nat : \E f : DOMAIN f = 0 .. m /\ OfUpTo(i, q, f, m)}
<1>1. 0 \in T
  <2> DEFINE f == [n \in 0 .. 0 |-> << >>]
  <2>1. DOMAIN f = 0 .. 0 /\ OfUpTo(i, q, f, 0)
    BY DEF OfUpTo
  <2>2. QED
    BY <2>1
<1>2. ASSUME NEW m \in Nat, m \in T PROVE m + 1 \in T
  <2>1. PICK f : DOMAIN f = 0 .. m /\ OfUpTo(i, q, f, m)
    BY <1>2
  <2> DEFINE g == [n \in 0 .. m + 1 |-> IF n = m + 1 THEN With(i, f[m], q[n]) ELSE f[n]]
  <2>2. g[0] = << >>
    BY <2>1 DEF OfUpTo
  <2>3. ASSUME NEW k \in 1 .. m + 1 PROVE g[k] = With(i, g[k - 1], q[k])
    <3>1. g[k - 1] = f[k - 1]
      OBVIOUS
    <3>2. CASE k = m + 1
      BY <3>1, <3>2
    <3>3. CASE k # m + 1
      <4>1. k \in 1 .. m /\ g[k] = f[k]
        BY <3>3
      <4>2. QED
        BY <2>1, <3>1, <4>1 DEF OfUpTo
    <3>4. QED
      BY <3>2, <3>3
  <2>4. DOMAIN g = 0 .. m + 1
    OBVIOUS
  <2> HIDE DEF g
  <2>5. QED
    BY <2>2, <2>3, <2>4 DEF OfUpTo
<1> HIDE DEF T
<1>3. Nat \subseteq T
  BY <1>1, <1>2, SetInduction
<1>4. QED
  BY <1>3 DEF T

LEMMA OfValue ==
  ASSUME NEW i, NEW q, Len(q) \in Nat
  PROVE  \E f : OfUpTo(i, q, f, Len(q)) /\ Of(i, q) = f[Len(q)]
<1>1. PICK g : DOMAIN g = 0 .. Len(q) /\ OfUpTo(i, q, g, Len(q))
  BY UpToExists
<1> DEFINE h == [n \in 0 .. Len(q) |-> g[n]]
<1>2. Counted(i, q, h)
  <2> DEFINE k == [n \in 0 .. Len(q) |-> IF n = 0 THEN << >> ELSE With(i, h[n - 1], q[n])]
  <2>1. ASSUME NEW n \in 0 .. Len(q) PROVE h[n] = k[n]
    <3>1. CASE n = 0
      BY <1>1, <3>1 DEF OfUpTo
    <3>2. CASE n # 0
      <4>1. n \in 1 .. Len(q) /\ n - 1 \in 0 .. Len(q)
        BY <3>2
      <4>2. h[n] = g[n] /\ h[n - 1] = g[n - 1] /\ k[n] = With(i, h[n - 1], q[n])
        BY <3>2, <4>1
      <4>3. QED
        BY <1>1, <4>1, <4>2 DEF OfUpTo
    <3>3. QED
      BY <3>1, <3>2
  <2>2. h = k
    BY <2>1
  <2>3. QED
    BY <2>2 DEF Counted
<1> DEFINE f == CHOOSE x : Counted(i, q, x)
<1>3. Counted(i, q, f)
  BY <1>2
<1>4. Of(i, q) = f[Len(q)]
  BY OfIsCounted
<1> HIDE DEF f
<1>5. OfUpTo(i, q, f, Len(q))
  <2>1. ASSUME NEW n \in 0 .. Len(q)
        PROVE  f[n] = IF n = 0 THEN << >> ELSE With(i, f[n - 1], q[n])
    BY <1>3 DEF Counted
  <2>2. 0 \in 0 .. Len(q) /\ \A k \in 1 .. Len(q) : k \in 0 .. Len(q) /\ k # 0
    OBVIOUS
  <2>3. QED
    BY <2>1, <2>2 DEF OfUpTo
<1>6. QED
  BY <1>4, <1>5

(* Two queues that begin alike. *)
LEMMA UpToAgree ==
  ASSUME NEW i, NEW q, NEW r, NEW f, NEW g, NEW m \in Nat,
         OfUpTo(i, q, f, m), OfUpTo(i, r, g, m), \A k \in 1 .. m : q[k] = r[k]
  PROVE  f[m] = g[m]
<1> DEFINE T == {n \in Nat : n <= m => f[n] = g[n]}
<1>1. 0 \in T
  BY DEF OfUpTo
<1>2. ASSUME NEW n \in Nat, n \in T PROVE n + 1 \in T
  <2>1. CASE n + 1 <= m
    <3>1. n + 1 \in 1 .. m /\ (n + 1) - 1 = n /\ f[n] = g[n]
      BY <1>2, <2>1
    <3>2. /\ f[n + 1] = With(i, f[(n + 1) - 1], q[n + 1])
          /\ g[n + 1] = With(i, g[(n + 1) - 1], r[n + 1])
          /\ q[n + 1] = r[n + 1]
      BY <3>1 DEF OfUpTo
    <3>3. QED
      BY <3>1, <3>2
  <2>2. QED
    BY <2>1
<1> HIDE DEF T
<1>3. Nat \subseteq T
  BY <1>1, <1>2, SetInduction
<1>4. QED
  BY <1>3 DEF T

(* What the elements of a queue are. *)
LEMMA MsgOf ==
  ASSUME NEW q \in Seq(OutMsgs), NEW k \in 1 .. Len(q)
  PROVE  q[k] \in OutMsgs /\ q[k].val \in OutVals /\ q[k].slot \in Slots
<1>1. q[k] \in OutMsgs
  BY ElementOfSeq
<1>2. QED
  BY <1>1 DEF OutMsgs

LEMMA OfType ==
  ASSUME NEW i, NEW q \in Seq(OutMsgs)
  PROVE  Of(i, q) \in Seq(OutVals)
<1>1. Len(q) \in Nat
  BY LenProperties
<1>2. PICK f : OfUpTo(i, q, f, Len(q)) /\ Of(i, q) = f[Len(q)]
  BY <1>1, OfValue
<1> DEFINE T == {n \in Nat : n <= Len(q) => f[n] \in Seq(OutVals)}
<1>3. 0 \in T
  BY <1>2, EmptySeq DEF OfUpTo
<1>4. ASSUME NEW n \in Nat, n \in T PROVE n + 1 \in T
  <2>1. CASE n + 1 <= Len(q)
    <3>1. n + 1 \in 1 .. Len(q) /\ (n + 1) - 1 = n /\ f[n] \in Seq(OutVals)
      BY <1>1, <1>4, <2>1
    <3>2. f[n + 1] = With(i, f[n], q[n + 1])
      BY <1>2, <3>1 DEF OfUpTo
    <3>3. q[n + 1].val \in OutVals
      BY <3>1, MsgOf
    <3>4. f[n + 1] \in Seq(OutVals)
      BY <3>1, <3>2, <3>3, AppendProperties DEF With
    <3>5. QED
      BY <3>4
  <2>2. QED
    BY <2>1
<1> HIDE DEF T
<1>5. Nat \subseteq T
  BY <1>3, <1>4, SetInduction
<1>6. QED
  BY <1>1, <1>2, <1>5 DEF T

LEMMA OfEmpty == \A i : Of(i, << >>) = << >>
<1> TAKE i
<1>1. Len(<< >>) = 0
  OBVIOUS
<1>2. PICK f : OfUpTo(i, << >>, f, 0) /\ Of(i, << >>) = f[0]
  BY <1>1, OfValue
<1>3. QED
  BY <1>2 DEF OfUpTo

(* A message more at the end. *)
LEMMA OfAppend ==
  ASSUME NEW i, NEW q \in Seq(OutMsgs), NEW m \in OutMsgs
  PROVE  Of(i, Append(q, m)) = With(i, Of(i, q), m)
<1> DEFINE r == Append(q, m)
           n == Len(q)
<1>1. n \in Nat /\ Len(r) = n + 1 /\ r[n + 1] = m /\ \A k \in 1 .. n : r[k] = q[k]
  BY LenProperties, AppendProperties
<1> HIDE DEF r, n
<1>2. PICK f : OfUpTo(i, q, f, n) /\ Of(i, q) = f[n]
  BY <1>1, OfValue DEF n
<1>3. PICK g : OfUpTo(i, r, g, n + 1) /\ Of(i, r) = g[n + 1]
  BY <1>1, OfValue
<1>4. OfUpTo(i, r, g, n)
  BY <1>1, <1>3 DEF OfUpTo
<1>5. g[n] = f[n]
  BY <1>1, <1>2, <1>4, UpToAgree
<1>6. g[n + 1] = With(i, g[n], r[n + 1])
  <2>1. n + 1 \in 1 .. n + 1 /\ (n + 1) - 1 = n
    BY <1>1
  <2>2. QED
    BY <1>3, <2>1 DEF OfUpTo
<1>7. QED
  BY <1>1, <1>2, <1>3, <1>5, <1>6 DEF r

(* A message less at the beginning. *)
LEMMA OfTail ==
  ASSUME NEW i, NEW q \in Seq(OutMsgs), q # << >>
  PROVE  IF Head(q).slot = i
           THEN Of(i, q) = << Head(q).val >> \o Of(i, Tail(q))
           ELSE Of(i, q) = Of(i, Tail(q))
<1> DEFINE r == Tail(q)
           n == Len(r)
           v == Head(q).val
           mine == Head(q).slot = i
<1>1. /\ n \in Nat /\ Len(q) = n + 1 /\ r \in Seq(OutMsgs)
      /\ q[1] = Head(q) /\ \A k \in 1 .. n : r[k] = q[k + 1]
      /\ Head(q) \in OutMsgs
  BY LenProperties, HeadTailProperties
<1>2. v \in OutVals
  BY <1>1 DEF OutMsgs
<1> HIDE DEF r, n
<1>3. PICK f : OfUpTo(i, q, f, n + 1) /\ Of(i, q) = f[n + 1]
  BY <1>1, OfValue
<1>4. PICK g : OfUpTo(i, r, g, n) /\ Of(i, r) = g[n]
  BY <1>1, OfValue DEF n
<1> DEFINE ok(k) == g[k] \in Seq(OutVals) /\ f[k + 1] = IF mine THEN << v >> \o g[k] ELSE g[k]
           T == {k \in Nat : k <= n => ok(k)}
<1>5. 0 \in T
  <2>1. f[1] = With(i, f[0], q[1]) /\ f[0] = << >> /\ g[0] = << >>
    <3>1. 1 \in 1 .. n + 1 /\ 1 - 1 = 0
      BY <1>1
    <3>2. QED
      BY <1>3, <1>4, <3>1 DEF OfUpTo
  <2>2. Append(<< >>, v) = << v >> /\ << v >> \o << >> = << v >> /\ << >> \in Seq(OutVals)
    BY <1>2
  <2>3. f[1] = IF mine THEN << v >> ELSE << >>
    BY <1>1, <2>1, <2>2 DEF With
  <2>4. ok(0)
    <3> HIDE DEF mine, v
    <3>1. QED
      BY <2>1, <2>2, <2>3
  <2>5. QED
    BY <2>4
<1>6. ASSUME NEW k \in Nat, k \in T PROVE k + 1 \in T
  <2>1. CASE k + 1 <= n
    <3>1. /\ k + 1 \in 1 .. n /\ (k + 1) - 1 = k
          /\ (k + 1) + 1 \in 1 .. n + 1 /\ ((k + 1) + 1) - 1 = k + 1
      BY <1>1, <2>1
    <3>2. /\ g[k + 1] = With(i, g[k], r[k + 1])
          /\ f[(k + 1) + 1] = With(i, f[k + 1], q[(k + 1) + 1])
          /\ r[k + 1] = q[(k + 1) + 1]
      BY <1>1, <1>3, <1>4, <3>1 DEF OfUpTo
    <3>3. ok(k)
      BY <1>1, <1>6, <3>1
    <3>4. r[k + 1].val \in OutVals
      BY <1>1, <3>1, MsgOf DEF n
    <3> DEFINE w == r[k + 1].val
               s == g[k]
    <3>5. /\ Append(s, w) \in Seq(OutVals)
          /\ Append(<< v >> \o s, w) = << v >> \o Append(s, w)
      <4> HIDE DEF s, w, v
      <4>1. s \in Seq(OutVals) /\ w \in OutVals /\ << v >> \in Seq(OutVals)
        BY <1>2, <3>3, <3>4 DEF s, w
      <4>2. Append(s, w) = s \o << w >> /\ << w >> \in Seq(OutVals)
        BY <4>1, AppendIsConcat
      <4>3. << v >> \o s \in Seq(OutVals)
        BY <4>1, ConcatProperties
      <4>4. Append(<< v >> \o s, w) = (<< v >> \o s) \o << w >>
        BY <4>1, <4>3, AppendIsConcat
      <4>5. QED
        BY <4>1, <4>2, <4>4, ConcatAssociative, AppendProperties
    <3>6. CASE r[k + 1].slot = i
      <4>1. g[k + 1] = Append(s, w) /\ f[(k + 1) + 1] = Append(f[k + 1], w)
        BY <3>2, <3>6 DEF With
      <4>2. ok(k + 1)
        <5> HIDE DEF s, w, v, mine
        <5>1. g[k] = s
          BY DEF s
        <5>2. QED
          BY <3>3, <3>5, <4>1, <5>1
      <4>3. QED
        BY <4>2
    <3>7. CASE r[k + 1].slot # i
      <4>1. g[k + 1] = g[k] /\ f[(k + 1) + 1] = f[k + 1]
        BY <3>2, <3>7 DEF With
      <4>2. QED
        BY <3>3, <4>1
    <3>8. QED
      BY <3>6, <3>7
  <2>2. QED
    BY <2>1
<1>7. Nat \subseteq T
  <2> HIDE DEF T
  <2>1. QED
    BY <1>5, <1>6, SetInduction
<1>8. ok(n)
  BY <1>1, <1>7
<1>9. QED
  BY <1>3, <1>4, <1>8 DEF r

(* A queue without a message of the slot. *)
LEMMA OfNone ==
  ASSUME NEW i, NEW q \in Seq(OutMsgs), \A k \in 1 .. Len(q) : q[k].slot # i
  PROVE  Of(i, q) = << >>
<1>1. Len(q) \in Nat
  BY LenProperties
<1>2. PICK f : OfUpTo(i, q, f, Len(q)) /\ Of(i, q) = f[Len(q)]
  BY <1>1, OfValue
<1> DEFINE T == {n \in Nat : n <= Len(q) => f[n] = << >>}
<1>3. 0 \in T
  BY <1>2 DEF OfUpTo
<1>4. ASSUME NEW n \in Nat, n \in T PROVE n + 1 \in T
  <2>1. CASE n + 1 <= Len(q)
    <3>1. n + 1 \in 1 .. Len(q) /\ (n + 1) - 1 = n /\ f[n] = << >>
      BY <1>1, <1>4, <2>1
    <3>2. f[n + 1] = With(i, f[n], q[n + 1]) /\ q[n + 1].slot # i
      BY <1>2, <3>1 DEF OfUpTo
    <3>3. QED
      BY <3>1, <3>2 DEF With
  <2>2. QED
    BY <2>1
<1> HIDE DEF T
<1>5. Nat \subseteq T
  BY <1>3, <1>4, SetInduction
<1>6. QED
  BY <1>1, <1>2, <1>5 DEF T

-----------------------------------------------------------------------------
(* The urgent messages are those of the management ports, and no others.   *)
UrgentMsgs == [slot : Mgmt, val : OutVals]
OtherMsgs  == [slot : Slots \ Mgmt, val : OutVals]

Apart == hi \in Seq(UrgentMsgs) /\ lo \in Seq(OtherMsgs) /\ shame \in Seq(OtherMsgs)

LEMMA FlushedApart ==
  ASSUME Apart
  PROVE  Flushed(hi) \in Seq(UrgentMsgs) /\ Flushed(lo) \in Seq(OtherMsgs)
BY EmptySeq DEF Apart, Flushed

LEMMA ApartStep ==
  ASSUME IInv, Apart, [Next]_vars
  PROVE  Apart'
<1>1. CASE \/ \E i \in Slots : TrySend(i) \/ TrySendAuthd(i) \/ TryRecv(i)
           \/ AuthSend \/ AuthFlush \/ SetAddr
           \/ ProcessMessages \/ ProcessIncoming \/ NoAddress \/ NothingLeftOver
           \/ OutgoingBox \/ NoneLeft \/ OutgoingOversize
           \/ ChangeDefault \/ ReceiveTimeOver \/ UNCHANGED vars
  <2>1. UNCHANGED <<hi, lo, shame>>
    BY <1>1 DEF TrySend, TrySendAuthd, TryRecv, AuthSend, AuthFlush, SetAddr,
                ProcessMessages, ProcessIncoming, NoAddress, NothingLeftOver, OutgoingBox,
                NoneLeft, OutgoingOversize, ChangeDefault, ReceiveTimeOver, vars, outVars
  <2>2. QED
    BY <2>1 DEF Apart
<1>2. CASE LeftOverMoves
  <2>1. Head(shame) \in OtherMsgs /\ Tail(shame) \in Seq(OtherMsgs)
    BY <1>2, HeadTailProperties DEF Apart, LeftOverMoves
  <2>2. QED
    BY <1>2, <2>1, AppendProperties DEF Apart, LeftOverMoves
<1>3. CASE LeftOverStays
  <2>1. Head(shame) \in OtherMsgs /\ Tail(shame) \in Seq(OtherMsgs)
    BY <1>3, HeadTailProperties DEF Apart, LeftOverStays
  <2>2. QED
    BY <1>3, <2>1, AppendProperties DEF Apart, LeftOverStays
<1>4. CASE OutgoingUrgent \/ OutgoingToIo \/ OutgoingLeftOver
  <2>1. TakeOutgoing
    BY <1>4 DEF OutgoingUrgent, OutgoingToIo, OutgoingLeftOver
  <2>2. Outgoing \in OutMsgs /\ Outgoing.slot = at
    BY <2>1, TakeFits DEF Outgoing
  <2>3. CASE OutgoingUrgent
    <3>1. Outgoing \in UrgentMsgs
      BY <2>2, <2>3 DEF OutgoingUrgent, UrgentMsgs, OutMsgs
    <3>2. Urgent(Outgoing) \in Seq(UrgentMsgs)
      BY <3>1, AppendProperties DEF Urgent, Apart
    <3>3. QED
      BY <2>3, <3>2 DEF Apart, OutgoingUrgent
  <2>4. CASE OutgoingToIo \/ OutgoingLeftOver
    <3>1. Outgoing \in OtherMsgs
      BY <2>2, <2>4 DEF OutgoingToIo, OutgoingLeftOver, OtherMsgs, OutMsgs
    <3>2. Append(lo, Outgoing) \in Seq(OtherMsgs) /\ Append(shame, Outgoing) \in Seq(OtherMsgs)
      BY <3>1, AppendProperties DEF Apart
    <3>3. QED
      BY <2>4, <3>2 DEF Apart, OutgoingToIo, OutgoingLeftOver
  <2>5. QED
    BY <1>4, <2>3, <2>4
<1>5. CASE IoSend
  <2>1. shame' = shame
    BY <1>5 DEF IoSend
  <2>2. CASE ~flush /\ Waiting
    <3>1. /\ hi # << >> => Tail(hi) \in Seq(UrgentMsgs)
          /\ lo # << >> => Tail(lo) \in Seq(OtherMsgs)
      BY HeadTailProperties DEF Apart
    <3>2. QED
      BY <1>5, <2>1, <2>2, <3>1 DEF Apart, IoSend, Waiting
  <2>3. CASE ~(~flush /\ Waiting)
    BY <1>5, <2>1, <2>3, FlushedApart DEF Apart, IoSend
  <2>4. QED
    BY <2>2, <2>3
<1>6. CASE IoReceive \/ IoReceivedNothing \/ IoSent \/ IoGoesOn \/ \E m \in InMsgs : IoReceived(m)
  <2>1. hi' = Flushed(hi) /\ lo' = Flushed(lo) /\ shame' = shame
    BY <1>6 DEF IoReceive, IoReceivedNothing, IoSent, IoGoesOn, IoReceived
  <2>2. QED
    BY <2>1, FlushedApart DEF Apart
<1>7. QED
  BY <1>1, <1>2, <1>3, <1>4, <1>5, <1>6 DEF Next, Process, Io

-----------------------------------------------------------------------------
(* What the steps of PortStream ask for.                                   *)
LEMMA WayType ==
  ASSUME IInv
  PROVE  \A i \in Slots : /\ Of(i, hi) \in Seq(OutVals) /\ Of(i, lo) \in Seq(OutVals)
                          /\ Of(i, shame) \in Seq(OutVals) /\ out[i] \in Seq(OutVals)
                          /\ Of(i, hi) \o Of(i, lo) \o Of(i, shame) \in Seq(OutVals)
                          /\ OnTheWay(i) \in Seq(OutVals)
<1> TAKE i \in Slots
<1>1. hi \in Seq(OutMsgs) /\ lo \in Seq(OutMsgs) /\ shame \in Seq(OutMsgs)
      /\ out[i] \in Seq(OutVals)
  BY DEF IInv, Queues, Queue
<1>2. Of(i, hi) \in Seq(OutVals) /\ Of(i, lo) \in Seq(OutVals) /\ Of(i, shame) \in Seq(OutVals)
  BY <1>1, OfType
<1>3. Of(i, hi) \o Of(i, lo) \in Seq(OutVals)
  BY <1>2, ConcatProperties
<1>4. Of(i, hi) \o Of(i, lo) \o Of(i, shame) \in Seq(OutVals)
  BY <1>2, <1>3, ConcatProperties
<1>5. OnTheWay(i) \in Seq(OutVals)
  BY <1>1, <1>4, ConcatProperties DEF OnTheWay
<1>6. QED
  BY <1>1, <1>2, <1>4, <1>5

LEMMA Stutters ==
  ASSUME \A i \in Slots : OnTheWay(i)' = OnTheWay(i), UNCHANGED <<sending, flush>>
  PROVE  UNCHANGED S!vars
BY DEF S!vars

LEMMA Sends1 ==
  ASSUME NEW p \in Slots, NEW v \in OutVals, UNCHANGED <<sending, flush>>,
         \A i \in Slots : OnTheWay(i)' = IF i = p THEN Append(OnTheWay(i), v) ELSE OnTheWay(i)
  PROVE  S!Send(p)
BY DEF S!Send

LEMMA RemoveOne ==
  ASSUME NEW s \in Seq(OutVals), NEW t \in Seq(OutVals), t # << >>
  PROVE  /\ Len(s) + 1 \in 1 .. Len(s \o t)
         /\ (s \o t)[Len(s) + 1] = Head(t)
         /\ S!RemoveAt(s \o t, Len(s) + 1) = s \o Tail(t)
<1> DEFINE w == s \o t
           a == Len(s)
           b == Len(t)
<1>1. a \in Nat /\ b \in Nat /\ b # 0 /\ Head(t) = t[1]
  BY LenProperties, EmptySeq, HeadTailProperties
<1>2. w \in Seq(OutVals) /\ Len(w) = a + b
      /\ \A k \in 1 .. a + b : w[k] = IF k <= a THEN s[k] ELSE t[k - a]
  BY ConcatProperties
<1> HIDE DEF w, a, b
<1>3. a + 1 \in 1 .. a + b /\ w[a + 1] = t[1]
  <2>1. a + 1 \in 1 .. a + b /\ ~(a + 1 <= a) /\ (a + 1) - a = 1
    BY <1>1
  <2>2. QED
    BY <1>2, <2>1
<1>4. SubSeq(w, 1, a) = s
  <2>1. CASE a = 0
    <3>1. s = << >>
      BY <2>1, EmptySeq DEF a
    <3>2. SubSeq(w, 1, a) = << >>
      BY <2>1, SubSeqEmpty
    <3>3. QED
      BY <3>1, <3>2
  <2>2. CASE a # 0
    <3>1. 1 \in 1 .. a /\ a \in 1 .. a
      BY <1>1, <2>2
    <3>2. SubSeq(w, 1, a) = SubSeq(s, 1, a)
      BY <3>1, SubSeqOfConcat1 DEF w, a
    <3>3. QED
      BY <3>2, SubSeqFull DEF a
  <2>3. QED
    BY <2>1, <2>2
<1>5. SubSeq(w, a + 2, a + b) = Tail(t)
  <2>1. Tail(t) = SubSeq(t, 2, b)
    BY TailIsSubSeq DEF b
  <2>2. CASE b = 1
    <3>1. SubSeq(w, a + 2, a + b) = << >> /\ SubSeq(t, 2, b) = << >>
      BY <1>1, <2>2, SubSeqEmpty
    <3>2. QED
      BY <2>1, <3>1
  <2>3. CASE b # 1
    <3>1. a + 2 \in a + 1 .. a + b /\ a + b \in a + 1 .. a + b
          /\ (a + 2) - a = 2 /\ (a + b) - a = b
      BY <1>1, <2>3
    <3>2. SubSeq(w, a + 2, a + b) = SubSeq(t, (a + 2) - a, (a + b) - a)
      BY <3>1, SubSeqOfConcat2 DEF w, a, b
    <3>3. QED
      BY <2>1, <3>1, <3>2
  <2>4. QED
    BY <2>2, <2>3
<1>6. (a + 1) - 1 = a /\ (a + 1) + 1 = a + 2
  BY <1>1
<1>7. S!RemoveAt(w, a + 1) = s \o Tail(t)
  BY <1>2, <1>4, <1>5, <1>6 DEF S!RemoveAt
<1>8. QED
  BY <1>1, <1>2, <1>3, <1>7 DEF w, a

LEMMA Loses ==
  ASSUME NEW p \in Slots, NEW s \in Seq(OutVals), NEW t \in Seq(OutVals), t # << >>,
         OnTheWay(p) = s \o t, OnTheWay(p)' = s \o Tail(t),
         \A i \in Slots : i # p => OnTheWay(i)' = OnTheWay(i),
         p \in Mgmt \/ Head(t) \in Oversize,
         UNCHANGED <<sending, flush>>
  PROVE  S!Lose(p)
<1> DEFINE n == Len(s) + 1
           w == [i \in Slots |-> OnTheWay(i)]
<1>1. n \in 1 .. Len(w[p]) /\ w[p][n] = Head(t) /\ S!RemoveAt(w[p], n) = s \o Tail(t)
  BY RemoveOne
<1>2. w' = [w EXCEPT ![p] = S!RemoveAt(@, n)]
  BY <1>1
<1> HIDE DEF n
<1>3. QED
  BY <1>1, <1>2 DEF S!Lose

LEMMA Takes ==
  ASSUME NEW p \in Slots, NEW v \in OutVals, NEW t \in Seq(OutVals),
         OnTheWay(p) = << v >> \o t, OnTheWay(p)' = t,
         \A i \in Slots : i # p => OnTheWay(i)' = OnTheWay(i),
         sending = << >>, sending' = << [slot |-> p, val |-> v] >>,
         flush = FALSE, flush' = FALSE
  PROVE  S!Take(p)
<1> DEFINE w == [i \in Slots |-> OnTheWay(i)]
<1>1. << v >> \o t # << >> /\ Head(<< v >> \o t) = v /\ Tail(<< v >> \o t) = t
  <2>1. << v >> \in Seq(OutVals) /\ Len(<< v >>) = 1 /\ << v >>[1] = v
    OBVIOUS
  <2>2. /\ << v >> \o t \in Seq(OutVals) /\ Len(<< v >> \o t) = 1 + Len(t)
        /\ \A k \in 1 .. 1 + Len(t) : (<< v >> \o t)[k] = IF k <= 1 THEN v ELSE t[k - 1]
    BY <2>1, ConcatProperties
  <2>3. Len(t) \in Nat
    BY LenProperties
  <2> DEFINE u == << v >> \o t
  <2>4. u \in Seq(OutVals) /\ u # << >> /\ u[1] = v
    BY <2>2, <2>3, EmptySeq
  <2>5. Tail(u) \in Seq(OutVals) /\ Len(Tail(u)) = Len(t)
        /\ \A k \in 1 .. Len(t) : Tail(u)[k] = t[k]
    <3>1. Tail(u) \in Seq(OutVals) /\ Len(Tail(u)) = Len(u) - 1
          /\ \A k \in 1 .. Len(Tail(u)) : Tail(u)[k] = u[k + 1]
      BY <2>4, HeadTailProperties
    <3>2. Len(Tail(u)) = Len(t)
      BY <2>2, <2>3, <3>1
    <3>3. \A k \in 1 .. Len(t) : k + 1 \in 1 .. 1 + Len(t) /\ ~(k + 1 <= 1) /\ (k + 1) - 1 = k
      BY <2>3
    <3> HIDE DEF u
    <3>4. \A k \in 1 .. Len(t) : u[k + 1] = t[k]
      BY <2>2, <3>3 DEF u
    <3>5. QED
      BY <3>1, <3>2, <3>4
  <2> HIDE DEF u
  <2>6. Tail(u) = t
    BY <2>5, SeqEqual
  <2>7. QED
    BY <2>4, <2>6 DEF u
<1>2. w[p] # << >> /\ Head(w[p]) = v /\ w' = [w EXCEPT ![p] = Tail(@)]
  BY <1>1
<1>3. QED
  BY <1>2 DEF S!Take

(* Messages of one port, put together. *)
LEMMA ConcatVals ==
  ASSUME NEW a \in Seq(OutVals), NEW b \in Seq(OutVals), NEW c \in Seq(OutVals)
  PROVE  (a \o b) \o c = a \o (b \o c) /\ a \o b \in Seq(OutVals) /\ a \o << >> = a
<1>1. (a \o b) \o c = a \o (b \o c)
  BY ConcatAssociative
<1>2. a \o b \in Seq(OutVals)
  BY ConcatProperties
<1>3. a \o << >> = a
  BY ConcatEmptySeq
<1>4. QED
  BY <1>1, <1>2, <1>3

LEMMA SuffixOf ==
  ASSUME NEW s \in Seq(OutVals), NEW t \in Seq(OutVals)
  PROVE  S!IsSuffix(t, s \o t)
<1> DEFINE w == s \o t
           a == Len(s)
           b == Len(t)
           x == S!Reverse(t)
           y == S!Reverse(w)
<1>1. a \in Nat /\ b \in Nat
  BY LenProperties
<1>2. w \in Seq(OutVals) /\ Len(w) = a + b
      /\ \A k \in 1 .. a + b : w[k] = IF k <= a THEN s[k] ELSE t[k - a]
  BY ConcatProperties
<1> HIDE DEF w, a, b
<1>3. x = [k \in 1 .. b |-> t[(b - k) + 1]] /\ y = [k \in 1 .. a + b |-> w[((a + b) - k) + 1]]
  BY <1>2 DEF S!Reverse, b
<1>4. \A k \in 1 .. b : t[k] \in OutVals
  BY ElementOfSeq DEF b
<1>5. \A k \in 1 .. a + b : w[k] \in OutVals
  BY <1>2, ElementOfSeq
<1>6. x \in Seq(OutVals) /\ Len(x) = b
  <2>1. \A k \in 1 .. b : (b - k) + 1 \in 1 .. b
    BY <1>1
  <2>2. x \in [1 .. b -> OutVals]
    BY <1>3, <1>4, <2>1
  <2> HIDE DEF x
  <2>3. QED
    BY <1>1, <2>2, IsASeq, LenProperties
<1>7. y \in Seq(OutVals) /\ Len(y) = a + b
  <2>1. \A k \in 1 .. a + b : ((a + b) - k) + 1 \in 1 .. a + b
    BY <1>1
  <2>2. y \in [1 .. a + b -> OutVals]
    BY <1>3, <1>5, <2>1
  <2> HIDE DEF y
  <2>3. QED
    BY <1>1, <2>2, IsASeq, LenProperties
<1>8. \A k \in 1 .. b : y[k] = x[k]
  <2>1. TAKE k \in 1 .. b
  <2>2. /\ k \in 1 .. a + b /\ ((a + b) - k) + 1 \in 1 .. a + b
        /\ ~(((a + b) - k) + 1 <= a) /\ (((a + b) - k) + 1) - a = (b - k) + 1
    BY <1>1
  <2>3. y[k] = w[((a + b) - k) + 1] /\ x[k] = t[(b - k) + 1]
    BY <1>3, <2>2
  <2>4. QED
    BY <1>2, <2>2, <2>3
<1> HIDE DEF x, y
<1>9. SubSeq(x, 1, b) = x
  BY <1>6, SubSeqFull
<1>10. SubSeq(y, 1, b) = x
  <2>1. \A k \in 1 .. b : y[k] \in OutVals
    BY <1>6, <1>8, ElementOfSeq
  <2>2. /\ SubSeq(y, 1, b) \in Seq(OutVals)
        /\ Len(SubSeq(y, 1, b)) = IF 1 <= b THEN b - 1 + 1 ELSE 0
        /\ \A k \in 1 .. b - 1 + 1 : SubSeq(y, 1, b)[k] = y[1 + k - 1]
    BY <1>1, <2>1, SubSeqProperties
  <2>3. Len(SubSeq(y, 1, b)) = b /\ b - 1 + 1 = b /\ \A k \in 1 .. b : 1 + k - 1 = k
    BY <1>1, <2>2
  <2>4. \A k \in 1 .. b : SubSeq(y, 1, b)[k] = x[k]
    BY <1>8, <2>2, <2>3
  <2>5. QED
    BY <1>6, <2>2, <2>3, <2>4, SeqEqual
<1>11. b <= a + b
  BY <1>1
<1>12. QED
  BY <1>6, <1>7, <1>9, <1>10, <1>11 DEF S!IsSuffix, S!IsPrefix, x, y, w

LEMMA Pauses ==
  ASSUME IInv, flush' = FALSE, sending' \in {sending, << >>},
         hi' = Flushed(hi), lo' = Flushed(lo), UNCHANGED <<shame, out>>
  PROVE  S!Pause
<1> DEFINE w == [i \in Slots |-> OnTheWay(i)]
<1>1. ASSUME NEW i \in Slots
      PROVE  IF flush THEN S!IsSuffix(OnTheWay(i)', OnTheWay(i)) ELSE OnTheWay(i)' = OnTheWay(i)
  <2> DEFINE a == Of(i, hi)
             b == Of(i, lo)
             c == Of(i, shame)
             o == out[i]
  <2>1. a \in Seq(OutVals) /\ b \in Seq(OutVals) /\ c \in Seq(OutVals) /\ o \in Seq(OutVals)
    BY WayType
  <2>2. CASE flush
    <3>1. OnTheWay(i)' = << >> \o << >> \o c \o o
      <4>1. hi' = << >> /\ lo' = << >> /\ shame' = shame /\ out' = out
        BY <2>2 DEF Flushed
      <4>2. QED
        BY <4>1, OfEmpty DEF OnTheWay
    <3> HIDE DEF a, b, c, o
    <3>2. << >> \o << >> \o c \o o = c \o o
      BY <2>1, ConcatEmptySeq, EmptySeq
    <3>3. a \o b \in Seq(OutVals) /\ c \o o \in Seq(OutVals)
      BY <2>1, ConcatProperties
    <3>4. (a \o b) \o c \o o = (a \o b) \o (c \o o)
      BY <2>1, <3>3, ConcatVals, SMTT(60)
    <3>5. S!IsSuffix(c \o o, (a \o b) \o (c \o o))
      BY <3>3, SuffixOf
    <3>6. OnTheWay(i) = (a \o b) \o c \o o
      BY DEF OnTheWay, a, b, c, o
    <3>7. QED
      BY <2>2, <3>1, <3>2, <3>4, <3>5, <3>6
  <2>3. CASE ~flush
    <3>1. hi' = hi /\ lo' = lo /\ shame' = shame /\ out' = out
      BY <2>3 DEF Flushed
    <3>2. QED
      BY <2>3, <3>1 DEF OnTheWay
  <2>4. QED
    BY <2>2, <2>3
<1>2. S!FlushIfAsked(w')
  BY <1>1 DEF S!FlushIfAsked
<1>3. QED
  BY <1>2 DEF S!Pause

-----------------------------------------------------------------------------
(* What the steps do to the messages of a slot. *)
LEMMA TaskOrder ==
  ASSUME IInv, NEW p \in Slots, TrySend(p) \/ TrySendAuthd(p)
  PROVE  S!Send(p)
<1>1. PICK v \in OutVals : out' = [out EXCEPT ![p] = Append(@, v)]
  BY SendsAssumption DEF TrySend, TrySendAuthd, try_send
<1>2. UNCHANGED <<hi, lo, shame, sending, flush>>
  BY DEF TrySend, TrySendAuthd, outVars, ioVars
<1>3. ASSUME NEW i \in Slots
      PROVE  OnTheWay(i)' = IF i = p THEN Append(OnTheWay(i), v) ELSE OnTheWay(i)
  <2> DEFINE s == Of(i, hi) \o Of(i, lo) \o Of(i, shame)
  <2>1. s \in Seq(OutVals) /\ out[i] \in Seq(OutVals)
    BY WayType
  <2>2. OnTheWay(i) = s \o out[i] /\ OnTheWay(i)' = s \o out'[i]
    BY <1>2 DEF OnTheWay
  <2> HIDE DEF s
  <2>3. CASE i = p
    <3>1. out'[i] = Append(out[i], v)
      BY <1>1, <2>3 DEF IInv, Queues
    <3>2. Append(out[i], v) = out[i] \o << v >> /\ Append(s \o out[i], v) = (s \o out[i]) \o << v >>
      BY <2>1, AppendIsConcat, ConcatProperties
    <3>3. (s \o out[i]) \o << v >> = s \o (out[i] \o << v >>)
      <4> DEFINE o == out[i]
                 e == << v >>
      <4>1. o \in Seq(OutVals) /\ e \in Seq(OutVals)
        BY <2>1
      <4> HIDE DEF o, e
      <4>2. (s \o o) \o e = s \o (o \o e)
        BY <2>1, <4>1, ConcatVals
      <4>3. QED
        BY <4>2 DEF o, e
    <3>4. QED
      BY <2>2, <2>3, <3>1, <3>2, <3>3
  <2>4. CASE i # p
    BY <1>1, <2>2, <2>4 DEF IInv, Queues
  <2>5. QED
    BY <2>3, <2>4
<1>4. QED
  BY <1>2, <1>3, Sends1

LEMMA LeftOverOrder ==
  ASSUME IInv, LeftOverMoves \/ LeftOverStays
  PROVE  UNCHANGED S!vars
<1>1. shame # << >> /\ hi' = hi /\ out' = out /\ UNCHANGED <<sending, flush>>
  BY DEF LeftOverMoves, LeftOverStays, ioVars
<1> DEFINE m == Head(shame)
<1>2. m \in OutMsgs /\ Tail(shame) = << >> /\ shame \in Seq(OutMsgs) /\ lo \in Seq(OutMsgs)
  BY <1>1, OnlyOne DEF IInv, Queues, Queue
<1>3. shame = << m >>
  <2>1. Len(shame) = 1
    <3>1. Len(Tail(shame)) = Len(shame) - 1 /\ Len(shame) \in Nat
      BY <1>1, <1>2, HeadTailProperties, LenProperties
    <3>2. Len(Tail(shame)) = 0
      BY <1>2, EmptySeq
    <3>3. QED
      BY <3>1, <3>2
  <2>2. QED
    BY <1>2, <2>1
<1>4. CASE LeftOverStays
  <2>1. shame' = Append(<< >>, m) /\ lo' = lo
    BY <1>2, <1>4 DEF LeftOverStays
  <2>2. shame' = shame
    BY <1>2, <1>3, <2>1
  <2>3. QED
    BY <1>1, <2>1, <2>2, Stutters DEF OnTheWay
<1>5. CASE LeftOverMoves
  <2>1. lo' = Append(lo, m) /\ shame' = << >>
    BY <1>2, <1>5 DEF LeftOverMoves
  <2>2. ASSUME NEW i \in Slots PROVE OnTheWay(i)' = OnTheWay(i)
    <3> DEFINE a == Of(i, hi)
               b == Of(i, lo)
               c == Of(i, shame)
    <3>1. a \in Seq(OutVals) /\ b \in Seq(OutVals) /\ a \o b \in Seq(OutVals)
      BY WayType, ConcatProperties
    <3>2. Of(i, Append(lo, m)) = With(i, b, m)
      BY <1>2, OfAppend
    <3>3. c = With(i, << >>, m)
      <4>1. shame = Append(<< >>, m)
        BY <1>2, <1>3
      <4>2. Of(i, Append(<< >>, m)) = With(i, Of(i, << >>), m)
        BY <1>2, EmptySeq, OfAppend
      <4>3. QED
        BY <4>1, <4>2, OfEmpty
    <3>4. m.val \in OutVals /\ << m.val >> \in Seq(OutVals)
      BY <1>2 DEF OutMsgs
    <3>5. OnTheWay(i)' = a \o With(i, b, m) \o << >> \o out[i] /\ OnTheWay(i) = a \o b \o c \o out[i]
      BY <1>1, <2>1, <3>2, OfEmpty DEF OnTheWay
    <3> HIDE DEF a, b, c, m
    <3>6. a \o With(i, b, m) \o << >> = a \o b \o c
      <4>1. CASE m.slot = i
        <5>1. With(i, b, m) = b \o << m.val >> /\ c = << m.val >>
          BY <3>1, <3>3, <3>4, <4>1, AppendIsConcat DEF With
        <5>2. b \o << m.val >> \in Seq(OutVals)
          BY <3>1, <3>4, ConcatProperties
        <5>3. a \o (b \o << m.val >>) \in Seq(OutVals)
          BY <3>1, <5>2, ConcatProperties
        <5>4. (a \o (b \o << m.val >>)) \o << >> = a \o (b \o << m.val >>)
          BY <5>3, ConcatEmptySeq
        <5>5. a \o (b \o << m.val >>) = (a \o b) \o << m.val >>
          BY <3>1, <3>4, ConcatAssociative
        <5>6. QED
          BY <5>1, <5>4, <5>5
      <4>2. CASE m.slot # i
        BY <3>3, <4>2 DEF With
      <4>3. QED
        BY <4>1, <4>2
    <3>7. QED
      BY <3>5, <3>6
  <2>3. QED
    BY <1>1, <2>2, Stutters
<1>6. QED
  BY <1>4, <1>5

(* No message of a port of the bus management waits among the others. *)
LEMMA OthersNone ==
  ASSUME IInv, Apart, NEW i \in Mgmt
  PROVE  Of(i, lo) = << >> /\ Of(i, shame) = << >>
<1>1. lo \in Seq(OutMsgs) /\ shame \in Seq(OutMsgs)
  BY DEF IInv, Queues, Queue
<1>2. ASSUME NEW k \in 1 .. Len(lo) PROVE lo[k].slot # i
  <2>1. lo[k] \in OtherMsgs
    BY ElementOfSeq DEF Apart
  <2>2. QED
    BY <2>1 DEF OtherMsgs
<1>3. ASSUME NEW k \in 1 .. Len(shame) PROVE shame[k].slot # i
  <2>1. shame[k] \in OtherMsgs
    BY ElementOfSeq DEF Apart
  <2>2. QED
    BY <2>1 DEF OtherMsgs
<1>4. QED
  BY <1>1, <1>2, <1>3, OfNone

(* A message taken from its port, with what its port had before it. *)
LEMMA TakenWay ==
  ASSUME IInv, TakeOutgoing
  PROVE  /\ at \in Slots /\ Outgoing \in OutMsgs /\ Outgoing.slot = at
         /\ Outgoing.val = Head(out[at]) /\ out[at] # << >>
         /\ shame = << >>
         /\ out[at] \in Seq(OutVals) /\ out'[at] = Tail(out[at])
         /\ out[at] = << Head(out[at]) >> \o Tail(out[at])
         /\ Head(out[at]) \in OutVals /\ Tail(out[at]) \in Seq(OutVals)
         /\ \A i \in Slots : i # at => out'[i] = out[i]
<1>1. at \in Slots /\ out[at] \in Seq(OutVals) /\ out[at] # << >>
  BY WayType DEF IInv, Places, TakeOutgoing
<1>2. out' = [out EXCEPT ![at] = Tail(@)] /\ DOMAIN out = Slots
  BY DEF TakeOutgoing, IInv, Queues
<1>3. Outgoing \in OutMsgs /\ shame = << >>
  BY TakeFits
<1>4. Head(out[at]) \in OutVals /\ Tail(out[at]) \in Seq(OutVals)
  BY <1>1, HeadTailProperties
<1>5. out[at] = << Head(out[at]) >> \o Tail(out[at])
  BY <1>1, <1>4
<1>6. QED
  BY <1>1, <1>2, <1>3, <1>4, <1>5 DEF Outgoing

(* A message that is dropped. *)
LEMMA DroppedOrder ==
  ASSUME IInv, TakeOutgoing, UNCHANGED <<hi, lo, shame, sending, flush>>,
         at \in Mgmt \/ Outgoing.val \in Oversize
  PROVE  S!Lose(at)
<1> DEFINE s == Of(at, hi) \o Of(at, lo) \o Of(at, shame)
<1>1. at \in Slots /\ out[at] \in Seq(OutVals) /\ out[at] # << >> /\ out'[at] = Tail(out[at])
      /\ Head(out[at]) = Outgoing.val /\ \A i \in Slots : i # at => out'[i] = out[i]
  BY TakenWay
<1>2. s \in Seq(OutVals)
  BY <1>1, WayType
<1>3. OnTheWay(at) = s \o out[at]
  BY DEF OnTheWay
<1>4. ASSUME NEW i \in Slots
      PROVE  OnTheWay(i)' = Of(i, hi) \o Of(i, lo) \o Of(i, shame) \o out'[i]
  BY DEF OnTheWay
<1>5. \A i \in Slots : i # at => OnTheWay(i)' = OnTheWay(i)
  BY <1>1, <1>4 DEF OnTheWay
<1> HIDE DEF s
<1>6. QED
  BY <1>1, <1>2, <1>3, <1>4, <1>5, Loses DEF s

(* A message that goes on to a queue of the driver, or is left over. *)
LEMMA MovedOrder ==
  ASSUME IInv, Apart, OutgoingUrgent \/ OutgoingToIo \/ OutgoingLeftOver,
         (hi' = Append(hi, Outgoing)) \/ ~OutgoingUrgent
  PROVE  UNCHANGED S!vars
<1> DEFINE m == Outgoing
           v == Head(out[at])
           t == Tail(out[at])
           e == << v >>
<1>1. TakeOutgoing /\ UNCHANGED <<sending, flush, at>>
  BY DEF OutgoingUrgent, OutgoingToIo, OutgoingLeftOver, ioVars
<1>2. /\ at \in Slots /\ m \in OutMsgs /\ m.slot = at /\ m.val = v
      /\ out[at] = e \o t /\ out'[at] = t /\ v \in OutVals /\ t \in Seq(OutVals)
      /\ \A i \in Slots : i # at => out'[i] = out[i]
      /\ shame = << >>
  BY <1>1, TakenWay
<1>3. e \in Seq(OutVals)
  BY <1>2
<1>4. hi \in Seq(OutMsgs) /\ lo \in Seq(OutMsgs) /\ << >> \in Seq(OutMsgs)
  BY EmptySeq DEF IInv, Queues, Queue
<1> HIDE DEF m, v, t, e
<1>5. \A q \in Seq(OutMsgs) : Of(at, q) \in Seq(OutVals) /\ Of(at, Append(q, m)) = Of(at, q) \o e
  <2>1. TAKE q \in Seq(OutMsgs)
  <2>2. Of(at, q) \in Seq(OutVals)
    BY OfType
  <2>3. Of(at, Append(q, m)) = Append(Of(at, q), v)
    BY <1>2, OfAppend DEF With
  <2>4. QED
    BY <1>2, <2>2, <2>3, AppendIsConcat DEF e
<1>6. ASSUME NEW i \in Slots, i # at, NEW q \in Seq(OutMsgs)
      PROVE  Of(i, Append(q, m)) = Of(i, q)
  BY <1>2, <1>6, OfAppend DEF With
<1>7. << >> \o e = e /\ e \o << >> = e
  BY <1>3, ConcatEmptySeq
<1>8. \A a \in Seq(OutVals) : (a \o e) \o t = a \o (e \o t) /\ a \o << >> = a /\ a \o e \in Seq(OutVals)
  BY <1>2, <1>3, ConcatVals, SMTT(60)
<1>9. CASE OutgoingUrgent
  <2>1. hi' = Append(hi, m) /\ lo' = lo /\ shame' = shame
    BY <1>9 DEF OutgoingUrgent, m
  <2>2. Of(at, lo) = << >> /\ Of(at, shame) = << >>
    BY <1>9, OthersNone DEF OutgoingUrgent
  <2> DEFINE a == Of(at, hi)
  <2>3. OnTheWay(at)' = (a \o e) \o << >> \o << >> \o t /\ OnTheWay(at) = a \o << >> \o << >> \o (e \o t)
    BY <1>1, <1>2, <1>4, <1>5, <2>1, <2>2 DEF OnTheWay
  <2>4. a \in Seq(OutVals)
    BY <1>4, <1>5
  <2> HIDE DEF a
  <2>5. OnTheWay(at)' = OnTheWay(at)
    BY <1>8, <2>3, <2>4, ConcatEmptySeq
  <2>6. \A i \in Slots : i # at => OnTheWay(i)' = OnTheWay(i)
    BY <1>2, <1>4, <1>6, <2>1 DEF OnTheWay
  <2>7. \A i \in Slots : OnTheWay(i)' = OnTheWay(i)
    <3>1. ASSUME NEW i \in Slots, i = at PROVE OnTheWay(i)' = OnTheWay(i)
      BY <1>1, <2>5, <3>1
    <3>2. QED
      BY <2>6, <3>1
  <2>8. QED
    BY <1>1, <2>7, Stutters
<1>10. CASE OutgoingToIo
  <2>1. lo' = Append(lo, m) /\ hi' = hi /\ shame' = << >>
    BY <1>2, <1>10 DEF OutgoingToIo, m
  <2> DEFINE a == Of(at, hi)
             b == Of(at, lo)
             c == a \o b
  <2>2. a \in Seq(OutVals) /\ b \in Seq(OutVals) /\ c \in Seq(OutVals)
    BY <1>4, <1>5, ConcatProperties
  <2>3. OnTheWay(at)' = a \o (b \o e) \o << >> \o t /\ OnTheWay(at) = a \o b \o << >> \o (e \o t)
    BY <1>1, <1>2, <1>4, <1>5, <2>1, OfEmpty DEF OnTheWay
  <2>4. a \o (b \o e) = c \o e
    <3> HIDE DEF a, b
    <3>1. QED
      BY <1>3, <2>2, ConcatVals, SMTT(60)
  <2>5. OnTheWay(at)' = OnTheWay(at)
    <3> HIDE DEF a, b
    <3>1. OnTheWay(at)' = (c \o e) \o << >> \o t /\ OnTheWay(at) = c \o << >> \o (e \o t)
      BY <2>3, <2>4
    <3> HIDE DEF c
    <3>2. QED
      BY <1>8, <2>2, <3>1, ConcatEmptySeq
  <2>6. \A i \in Slots : i # at => OnTheWay(i)' = OnTheWay(i)
    BY <1>2, <1>4, <1>6, <2>1 DEF OnTheWay
  <2>7. \A i \in Slots : OnTheWay(i)' = OnTheWay(i)
    <3>1. ASSUME NEW i \in Slots, i = at PROVE OnTheWay(i)' = OnTheWay(i)
      BY <1>1, <2>5, <3>1
    <3>2. QED
      BY <2>6, <3>1
  <2>8. QED
    BY <1>1, <2>7, Stutters
<1>11. CASE OutgoingLeftOver
  <2>1. shame' = Append(<< >>, m) /\ hi' = hi /\ lo' = lo
    BY <1>2, <1>11 DEF OutgoingLeftOver, m
  <2> DEFINE c == Of(at, hi) \o Of(at, lo)
  <2>2. c \in Seq(OutVals)
    BY <1>4, <1>5, ConcatProperties
  <2>3. Of(at, shame') = e
    BY <1>4, <1>5, <1>7, <2>1, OfEmpty
  <2>4. OnTheWay(at)' = c \o e \o t /\ OnTheWay(at) = c \o << >> \o (e \o t)
    BY <1>1, <1>2, <2>1, <2>3, OfEmpty DEF OnTheWay
  <2>5. OnTheWay(at)' = OnTheWay(at)
    <3> HIDE DEF c
    <3>1. QED
      BY <1>8, <2>2, <2>4
  <2>6. \A i \in Slots : i # at => OnTheWay(i)' = OnTheWay(i)
    BY <1>2, <1>4, <1>6, <2>1 DEF OnTheWay
  <2>7. \A i \in Slots : OnTheWay(i)' = OnTheWay(i)
    <3>1. ASSUME NEW i \in Slots, i = at PROVE OnTheWay(i)' = OnTheWay(i)
      BY <1>1, <2>5, <3>1
    <3>2. QED
      BY <2>6, <3>1
  <2>8. QED
    BY <1>1, <2>7, Stutters
<1>12. QED
  BY <1>9, <1>10, <1>11

LEMMA OutgoingOrder ==
  ASSUME IInv, Apart, OutgoingOversize \/ OutgoingUrgent \/ OutgoingToIo \/ OutgoingLeftOver
  PROVE  UNCHANGED S!vars \/ S!Lose(at)
<1>1. CASE OutgoingOversize
  BY <1>1, DroppedOrder DEF OutgoingOversize, outVars, ioVars
<1>2. CASE OutgoingUrgent /\ hi' # Append(hi, Outgoing)
  <2>1. /\ TakeOutgoing /\ at \in Mgmt
        /\ hi' = hi /\ UNCHANGED <<lo, shame, sending, flush>>
    BY <1>2 DEF OutgoingUrgent, Urgent, ioVars
  <2>2. QED
    BY <2>1, DroppedOrder
<1>3. CASE OutgoingToIo \/ OutgoingLeftOver \/ (OutgoingUrgent /\ hi' = Append(hi, Outgoing))
  <2>1. OutgoingUrgent => ~OutgoingToIo /\ ~OutgoingLeftOver
    BY DEF OutgoingUrgent, OutgoingToIo, OutgoingLeftOver
  <2>2. QED
    BY <1>3, <2>1, MovedOrder
<1>4. QED
  BY <1>1, <1>2, <1>3

(* What follows the first message of the way is the rest of the way.  The   *)
(* provers get lost in nested joins, so joining has an opaque name here.    *)
Join(x, y) == x \o y

LEMMA JoinType == \A x, y \in Seq(OutVals) : Join(x, y) \in Seq(OutVals)
BY ConcatProperties DEF Join

LEMMA JoinAssociative ==
  \A x, y, z \in Seq(OutVals) : Join(Join(x, y), z) = Join(x, Join(y, z))
BY ConcatAssociative DEF Join

LEMMA JoinRest ==
  \A e, r, b, c, o \in Seq(OutVals) :
    /\ Join(Join(Join(r, b), c), o) \in Seq(OutVals)
    /\ Join(Join(Join(Join(e, r), b), c), o) = Join(e, Join(Join(Join(r, b), c), o))
<1> TAKE e, r, b, c, o \in Seq(OutVals)
<1>1. Join(r, b) \in Seq(OutVals) /\ Join(Join(e, r), b) = Join(e, Join(r, b))
  BY JoinType, JoinAssociative
<1>2. /\ Join(Join(r, b), c) \in Seq(OutVals)
      /\ Join(Join(Join(e, r), b), c) = Join(e, Join(Join(r, b), c))
  BY <1>1, JoinType, JoinAssociative
<1>3. QED
  BY <1>2, JoinType, JoinAssociative

(* The next message of the driver is the first of its port. *)
LEMMA SendOrder ==
  ASSUME IInv, IoSend, ~flush, Waiting, NEW p \in Slots, p = NextToGo.slot
  PROVE  S!Take(p)
<1> DEFINE m == NextToGo
           v == m.val
           e == << v >>
           b == Of(p, lo)
           c == Of(p, shame)
           o == out[p]
<1>1. /\ hi \in Seq(OutMsgs) /\ lo \in Seq(OutMsgs)
      /\ sending = << >> /\ flush = FALSE /\ flush' = FALSE
      /\ UNCHANGED <<shame, out>> /\ sending' = << NextToGo >>
  BY DEF IInv, Queues, Queue, Flags, Places, IoSend
<1>2. b \in Seq(OutVals) /\ c \in Seq(OutVals) /\ o \in Seq(OutVals)
  BY WayType
<1>3. m \in OutMsgs
  BY HeadTailProperties, <1>1 DEF NextToGo, Waiting
<1>4. v \in OutVals /\ m = [slot |-> p, val |-> v] /\ e \in Seq(OutVals)
  BY <1>3 DEF OutMsgs
<1>5. CASE hi # << >>
  <2>1. m = Head(hi) /\ hi' = Tail(hi) /\ lo' = lo /\ Tail(hi) \in Seq(OutMsgs)
    BY <1>1, <1>5, HeadTailProperties DEF IoSend, NextToGo, Waiting
  <2> DEFINE r == Of(p, Tail(hi))
             t == Join(Join(Join(r, b), c), o)
  <2>2. Of(p, hi) = e \o r /\ r \in Seq(OutVals)
    BY <1>1, <1>5, <2>1, OfTail, OfType
  <2>3. OnTheWay(p) = Join(Join(Join(Join(e, r), b), c), o) /\ OnTheWay(p)' = t
    BY <1>1, <2>1, <2>2 DEF OnTheWay, Join
  <2>4. \A i \in Slots : i # p => OnTheWay(i)' = OnTheWay(i)
    <3>1. ASSUME NEW i \in Slots, i # p PROVE Of(i, hi) = Of(i, Tail(hi))
      BY <1>1, <1>5, <2>1, <3>1, OfTail
    <3>2. QED
      BY <1>1, <2>1, <3>1 DEF OnTheWay
  <2> HIDE DEF e, r, b, c, o
  <2>5. t \in Seq(OutVals) /\ OnTheWay(p) = Join(e, t)
    <3>1. r \in Seq(OutVals) /\ e \in Seq(OutVals)
      BY <1>4, <2>2
    <3>2. QED
      BY <1>2, <2>3, <3>1, JoinRest DEF t
  <2> HIDE DEF v, t
  <2>6. sending' = << [slot |-> p, val |-> v] >> /\ OnTheWay(p) = << v >> \o t
    BY <1>1, <1>4, <2>5 DEF e, Join
  <2>7. QED
    BY <1>1, <1>4, <2>3, <2>4, <2>5, <2>6, Takes
<1>6. CASE hi = << >>
  <2>1. /\ m = Head(lo) /\ hi' = hi /\ lo' = Tail(lo) /\ Tail(lo) \in Seq(OutMsgs)
        /\ lo # << >>
    BY <1>1, <1>6, HeadTailProperties DEF IoSend, NextToGo, Waiting
  <2> DEFINE r == Of(p, Tail(lo))
             t == Join(Join(Join(<< >>, r), c), o)
  <2>2. b = e \o r /\ r \in Seq(OutVals)
    BY <1>1, <2>1, OfTail, OfType
  <2>3. OnTheWay(p) = Join(Join(Join(Join(e, << >>), r), c), o) /\ OnTheWay(p)' = t
    <3>1. OnTheWay(p) = Join(Join(Join(<< >>, Join(e, r)), c), o)
      BY <1>6, <2>2, OfEmpty DEF OnTheWay, Join
    <3>2. Join(<< >>, Join(e, r)) = Join(e, r) /\ Join(e, << >>) = e
      BY <1>4, <2>2, ConcatProperties, ConcatEmptySeq DEF Join
    <3>3. OnTheWay(p)' = t
      BY <1>1, <1>6, <2>1, OfEmpty DEF OnTheWay, Join
    <3>4. QED
      BY <3>1, <3>2, <3>3
  <2>4. \A i \in Slots : i # p => OnTheWay(i)' = OnTheWay(i)
    <3>1. ASSUME NEW i \in Slots, i # p PROVE Of(i, lo) = Of(i, Tail(lo))
      BY <1>1, <2>1, <3>1, OfTail
    <3>2. QED
      BY <1>1, <2>1, <3>1 DEF OnTheWay
  <2> HIDE DEF e, r, c, o
  <2>5. t \in Seq(OutVals) /\ OnTheWay(p) = Join(e, t)
    <3>1. r \in Seq(OutVals) /\ e \in Seq(OutVals) /\ << >> \in Seq(OutVals)
      BY <1>4, <2>2, EmptySeq
    <3>2. /\ Join(Join(Join(<< >>, r), c), o) \in Seq(OutVals)
          /\ Join(Join(Join(Join(e, << >>), r), c), o) = Join(e, Join(Join(Join(<< >>, r), c), o))
      <4>1. \A z \in Seq(OutVals) :
              /\ Join(Join(Join(z, r), c), o) \in Seq(OutVals)
              /\ Join(Join(Join(Join(e, z), r), c), o) = Join(e, Join(Join(Join(z, r), c), o))
        BY <1>2, <3>1, JoinRest
      <4>2. QED
        BY <3>1, <4>1, Zenon
    <3>3. QED
      BY <2>3, <3>2
  <2> HIDE DEF v, t
  <2>6. sending' = << [slot |-> p, val |-> v] >> /\ OnTheWay(p) = << v >> \o t
    BY <1>1, <1>4, <2>5 DEF e, Join
  <2>7. QED
    BY <1>1, <1>4, <2>3, <2>4, <2>5, <2>6, Takes
<1>7. QED
  BY <1>5, <1>6

-----------------------------------------------------------------------------
LEMMA InitOrder == Init => S!Init
<1> SUFFICES ASSUME Init PROVE S!Init
  OBVIOUS
<1>1. \A i \in Slots : OnTheWay(i) = << >>
  <2>1. << >> \o << >> \o << >> \o << >> = << >>
    BY EmptySeq, ConcatEmptySeq
  <2>2. QED
    BY <2>1, OfEmpty DEF Init, OnTheWay
<1>2. QED
  BY <1>1 DEF Init, S!Init

LEMMA StepOrder ==
  ASSUME IInv, Apart, [Next]_vars
  PROVE  [S!Next]_(S!vars)
<1>1. CASE \E i \in Slots : TrySend(i) \/ TrySendAuthd(i)
  BY <1>1, TaskOrder DEF S!Next
<1>2. CASE AuthFlush
  <2>1. S!Ask
    <3>1. UNCHANGED <<hi, lo, shame, out, sending>> /\ flush' = TRUE
      BY <1>2 DEF AuthFlush, outVars, ioVars
    <3>2. QED
      BY <3>1 DEF S!Ask, OnTheWay
  <2>2. QED
    BY <2>1 DEF S!Next
<1>3. CASE \/ \E i \in Slots : TryRecv(i)
           \/ AuthSend \/ SetAddr
           \/ ProcessMessages \/ ProcessIncoming \/ NoAddress \/ NothingLeftOver
           \/ OutgoingBox \/ NoneLeft
           \/ ChangeDefault \/ ReceiveTimeOver \/ UNCHANGED vars
  <2>1. UNCHANGED <<hi, lo, shame, out, sending, flush>>
    BY <1>3 DEF TryRecv, AuthSend, SetAddr, ProcessMessages, ProcessIncoming, NoAddress,
                NothingLeftOver, OutgoingBox, NoneLeft, ChangeDefault, ReceiveTimeOver,
                vars, outVars, ioVars
  <2>2. QED
    BY <2>1, Stutters DEF OnTheWay
<1>4. CASE LeftOverMoves \/ LeftOverStays
  BY <1>4, LeftOverOrder
<1>5. CASE OutgoingOversize \/ OutgoingUrgent \/ OutgoingToIo \/ OutgoingLeftOver
  <2>1. at \in Slots
    BY DEF IInv, Places
  <2>2. QED
    BY <1>5, <2>1, OutgoingOrder DEF S!Next
<1>6. CASE IoSend
  <2>1. CASE ~flush /\ Waiting
    <3>1. NextToGo.slot \in Slots
      <4>1. NextToGo \in OutMsgs
        BY <2>1, HeadTailProperties DEF Waiting, NextToGo, IInv, Queues, Queue
      <4>2. QED
        BY <4>1 DEF OutMsgs
    <3>2. QED
      BY <1>6, <2>1, <3>1, SendOrder DEF S!Next
  <2>2. CASE ~(~flush /\ Waiting)
    <3>1. S!Pause
      BY <1>6, <2>2, Pauses DEF IoSend
    <3>2. QED
      BY <3>1 DEF S!Next
  <2>3. QED
    BY <2>1, <2>2
<1>7. CASE IoReceive \/ IoReceivedNothing \/ IoSent \/ IoGoesOn \/ \E m \in InMsgs : IoReceived(m)
  <2>1. /\ flush' = FALSE /\ sending' \in {sending, << >>}
        /\ hi' = Flushed(hi) /\ lo' = Flushed(lo) /\ UNCHANGED <<shame, out>>
    BY <1>7 DEF IoReceive, IoReceivedNothing, IoSent, IoGoesOn, IoReceived, ioVars
  <2>2. QED
    BY <2>1, Pauses DEF S!Next
<1>8. QED
  BY <1>1, <1>2, <1>3, <1>4, <1>5, <1>6, <1>7 DEF Next, Process, Io

(* The messages of a port of an application reach the bus once each and in *)
(* the order they were sent, for any number of slots and depths of queues  *)
(* and however the interrupts of the driver fall between the steps of      *)
(* process_messages (dispatch.rs:424-437, 512-523).                        *)
THEOREM OrderKept == Spec => InOrder
<1>1. Init => Apart
  BY EmptySeq DEF Init, Apart
<1>2. IInv /\ Apart /\ [Next]_vars => Apart'
  BY ApartStep
<1>3. IInv /\ Apart /\ [Next]_vars => [S!Next]_(S!vars)
  BY StepOrder
<1>4. QED
  BY <1>1, <1>2, <1>3, Invariance, InitOrder, PTL DEF Spec, InOrder, S!Spec
=============================================================================
