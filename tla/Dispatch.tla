------------------------------ MODULE Dispatch ------------------------------
(***************************************************************************)
(* The message dispatch of one device (anachro-485/src/dispatch.rs): the   *)
(* queues between its tasks, Dispatch::process_messages and the driver of  *)
(* the bus, and the driver's half of those queues (uarte-485/src/lib.rs).  *)
(*                                                                         *)
(* The tasks and process_messages take turns in one loop of main.  The     *)
(* driver is an interrupt handler: it runs between any two accesses of     *)
(* process_messages to what they share, and each of its interrupts is one  *)
(* step.  Every message waiting anywhere holds a page of the slab, and so  *)
(* does a reception or a transmission under way.                           *)
(*                                                                         *)
(* An outgoing message is its slot and a value.  An incoming one is what   *)
(* the code compares: its port, and whether it is for everybody, for the   *)
(* address of this device, or refused by process_one_incoming whatever our *)
(* address is (framing, deserialization, another's address, a source that  *)
(* may not talk to us, an empty payload).  io_empty_auth is left out.      *)
(***************************************************************************)
EXTENDS Naturals, Sequences, FiniteSets, FiniteSetsExt

CONSTANTS
  Slots,        \* the slots of Dispatch::ports, 1 .. PORTS
  Mgmt,         \* slots of the discovery and the token port
  Unassigned,   \* slots whose port is INVALID_PORT
  Unread,       \* slots whose queue no task reads (any more)
  OutVals,      \* what is sent
  Sends,        \* of it, what the task of each slot sends
  Oversize,     \* values that do not fit a page when framed
  InMsgs,       \* what the bus carries
  TaskDepth,    \* TASK_QUEUE_DEPTH
  IoDepth,      \* IO_QUEUE_DEPTH
  Pages,        \* TOTAL_SLABS
  Defaults      \* what default_to may be

Tasks == Slots \ Unassigned

INVALID_PORT == 0

ASSUME SlotsAssumption == /\ Slots \subseteq Nat \ {INVALID_PORT} /\ IsFiniteSet(Slots)
                          /\ Slots # {}
                          /\ Mgmt \subseteq Tasks
                          /\ Unassigned \subseteq Unread /\ Unread \subseteq Slots
ASSUME SendsAssumption == Sends \in [Slots -> SUBSET OutVals]
ASSUME InMsgsAssumption == InMsgs \subseteq [port : Nat, kind : {"all", "own", "refused"}]
ASSUME DefaultsAssumption == Defaults # {} /\ Defaults \subseteq {"Sending", "Receiving"}
ASSUME DepthAssumption == TaskDepth \in Nat \ {0} /\ IoDepth \in Nat \ {0}

(* What is sent and what nobody reads does not take all of the pages:      *)
(* of 8 ports with 4 messages each way and two queues of 32 in the code,   *)
(* only the ports without a reader count for their way in; one more page   *)
(* is left over and one is in the hands of process_messages.               *)
ASSUME PagesAssumption ==
  Pages > Cardinality(Tasks) * TaskDepth + Cardinality(Unread) * TaskDepth + 2 * IoDepth + 2

VARIABLES
  own,      \* has own_addr been set to an address?
  out,      \* PortQueue::to_dispatch of each slot
  inq,      \* PortQueue::to_task of each slot
  rx,       \* IoQueue::to_dispatch
  hi,       \* IoQueue::to_io_hi_prio
  lo,       \* IoQueue::to_io
  shame,    \* Dispatch::shame
  auth,     \* io_send_auth
  flush,    \* io_flush_auth
  pc, at,   \* where process_messages is, and at which slot
  io,       \* Uarte485::state
  sending,  \* the message it holds in TxSending, as a sequence of at most one
  default_to,   \* Uarte485::default_to: a dom sends, a sub receives
  receive_for   \* the last message sent has asked for an answer, and the time
                \* for it is not over

procVars == <<pc, at>>
modeVars == <<default_to, receive_for>>
ioVars   == <<io, sending, modeVars>>
outVars  == <<hi, lo, shame>>
vars     == <<own, out, inq, rx, outVars, auth, flush, procVars, ioVars>>

OutMsgs == [slot : Slots, val : OutVals]

TypeOK ==
  /\ own \in BOOLEAN
  /\ out \in [Slots -> Seq(OutVals)] /\ \A i \in Slots : Len(out[i]) <= TaskDepth
  /\ inq \in [Slots -> Seq(InMsgs)]  /\ \A i \in Slots : Len(inq[i]) <= TaskDepth
  /\ rx \in Seq(InMsgs)     /\ Len(rx) <= IoDepth
  /\ hi \in Seq(OutMsgs)    /\ Len(hi) <= IoDepth
  /\ lo \in Seq(OutMsgs)    /\ Len(lo) <= IoDepth
  /\ shame \in Seq(OutMsgs) /\ Len(shame) <= 2
  /\ auth \in BOOLEAN /\ flush \in BOOLEAN
  /\ pc \in {"main", "rx", "ports", "boxed"} /\ at \in Slots
  /\ io \in {"idle", "rx", "tx", "panic"}
  /\ sending \in Seq(OutMsgs) /\ Len(sending) = IF io = "tx" THEN 1 ELSE 0
  /\ default_to \in Defaults /\ receive_for \in BOOLEAN

FirstSlot == CHOOSE i \in Slots : \A j \in Slots : i <= j

Init ==
  /\ default_to \in Defaults /\ receive_for = FALSE
  /\ own = (default_to = "Sending")
  /\ out = [i \in Slots |-> << >>]
  /\ inq = [i \in Slots |-> << >>]
  /\ rx = << >> /\ hi = << >> /\ lo = << >> /\ shame = << >>
  /\ auth = FALSE /\ flush = FALSE
  /\ pc = "main" /\ at = FirstSlot
  /\ io = "idle" /\ sending = << >>

-----------------------------------------------------------------------------
(* Pages of the slab that nothing holds. *)
Used == MapThenSumSet(LAMBDA i : Len(out[i]) + Len(inq[i]), Slots)
        + Len(rx) + Len(hi) + Len(lo) + Len(shame)
        + (IF pc = "boxed" THEN 1 ELSE 0)
        + (IF io \in {"rx", "tx"} THEN 1 ELSE 0)

(* Mutant of alloc_box: two pages are kept back, from everybody. *)
alloc_box_reserve == Used + 2 < Pages

alloc_box == Used < Pages

-----------------------------------------------------------------------------
(* The tasks, between two calls of process_messages. *)
try_send(i) ==
  /\ pc = "main"
  /\ alloc_box
  /\ Len(out[i]) < TaskDepth
  /\ \E v \in Sends[i] : out' = [out EXCEPT ![i] = Append(@, v)]

TrySend(i) ==
  /\ i \in Tasks
  /\ try_send(i)
  /\ UNCHANGED <<own, inq, rx, outVars, auth, flush, procVars, ioVars>>

(* Only the sockets of the management ports may authorize a send. *)
TrySendAuthd(i) ==
  /\ i \in Mgmt
  /\ try_send(i)
  /\ auth' = TRUE
  /\ UNCHANGED <<own, inq, rx, outVars, flush, procVars, ioVars>>

AuthSend ==
  /\ pc = "main"
  /\ Mgmt # {}
  /\ auth' = TRUE
  /\ UNCHANGED <<own, out, inq, rx, outVars, flush, procVars, ioVars>>

AuthFlush ==
  /\ pc = "main"
  /\ Mgmt # {}
  /\ flush' = TRUE
  /\ UNCHANGED <<own, out, inq, rx, outVars, auth, procVars, ioVars>>

TryRecv(i) ==
  /\ pc = "main"
  /\ i \notin Unread
  /\ inq[i] # << >>
  /\ inq' = [inq EXCEPT ![i] = Tail(@)]
  /\ UNCHANGED <<own, out, rx, outVars, auth, flush, procVars, ioVars>>

SetAddr ==
  /\ pc = "main"
  /\ own' = TRUE
  /\ UNCHANGED <<out, inq, rx, outVars, auth, flush, procVars, ioVars>>

-----------------------------------------------------------------------------
(* process_messages, one access to what it shares with the driver a step. *)
ProcessMessages ==
  /\ pc = "main"
  /\ pc' = "rx"
  /\ UNCHANGED <<own, out, inq, rx, outVars, auth, flush, at, ioVars>>

(* process_one_incoming: check the address, find the slot, hand it over.   *)
(* What fails a check or finds the task's queue full is dropped.           *)
Accepts(m) == m.kind = "all" \/ (m.kind = "own" /\ own)

port(i) == IF i \in Unassigned THEN INVALID_PORT ELSE i

MatchingSlots(m) == {i \in Slots : port(i) = m.port}

Deliver(m) ==
  IF Accepts(m) /\ MatchingSlots(m) # {}
    THEN LET i == CHOOSE j \in MatchingSlots(m) : \A k \in MatchingSlots(m) : j <= k
         IN  inq' = IF Len(inq[i]) < TaskDepth THEN [inq EXCEPT ![i] = Append(@, m)] ELSE inq
    ELSE inq' = inq

ProcessIncoming ==
  /\ pc = "rx"
  /\ rx # << >>
  /\ rx' = Tail(rx)
  /\ Deliver(Head(rx))
  /\ UNCHANGED <<own, out, outVars, auth, flush, procVars, ioVars>>

(* Nothing more has come in.  Without an address that is all. *)
NoAddress ==
  /\ pc = "rx" /\ rx = << >>
  /\ ~own
  /\ pc' = "main"
  /\ UNCHANGED <<own, out, inq, rx, outVars, auth, flush, at, ioVars>>

NothingLeftOver ==
  /\ pc = "rx" /\ rx = << >>
  /\ own /\ shame = << >>
  /\ pc' = "ports" /\ at' = FirstSlot
  /\ UNCHANGED <<own, out, inq, rx, outVars, auth, flush, ioVars>>

(* A message left over from the last call goes first ... *)
LeftOverMoves ==
  /\ pc = "rx" /\ rx = << >>
  /\ own /\ shame # << >> /\ Len(lo) < IoDepth
  /\ lo' = Append(lo, Head(shame))
  /\ shame' = Tail(shame)
  /\ pc' = "ports" /\ at' = FirstSlot
  /\ UNCHANGED <<own, out, inq, rx, hi, auth, flush, ioVars>>

(* Mutant of LeftOverStays: without the return. *)
LeftOverIsPassed ==
  /\ pc = "rx" /\ rx = << >>
  /\ own /\ shame # << >> /\ Len(lo) = IoDepth
  /\ shame' = Append(Tail(shame), Head(shame))
  /\ pc' = "ports" /\ at' = FirstSlot
  /\ UNCHANGED <<own, out, inq, rx, hi, lo, auth, flush, ioVars>>

(* ... and if there is still no room for it, that is all. *)
LeftOverStays ==
  /\ pc = "rx" /\ rx = << >>
  /\ own /\ shame # << >> /\ Len(lo) = IoDepth
  /\ shame' = Append(Tail(shame), Head(shame))
  /\ pc' = "main"
  /\ UNCHANGED <<own, out, inq, rx, hi, lo, auth, flush, at, ioVars>>

(* A page to frame the next message in, before there is one. *)
OutgoingBox ==
  /\ pc = "ports"
  /\ pc' = IF alloc_box THEN "boxed" ELSE "main"
  /\ UNCHANGED <<own, out, inq, rx, outVars, auth, flush, at, ioVars>>

NoneLeft ==
  /\ pc = "boxed"
  /\ out[at] = << >>
  /\ IF \E j \in Slots : j > at
       THEN /\ at' = CHOOSE j \in Slots : j > at /\ \A k \in Slots : k > at => j <= k
            /\ pc' = "ports"
       ELSE /\ at' = FirstSlot
            /\ pc' = "main"
  /\ UNCHANGED <<own, out, inq, rx, outVars, auth, flush, ioVars>>

(* process_one_outgoing, in the page that was taken. *)
Outgoing == [slot |-> at, val |-> Head(out[at])]

TakeOutgoing == /\ pc = "boxed"
                /\ out[at] # << >>
                /\ out' = [out EXCEPT ![at] = Tail(@)]

(* A message that cannot be framed is dropped and ends the call. *)
OutgoingOversize ==
  /\ TakeOutgoing
  /\ Outgoing.val \in Oversize
  /\ pc' = "main"
  /\ UNCHANGED <<own, inq, rx, outVars, auth, flush, at, ioVars>>

(* Mutant of Urgent: the queue takes any number of messages. *)
UrgentUnbounded(m) == Append(hi, m)

(* One of a management port goes to the urgent queue, or nowhere. *)
Urgent(m) == IF Len(hi) < IoDepth THEN Append(hi, m) ELSE hi

OutgoingUrgent ==
  /\ TakeOutgoing
  /\ Outgoing.val \notin Oversize /\ at \in Mgmt
  /\ hi' = Urgent(Outgoing)
  /\ pc' = "ports"
  /\ UNCHANGED <<own, inq, rx, lo, shame, auth, flush, at, ioVars>>

OutgoingToIo ==
  /\ TakeOutgoing
  /\ Outgoing.val \notin Oversize /\ at \notin Mgmt
  /\ Len(lo) < IoDepth
  /\ lo' = Append(lo, Outgoing)
  /\ pc' = "ports"
  /\ UNCHANGED <<own, inq, rx, hi, shame, auth, flush, at, ioVars>>

(* Mutant of OutgoingLeftOver: the queue is full, the message is gone. *)
OutgoingDropped ==
  /\ TakeOutgoing
  /\ Outgoing.val \notin Oversize /\ at \notin Mgmt
  /\ Len(lo) = IoDepth
  /\ pc' = "main"
  /\ UNCHANGED <<own, inq, rx, outVars, auth, flush, at, ioVars>>

(* Any other that finds its queue full is left over, and ends the call. *)
OutgoingLeftOver ==
  /\ TakeOutgoing
  /\ Outgoing.val \notin Oversize /\ at \notin Mgmt
  /\ Len(lo) = IoDepth
  /\ shame' = IF Len(shame) < 2 THEN Append(shame, Outgoing) ELSE shame
  /\ pc' = "main"
  /\ UNCHANGED <<own, inq, rx, hi, lo, auth, flush, at, ioVars>>

-----------------------------------------------------------------------------
(* The driver: each interrupt first does a flush that was asked for. *)
Flushed(q) == IF flush THEN << >> ELSE q

AuthLeft == auth /\ ~flush

Waiting == hi # << >> \/ lo # << >>

(* pop_outgoing: the urgent messages go first. *)
NextToGo == IF hi # << >> THEN Head(hi) ELSE Head(lo)

(* Mutant of should_be_rxin: the authorization is not looked at. *)
should_be_rxin_deaf == receive_for \/ default_to = "Receiving"

(* A device that has asked for an answer receives as long as the time for  *)
(* it lasts; otherwise one that is to send, or may, does.                  *)
should_be_rxin == receive_for \/ (default_to = "Receiving" /\ ~AuthLeft)

ChangeDefault ==
  /\ io = "idle"
  /\ default_to' \in Defaults
  /\ UNCHANGED <<own, out, inq, rx, outVars, auth, flush, procVars, io, sending, receive_for>>

(* The clock: the time for the answer is over. *)
ReceiveTimeOver ==
  /\ receive_for
  /\ receive_for' = FALSE
  /\ UNCHANGED <<own, out, inq, rx, outVars, auth, flush, procVars, io, sending, default_to>>

(* handle_idle: a page to receive into, or another look in 10 ms ... *)
IoReceive ==
  /\ io = "idle"
  /\ should_be_rxin
  /\ flush' = FALSE
  /\ auth' = AuthLeft
  /\ hi' = Flushed(hi) /\ lo' = Flushed(lo)
  /\ io' = IF alloc_box \/ (flush /\ Waiting) THEN "rx" ELSE "idle"
  /\ UNCHANGED <<own, out, inq, rx, shame, procVars, sending, modeVars>>

(* ... or the authorization is used up and the next message, if there is   *)
(* one, is sent.  The dom's grants ask for an answer.                      *)
IoSend ==
  /\ io = "idle"
  /\ ~should_be_rxin
  /\ flush' = FALSE
  /\ auth' = FALSE
  /\ IF ~flush /\ Waiting
       THEN /\ io' = "tx"
            /\ sending' = <<NextToGo>>
            /\ hi' = IF hi # << >> THEN Tail(hi) ELSE hi
            /\ lo' = IF hi # << >> THEN lo ELSE Tail(lo)
            /\ receive_for' \in IF hi # << >> THEN BOOLEAN ELSE {FALSE}
       ELSE /\ hi' = Flushed(hi) /\ lo' = Flushed(lo)
            /\ UNCHANGED <<io, sending, receive_for>>
  /\ UNCHANGED <<own, out, inq, rx, shame, procVars, default_to>>

(* complete_recv and push_incoming, whose result is asserted; the next     *)
(* interrupt finds the driver idle.                                        *)
IoReceived(m) ==
  /\ io = "rx"
  /\ flush' = FALSE
  /\ auth' = AuthLeft
  /\ hi' = Flushed(hi) /\ lo' = Flushed(lo)
  /\ IF Len(rx) < IoDepth
       THEN rx' = Append(rx, m) /\ io' = "idle"
       ELSE rx' = rx /\ io' = "panic"
  /\ UNCHANGED <<own, out, inq, shame, procVars, sending, modeVars>>

(* The page goes back when a reception has no bytes in the end, or none    *)
(* came in 1 ms and there may be something to send.                        *)
IoReceivedNothing ==
  /\ io = "rx"
  /\ flush' = FALSE
  /\ auth' = AuthLeft
  /\ hi' = Flushed(hi) /\ lo' = Flushed(lo)
  /\ io' = "idle"
  /\ UNCHANGED <<own, out, inq, rx, shame, procVars, sending, modeVars>>

IoSent ==
  /\ io = "tx"
  /\ flush' = FALSE
  /\ auth' = AuthLeft
  /\ hi' = Flushed(hi) /\ lo' = Flushed(lo)
  /\ io' = "idle" /\ sending' = << >>
  /\ UNCHANGED <<own, out, inq, rx, shame, procVars, modeVars>>

(* An interrupt that does nothing but a flush: the reception or the        *)
(* transmission is not at its end.                                         *)
IoGoesOn ==
  /\ io \in {"rx", "tx"}
  /\ flush' = FALSE
  /\ auth' = AuthLeft
  /\ hi' = Flushed(hi) /\ lo' = Flushed(lo)
  /\ UNCHANGED <<own, out, inq, rx, shame, procVars, ioVars>>

-----------------------------------------------------------------------------
Process == \/ ProcessMessages \/ ProcessIncoming
           \/ NoAddress \/ NothingLeftOver \/ LeftOverMoves \/ LeftOverStays
           \/ OutgoingBox \/ NoneLeft
           \/ OutgoingOversize \/ OutgoingUrgent \/ OutgoingToIo \/ OutgoingLeftOver

Io == IoReceive \/ IoSend \/ IoReceivedNothing \/ IoSent \/ IoGoesOn

Next ==
  \/ \E i \in Slots : TrySend(i) \/ TrySendAuthd(i) \/ TryRecv(i)
  \/ AuthSend \/ AuthFlush \/ SetAddr
  \/ Process
  \/ Io \/ ChangeDefault \/ ReceiveTimeOver
  \/ \E m \in InMsgs : IoReceived(m)

Spec == Init /\ [][Next]_vars

(* main calls process_messages and polls every task again and again, so a  *)
(* task with a message gets to read it; the driver has a timer running     *)
(* whenever it waits.                                                      *)
Fairness == /\ WF_vars(Process)
            /\ WF_vars(IoReceive) /\ WF_vars(IoSend) /\ WF_vars(IoSent)
            /\ WF_vars(ReceiveTimeOver)
            /\ \A i \in Slots : SF_vars(TryRecv(i))

FairSpec == Spec /\ Fairness

-----------------------------------------------------------------------------
(* What the messages of one slot in a queue carry. *)
Of(i, q) ==
  LET of[n \in 0 .. Len(q)] ==
        IF n = 0 THEN << >>
        ELSE IF q[n].slot = i THEN Append(of[n - 1], q[n].val) ELSE of[n - 1]
  IN  of[Len(q)]

(* The messages of a slot on their way to the bus, in the order in which   *)
(* they will get there.                                                    *)
OnTheWay(i) == Of(i, hi) \o Of(i, lo) \o Of(i, shame) \o out[i]

S == INSTANCE PortStream WITH Ports <- Slots, Lossy <- Mgmt, Msgs <- OutVals,
       waiting <- [i \in Slots |-> OnTheWay(i)], line <- sending, asked <- flush

(* The messages of an application's port reach the bus once each and in    *)
(* order: neither a full queue to the driver, nor the message left over    *)
(* from the last call (dispatch.rs:428), nor an interrupt in the middle of *)
(* process_messages loses or reorders one.                                 *)
InOrder == S!Spec

(* At most one message is left over (dispatch.rs:429-434, 516-519): the    *)
(* enqueue whose error is ignored there never finds the queue of two full. *)
ShameAtMostOne == Len(shame) <= 1

(* A receiving device that has no page for a reception gets one, or an     *)
(* authorization to send, or becomes a sending one: the messages that wait *)
(* for the bus do not hold all of the pages the bus needs to make them go  *)
(* away (uarte-485/src/lib.rs:663-673).                                    *)
HearsAgain ==
  (io = "idle" /\ default_to = "Receiving") ~> (io = "rx" \/ auth \/ default_to = "Sending")
=============================================================================
