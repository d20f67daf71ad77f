------------------------------- MODULE Driver -------------------------------
(***************************************************************************)
(* The driver of the RS-485 transceiver (uarte-485/src/lib.rs): the state  *)
(* machine of its interrupt handler with the timer, the UARTE and the      *)
(* bytes on the bus.  It implements the driver of Dispatch, whose tasks    *)
(* and process_messages run beside it here.                                *)
(*                                                                         *)
(* One call of uarte_interrupt_inner is one step.  uarte_interrupt calls   *)
(* it as long as it answers Again::Yes, and the loop of main does not run  *)
(* in between.  The hardware goes on all the time.                         *)
(*                                                                         *)
(* Time is only what the handler can tell: a timer of 1 or 10 ms may go    *)
(* off at any time, one of 100 us that the bytes restart does not go off   *)
(* in the middle of a frame, whose bytes follow each other in 9 us.        *)
(***************************************************************************)
EXTENDS Naturals, Sequences, FiniteSets

CONSTANTS Slots, Mgmt, Unassigned, Unread, OutVals, Sends, Oversize, InMsgs,
          TaskDepth, IoDepth, Pages, Defaults,    \* of Dispatch
          Frames,       \* what the others send
          FrameBytes,   \* length of the frames of the others, in bytes
          PageBytes,    \* SLAB_SIZE
          OnePin        \* ControlPins::OnePin, where idle is receive

ASSUME BytesAssumption  == /\ FrameBytes \in Nat \ {0} /\ PageBytes \in Nat
                           /\ FrameBytes <= PageBytes
ASSUME OnePinAssumption == OnePin \in BOOLEAN

VARIABLES
  own, out, inq, rx, hi, lo, shame, auth, flush, pc, at,
  sending, default_to, receive_for,    \* as in Dispatch
  state,      \* Uarte485::state, or "panic"
  again,      \* uarte_interrupt calls the inner function (once more); true when
              \* the program starts, which pends the interrupt
  timer,      \* stopped, counting 1 or 10 ms ("long") or 100 us ("quiet"),
              \* or its event is set ("done")
  timerInt,   \* is the timer's interrupt enabled?
  channel,    \* does a byte restart the timer (PPI)?
  inten,      \* the UARTE's enabled interrupts
  events,     \* and its events that are set
  dma,        \* is a reception running?
  buf,        \* the bytes it has stored in its page
  tx,         \* is a transmission running?
  pins,       \* what the transceiver does
  line        \* bytes of the frame on the bus that are still to come

taskVars  == <<own, out, inq, shame, pc, at>>
queueVars == <<rx, hi, lo, auth, flush>>
modeVars  == <<default_to, receive_for>>
timerVars == <<timer, timerInt, channel>>
uarteVars == <<inten, events, dma, buf, tx>>
hwVars    == <<timerVars, uarteVars, pins, line>>
driverVars == <<state, again, hwVars>>
vars == <<taskVars, queueVars, modeVars, sending, driverVars>>

(* What Dispatch knows of the state. *)
io == CASE state = "Idle" -> "idle"
        [] state \in {"RxAwaitFirstByte", "RxReceiving"} -> "rx"
        [] state = "TxSending" -> "tx"
        [] OTHER -> "panic"

D == INSTANCE Dispatch

ASSUME DispatchAssumption ==
  /\ D!SlotsAssumption /\ D!SendsAssumption /\ D!InMsgsAssumption
  /\ D!DefaultsAssumption /\ D!DepthAssumption /\ D!PagesAssumption
ASSUME FramesAssumption == Frames \subseteq InMsgs /\ \E m \in InMsgs : m.kind = "refused"

Bytes == [msg : Frames, n : 1 .. FrameBytes]

TypeOK ==
  /\ D!TypeOK
  /\ state \in {"Idle", "RxAwaitFirstByte", "RxReceiving", "TxSending", "panic"}
  /\ again \in BOOLEAN
  /\ timer \in {"stopped", "long", "quiet", "done"}
  /\ timerInt \in BOOLEAN /\ channel \in BOOLEAN
  /\ inten \subseteq {"rxdrdy", "endrx", "endtx"}
  /\ events \subseteq {"rxdrdy", "endrx", "endtx"}
  /\ dma \in BOOLEAN /\ tx \in BOOLEAN
  /\ buf \in Seq(Bytes) /\ Len(buf) <= PageBytes
  /\ pins \in {"idle", "send", "recv"}
  /\ line \in Seq(Bytes) /\ Len(line) <= FrameBytes

Init ==
  /\ state = "Idle" /\ again = TRUE
  /\ timer = "stopped" /\ timerInt = FALSE /\ channel = FALSE
  /\ inten = {} /\ events = {} /\ dma = FALSE /\ buf = << >> /\ tx = FALSE
  /\ pins = "idle" /\ line = << >>
  /\ D!Init

-----------------------------------------------------------------------------
(* The hardware. *)
Listening == pins = "recv" \/ (pins = "idle" /\ OnePin)

TimerFires ==
  /\ \/ timer = "long"
     \/ timer = "quiet" /\ (channel /\ Listening /\ dma => line = << >>)
  /\ timer' = "done"
  /\ UNCHANGED <<taskVars, queueVars, modeVars, sending, state, again,
                 timerInt, channel, uarteVars, pins, line>>

(* Another device sends.  How long the bus was quiet before is open: a dom *)
(* sends one message right after the other.                                *)
FrameBegins(m) ==
  /\ line = << >>
  /\ line' = [n \in 1 .. FrameBytes |-> [msg |-> m, n |-> n]]
  /\ UNCHANGED <<taskVars, queueVars, modeVars, sending, state, again,
                 timerVars, uarteVars, pins>>

(* A byte is stored while a reception runs, which ends when its page is full. *)
Byte ==
  /\ line # << >>
  /\ line' = Tail(line)
  /\ IF Listening /\ dma
       THEN /\ buf' = Append(buf, Head(line))
            /\ dma' = (Len(buf') < PageBytes)
            /\ events' = events \cup {"rxdrdy"} \cup (IF dma' THEN {} ELSE {"endrx"})
       ELSE UNCHANGED <<buf, dma, events>>
  /\ UNCHANGED <<taskVars, queueVars, modeVars, sending, state, again,
                 timerVars, inten, tx, pins>>

TransmissionEnds ==
  /\ tx
  /\ tx' = FALSE
  /\ events' = events \cup {"endtx"}
  /\ UNCHANGED <<taskVars, queueVars, modeVars, sending, state, again,
                 timerVars, inten, dma, buf, pins, line>>

Interrupt == again \/ (timerInt /\ timer = "done") \/ inten \cap events # {}

timer_running == timer # "done"

-----------------------------------------------------------------------------
(* Mutant of FlushIfAuthd: only the queue of the applications. *)
flush_lo == flush' = FALSE /\ hi' = hi /\ lo' = D!Flushed(lo)

(* What every call of uarte_interrupt_inner begins with. *)
FlushIfAuthd ==
  /\ flush' = FALSE
  /\ hi' = D!Flushed(hi) /\ lo' = D!Flushed(lo)

(* Mutant of setup_timer: its interrupt stays as it is. *)
setup_timer_silent == timer' = "long" /\ UNCHANGED timerInt /\ channel' = FALSE

(* The timer of 1 or 10 ms. *)
setup_timer == timer' = "long" /\ timerInt' = TRUE /\ channel' = FALSE

(* prepare_send, complete_send and complete_recv leave it stopped. *)
StopTimer == timer' = "stopped" /\ timerInt' = FALSE /\ channel' = FALSE

(* handle_idle: a reception begins ... *)
prepare_recv_initial ==
  /\ setup_timer
  /\ pins' = "recv"
  /\ inten' = (inten \cup {"rxdrdy"}) \ {"endrx"}
  /\ events' = events \ {"rxdrdy"}
  /\ dma' = TRUE /\ buf' = << >>

IdleReceive ==
  /\ Interrupt /\ state = "Idle"
  /\ D!should_be_rxin
  /\ FlushIfAuthd /\ auth' = D!AuthLeft
  /\ IF D!alloc_box \/ (flush /\ D!Waiting)
       THEN state' = "RxAwaitFirstByte" /\ prepare_recv_initial
       ELSE /\ inten' = {}
            /\ setup_timer
            /\ UNCHANGED <<state, pins, events, dma, buf>>
  /\ again' = FALSE
  /\ UNCHANGED <<taskVars, rx, modeVars, sending, tx, line>>

(* ... or a transmission, after the authorization is used up ... *)
prepare_send ==
  /\ StopTimer
  /\ pins' = "send"
  /\ events' = events \ {"endtx"}
  /\ inten' = inten \cup {"endtx"}
  /\ tx' = TRUE

IdleSend ==
  /\ Interrupt /\ state = "Idle"
  /\ ~D!should_be_rxin
  /\ ~flush /\ D!Waiting
  /\ auth' = FALSE
  /\ hi' = IF hi # << >> THEN Tail(hi) ELSE hi
  /\ lo' = IF hi # << >> THEN lo ELSE Tail(lo)
  /\ receive_for' \in IF hi # << >> THEN BOOLEAN ELSE {FALSE}
  /\ sending' = <<D!NextToGo>>
  /\ state' = "TxSending"
  /\ prepare_send
  /\ again' = FALSE
  /\ UNCHANGED <<taskVars, rx, flush, default_to, dma, buf, line>>

(* ... or there is nothing to send, and another look in 1 ms. *)
IdleEmpty ==
  /\ Interrupt /\ state = "Idle"
  /\ ~D!should_be_rxin
  /\ flush \/ ~D!Waiting
  /\ FlushIfAuthd /\ auth' = FALSE
  /\ inten' = {}
  /\ setup_timer
  /\ again' = FALSE
  /\ UNCHANGED <<taskVars, rx, modeVars, sending, state, events, dma, buf, tx, pins, line>>

(* RxAwaitFirstByte: nothing came in 1 ms.  The page is given up when      *)
(* there may be something to send; the reception is not stopped.           *)
AwaitTimeout ==
  /\ Interrupt /\ state = "RxAwaitFirstByte"
  /\ ~timer_running
  /\ FlushIfAuthd /\ auth' = D!AuthLeft
  /\ IF D!should_be_rxin
       THEN setup_timer /\ again' = FALSE /\ UNCHANGED state
       ELSE state' = "Idle" /\ again' = TRUE /\ UNCHANGED timerVars
  /\ UNCHANGED <<taskVars, rx, modeVars, sending, uarteVars, pins, line>>

(* Mutant of prepare_steady_recv: the bytes do not restart the timer. *)
prepare_steady_recv_unlinked == timer' = "quiet" /\ timerInt' = TRUE /\ channel' = FALSE

prepare_steady_recv == timer' = "quiet" /\ timerInt' = TRUE /\ channel' = TRUE

AwaitFirstByte ==
  /\ Interrupt /\ state = "RxAwaitFirstByte"
  /\ timer_running /\ "rxdrdy" \in events
  /\ FlushIfAuthd /\ auth' = D!AuthLeft
  /\ inten' = (inten \ {"rxdrdy"}) \cup {"endrx"}
  /\ events' = events \ {"endrx"}
  /\ prepare_steady_recv
  /\ state' = "RxReceiving" /\ again' = FALSE
  /\ UNCHANGED <<taskVars, rx, modeVars, sending, dma, buf, tx, pins, line>>

(* What process_one_incoming finds in a page: it decodes up to the end of  *)
(* the first frame.  A page that begins elsewhere makes no sense.          *)
Refused == CHOOSE m \in InMsgs : m.kind = "refused"

Packet == LET m == buf[1].msg
          IN  IF \A n \in 1 .. FrameBytes : n <= Len(buf) /\ buf[n] = [msg |-> m, n |-> n]
                THEN m
                ELSE Refused

(* Mutant of push_incoming: the queue takes any number of packets. *)
push_unbounded(m) == rx' = Append(rx, m) /\ state' = "Idle" /\ again' = TRUE

(* The result of push_incoming is asserted. *)
push_incoming(m) ==
  IF Len(rx) < IoDepth
    THEN rx' = Append(rx, m) /\ state' = "Idle" /\ again' = TRUE
    ELSE rx' = rx /\ state' = "panic" /\ again' = FALSE

(* RxReceiving: the bus was quiet for 100 us, or the page is full.         *)
(* complete_recv stops what is still running, and waits for it.            *)
ReceiveDone ==
  /\ Interrupt /\ state = "RxReceiving"
  /\ ~timer_running \/ "endrx" \in events
  /\ FlushIfAuthd /\ auth' = D!AuthLeft
  /\ StopTimer
  /\ dma' = FALSE /\ buf' = << >>
  /\ inten' = inten \ {"endrx"}
  /\ events' = events \ {"endrx"}
  /\ IF buf = << >>
       THEN rx' = rx /\ state' = "Idle" /\ again' = TRUE
       ELSE push_incoming(Packet)
  /\ UNCHANGED <<taskVars, modeVars, sending, tx, pins, line>>

(* TxSending: complete_send. *)
SendDone ==
  /\ Interrupt /\ state = "TxSending"
  /\ "endtx" \in events
  /\ FlushIfAuthd /\ auth' = D!AuthLeft
  /\ StopTimer
  /\ inten' = inten \ {"endtx"}
  /\ events' = events \ {"endtx"}
  /\ pins' = "idle"
  /\ sending' = << >>
  /\ state' = "Idle" /\ again' = TRUE
  /\ UNCHANGED <<taskVars, rx, modeVars, dma, buf, tx, line>>

(* An interrupt that finds nothing to do in its state. *)
NotYet ==
  /\ Interrupt
  /\ \/ state = "RxAwaitFirstByte" /\ timer_running /\ "rxdrdy" \notin events
     \/ state = "RxReceiving" /\ timer_running /\ "endrx" \notin events
     \/ state = "TxSending" /\ "endtx" \notin events
  /\ FlushIfAuthd /\ auth' = D!AuthLeft
  /\ again' = FALSE
  /\ UNCHANGED <<taskVars, rx, modeVars, sending, state, hwVars>>

-----------------------------------------------------------------------------
Handler == \/ IdleReceive \/ IdleSend \/ IdleEmpty
           \/ AwaitTimeout \/ AwaitFirstByte \/ ReceiveDone \/ SendDone \/ NotYet

(* main runs when the handler does not. *)
Main(A) == ~again /\ UNCHANGED driverVars /\ A

MainStep == Main(D!Process)

TaskStep ==
  \/ \E i \in Slots : Main(D!TrySend(i)) \/ Main(D!TrySendAuthd(i)) \/ Main(D!TryRecv(i))
  \/ Main(D!AuthSend) \/ Main(D!AuthFlush) \/ Main(D!SetAddr) \/ Main(D!ChangeDefault)

Clock == UNCHANGED driverVars /\ D!ReceiveTimeOver

Next == \/ Handler \/ MainStep \/ TaskStep \/ Clock
        \/ TimerFires \/ Byte \/ TransmissionEnds
        \/ \E m \in Frames : FrameBegins(m)

Spec == Init /\ [][Next]_vars

(* An interrupt that is pending is served, main goes on between            *)
(* interrupts, what the hardware has begun it finishes, and a task with a  *)
(* message gets to read it.                                                *)
Fairness == /\ WF_vars(Handler) /\ WF_vars(MainStep) /\ WF_vars(Clock)
            /\ WF_vars(TimerFires) /\ WF_vars(Byte) /\ WF_vars(TransmissionEnds)
            /\ \A i \in Slots : SF_vars(Main(D!TryRecv(i)))

FairSpec == Spec /\ Fairness

-----------------------------------------------------------------------------
(* The detailed driver does what Dispatch says of it (uarte-485/src/lib.rs *)
(* 546-606): a reception in its two phases is one, every way out of a      *)
(* state is one of Dispatch's, and a stray interrupt at most flushes.      *)
Implements == D!Spec

(* The driver never waits for nothing: between interrupts, in every state  *)
(* something that will happen has its interrupt enabled, and a reception   *)
(* that waits for bytes can hear them (uarte-485/src/lib.rs:638-676).      *)
Armed ==
  \/ state = "panic" \/ Interrupt
  \/ state = "Idle" /\ timer = "long" /\ timerInt
  \/ state = "RxAwaitFirstByte" /\ timer = "long" /\ timerInt
       /\ dma /\ Listening /\ "rxdrdy" \in inten
  \/ state = "RxReceiving" /\ timer = "quiet" /\ timerInt
       /\ ((dma /\ Listening) \/ "rxdrdy" \in events)
  \/ state = "TxSending" /\ tx /\ "endtx" \in inten

Receiving == state \in {"RxAwaitFirstByte", "RxReceiving"}

(* The page given to the reception begins with the first byte of a frame. *)
FromStart == buf # << >> /\ buf[1].n = 1

(* A reception that has stored the first byte of a frame ends with the     *)
(* whole frame handed on: neither the quiet after the last byte nor the    *)
(* end of the page cuts it (uarte-485/src/lib.rs:461-474, 578-583).  There *)
(* are two exceptions: the queue is full, which the driver asserts it is   *)
(* not, and the timer of the wait for the first byte, which is looked at   *)
(* before the byte (562-565), in a device that may want to send.           *)
WholeFrame ==
  [][Receiving /\ FromStart /\ ~Receiving' =>
       \/ rx' = Append(rx, buf[1].msg)
       \/ Len(rx) >= IoDepth
       \/ state = "RxAwaitFirstByte" /\ ~timer_running /\ ~D!should_be_rxin]_vars

(* A device with an authorization uses it: whatever is on the bus, and     *)
(* whichever timer runs, the driver comes to send or finds nothing to send *)
(* (uarte-485/src/lib.rs:561-572, 638-661).                                *)
AuthUsed == auth ~> (~auth \/ state = "panic")

(* What a comment says of the page given to a reception                    *)
(* (uarte-485/src/lib.rs:410-412, "we're waiting for the UARTE transaction *)
(* to end before this stack pointer becomes invalid"): the driver keeps    *)
(* the page as long as the reception runs.                                 *)
DmaInItsPage == dma => state \in {"RxAwaitFirstByte", "RxReceiving"}
=============================================================================
