# Verification of powerbus

TLA+ models of the firmware in this repository, checked with TLC on small
instances. What a run checks as an invariant, an action property or a refinement
is also proved with TLAPS, for every value of the constants; liveness is left to
TLC. powerbus is an RS-485 bus: one *dom* hands out addresses and the right to
talk to *subs*. Paths below are relative to `src/`.

## 1. Inventory

| part | source | state | operations |
|---|---|---|---|
| page pool | `byte-slab/src/byte_slab.rs`, `slab_box.rs`, `slab_arc.rs` | pages, a reference count for each, the free list | `init`, `alloc_box`, `into_arc`, `clone`, `sub_slice_arc`, drops |
| views | `slab_slice_arc.rs`, `slab_str_arc.rs`, `managed_arc_slab.rs` | a range of a page | `sub_slice_arc`, `reroot_with_key`, UTF-8 checks |
| dispatch | `anachro-485/src/dispatch.rs` | two queues for each port, three to and from the driver, one of messages left over, three flags of authorization | `try_send`, `try_send_authd`, `try_recv`, `process_messages` |
| driver | `uarte-485/src/lib.rs` | `State485`, the page in transfer | interrupt handler: `handle_idle`, `handle_rx_*`, `handle_tx_sending` |
| discovery | `anachro-485/src/dom/discover.rs`, `sub/discover.rs`, `dom/mod.rs` | the table of addresses, the round of the dom, the attempt of each sub | broadcast, answers, acknowledgements, two passes of pings, commit |
| token passing | `dom/token.rs`, `sub/token.rs` | `ping_table`, `bad_ticks` | grant, release, release of silent addresses |
| wire format | `anachro-485/src/icd.rs` | none | payloads, checksums, `VecAddr` |
| bootloader | `anachro-boot/src/bootload.rs`, `bootdata.rs`, `bin/half_boot.rs` | three sections of flash, boot data in RAM | validate, decide, erase, copy, tags, jump; `mark_booted` by the application |
| image packer | `boot-chonker/src/` | none | pages, chunks, signatures |
| external flash | `anachro-qspi/src/lib.rs` | the transfer under way | read, write, erase |
| simulator | `sim-485/src/` | a bus of threads | test support |
| programs | `hardware-bringup/src/bin/` | | set-up, then an endless loop that polls the tasks |
| others | `byte-slab-derive`, `postcard-slab`, `tester`, test suites | | a derive macro, demos, templates |

**How they interact.** A task holds a `DispatchSocket`: two bounded queues and,
for the ports of bus management, flags it shares with the driver. `main` polls
the tasks and calls `process_messages` in turns; the driver is an interrupt
handler and comes between any two accesses of these to what they share. Every
message that waits anywhere holds a page of one pool, so the parts share a
resource besides talking. Discovery fills the address table, token passing reads
it and empties it. The bootloader shares only flash and a few words of RAM with
the application.

**What is hard.** Reference counts without locks, dropped from threads and
interrupts; an interrupt in the middle of `process_messages`; queues at their
limit and a pool that everything draws on; messages that are lost or come after
the wait for them is over; two devices that pick the same address; waits of
different lengths on both sides; power failures in any step of rewriting flash.

**What makes each part correct.**

- Page pool: a page with a writable handle has no other handle; a shared page
  never changes; a page is offered again after its last drop, once.
- Views: no view shows bytes outside its page or its parent; a re-root never
  drops a unit that was not counted.
- Dispatch and driver: messages of a port go out once each and in order; nothing
  is lost but what may be; waiting messages never starve reception.
- Discovery: no two devices use an address; what the dom committed is held by a
  device; rounds end; a device that asks is served in the end.
- Token passing: one device talks at a time; a silent device is given up, a
  live one is not; an address is not given again while somebody uses it.
- Bootloader: an update is complete or done again; a proven image stays; only a
  whole image is started; a failed image is replaced by the older one.

The places where this can go wrong are listed under `hazards` in
`PROJECT.json`, each with its line and the properties that cover it.

## 2. Modules

| module | what it is | source |
|---|---|---|
| `SlabPromise` | what the pool promises its users | `byte-slab/src/lib.rs` |
| `ByteSlab` | the pool, one action per atomic access; implements `SlabPromise` | `byte_slab.rs`, `slab_box.rs`, `slab_arc.rs`, `managed_arc_slab.rs` |
| `ByteSlabProofs` | proofs about `ByteSlab` | |
| `SlabView` | ranges of slices and strings, with and without overflow checks | `slab_arc.rs`, `slab_slice_arc.rs`, `managed_arc_slab.rs` |
| `SlabViewProofs` | proofs about `SlabView` | |
| `PortStream` | what dispatch promises a port that sends | |
| `Dispatch` | sockets, `process_messages`, what they need to know of the driver; implements `PortStream` | `dispatch.rs`, `uarte-485/src/lib.rs` |
| `DispatchProofs` | proofs about `Dispatch` | |
| `Driver` | the interrupt handler with its timer, its UARTE and the bytes on the bus, beside the rest of the device; implements the driver of `Dispatch` | `uarte-485/src/lib.rs` |
| `DriverProofs` | proofs about `Driver` | |
| `Discovery` | the dom's rounds, every sub, the address table, the bus | `dom/discover.rs`, `sub/discover.rs`, `dom/mod.rs`, `icd.rs` |
| `DiscoveryProofs` | proofs about `Discovery`, whatever is lost or late | |
| `AgreementProofs` | proofs about `Discovery` until something is lost or late | |
| `Token` | the token tasks, the drivers' waits, a clock | `dom/token.rs`, `sub/token.rs`, `uarte-485/src/lib.rs` |
| `TokenProofs` | proofs about `Token` | |
| `BootLoader` | bootloader, application, power failures | `bootload.rs`, `bin/half_boot.rs`, `bin/blink_2.rs`, `bootdata.rs` |
| `BootLoaderProofs` | proofs about `BootLoader` | |
| `MC*` | instances for TLC | |

Definitions keep the names of the code where they stand for one function. A
definition named as a mutant in its comment is a plausible mistake in the
operation after it: `PROJECT.json` lists which property notices it.

### ByteSlab

`alloc_q`, `arcs`, `bufs` and `state` are the fields of `BSlab`. A *handle* is
a variable of the program; `hkind` says whether it holds a `SlabBox`, an arc or
nothing, or where in `alloc_box`, `reroot_with_key` or a drop its owner is. An
operation with two accesses to shared memory is two actions: `AllocDequeue` and
`AllocStore`, `RerootAlias` and `RerootClone`, `DropBox`/`DropArc` and
`FreeEnqueue`. Slices and strings count as arcs. What Rust's ownership rules out
(using a moved handle, dropping a borrowed one) is in the guards. The queue of
heapless is external and taken as atomic.

### SlabView

A step is one call on the view at hand, and `kind` says whether that is bytes or
a string. `Wrapped` and `Fits` are addition on a `usize`, `OverflowChecks` is the
profile: the dev profile panics, the release profile wraps. The contents of the
page are what the UTF-8 check tells of them, the set of ranges `Utf8`. A re-root
is of something borrowed from the view (`Borrow`): a range inside of it, and for
a string one that was checked before. Two exits come before an arc is made up
(`NoArc`): an empty slice or string is refused, and so is one outside of the key's
page, which a borrowed one never is.

### Dispatch

`pc` and `at` are where `process_messages` is: each access to a queue that the
driver or a task shares is a step, and the driver's interrupts (`Io*`) come
between. `process_one_incoming` and `process_one_outgoing` are the actions
`ProcessIncoming` and `Outgoing*`, one per way they end. An outgoing message is
its slot and a value, an incoming one its port and whether it is for everybody,
for this device or refused. `alloc_box` holds while a page is free, counted over
all queues. Whether an idle driver receives or sends is
`should_be_rxin`: `default_to` tells a dom from a sub and changes only while the
driver is idle, `receive_for` is a flag that the clock clears. `OnTheWay(i)` is
what port `i` still has in the queues, in the order it was sent: `InOrder` compares
it with `PortStream`. The flag
`io_empty_auth`, which ends a sub's turn early, is in `Token`.

### Driver

One call of `uarte_interrupt_inner` is one action, one per way it ends:
`IdleReceive`, `IdleSend` and `IdleEmpty` are `handle_idle`, `AwaitTimeout` and
`AwaitFirstByte` the two ways out of `RxAwaitFirstByte`, `ReceiveDone` and
`SendDone` the ends of a transfer, `NotYet` an interrupt with nothing to do.
While `again` is true, `uarte_interrupt` is still in its loop and `Main` does
nothing. `Interrupt` says that one is pending, from the enabled interrupts, the
events and the timer; `inten`, `events`, `dma` and `tx` are the UARTE, `timer` is
stopped, counting or its compare event is set, `channel` is the PPI channel by
which a byte restarts it. `line` is what is left of a frame on the bus; a byte of
it is stored in `buf` when the transceiver listens and a reception runs. The
tasks, `process_messages` and the queues are those of `Dispatch`
(`D == INSTANCE Dispatch`, with `io` as the mapping of `state`).

What it takes from the hardware: starting a reception that runs restarts it with
the new page; no byte comes between `STOPRX` and the flush after it; the timer of
100 us does not go off between two bytes of a frame when they restart it. The
interrupt of a byte stays enabled while the driver sends, so `NotYet` fires there.

### Discovery

An action is what a task does between two awaits. A wait may end at any time, since
`receive_timeout_micros` looks at the clock before it looks at the queue
(`anachro-485/src/lib.rs:80`). That a wait of the dom ends with an answer still on
its way needs no loss: the dom waits 50 ms from when it queues a ping
(`dom/discover.rs:164-171`), and the sub sleeps for up to 50 ms from when it hears
it (`sub/discover.rs:172-176`, `timing.rs`). The answer of that sub then counts for
it but not for the dom, or is read in the wait for the next address and counts for
that one, as its source is not looked at (`dom/discover.rs:179`). `late` counts the
waits that ended so, up to the bound `MaxLate`; `gaveup` and `released` remember
that a sub gave up in the middle of a round and which addresses the dom's other task
released. They are history: no action looks at them but for the bound. With `Lossy`
there is a moment (`FaultsBegin`) from which on any message may be lost and any
allocation fail. What holds only until something is lost or late is stated so.
Random numbers are tokens, and a checksum is the comparison it stands for.

### Token

`pc` is where the dom's task is (start of a round, between two addresses, waiting
for a release, asleep), `silent` is `ping_table` as a time since the last answer,
`grants` are the grants queued in the dom's driver and `hold` is what is left of
its `receive_for`: the driver sends nothing before it is over. A sub listens, talks
(it authorizes its driver again and again, while `tleft` lasts and until it finds
`empty`), or has put its release into the port, which `process_messages` still has to
hand over (`hand`). Its driver is `auth` (`io_send_auth`), `busy` with a message for
some more ticks, and has `load` messages of applications and the releases `kept`,
which go first. It sends one message for an authorization, and one set while it sends
it uses right afterwards: the last authorization, just before 7/8 of the grant are
over, may start a message that ends after the hold of 50 ms. `TimesAssumption` asks
only that the task is done before the grant is (43.75 ms and 2.1 of 50) and says
nothing of how long a message is. What keeps the dom from sending over such a tail is
that its driver finishes a reception it has begun (`Heeds`, `uarte-485/src/lib.rs:577`);
when it does not hear the sub, which takes a fault, it may send (`SendsOver`), and
`unheard` remembers whom it sent over. The authorization of a release may be used up
before the release reaches the driver (`Overtakes`), which is a fault as well; the
release then waits for the next grant.

Time is in ticks and passes (`Tick`) only when no task, driver or queue has anything
to do: loops and the messages of bus management take no time on this scale, a message
of an application takes up to `Frame` ticks. A sub gets its address in `Join`, which
stands for a round of discovery that ended well, and `OtherSends` for the messages
discovery sends in between. The random number of a grant is the least that no message,
queue or talking sub carries any more (`InUse`): the code draws 32 bits, and that two
in use are equal is left out. Addresses are 1 to 31 (`AddrsAssumption`): `ping_table`
has no entry for 32.

### BootLoader

`flash` is the three sections, each a header with its tags and pages. `Decide*`
are the ways `make_decision` returns, followed by one action per page erased or
copied and per word group of `write_to_section`. `job` is the metadata the
bootloader read at its start and still holds after it has erased the section.
`PowerFails` restarts from any step, with the page or word being erased or
written torn; a metadata page partly erased may still validate with some of its
words gone. The application marks itself, may be reset at any time,
and writes new images to the slot the boot data offers. That last part has no
code in the repository (the notes describe it) and is external.

## 3. Runs

| run | question | bounds |
|---|---|---|
| `byte_slab` | type, exclusiveness, exact counts, sound free list, no lost page, assertions, `SlabPromise`; a page is offered again after its last drop | 2 pages, 4 handles, 2 contents |
| `slab_view` | with overflow checks, views stay in the page and in their parent, and a re-root of bytes or of a string succeeds unless they are empty | pages of 5 bytes, 4-bit `usize`, text with characters of 1 and 2 bytes |
| `dispatch` | order, at most one message left over, reception is not starved of pages | 3 slots (bus management, an application, no port), 3 values, all queues of 1, the pages `PagesAssumption` asks for |
| `driver` | the driver of `Dispatch` is implemented; never asleep without a wake-up; whole frames; every authorization is used | 1 port, queues of 1, frames of 2 bytes, pages of 3, a dom or a sub |
| `discovery_loss` | no panic at the commit, committed addresses are held and have cost two answers each; until something is lost or late: unique addresses, agreement of dom and subs | 3 subs, 3 addresses, 2 messages in a queue, 1 wait of the dom that ends too early |
| `discovery_late` | rounds end; every sub gets an address while there are any, unless choices clashed or a wait ended too early | 2 subs, 2 addresses, 4 messages in a queue, 2 waits that end too early |
| `boot_power` | a slot is done with only when installed, marked only by its own image; two images survive; jumps go to whole images; an install begun is completed | 3 images of 1 and 2 pages, 3 power failures, 3 downloads |
| `token` | two addresses never talk at once but when the dom does not hear the first; no late release answers another grant; an address without a device is given up; a device in the table keeps getting the bus | 2 subs, 2 addresses, grants and messages of 2 ticks, silence of 9, port queues of 2, 1 message waiting in 1 of the subs, 1 fault |
| `discovery_provisional` | *violated*: a failed attempt keeps its address | 2 subs |
| `boot_rollback` | *violated*: rollback copies the active section onto itself | no power failure |
| `driver_dma` | *violated*: the driver keeps the page as long as a reception runs into it | a dom |
| `token_busy` | *violated*: an address is released only when its device has been silent | no fault, nobody dies; grants of 4 ticks, messages of 1, silence of 24, 2 messages waiting |

Why the bounds are enough to be interesting. Two pages make the free list wrap
and let one page be busy while the other moves; four handles are two arcs on a
page, a third thread allocating and a fourth in a drop. A `usize` of four bits
with pages of five bytes has sums that fit, sums beyond the page and sums that
wrap. Queues of one or two messages are full after one or two steps, and every
action that meets a full queue fires. In `dispatch` one page less would break
`PagesAssumption`; the slot without a port gets messages for port 0, which nobody
reads. A frame of two bytes can be heard from its beginning or its end and a page
of three bytes is filled by a second frame that follows at once. Three subs with three
addresses are two that clash and a third that does not, or three that are
acknowledged at once, which is one more than a queue of two takes: the round is cut
short after the first acknowledgements, and its subs meet the next round. Two subs
with queues of four, as the code has them, are enough for the liveness of a round; there
only a fault cuts it. Random numbers are reused
only when no message carries them any more, so their bound is never what stops a
behaviour. In `token` a message begun on the
last authorization lasts beyond the hold of its grant, and the release goes out after
it. A silence of 9 ticks is more than a round of two grants of 2 ticks, so that an
address misses more than one before it is released; the fault is a grant or a release
lost, a talk the dom does not hear, a failed send, a release that misses its turn or
a message of discovery that goes first. That such things repeat for ever is outside
of the run: then nobody can be promised the bus.
Three power failures are one in an install, one in its repetition and
one in what the application does afterwards. TLC's symmetry is used for the subs
in `discovery_loss`, which has no liveness property, and nowhere else.

**Fairness.** `ByteSlab`: an operation begun is finished, as no operation waits
for another. `Dispatch`: `main` polls for ever, so `process_messages` makes
progress (weak) and a task with a message gets to read it although others come
in between (strong), for the tasks that read at all; the driver has a timer or a
transfer running in every state it waits in. A reception with nothing to receive
is not obliged to end. `Driver`: an interrupt that is pending is served, a timer, a
transmission or a frame that has begun comes to its end, and `main` goes on; it
is what the fairness of `Dispatch`'s driver rests on. `Discovery`: both programs
poll for ever and every wait has an end. `Token`: `main` polls every task, the
drivers' timers go off and time passes. As time does not pass while a task or driver
has anything to do, weak fairness of all of these together is enough (`Progress`);
nobody has to join, die, fail or queue a message. `BootLoader`: weak fairness of the bootloader, which waits only for
flash and clock; none for the application, resets or power failures. Failures are
bounded, which is the assumption under which an install can ever end.

**Deadlock.** It is checked except in `SlabView`, which stops after a panic, and
in `Discovery`, where everybody may be done.

## 4. Findings

The runs with an expected violation show where the code differs from what its
comments or notes say:

- `discovery_provisional`: `set_addr` at `sub/discover.rs:96` is never undone
  when the attempt fails, and the sub never asks again.
- `driver_dma`: after 1 ms without a byte a device that may send drops the page of
  its reception and goes to `Idle` without stopping the reception
  (`uarte-485/src/lib.rs:565`). Until the next transfer, bytes are stored in a
  page that may be somebody else's by then; the comment at `lib.rs:410` says the
  driver waits for the end of the transfer first.
- `boot_rollback`: the source of a rollback is the section it erases
  (`bootload.rs:550`); afterwards the device halts although the recovery slot is
  good.
- `token_busy`: the dom waits for a release from the moment it queues the grant
  (`dom/token.rs:100`), but its driver sends the grant only 50 ms after the one
  before it, however early that was released (`uarte-485/src/lib.rs:615`). A
  device that needs more of its grant than the device before it therefore
  answers too late each time and is released after 5 s, alive.

Behaviour the models also have, without a run of its own:

- An interrupt between `try_send_authd` and `process_messages` uses up the
  authorization with nothing sent (`uarte-485/src/lib.rs:640`), although the
  comment at `dispatch.rs:134` says the flag is cleared after sending a message. In
  `Token` the release then waits for the next grant of its sub.
- A reception that has stored the first byte of a frame is given up when the timer of
  1 ms went off before that byte is looked at and the device may send
  (`uarte-485/src/lib.rs:562-565`). `WholeFrame` names this exit, and a full queue, as
  the only ones.
- A message to port 0 goes to a slot without a port and keeps its page
  (`dispatch.rs:395`).
- More acceptable responses than a port's queue holds end the round with an
  error after the first ones were acknowledged (`dom/discover.rs:313`);
  `discovery_loss` has queues short enough for it.
- The dom waits for the answer to a ping no longer than the sub may sleep before it
  answers, and accepts an answer from anybody (`dom/discover.rs:164-186`). With nothing
  lost, a late second answer leaves a device done that is not in the table, and its
  address is offered again: two devices may end up with it. A late answer, or the
  third of three devices on one address, is credited to the next address, which is
  committed although its device did not answer. So `UniqueAddress` and `Agreement` are
  stated up to the first late or lost message; `TwoAnswersEach`, that no answer is
  credited twice, holds always.
- A sub of which a wait ends too early keeps its provisional address like any other
  that fails, and may share it with a device that succeeded.
- The length of a reception is not used (`dispatch.rs:328`): a page is decoded up to
  the end of the first frame in it. A second frame that follows within 100 us is
  lost, and a page that begins inside a frame makes no sense: `Packet`.
- Without overflow checks `sub_slice_arc` grants a range whose end wraps
  (`slab_arc.rs:104`): `InPage` fails with `OverflowChecks = FALSE`.
- The slots of the bootloader are ordered by a sequence number that is never
  written to them (`bootload.rs:489`), so the newer one may be offered to the
  next download.
- After a rollback, or when a power failure tears the BOOTED tag of a slot, no
  proven image may be left to fall back on, although an image is.

## 5. Proofs

Every theorem is about the specification the runs check, for every value of the
constants that satisfies the named assumptions of its module. TLC evaluates the
assumptions on the instances.

| module | theorems, by the property of a run they state |
|---|---|
| `ByteSlabProofs` | `TypeOK`, `ExclusivePage`, `RefcountExact`, `FreeListSound`, `NoPageLost`, `Asserts`, `RoomToFree`, `Promise` |
| `SlabViewProofs` | `InPage`, `Narrowing`, `RerootGranted`, and that a string is text |
| `DispatchProofs` | `TypeOK`, `ShameAtMostOne`, `InOrder` |
| `DriverProofs` | `TypeOK`, `Armed`, `Implements`, `WholeFrame` |
| `DiscoveryProofs` | `TypeOK`, `NoCommitPanic`, `CommittedHeld`, `TwoAnswersEach` |
| `AgreementProofs` | `UniqueAddress`, `Agreement` |
| `TokenProofs` | `TypeOK`, `OneTalker`, `AnsweredWhenSent` |
| `BootLoaderProofs` | `TypeOK`, `JumpsToImage`, `FlashedIsInstalled`, `MarksWhatRan`, `TwoImagesLeft` |

**ByteSlabProofs** (any number of pages, any finite set of handles and any
contents; `NAssumption`, `HandlesAssumption`, `ValuesAssumption`). The properties
do not stand alone: that a drop finds a positive count needs that counts are
exact, that the free list takes a page needs that the page is not in it, which
needs that pages are exclusive. The inductive invariant is therefore their
conjunction with `InitPhase` (during `init` there are no handles and the list is
filled in order) and `AliasBacked` (an arc made up by `reroot_with_key` has a
lender that is an arc on the same page). Each conjunct is preserved by a lemma
with one step per action; facts about positions in a queue (`AppendIn`, `TailIn`)
and about a handle that holds the only unit of its page (`SoleOwner`) are lemmas
of their own. `Implements` is the refinement of `SlabPromise`: a step of an
operation that is not its visible moment is a stutter, and a page is written only
through a box, on which no other handle is.

**SlabViewProofs** (any page size, any width of `usize`, any text). The invariant
is inductive because every sum that is compared is exact: one that wraps has
panicked. So each theorem assumes `OverflowChecks`, as the dev profile has it;
without them a sum that wraps is granted, see section 4.

**DispatchProofs** (any number of slots, any depths, pages and values;
`SlotsAssumption`, `SendsAssumption`, `DepthAssumption`). That only one message is
left over cannot be seen from `shame` alone, whose queue takes two: it holds
because the ports are looked at only when nothing is left over
(`NothingOverAtPorts`) and the first message that finds no room ends the call.
`OrderKept` is the refinement of `PortStream`. What is on the way for a port comes
from four queues, and a message may pass from one to the next only when nothing of
its port is in the one it passes. `Apart` says so: `hi` has the messages of the
management ports and nothing else has them, so a port uses `hi` or `lo` and never
both; and `NothingOverAtPorts` says it of `shame`. What `Of` selects from a queue is
a recursive function; how it changes with the queue is proved from the least
element of a set of numbers (`SetInduction`), since the library's induction
theorems are out of reach. `Join` is concatenation under a name the provers do not
unfold, with the laws they need as lemmas.

**DriverProofs** (any frames, pages, pins and all that `Dispatch` is parameterised
by, `DispatchAssumption`). `Armed` says nothing of a state in which an interrupt is
pending. The invariant `Ready` says what each state relies on in either case: which
timer runs or has run out, which interrupt is enabled, and that what it waits for
is under way or has set its event. `AlwaysArmed` follows.
`DriverImplementsDispatch` has one lemma per way a pass of the handler ends, each
with the action of `Dispatch` that it is; the hardware only stutters. That what is
in a page is a message `Dispatch` knows (`PacketIsMessage`) needs that `buf` holds
bytes of frames (`BufOK`). Through the refinement, type correctness of the queues is
the theorem about `Dispatch` (`DispatchTypes`); `TypeCorrect` adds the driver's own
variables and that no reception overruns its page (`Room`). `FramesAreWhole` is
about the end of a reception (`Receiving`): it comes by a timer, by `ENDRX`, or by the
exit `uarte-485/src/lib.rs:562-565` (`ReceptionEnds`). It needs what a page that begins
with the first byte of a frame (`FromStart`) has to do with the bytes on the bus
(`Heard`): as long as bytes of the frame are missing and the reception runs, the line
has exactly those (`Missing`), and the quiet timer has not run out (`AtItsEnd`). So what
is handed on is the whole frame (`WholeStep`), but for a full queue. A byte may be
stored and the timer of 1 ms run out before the handler looks at either, and the handler
looks at the timer first: a device that may want to send gives the frame up there, and
the property names that exit.

**DiscoveryProofs** (any devices and addresses, any depth of the queues, whatever is
lost, late or released). A device never gives up an address it took, so what a message
says of its sender stays true (`Signed`) and with it what the round and the table say
(`AllHeld`). `Offered` is for the panic: what is pinged was offered, and nothing that
was offered is active. `AnswersPaid` is about the pings of a pass, which all have one
random number and whose answers are accepted from anybody, also in the wait for the next
address. Its invariant (`CInv`) is an account: what the table and the round under way
have been credited (`Cost`: two answers for each active address, and for the round what
its passes have counted and what is in the dom's queue and still would count, `Pending`)
is at most what the devices have given. An answer is taken out of the queue when it is
counted, and a new pass, with a new random number, writes off what is left of the one
before.

**AgreementProofs** (the same, with `TaskDepth >= 2`; the code's depth is 4). The
properties speak of the time until the first loss (`lossy`) or the first wait of the dom
that ends with something on its way (`late`), and except addresses released since.
Devices may give up at any time. Two things carry them across rounds. A device that was
acknowledged but not pinged, because the dom failed half-way, has the next round's offer
in its queue before anybody can be acknowledged, and that ends its attempt
(`Collecting`). And a ping is answered before the next one goes out, or its device has
given up, so the dom's list and each device's count of answers move together (`Turn`,
`Answered`). No two are acknowledged for one address (`OneEach`), and the devices that
succeeded have the addresses in the table or about to be committed (`Taken`). The depth
is needed: a queue of one message is full with an acknowledgement, the ping is dropped,
and the device stays behind.

**TokenProofs** (any number of devices, any addresses below 32, any length of messages,
any times with `TimesAssumption`). That two addresses never talk at once cannot be seen
from who talks: the dom's task gives up on a sub without knowing whether it still sends.
What keeps the bus quiet is the driver. The invariant therefore says that a grant not
yet read was sent in this very tick, to a sub with nothing to send (`JustSent`: the hold
is still whole, and the sub listens), that the task of a sub is done before the hold of
its grant is over, by what the grant leaves of its time (`Held`), and that everybody who
has a grant, or still sends and is heard, has one address (`OneAddress`). What a driver
still sends after the hold is either heard, and the dom's driver waits for its end, or
its sub is `unheard` and has no grant (`NotHeard`). So when the dom's driver may send the
next grant nobody has one and nobody that is heard sends (`HoldOver`).
`AnswersAreForTheGrant` adds `Unsent`: while the grant waited for is still in the driver
it is the last there, and no other message, no sub and no release left in a sub's driver
has its number. It rests on numbers in use being different (`InUse`).

**BootLoaderProofs** (any images and lengths, any number of failures and downloads;
`BlankSeq >= 2`, so that the number 2 of an install without an active image fits).
The properties are about single steps, torn or not. `Installing` says what section
1 holds at every page erased and copied and every word written, `Booted` what the
boot data say of it afterwards, `Source` which slot it came from. `Survivors` says
which sections are valid whatever the step under way does: in a load the other two,
in an install and after it the two slots. A power failure can only tear the section
that is being written, and a slot gets a tag only when section 1 is valid as well,
so two are always left; before the slots are first loaded
(`FirstLoad`) there is nothing to lose.

**Only model-checked:** liveness under fairness, which is out of reach of the
prover: `Freed`, `HearsAgain`, `AuthUsed`, `RoundEnds`, `AllServed`, `DeadReleased`,
`Granted`, `InstallCompletes`. The four properties that are violated are shown by
their runs.

## 6. Not modelled

- How long waits are, except in `Token` and, as the order of timers and bytes, in
  `Driver`. In `Discovery` a wait may end at any time; the clock would rule some of
  those ends out. What depends on answers coming in time is stated until the first that
  does not (`late`), and how many waits of the dom end so is bounded (`MaxLate`).
- Faults without end: the bounds `MaxFaults` and `MaxLoad` of `Token` are totals, so that
  everybody keeps getting the bus (`Granted`) is shown for faults that cease.
- The address 32 in token passing, whose index is beyond `ping_table`.
- Bytes: serialization, framing, checksums as arithmetic. The managed types'
  comparison, formatting and serde change no state.
- Registers that only configure the hardware, the debug pins, framing errors and
  the FIFO of the UARTE; the read/write mode of the flash controller.
- Addresses in flash: nothing in the bootloader checks that an image fits its
  section, so `PagesAssumption` says so.
- `register_port` and `take_io_handle`, which run once before anything else.
- The internals of heapless' queues, which are taken as atomic. Their `enqueue` and
  `dequeue` may spin while another is half-way, which an interrupt that drops a page
  could do for ever against the code it interrupted.
- The release profile of the views, whose sums wrap: the run and the theorems about
  `SlabView` have `OverflowChecks`, see section 4.
- The image packer is a host tool without state. It is built against the constants
  of a private bootloader, so what it promises to the one here cannot be told from
  the source.
- The external flash driver is straight-line code that no program uses. Its check of
  the end of a range (`anachro-qspi/src/lib.rs:201`) negates the sum bit by bit.
- The simulator, the derive macro, the demos and the bench programs.

## 7. Plan

To prove: for `Dispatch` that pages remain for a reception while every queue is
full, the invariant behind `HearsAgain`; for `Token` that an entry of `ping_table`
belongs to the table, and a bound on how long a dead address stays in it; for
`BootLoader` that a fresh slot stays fresh until it is installed, which is the
safety half of `InstallCompletes`.

To model: `Token` together with `Discovery` through the address table, when an
address is given again; the bootloader with the slots' addresses, and the rollback
as the notes describe it as an abstract specification.
