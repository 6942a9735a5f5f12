# SatLink-Z7 in TLA+

This directory specifies SatLink-Z7, an emulated satellite payload on a
Zynq-7000: Linux on CPU0, a FreeRTOS modem firmware on CPU1 (AMP), a
housekeeping controller (HKC) on a MicroBlaze behind a CAN bus, and the ground
segment that commands it over UDP.  The modules are translated from the source;
`PROJECT.json` maps each definition to the lines it stands for, and lists every
component, what can go wrong where (`hazards`), and which property would show
it.  TLC checks small instances, TLAPS proves the theorems of the `*Proofs`
modules for every value of the constants.

    tlc -workers 2 -config MCIpcRing.cfg MCIpcRing
    tlapm IpcRingProofs.tla

## The system

| Component | State it keeps | Operations | Talks to | What is hard | What makes it correct |
|---|---|---|---|---|---|
| IPC ring (`libs/amp/src/ipc_ring.c`) | head, tail, data area in shared memory; sequence number of the producer's handle | init, attach, write, read, used, free | one producer, one consumer, each on its own core, no lock | loads and stores of two cores interleave; padding at the wrap; free-running indices overflow | lossless FIFO; never overwrites what was not released; never reports corruption of its own making; every message leaves |
| AMP driver (`linux/drivers/satlink_amp`) | `state`, watchdog work, last heartbeat, rings, wait queues | start, stop, load an ELF, watchdog work, interrupt, read, write, poll, remove | Core 1 through the control block, the rings and two doorbells; user space | callers, work item, interrupt and readers are concurrent; a start fails half-way; a firmware dies at any step | nothing is loaded under a running core nor outside its memory; no lost wakeup; no message of another boot; only the dead are declared crashed, and all of them |
| AMP firmware (`firmware/rtos/app`) | boot state, heartbeat, fault word, task queues | boot, heartbeat, fault, send, drain | the driver | dies or hangs anywhere | beats while it works; reports faults |
| Sample path (`firmware/rtos/dma`, `app/payload.c`, `app/modem_task.c`) | descriptors, next index, mode of the datapath | start, ack, peek, requeue, check idle; configure | the DMA engine | engine and task share buffers; the engine stalls at the tail and outlives a restart | no buffer is used by both; samples in order; a stall ends |
| Modem application (`libs/modem_app`) and ACM (`libs/acm`) | frame queue, MODCOD, ACM counters, STATUS schedule | messages, next frame, received frame, tick | IPC, samples | the MODCOD changes between frames; the queue is full | frames leave in order; the MODCOD is one the measurement carries |
| Payload manager (`linux/payload`) | configuration, housekeeping schedule, pass, link status, multiplexer | telecommands, housekeeping, passes, feeding the modem, restart | ground (UDP), modem (AMP), tunnels, CAN, systemd, SCPI clients | the modem restarts under it; its view of the link is a STATUS old | store and forward without a lost frame; what it reports done is done |
| TM frames, PUS packets (`libs/pus`) | packet queues per channel, channel counters, partial packet | enqueue, next frame, push | the modem link | lost frames; packets that span frames; counters modulo 256 | only whole packets are delivered; every loss is counted |
| SCPI (`libs/scpi`, `scpi_instrument.cpp`, the line server) | error queue, status registers, header path, BER baseline | parse, execute, the server's connections | TCP clients, the payload manager | one parser for all clients; a full queue; a client that does not read | every error is accounted for; no answer is cut in two |
| Boot control (`linux/bootctl`, U-Boot environment, update script, confirming service) | environment, contents of two slots, phase of the boot | mark-good, prepare-update, predict; boot counter, bootcmd, altbootcmd; install | U-Boot, Linux tools and the operator share one environment | power fails between any two steps; a confirmation races an update | a confirmed slot always boots; the fallback is kept; a trial ends |
| CAN boot (`libs/hkc_proto/src/canboot.c`, HKC bootloader) and HKC client (`linux/hkc`) | session (state, size, received, next sequence number), image window, valid flag; request in flight, attempts | PING, START, DATA, END, BOOT, ABORT, autoboot; Flash, Boot, EnterBoot, commands | each other over CAN | requests and answers are lost or late; resets; 8-bit sequence number | only a whole verified image is started; what is reported flashed is there |
| HKC application (`firmware/hkc/app_logic`, `app/main.c`) and MCP2515 (`libs/mcp2515`) | period, flags, clock, watchdog; two receive buffers and one transmit buffer | commands, telemetry, main loop; init, send, receive | CAN, SPI | the clock wraps; rollover and overrun; a bus nobody listens to; a hang | telemetry keeps its period; losses are reported; a hang is recovered |
| Ground station (`host/gs`), command line (`host/cli`), Python client (`host/python`) | sequence counts, table of commands, a session that waits | send, receive, time out, show | the payload manager over UDP | reports are lost, duplicated, reordered, or go to another station; counts wrap and collide | a client says the truth about its command; every number shown is the one counted |
| Accelerator and spectrum drivers, HAL, diagnostics, board support, register maps, build | little or none | | PL blocks, device files | | |

The driver runs the ring on Linux's side, `ipc.c` on the firmware's; both see
the control block in uncached shared memory.  The payload manager reaches the
modem application through the driver, the HKC over CAN, and the ground through
a socket; SCPI clients command the same manager.  Boot control is independent of
the AMP; the HKC client and bootloader are a system of their own on the bus.

## Modules

| Module | Models | State and actions |
|---|---|---|
| `MsgQueue` | what the ring promises: a FIFO queue with sequence numbers that may be cleared | `queue`, `sent`, `out`; `Send`, `Receive`, `Clear` |
| `IpcRing` | `ipc_ring.c` at the grain of single loads and stores, in 32-bit words | `head`, `tail`, `mem` are the shared memory; `ppc`/`cpc` say where `satlink_ring_write` and `satlink_ring_read` are.  `WriteStart` is the check and the decision to pad, `WritePad` and `StoreWord` its stores, `WritePublish` the store of `head`; `ReadIndices`, `SkipPadding`, `ReadHeader`, `LoadWord`, `ReadPublish` the consumer's; `Reinit` is `amp_init_shm` |
| `ElfLoad` | `amp_load_elf`: which segments are copied where, with sums of 32 bits | constant-level operators, used by `AmpDriver` |
| `AmpDriver` | `satlink_amp_drv.c` with the firmware it sees | `state`, `owner` (state_lock), `start` (where `amp_start_locked` is), `wpc` (where the watchdog work is), `caller` (processes in start or stop), `reader`, `writer`; `core`, `rtos`, `beat`, `bell` are Core 1.  A ring operation is one step on a sequence: that is what `MsgQueue` allows, the rx and tx mutexes serialise each side, and the layout happens while Core 1 is in reset |
| `Core1` | `axi_dma.c`, `payload.c` and the modem task around them, next to the DMA engine | `dma` (registers and the transfer under way), `ring` (descriptors), `task` (where the task is and with which channel), `app`, `mail`; `ModemTask` is one turn or part of one, `Engine(d)` and `Fail(d)` are the peripheral, `Stop` and `Boot` the core |
| `Acm` | `acm.c` | operators on the controller's record: `Target`, `Update`, `ConfigureAcm` |
| `Downlink` | `FeedModem`, `OnStatus`, the settling hold and the pass of `payload_manager.cpp`, against the frame queue, the STATUS schedule, the software loopback and the lock of the receiver (`modem_app.c`, `receiver.c`) | `mgr`, `pass`, `backlog`; `modem`, `channel`; `report` is the STATUS on its way.  `turn` says where the daemon's loop is: a STATUS may be made between any two of its parts |
| `PayloadCtl` | the control side of `payload_manager.cpp`, `modem_client.cpp`, `posix_io.cpp` and the configuration messages of `modem_app.c` | `socket`, `cmd` (the command in execution, message by message), `ring`, `fw` (what the modem works with), `mgr` (what the daemon believes), `hk`, `dest` |
| `Scpi` | `parser.cpp`, `scpi_instrument.cpp`, the line server | `scpi` (queue, registers, baseline), `conn`, `mgr`, `status`, `core`; `Serve(c, line)` executes a program message unit by unit |
| `Icd` | every encoder and decoder of `docs/icd`: `msg.c`, `modem_app.c`, `hk_proto.c`, `hkc_client.cpp`, `payload_manager.cpp`, `space_packet.cpp`, `mission_tm.cpp`, `mission.rs`, `mission.py`, `pus.rs`, `pus.py` | constant-level: a byte knows the number it belongs to, its place and how the number was written |
| `Ground` | `gs_link.cpp` and the table of `main_window.cpp`, the sessions of `main.rs` and `client.py`, and what the manager reports | `session`, `rows`, `tc_rows`, `next`; `up`, `down`, `link`, `dest`; `HandleTc` is the payload, `OnReadyRead`, `ReceiveReport`, `Timeout` the stations, `Overtake`, `LoseDatagram`, `Stray` the network |
| `BitTiming` | `satlink_mcp2515_bit_timing` | operators, used by `Hkc` |
| `Hkc` | `hkc_app.c`, `app/main.c`, `mcp2515.c`, the bootloader's start-up and the daemon's CAN source | `cpu` (who runs and where in its loop), `app`, `chip` (RXB0, RXB1, overruns, TXB0), `now`, `wdt`, `mailbox`, `bus`, `hk` (what Linux knows) |
| `CanBoot` | `canboot.c`, the bootloader's loop, `hkc_client.cpp` | client: `doing`, `image`, `offset`, `want`, `attempt`; bus: `toTarget`, `toClient`; target: the session, `region`, `image_valid`, `running` |
| `AbBoot` | `boot_control.cpp`, `bootctl_cli.cpp`, `satlink-env.txt`, `satlink-update.sh`, `satlink-boot-ok.service` | `env` is the environment, `content` what each slot holds, `phase`/`running` where the boot is, `service` and `update` where the service and the script are |
| `PacketLink` | what the transfer frames promise: per channel a FIFO of packets, from which a loss takes the oldest | `sent`, `out`; `Send`, `Lose`, `HandOver` |
| `TmFrame` | `tm_frame.cpp`: multiplexer, a link that loses frames, demultiplexer | `tx` and `rx` are the `Channel` records of the two ends, `air` the frames between them.  `NextFrame` and `Push` are whole calls: the loops that fill a frame and take packets out of the buffer are operators |
| `MC*` | instances for TLC | |
| `*Proofs` | theorems about the module of that name; `ModemProofs` about `Core1`, `Acm` and `Downlink`, `PayloadProofs` about `PayloadCtl`, `HkcProofs` about `CanBoot`, `Hkc` and `BitTiming`, `TelemetryProofs` about `TmFrame`, `Ground` and `Icd` | |

`AmpDriver` extends `ElfLoad`, `Hkc` extends `BitTiming`, `Downlink` extends
`Acm`, `Ground` extends `Icd`.  `IpcRing` refines `MsgQueue` and `TmFrame`
refines `PacketLink`; the modules above them use the abstract queue: `AmpDriver`
and `PayloadCtl` a ring as a sequence, `Downlink` a frame as a unit.

A definition named `Faulty_X` is a plausible mistake in `X`.  No specification
uses it: each property of a passing run has one that breaks it, so that no
property holds for want of a way to fail.

## Runs

Times are those of two workers.

| Run | What it checks | Bounds, and why they are enough |
|---|---|---|
| `ring` (116 k states, 1 min) | `EmptyRingAccepts`, `UsedMeansReadable`, refinement of `MsgQueue`, `OldestLeaves` | 8 words with indices modulo 16: every offset, padding of one word and more, and two wraps of the indices occur within 5 messages; one layout in the middle; data area full of words that read as padding marks.  The theorems lift the bounds |
| `amp` (88 k, 1 min) | `OfflineHeld`, `RingsOfThisBoot`, `SegmentsInside`, `OnlyDeadCrash`, and the liveness properties `DeathNoticed`, `SleeperReturns`, `StopReturns` | one caller and the watchdog work, which starts and stops as well, so two of them compete for the lock; one reader, one writer; two loads, so that a restart follows a boot; a ring of one message, full as soon as it is used; the heartbeat may be missed for one period.  Two callers give 147 k states with one load and pass as well; the safety properties are proved for any number.  Words of 3 bits: all sizes and offsets, all wraps |
| `ab_boot` (38 k, seconds) | `ConfirmedBoots`, `FallbackKept`, `PredictionHolds`, `TrialResolves` | the real boot limit 3; four power cuts, one more than the limit; three installations, at any moment and of any image, so both slots are overwritten and one of them twice; an operator who confirms and prepares whenever he likes, also a system that is not healthy |
| `can_boot` (150 k, ½ min) | `OnlyWholeImages`, `FlashedIsSent`, `Reflashable` | images of 2 and 3 chunks with sequence numbers modulo 2, so that the number wraps within an image and a wrapped number meets a stale one; one retry; three faults |
| `tm_frame` (868 k, 2 min) | `LossesCounted`, refinement of `PacketLink` | two channels; frames of 5 bytes and headers of 2, so that a header is cut, a tail is too short for an idle packet, a packet spans three frames and one frame ends, holds and begins a packet; counters modulo 3 and up to two losses in a row; the names of packets are symmetric |
| `downlink` (11.0 M, 2½ min) | `SettledLink`, `PromptAgain`, `DroppedInFade` | the real STATUS period, settling time, queue limits and the frame times of the slowest and the fastest MODCOD, in quarters of a tick, three ticks to a STATUS; packets for as many frames as one loop may feed, and new ones between any two of its parts, so that the queue fills and overflows; a channel that carries both and one that carries only the slow; Es/N0 counted so coarsely that the smoothed measurement takes two frames from one setting of the channel to the other; one telecommand or crash at any moment |
| `payload` (765 k, ½ min) | `DoneIsDone`, `ConfigAgrees`, `OnlyCommanders` | two stations, two telecommands of every kind (good, refused, corrupt, foreign), a ring of two messages so that a command of three fills it, two firmware instances, so that a command may begin with one and end with the other; both kinds of command line |
| `core1` (267 k, 1 min) | `NoSharedBuffer`, `StreamsInOrder`, `StallResumes` | two buffers per channel, where the fewest states separate use from reuse; one DMA error or stop; up to two buffers complete while one is served |
| `hkc` (944 k, 2 min) | `PeriodKept`, `TimingRight`, `LossReported`, `Recovers` | a clock of 7 values, three and more wraps of it; three frames, which fill both receive buffers and overrun; one hang or outage; seven oscillators and all rates up to 1 Mbit/s for the bit timing |
| `scpi` (538 k, 1½ min) | `ErrorsAccounted`, `EventsKept`, `AnswersWhole`, `WindowKept` | an error queue of two, three program messages of up to ten units, so that it overflows between reads; two clients for one connection, one answer of room |
| `ground` (6.6 M, 2½ min) | `OutcomeTrue`, `RowsTrue`, `NumbersArrive` | sequence counts modulo 2, each station's own, so that commands of different stations share a count, and a count comes back while reports under it are still on their way; all three stations, with commands that are executed, fail or are refused, and a ping; three commands or disturbances (loss, duplicate, overtaking, stray datagram) |
| `hkc_stay` | `StaysInBootloader`, which the code violates | |

`hkc_stay` is the one disagreement kept as a run: the ENTER_BOOT command shall
keep the controller in its bootloader, which the mailbox word does; but the
application's watchdog goes on running, the bootloader neither kicks nor stops
it, and after its reset the word is gone and the application starts again
(`findings` quotes the lines).

CHECK_DEADLOCK is off where the bounded supply of commands and faults ends and
nothing is left to do.

### Fairness

* `ring`: weak fairness of the consumer's own steps, which are straight-line
  code, and strong fairness of a call with a buffer of the largest size, since
  both users call `satlink_ring_read` in a loop with such a buffer.  None for
  the producer.
* `amp`: weak fairness of the kernel's steps (threads, work, interrupt,
  passing time), strong fairness of taking `state_lock`, a mutex with a queue of
  waiters.  The firmware owes only its heartbeat and the doorbell after a
  message, while it lives; it may die at any step.
* `ab_boot`: U-Boot goes on; a system that is up is in the end checked by the
  service or reset by the watchdog.  Nobody owes an update.
* `can_boot`: both ends serve what they receive; the caller tries again and
  answers a failure with ABORT in the end.  The number of faults is bounded, so
  the bus works in the end.
* `core1`: the modem task has the highest priority of those that run, and the
  engine goes on by itself.  Nobody restarts the core.
* `hkc`: the loops go on unless they hang, time passes, a bus that is up
  carries what waits.  Nobody promises that the bus comes back.
* `downlink`, `payload`, `scpi`, `ground` state no fairness: what must happen in
  time is bounded by a counter of ticks (`PromptAgain`), or is safety.

## Proofs

`IpcRingProofs` proves for every ring size, index width (a multiple of the
size), message set and buffer sizes, under `RingAssumption` (sizes are positive,
a padded record of the largest size fits the area, sequence numbers do not
overflow between two layouts):

* `Inductive`: `Spec => []IndInv`.  `Layout` (records tile the unread part) and
  `RecordsIntact` are not inductive: that the next store of the producer hits no
  queued record needs what the producer decided when it checked for room
  (`Writing`); that the consumer's decoded message is the queued one needs what
  it has loaded so far (`Reading`); that the oldest record leaving does not move
  the others needs their order (`Ordered`).  `IndInv` adds these three.
* `TypeCorrect`, `LayoutCorrect`, `RecordsStayIntact`, `ReaderNeverCorrupt` are
  conjuncts of it; `ReadableWhenUsed` and `EmptyAlwaysAccepts` follow from it
  with the lemmas about `%` and `\div` at the top of the module.
* `ImplementsQueue`: `Spec => QueueSpec`.  A publication of `head` maps to
  `Send`, a publication of `tail` after a copy to `Receive`, the layout to
  `Clear`, every other step to a stutter.

`AmpDriverProofs` proves for any number of callers and readers, any timeout,
ring and number of loads:

* `ImagesInside`, from `ElfAssumption` (both regions end below 2^32): whatever
  the header says, nothing is read beyond the file or written outside Core 1's
  memory.  The comparison `addr - base <= size - n` is what makes this survive
  the wrap of `addr + n`.
* `Invariant`: `Spec => []Inv`.  That an offline core is held is not inductive:
  it needs that a start between loading and releasing keeps the lock and the
  state BOOTING (`Held`).  That only the dead are declared crashed needs where
  Core 1 can be when the driver sees RUNNING, which needs that `rtos_state` is
  cleared before the release (`Watched`).
* `OfflineHeldAlways`, `RingsOfThisBootAlways`, `LoadsAreSafe` and
  `OnlyDeadCrashes` follow from it, the last two as action properties.

`HkcProofs` proves of the bootloader, for any images, sequence width, retries
and faults, that only a whole image is marked valid or started
(`OnlyWholeImagesRun`). The strengthening: a session that receives has marked
the window invalid (`Whole`), and never writes beyond it because requests carry
sizes that fit (`ClientTypes`). `FlashedIsSentRun` proves that what `Flash`
reports flashed is what the window holds, under `OwnSocket`: each download has a
socket of its own, as in `hkc_cli.cpp:158`, so that no answer to an earlier
download waits in it. The runs take the weaker case, a socket that is used
again; there the property holds for four faults and TLC finds it violated with
five, when requests and answers of a whole earlier download are late. The
strengthening says of every request and answer on the bus which chunk of the
image it belongs to.

Of the application it proves `PeriodKeptAlways`, under `HkcAssumption`, for any
width of the clock and any periods that are less than half its range.  `owed`,
the units until a STATUS is due, is history; the code has only `next`, and
compares it with a clock that wraps.  `OnSchedule` ties the two: outside a report
`next = (now + owed) % Wrap`, at most a period ahead, and once the loop has
polled in the present unit nothing is overdue.  `Reached`, the signed comparison
of the code, is right exactly because what is overdue is so by at most one unit
(`ReachedInTime`) and what is not yet due is less than half the clock ahead.

`TimingRightAlways` is proved for all oscillators and all bit rates, where the
run has seven and those up to 1 Mbit/s.  `RightTimingAlways` needs no invariant:
the table has every number of quanta from 8 to 23 (`Turns`), each of them can be
shared out within the limits of the chip (`Shares`, `QuantaFit`), so a rate is
refused only if no prescaler divides for any of them, and a prescaler that
divides without rest gives the rate exactly (`Exact`).

`ModemProofs` proves of the sample path, for any number of buffers (at least
two), any bound of failures and any pace, `NoSharedBufferAlways` and
`StreamsInOrderAlways`.  The strengthening is `SamplePath`: for each channel
there are two counts, `f` of the buffers the engine has completed and `u` of
those the task has used, with `u <= f <= u + Bufs`; the engine is in slot
`f % Bufs`, the task's next is `u % Bufs`, the completed ones are those in
between, and what is in a slot is the buffer with that count (`Cycle`, `Turn`,
`Contents`).  A transfer under way has `f < u + Bufs`, so engine and task are
less than a round apart and their slots differ.  The counts are not in the code:
descriptors have one bit, and `next` is a remainder.  That a restart under a
running engine is safe needs that the DMA is off exactly when the task believes
so (`Powered`), which is what the reset in `payload_probe` is for.

It also proves of the ACM controller, for any increasing table of thresholds,
margin, hysteresis and hold: `TargetIsBest`; an update stays in the bounds
(`UpdateInBounds`), falls at once as far as it must and no further
(`UpdateIsCarried`, which needs that the thresholds increase), and climbs by one,
with the hysteresis to spare, after `up_hold` good frames (`UpdateClimbsByOne`);
new bounds hold at once (`ConfigureInBounds`).

And of the downlink it proves, for any frame times, levels, backlog and number of
commands and crashes, `SettledLinkAlways` under `SettleAssumption`: the hold
outlasts a STATUS period by more than the receiver's lock time (2000, 1000 and
768 ms), and time is counted finer than the frame a new instance begins with.
The daemon does not know which link a lock belongs to; what makes the rule sound
is an argument about ages, and the invariant `Settled` says it: a lock of a link
that is gone has been without a good frame for as long as the hold has run
(`HeardOld`), so it ends while the hold runs, so a STATUS that reports one was
made within the lock time of the change (`ReportOld`), so the one the manager
goes by at the end of the hold, at most a period old, is younger than that
(`StatusOld`).  One tick is many parts, and the set of outcomes `Sent` is a
recursive function: that it has a solution and keeps what each part keeps is
proved by well-founded induction on the parts.

`PayloadProofs` proves for any stations, telecommands, ring size and number of
firmware instances `DoneIsDoneAlways`, `ConfigAgreesAlways` and
`OnlyCommandersAlways`.  The first two are about moments when no message is on
its way; the invariant `Control` has to say what will be true then.  It follows
each setting of the modem to the value it has once the ring is empty
(`Carried`: the last message about it that is still queued decides, and without
one the firmware does), and says that what the daemon believes (`Agrees`), what
completed commands promised (`Kept`) and what the command in execution has sent
so far (`Promising`) are those values, for the instance they were made for.
`Obliged` is what the code does by hand: a command that fails half-way, or that
an instance died under, is not reported as done and not believed.

`ScpiProofs` proves for any clients, error queue size, room in a connection and
program messages: `ErrorsAccountedAlways`, `EventsKeptAlways`,
`AnswersWholeAlways` and `WindowKeptAlways`.  A program message of any length is
executed in one step, so the invariant is carried through its units by
well-founded induction on the line (`Kept`).  Accounting for errors is not
inductive by itself: that "Queue overflow", which replaces the last entry, goes
on standing for that entry and all that follow needs that the entries are in the
order in which the errors were raised, and that all of them came after the last
one read (`Queue`).  That the window is the one set needs that no report is
older than one taken before, by instance and counters (`NotBefore`).  After a
restart `WindowKept` says only that the window is that one or all of the new
instance; which of the two depends on when the client asks (see the limits).

`AbBootProofs` proves for every boot limit of at least 1 and any number of power
cuts and installations:

* `Inductive`: `Spec => []IndInv`.  The properties are not inductive alone.
  That an installation never touches the confirmed slot needs that it goes on
  only in a slot system that is up, and that this is the slot U-Boot names unless a
  trial is on (`Installing`, `Where`); that the prediction comes true
  needs that the boot on its way is the one predicted (`Predicting`); that tries
  are bounded needs that the counter is saved before the boot it counts
  (`Counting`), which is why a power cut between the two costs a count and never
  grants a try.
* `TypeCorrect`, `ConfirmedAlwaysBoots`, `FallbackAlwaysKept`,
  `PredictionCorrect` and `TriesAlwaysBounded` are conjuncts of it, whatever the
  operator does.  What the script and `mark-good` do not check is history
  instead: `gambled`, an installation begun while the slot on trial ran, which
  writes to the fallback before `prepare-update` looks at the trial, and
  `vouched`, a confirmation by hand of a system that was not healthy.  The
  fallback is lost only by the first, and a confirmed slot is sick only by the
  second, in any order of cuts, installations and confirmations.

`TelemetryProofs` proves of the frames, for any channels, packet sizes, counter
width and number of frames on their way, under `FrameAssumption`:
`NeverInterleaved` (`OneInProgress`) and `EveryLossCounted` (`LossesCounted`),
from `Inductive`. That the gap the receiver sees is the number of frames lost
needs `CountersRunOn`: the counters of a channel run on from the last frame
received over the lost ones, through those on their way, to the one the
multiplexer uses next.

`FramesImplementLink` proves, for the same constants, that every step of the
frames is a step of `PacketLink` or leaves it alone (`ImplementsLink`): what the
demultiplexer hands over are the packets that were queued, whole, in order and
none twice, and a lost frame costs the packets it carried and no other.  Queues
and buffers alone do not say so, because a packet may be in the queue, in
`partial`, spread over several frames on their way and in the buffer of the
receiver.  The invariant `FlowInv` therefore says that each channel has a stream
(`Flow`): a sequence of bytes, of queued and of fill packets, and in it places
`o <= r <= t <= e`.  What lies between `o` and `r` is the receiver's buffer, or
it does not follow and is to find the next start (`Receiving`); the frames on
their way cut `r` to `t` without a gap, each with a pointer to the first start
in it (`Frames`, `Carries`); from `t` on comes what the multiplexer has still to
send (`Sending`); and the packets that start from `o` on, but for fill packets
and those too large for the receiver, are `sent` (`Places`).  Enqueuing and
filling a frame lengthen the stream at `e`, `NextFrame` moves `t`, `Receive`
moves `r` and `o`, and `Lose` moves `r` past the frame and makes the receiver
start afresh.  Three facts carry it: filling stops in time for the rest of a
packet, or of a fill packet, to be `partial` (`Taken`); the receiver sees by the
counter that a frame is missing (`CountersRunOn`); and a frame that it resumes
at points to a start, so `Extract`, from a start on, finds the packets and
leaves the beginning of one (`Finds`).  `Extract` and the stream are recursive
functions: that they have a value, and what it is, is proved by well-founded
induction (`Least`).  The proof asks for `kMaxPacket >= kFrameDataSize +
kPrimaryHeaderSize` (4096 and 128): a packet too large for the receiver is
discovered once its header is there, at most a frame and a cut header behind its
start, and what is thrown away with it must not reach into the next packet
(`NoneTooLarge`).  The stream is quantified over, so TLC cannot evaluate
`FlowInv`; it checks the refinement itself in `tm_frame`.

Of the ground it proves, under `GroundAssumption`, for any range of sequence
counts, any commands and any number of disturbances `OutcomeTrueAlways` and
`RowsTrueAlways`.  What a station believes comes from reports that are still on
their way when it sends, so the invariant `Verified` speaks of these: each bears
the count of a command that was reported so far, or one read from no telecommand
(`Truthful`), and everything under the count of a client that waits, or of a row
of the window, is about this command or about none, unless the command is in
`shared` (`Awaited`, `Found`).  The code cannot tell commands with one count
apart, and nothing keeps the counts of three stations, one of them taken from a
clock, from meeting.  The history variable `shared` has the commands whose count
met itself: sent while something still bore it, or still waited for or shown when
another was sent with it.  `Reported` is what was reported of a command and, if it
is in `shared`, of those with its count: the theorems say which commands may be
taken for one another, and of a command that did not meet its count they say that
it is this very one.

`NumbersArriveAlways` rests on one theorem about any layout, `ReadsBack`: what
`Read` makes of the bytes of `Write` are the numbers written, for any number of
fields of any sizes, signs, scales and names.  `Write` joins the bytes of one
field after the other (`Written`, from the recursive function behind
`FlattenSeq`), and `Start` says where each begins (`Starts`); no field reaches
into the next, and the byte says which number it belongs to and how it was
written.  `ReadAcross` says the same of two layouts of the same sizes whose names
differ, as those of STATUS do at its end.  The rest is about this interface.
Each layout is taken apart into rows of fields of one size (`FieldsLayout`,
`JoinLayout`), and its names are listed; decoders are equal to the encoders of
the other end, however they are written (`BuiltParsed`, `ShownMeasured`); a
constellation is read by the count in its last byte before the points
(`CountByte`); a frame of the bus is read by one decoder only (`BusFrames`); and
numbers from two sources come each from the source that has it (`ModemRight`,
`PlatformRight`).  Periods, times, temperatures and the text of a change of
MODCOD are arithmetic and pieces of sequences.  What remains of the steps is
`NothingWrong`: a request that is handled was built by a station, so no step adds
to `wrong`.  The numbers of points and the inputs of the bus are those of the
module (`Points`, `Periods`, `Times`, `Codes`), not parameters.

Only model-checked:

* `DroppedInFade` and `PromptAgain` of `Downlink`: they hold for the periods,
  queue limits and frame times of this system, not for all values of the
  constants, and a proof would have to bound sums over the frames of a tick and
  of a STATUS period;
* every liveness property: the prover has no rule for fairness and `ENABLED`.

## Abstractions

* Barriers are taken at their word: a step of `IpcRing` is visible before the
  next of the same core.
* A write of the U-Boot environment is one step; a FAT file torn by a power
  failure is below the code.
* The CAN bus keeps the order of frames.  SPI transfers are instantaneous; the
  timeouts of a mode change of the MCP2515 that never comes are left out.
* `TmFrame` loses fewer frames of a channel in a row than its counter has
  values: 256 lost frames look like none, and the check of the first-header
  pointer against the packet in progress then catches most, not all, of what
  follows.
* A channel of `TmFrame` in the middle of a packet goes first and fills the rest
  of its frame with packets of its own, so a busy lower channel delays a higher
  one: the model has this, and no property promises how soon the first channel is
  served.
* `Downlink` knows of the signal when the receiver locks, unlocks and measures.
* Text (SCPI, command lines, reports) is abstracted to what the parser tells
  apart; the contents of telemetry to the numbers they carry.
* The command table of `Scpi`, the housekeeping schedule of `PayloadCtl` and the
  frames of the bus in `Icd` are there because the components have them: every
  operation that changes state is an action, also those no property singles out.

## Not modelled

The frame accelerator driver (nothing streams through it at this commit), the
spectrum tap, HAL wrappers and diagnostics, board support, CRC tables, register
maps, the build: pure I/O, hardware set-up, generated or without state.  The
signal processing of `libs/modem` is floating-point code whose correctness is a
bit error rate.  Removal of the AMP module (`amp_remove` may leave the watchdog
scheduled after a start through an open file) and the status ioctl.  The widgets
of the ground station and what the hosts print.

## Known limits of the code

Met while modelling; where a model has the behaviour, its properties are stated
around it.

*AMP driver.*  A firmware that reports a fault in its boot is not restarted
(`satlink_amp_drv.c:285`); a release that fails leaves BOOTING, which only a stop
ends (`:279`); a read with a short buffer loses the message (`:420`, while
`uapi/satlink/amp.h:7` says it stays queued); a stop before the first start
holds a CPU that Linux runs on (`:306`); `amp_poll` never wakes a writer (`:484`).

*Core 1.*  A DMA error halts its channel until the next change of mode; a
configuration without PL datapath leaves the modem idle; the heartbeat comes from
the monitor task and says nothing of a blocked modem task (it waits at most 10 ms
anywhere and has the higher priority).

*Boot control.*  A confirmation 90 s after boot takes back an update prepared in
between (`boot_control.cpp:87`); after two bad slots the golden image refuses
every update (`:120`).  `satlink-update.sh` writes the image (37-41) before
`prepare-update` (55) refuses during a trial: run in the slot on trial it
overwrites the fallback, so that there is nothing of before to roll back to,
against its lines 3-4 and `boot_control.hpp:50`.  `mark-good` by hand asks for no
health (`bootctl_cli.cpp:66`).

*HKC.*  A lost START answer leaves the target receiving; only ABORT ends that,
and `satlink-hkc` has no command for it (`hkc_client.cpp:67`).  The answer to
ENTER_BOOT may still be in TXB0 when the bootloader resets the chip.  The daemon
reports the last values of a silent HKC as valid (`posix_io.cpp:198`).  Bit times
of 24 and 25 quanta are listed but never fit, so some rates (8 MHz, 160 kbit/s)
are refused.

*Payload.*  The modem's queue of 16 may overflow although the daemon aims for 4:
a STATUS is made, four frames are fed before it is read and four after it, and
when the channel then falls from the fastest MODCOD to the slowest, the estimate
goes on draining at the old rate, 11.6 frames a second, while the modem sends
2.7.  By the next STATUS 17 frames may wait, one of them dropped, and only
`tx_queue_overflows` counts it (`payload_manager.cpp:672`, `modem_app.c:305`).
A channel that falls so far in a second is a pass at a large time scale: the
commands that change it hold the downlink.  `DroppedInFade` says that a frame is
dropped only then.  After a change of the MODCOD the daemon waits 2000 ms where a slow
frame, the receiver's lock time and a STATUS period add up to 2143 ms
(`payload_manager.cpp:110`); a frame is taken out of the multiplexer before its
sending may fail, so frames are lost while the driver has Core 1 offline
(`:684`); a commanded restart puts the ACM bounds back to their defaults
(`:132`), and a firmware that the driver restarted by itself keeps its own
defaults until the next command.

*SCPI.*  A BER window over a restart of Core 1 whose counters passed the baseline
is not noticed, against the comment at `scpi_instrument.cpp:254-255` that a
restart "also restarts the window", and an error count may underflow, since
`bit_errors` is not compared (`:258`); the
line limit is 4096 where the ICD says 8 KiB, and a longer line is dropped without
an answer; all clients share one error queue; -350 sets no bit of the event
register.

*Ground.*  Reports are matched by sequence count alone (`main.rs:151`,
`client.py:104`), so a client that "waits for its completion" (`main.rs:135`,
`client.py:94`) may take that of another station's command, or of an earlier one
of its own, with the same count of 14 bits (from the clock in `main.rs:102-106`);
any pong ends a ping of
the command line; a stray datagram with a live count may be shown as a rejection;
the board does not recognise a duplicate; a client may time out on a command that
was executed; telemetry goes to the last commander only.

## Plan

1. Proofs: `DroppedInFade` of `Downlink` under assumptions that bound what is fed
   and sent in a STATUS period.
2. An abstract downlink queue and the refinement of it by `Downlink`.
3. Removal of the AMP module; the frame accelerator once something uses it.
