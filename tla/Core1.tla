--------------------------------- MODULE Core1 ---------------------------------
(***************************************************************************)
(* The sample path of Core 1: the modem task (firmware/rtos/app), the      *)
(* descriptor rings of the two DMA channels (firmware/rtos/dma) and the    *)
(* payload control block, with the AXI DMA engine as the peripheral next   *)
(* to them.  Task and engine share the buffers: a descriptor's completion  *)
(* bit gives a buffer to the task, the tail register gives it back.        *)
(* The modes are MODEM_CONFIG messages; Core 1 may stop at any point and   *)
(* be started again, and the engine does not stop with it.                 *)
(*                                                                         *)
(* What modem application and modem do with the symbols is in Downlink.    *)
(*                                                                         *)
(* made, sent and heard number the buffers of a stream modulo Stamps; they *)
(* are data and history, no guard reads them.  A definition whose name     *)
(* starts with Faulty_ is a plausible mistake in the definition after it.  *)
(***************************************************************************)
EXTENDS Integers

CONSTANTS
  Bufs,     \* buffers of a ring (PAYLOAD_TX_BUFS, PAYLOAD_RX_BUFS)
  Stamps,   \* bound of the model: numbers that tell buffers of a stream apart
  Pace,     \* bound of the model: buffers a channel completes while it is served
  Failures  \* bound of the model: DMA errors and stops of Core 1

ASSUME Core1Assumption ==
  /\ Bufs \in Nat /\ Bufs >= 2
  /\ Stamps \in Nat /\ Stamps >= Bufs + 2
  /\ Pace \in Nat /\ Failures \in Nat

VARIABLES
  dma,     \* registers of the channels, and the transfer under way
  ring,    \* axidma_ring_t: descriptors, buffers and next
  pl,      \* CTRL of payload_ctrl: rx_en, dig_loopback
  task,    \* modem task: what it does, and with the ring of which channel
  app,     \* config.loopback, g_hw_running, and whether there is a PL
  mail,    \* loopback of a MODEM_CONFIG in the ring to Core 1
  stream,  \* history: last buffer made, sent and heard
  faults   \* failures the model still allows

sampleVars == <<dma, ring, pl, task, app, mail, stream, faults>>

Dir == {"tx", "rx"}
Slot == 0 .. Bufs - 1
Loops == {"analog", "digital", "software"}
NoSamples == 0
After(i) == (i + 1) % Bufs
Following(n) == (n % Stamps) + 1

-----------------------------------------------------------------------------
(* Registers and rings.                                                    *)

Halted == [run |-> FALSE, idle |-> FALSE, busy |-> FALSE, pos |-> 0, tail |-> 0]

(* axidma_reset: one reset bit for both channels. *)
Reset == [d \in Dir |-> Halted]

(* axidma_ring_init; the TX buffers start with silence. *)
InitRing == [done |-> {}, data |-> [i \in Slot |-> NoSamples], next |-> 0]

(* axidma_ring_start: CURDESC is only taken by a channel that is halted;   *)
(* the tail is the last descriptor.                                        *)
Started(c) ==
  [c EXCEPT !.run = TRUE, !.idle = FALSE, !.pos = IF c.run THEN @ ELSE 0, !.tail = Bufs - 1]

(* A write of TAILDESC wakes an idle channel. *)
Moved(c, i) == IF c.run THEN [c EXCEPT !.tail = i, !.idle = FALSE] ELSE c

NewStream == [made |-> NoSamples, sent |-> NoSamples, read |-> NoSamples, heard |-> NoSamples]

SampleInit ==
  /\ \E present \in BOOLEAN :
       app = [loopback |-> IF present THEN "analog" ELSE "software", hw |-> FALSE,
              present |-> present]
  /\ dma = Reset
  /\ ring = [d \in Dir |-> InitRing]
  /\ pl = [on |-> FALSE, digital |-> FALSE]
  /\ task = [at |-> "wait", dir |-> "tx", paced |-> 0]
  /\ mail = {}
  /\ stream = NewStream
  /\ faults = Failures

-----------------------------------------------------------------------------
(* The engine.                                                             *)

Serving(d) == task.at \in {"peek", "hold", "requeue"} /\ task.dir = d

(* Buffers come more slowly than the task takes them.                      *)
Transfer(d) ==
  /\ dma[d].run /\ ~dma[d].idle /\ ~dma[d].busy
  /\ Serving(d) => task.paced < Pace

(* A completed descriptor that comes up again is an error: SGIntErr. *)
Fetch(d) ==
  /\ Transfer(d)
  /\ dma' = [dma EXCEPT ![d] = IF @.pos \in ring[d].done THEN [@ EXCEPT !.run = FALSE]
                                                        ELSE [@ EXCEPT !.busy = TRUE]]
  /\ UNCHANGED <<ring, pl, task, app, mail, stream, faults>>

(* Samples come while the receiver is enabled. *)
Finish(d) ==
  /\ dma[d].busy
  /\ d = "rx" => pl.on
  /\ task' = IF Serving(d) THEN [task EXCEPT !.paced = @ + 1] ELSE task
  /\ LET i == dma[d].pos
     IN  /\ dma' = [dma EXCEPT ![d].busy = FALSE, ![d].pos = After(i),
                               ![d].idle = (i = dma[d].tail)]
         /\ IF d = "tx"
              THEN /\ stream' = [stream EXCEPT !.sent = ring[d].data[i]]
                   /\ ring' = [ring EXCEPT ![d].done = @ \cup {i}]
              ELSE /\ stream' = [stream EXCEPT !.read = Following(@)]
                   /\ ring' = [ring EXCEPT ![d].done = @ \cup {i},
                                           ![d].data[i] = stream'.read]
  /\ UNCHANGED <<pl, app, mail, faults>>

(* Slave or decode error: the channel halts. *)
Fail(d) ==
  /\ dma[d].busy /\ faults > 0
  /\ faults' = faults - 1
  /\ dma' = [dma EXCEPT ![d].busy = FALSE, ![d].run = FALSE]
  /\ UNCHANGED <<ring, pl, task, app, mail, stream>>

-----------------------------------------------------------------------------
(* The modem task.                                                         *)

At(pc, d) == task.at = pc /\ task.dir = d
Go(pc, d) == task' = [at |-> pc, dir |-> d, paced |-> IF Serving(d) THEN task.paced ELSE 0]

(* The notification or its timeout, then drain_ipc. *)
DrainIpc ==
  /\ task.at = "wait"
  /\ Go("apply", "tx")
  /\ app' = IF mail = {} THEN app ELSE [app EXCEPT !.loopback = CHOOSE l \in mail : TRUE]
  /\ mail' = {}
  /\ UNCHANGED <<dma, ring, pl, stream, faults>>

WantHw == app.present /\ app.loopback # "software"

Faulty_PayloadStart ==
  /\ ring' = [d \in Dir |-> [InitRing EXCEPT !.next = ring[d].next]]
  /\ dma' = [d \in Dir |-> Started(dma[d])]
  /\ stream' = NewStream

PayloadStart ==
  /\ ring' = [d \in Dir |-> InitRing]
  /\ dma' = [d \in Dir |-> Started(dma[d])]
  /\ stream' = NewStream

(* CTRL to 0, interrupts off, reset. *)
PayloadStop ==
  /\ dma' = Reset
  /\ pl' = [on |-> FALSE, digital |-> FALSE]

(* apply_mode; without the hardware the round ends with run_loopback. *)
ApplyMode ==
  /\ task.at = "apply"
  /\ app' = [app EXCEPT !.hw = WantHw]
  /\ IF WantHw
       THEN /\ IF app.hw THEN UNCHANGED <<ring, dma, stream>> ELSE PayloadStart
            /\ pl' = [on |-> TRUE, digital |-> app.loopback = "digital"]
            /\ Go("peek", "tx")
       ELSE /\ IF app.hw THEN PayloadStop ELSE UNCHANGED <<dma, pl>>
            /\ UNCHANGED <<ring, stream>>
            /\ Go("wait", "tx")
  /\ UNCHANGED <<mail, faults>>

(* The channel has moved past the descriptor, as it was armed: its idle    *)
(* position is taken for the one at work.                                  *)
Faulty_PeekDone(d) == dma[d].pos # ring[d].next \/ dma[d].busy

(* axidma_ring_peek_done *)
PeekDone(d) == ring[d].next \in ring[d].done

(* payload_service_tx and payload_service_rx: the next buffer, or at the   *)
(* end check_idle, which only counts.                                      *)
Peek(d) ==
  /\ At("peek", d)
  /\ CASE PeekDone(d) -> Go("hold", d)
       [] ~PeekDone(d) /\ d = "tx" -> Go("peek", "rx")
       [] OTHER -> Go("wait", "tx")
  /\ UNCHANGED <<dma, ring, pl, app, mail, stream, faults>>

(* The buffer is filled with symbols, or its samples are copied; then the  *)
(* descriptor is made ready.                                               *)
Use(d) ==
  /\ At("hold", d)
  /\ LET i == ring[d].next
     IN  IF d = "tx"
           THEN /\ stream' = [stream EXCEPT !.made = Following(@)]
                /\ ring' = [ring EXCEPT ![d].data[i] = stream'.made, ![d].done = @ \ {i}]
           ELSE /\ stream' = [stream EXCEPT !.heard = ring[d].data[i]]
                /\ ring' = [ring EXCEPT ![d].done = @ \ {i}]
  /\ Go("requeue", d)
  /\ UNCHANGED <<dma, pl, app, mail, faults>>

Faulty_Requeue(d) ==
  /\ At("requeue", d)
  /\ dma' = IF dma[d].idle THEN dma ELSE [dma EXCEPT ![d] = Moved(@, ring[d].next)]
  /\ ring' = [ring EXCEPT ![d].next = After(@)]
  /\ Go("peek", d)
  /\ UNCHANGED <<pl, app, mail, stream, faults>>

(* axidma_ring_requeue after its barrier: the tail, then next. *)
Requeue(d) ==
  /\ At("requeue", d)
  /\ dma' = [dma EXCEPT ![d] = Moved(@, ring[d].next)]
  /\ ring' = [ring EXCEPT ![d].next = After(@)]
  /\ Go("peek", d)
  /\ UNCHANGED <<pl, app, mail, stream, faults>>

-----------------------------------------------------------------------------
(* Linux, and the stops of Core 1.                                         *)

Configure(l) ==
  /\ task.at # "down" /\ mail = {} /\ l # app.loopback
  /\ mail' = {l}
  /\ UNCHANGED <<dma, ring, pl, task, app, stream, faults>>

(* A fault, or the driver's stop; only the core stops. *)
Stop ==
  /\ task.at # "down" /\ faults > 0
  /\ faults' = faults - 1
  /\ Go("down", "tx")
  /\ mail' = {}
  /\ UNCHANGED <<dma, ring, pl, app, stream>>

(* A new image: satlink_modem_app_init, and payload_probe resets the DMA.  *)
Boot ==
  /\ task.at = "down"
  /\ Go("wait", "tx")
  /\ app' = [app EXCEPT !.loopback = IF app.present THEN "analog" ELSE "software", !.hw = FALSE]
  /\ dma' = IF app.present THEN Reset ELSE dma
  /\ UNCHANGED <<ring, pl, mail, stream, faults>>

ModemTask ==
  DrainIpc \/ ApplyMode \/ (\E d \in Dir : Peek(d) \/ Use(d) \/ Requeue(d))

Engine(d) == Fetch(d) \/ Finish(d)

SampleNext ==
  \/ ModemTask
  \/ \E d \in Dir : Engine(d) \/ Fail(d)
  \/ \E l \in Loops : Configure(l)
  \/ Stop \/ Boot

(* The task has the highest priority of those that run, and the engine     *)
(* goes on by itself; nothing promises that Core 1 is started again.       *)
SampleSpec ==
  /\ SampleInit /\ [][SampleNext]_sampleVars
  /\ WF_sampleVars(ModemTask) /\ \A d \in Dir : WF_sampleVars(Engine(d))

-----------------------------------------------------------------------------
(* Task and engine never have the same buffer: while the task fills a TX   *)
(* buffer or copies an RX buffer the engine is in another one, through     *)
(* stalls, changes of the mode and restarts of the core.                   *)
NoSharedBuffer ==
  \A d \in Dir : At("hold", d) /\ dma[d].busy => dma[d].pos # ring[d].next

(* "Descriptor rings" without a gap of their own (SRS-AMP-006): what the   *)
(* modem makes is sent in that order, each buffer once, after the silence  *)
(* of the start; what is read reaches the modem in order, none twice.      *)
InOrder(a, b) == b = a \/ b = Following(a)

StreamsInOrder ==
  [][stream' # NewStream =>
       /\ InOrder(stream.sent, stream'.sent)
       /\ InOrder(stream.heard, stream'.heard)]_stream

(* A channel that caught up with its tail is not lost: it goes on, unless  *)
(* it fails, its mode ends or the core stops.                              *)
StallResumes ==
  \A d \in Dir :
    app.hw /\ dma[d].run /\ dma[d].idle
      ~> (~dma[d].idle \/ ~dma[d].run \/ ~app.hw \/ task.at = "down")

================================================================================
