----------------------------- MODULE AmpDriver ------------------------------
(***************************************************************************)
(* Linux's side of the asymmetric multiprocessing: the satlink_amp driver  *)
(* (linux/drivers/satlink_amp/satlink_amp_drv.c) that starts, stops and    *)
(* watches the firmware of Core 1 and carries messages between it and user *)
(* space, with as much of the firmware (firmware/rtos/app) as the driver   *)
(* can tell apart.                                                         *)
(*                                                                         *)
(* A ring operation is one step and a ring is a sequence: IpcRing, at the  *)
(* grain of its memory accesses, implements that queue (MsgQueue), and     *)
(* rx_lock and tx_lock keep amp_init_shm out of it.  A message is the boot *)
(* of the firmware during which it entered its ring.  What amp_load_elf    *)
(* copies and refuses is in ElfLoad; here a load fails or does not.        *)
(*                                                                         *)
(* Definitions named Faulty_ are plausible mistakes in the definition that *)
(* follows; no specification uses them.                                    *)
(***************************************************************************)
EXTENDS ElfLoad, Naturals, Sequences

CONSTANTS
  Callers,      \* processes that write start and stop to the driver
  Readers,      \* processes in amp_read
  AutoRestart,  \* module parameter auto_restart
  LoadFails,    \* whether a start may fail before the firmware runs
  Stall,        \* HEARTBEAT_TIMEOUT_MS in watchdog periods
  Capacity,     \* messages a ring has room for
  MaxBoots      \* bound of the model: times the firmware is loaded

ASSUME DriverAssumption ==
  /\ AutoRestart \in BOOLEAN /\ LoadFails \in BOOLEAN
  /\ Stall \in Nat \ {0} /\ Capacity \in Nat \ {0} /\ MaxBoots \in Nat
  /\ "none" \notin Callers /\ "watchdog" \notin Callers

VARIABLES
  state,      \* amp->state
  owner,      \* who holds state_lock
  start,      \* where its amp_start_locked is: "none" when it is not in it
  boot,       \* ctrl->boot_count
  caller,     \* [Callers -> where each one is]
  pending,    \* the watchdog work is scheduled
  wpc,        \* the watchdog work: "idle", "lock", "hold", "start"
  quiet,      \* watchdog periods since heartbeat_jiffies
  taken,      \* took_cpu: Linux gave CPU1 up
  core,       \* Core 1
  rtos,       \* ctrl->rtos_state
  beat,       \* ctrl->heartbeat moved since last_heartbeat was set
  bell,       \* Core 1 queued a message and has not pended the interrupt yet
  irq,        \* the interrupt to Linux is pending
  toLinux, toRtos,
  reader,     \* [Readers -> where each one is]
  woken,      \* readers woken since they last looked at amp_rx_ready
  writer      \* the one writer: "idle", or "ring" when it found RUNNING

control == <<state, owner, start, boot, caller, taken>>
watchdog == <<pending, wpc, quiet>>
core1 == <<core, rtos, beat, bell>>
rings == <<toLinux, toRtos>>
users == <<reader, woken, writer>>
vars == <<control, watchdog, core1, irq, rings, users>>

-----------------------------------------------------------------------------
Init ==
  /\ state = "OFFLINE" /\ owner = "none" /\ start = "none" /\ boot = 0
  /\ caller = [p \in Callers |-> "idle"]
  /\ pending = FALSE /\ wpc = "idle" /\ quiet = 0
  /\ taken = FALSE /\ core = "linux" /\ rtos = "OFFLINE" /\ beat = FALSE
  /\ bell = FALSE /\ irq = FALSE
  /\ toLinux = <<>> /\ toRtos = <<>>
  /\ reader = [r \in Readers |-> "idle"] /\ woken = {}
  /\ writer = "idle"

(* wake_up_interruptible(&amp->rx_wq) *)
Waiting == {r \in Readers : reader[r] \in {"wait", "asleep"}}
Wake ==
  /\ woken' = woken \cup Waiting
  /\ reader' = [r \in Readers |-> IF reader[r] = "asleep" THEN "wait" ELSE reader[r]]
  /\ UNCHANGED writer

(* The reset and the clock of CPU1 in the SLCR. *)
amp_cpu_hold == core' = "held"
amp_cpu_release == core' = "reset"

(* While cancel_delayed_work_sync waits, the work cannot be queued again.  *)
Cancelling == \E p \in Callers : caller[p] = "cancel"
Faulty_ScheduleNever == UNCHANGED pending
ScheduleWatchdog == pending' = (pending \/ ~Cancelling)

-----------------------------------------------------------------------------
(* amp_start_locked, for whoever holds state_lock.  It gives the lock back *)
(* when it returns: a caller's ioctl and the watchdog work both end there. *)
Return ==
  /\ start' = "none" /\ owner' = "none"
  /\ IF owner = "watchdog" THEN wpc' = "idle" /\ UNCHANGED caller
     ELSE caller' = [caller EXCEPT ![owner] = "idle"] /\ UNCHANGED wpc

Startable == state \notin {"RUNNING", "BOOTING"}

(* remove_cpu may fail; then nothing was touched. *)
StartTakeCpu ==
  /\ start = "take"
  /\ \/ LoadFails /\ ~taken /\ Return /\ UNCHANGED <<taken, core>>
     \/ /\ taken' = TRUE /\ core' = "held" /\ start' = "load"
        /\ UNCHANGED <<owner, caller, wpc>>
  /\ UNCHANGED <<state, boot, pending, quiet, rtos, beat, bell, irq, rings, users>>

Faulty_LayOutRxOnly == toLinux' = <<>> /\ UNCHANGED toRtos
LayOut == toLinux' = <<>> /\ toRtos' = <<>>

(* request_firmware and amp_load_elf may fail; then amp_init_shm.  A load   *)
(* beyond the bound of the model fails too.                                *)
StartLoad ==
  /\ start = "load"
  /\ \/ (LoadFails \/ boot = MaxBoots) /\ Return /\ UNCHANGED <<state, boot, rtos, beat, bell, rings>>
     \/ /\ boot < MaxBoots /\ boot' = boot + 1
        /\ LayOut
        /\ rtos' = "OFFLINE" /\ beat' = FALSE /\ bell' = FALSE
        /\ state' = "BOOTING" /\ start' = "release"
        /\ UNCHANGED <<owner, caller, wpc>>
  /\ UNCHANGED <<pending, quiet, taken, core, irq, users>>

(* amp_cpu_release: without the mapping of page 0 the start fails here. *)
StartRelease ==
  /\ start = "release"
  /\ \/ LoadFails /\ Return /\ UNCHANGED core
     \/ amp_cpu_release /\ start' = "wait" /\ UNCHANGED <<owner, caller, wpc>>
  /\ UNCHANGED <<state, boot, taken, pending, quiet, rtos, beat, bell, irq, rings, users>>

(* One look at rtos_state, before or after BOOT_TIMEOUT_MS. *)
StartWait ==
  /\ start = "wait"
  /\ start' \in IF rtos = "RUNNING" THEN {"up"} ELSE {"wait", "giveup"}
  /\ UNCHANGED <<state, owner, boot, caller, taken, watchdog, core1, irq, rings, users>>

Faulty_StartGiveUpReleased ==
  /\ start = "giveup"
  /\ state' = "OFFLINE"
  /\ Return
  /\ UNCHANGED <<boot, taken, pending, quiet, core, rtos, beat, bell, irq, rings, users>>
StartGiveUp ==
  /\ start = "giveup"
  /\ amp_cpu_hold /\ state' = "OFFLINE"
  /\ Return
  /\ UNCHANGED <<boot, taken, pending, quiet, rtos, beat, bell, irq, rings, users>>

Faulty_StartUpStaleTime ==
  /\ start = "up"
  /\ state' = "RUNNING" /\ beat' = FALSE
  /\ ScheduleWatchdog
  /\ Return
  /\ UNCHANGED <<boot, taken, core, rtos, bell, irq, rings, users, quiet>>
StartUp ==
  /\ start = "up"
  /\ state' = "RUNNING" /\ beat' = FALSE /\ quiet' = 0
  /\ ScheduleWatchdog
  /\ Return
  /\ UNCHANGED <<boot, taken, core, rtos, bell, irq, rings, users>>

-----------------------------------------------------------------------------
(* SATLINK_AMP_IOC_START, "start" in the state attribute, and amp_probe's  *)
(* auto-boot; -EBUSY returns at once.                                      *)
Start(p) ==
  /\ caller[p] = "idle" /\ owner = "none"
  /\ Startable
  /\ owner' = p /\ start' = "take"
  /\ caller' = [caller EXCEPT ![p] = "start"]
  /\ UNCHANGED <<state, boot, taken, watchdog, core1, irq, rings, users>>

(* SATLINK_AMP_IOC_STOP and "stop": first cancel_delayed_work_sync. *)
Stop(p) ==
  /\ caller[p] = "idle"
  /\ caller' = [caller EXCEPT ![p] = "cancel"]
  /\ pending' = FALSE
  /\ UNCHANGED <<state, owner, start, boot, taken, wpc, quiet, core1, irq, rings, users>>

StopCancelled(p) ==
  /\ caller[p] = "cancel" /\ wpc = "idle"
  /\ caller' = [caller EXCEPT ![p] = "stop"]
  /\ UNCHANGED <<state, owner, start, boot, taken, watchdog, core1, irq, rings, users>>

(* amp_stop_locked, whatever the state is. *)
Faulty_StopLockedNoWake(p) ==
  /\ caller[p] = "stop" /\ owner = "none"
  /\ amp_cpu_hold /\ rtos' = "OFFLINE" /\ state' = "OFFLINE"
  /\ caller' = [caller EXCEPT ![p] = "idle"]
  /\ UNCHANGED <<owner, start, boot, taken, watchdog, beat, bell, irq, rings, users>>
StopLocked(p) ==
  /\ caller[p] = "stop" /\ owner = "none"
  /\ amp_cpu_hold /\ rtos' = "OFFLINE" /\ state' = "OFFLINE"
  /\ Wake
  /\ caller' = [caller EXCEPT ![p] = "idle"]
  /\ UNCHANGED <<owner, start, boot, taken, watchdog, beat, bell, irq, rings>>

(* The state attribute in sysfs does what the ioctls do. *)
state_store(p) == Start(p) \/ Stop(p)

-----------------------------------------------------------------------------
(* A watchdog period goes by.  The firmware's monitor task beats every     *)
(* 100 ms while Core 1 runs: at least once a period.                       *)
Tick ==
  /\ state = "RUNNING" /\ quiet <= Stall
  /\ core = "run" => beat
  /\ quiet' = quiet + 1
  /\ UNCHANGED <<control, pending, wpc, core1, irq, rings, users>>

(* The timer of the work expires, at any time after it was set. *)
WatchdogRuns ==
  /\ pending /\ wpc = "idle"
  /\ pending' = FALSE /\ wpc' = "lock"
  /\ UNCHANGED <<control, quiet, core1, irq, rings, users>>

Stalled == ~beat /\ quiet > Stall

Faulty_LooksEarlyReturnLocked ==
  /\ wpc = "lock" /\ owner = "none" /\ state # "RUNNING"
  /\ wpc' = "idle" /\ owner' = "watchdog"
  /\ UNCHANGED <<state, start, boot, caller, taken, pending, quiet, core1, irq, rings, users>>
(* amp_watchdog up to its verdict. *)
WatchdogLooks ==
  /\ wpc = "lock" /\ owner = "none"
  /\ \/ /\ state # "RUNNING"
        /\ wpc' = "idle" /\ UNCHANGED <<state, owner, pending, beat, quiet>>
     \/ /\ state = "RUNNING" /\ rtos # "FAULT" /\ beat
        /\ beat' = FALSE /\ quiet' = 0
        /\ wpc' = "idle" /\ ScheduleWatchdog /\ UNCHANGED <<state, owner>>
     \/ /\ state = "RUNNING" /\ rtos # "FAULT" /\ ~beat /\ ~Stalled
        /\ wpc' = "idle" /\ ScheduleWatchdog /\ UNCHANGED <<state, owner, beat, quiet>>
     \/ /\ state = "RUNNING" /\ (rtos = "FAULT" \/ Stalled)
        /\ state' = IF rtos = "FAULT" THEN "FAULT" ELSE "CRASHED"
        /\ owner' = "watchdog" /\ wpc' = "hold"
        /\ UNCHANGED <<pending, beat, quiet>>
  /\ UNCHANGED <<start, boot, caller, taken, core, rtos, bell, irq, rings, users>>

(* After a fault or a stall: hold Core 1, wake the readers and restart it. *)
(* The work schedules itself again only from a start that succeeds.        *)
WatchdogActs ==
  /\ wpc = "hold"
  /\ amp_cpu_hold
  /\ Wake
  /\ IF AutoRestart
     THEN state' = "OFFLINE" /\ start' = "take" /\ wpc' = "start" /\ UNCHANGED owner
     ELSE owner' = "none" /\ wpc' = "idle" /\ UNCHANGED <<state, start>>
  /\ UNCHANGED <<boot, caller, taken, pending, quiet, rtos, beat, bell, irq, rings>>

-----------------------------------------------------------------------------
(* Core 1: ipc_init attaches to the rings, the modem task reports RUNNING. *)
Boot ==
  /\ core = "reset"
  /\ core' = "boot" /\ rtos' = "BOOTING"
  /\ UNCHANGED <<control, watchdog, beat, bell, irq, rings, users>>

Run ==
  /\ core = "boot"
  /\ core' = "run" /\ rtos' = "RUNNING"
  /\ UNCHANGED <<control, watchdog, beat, bell, irq, rings, users>>

(* ipc_heartbeat *)
Beat ==
  /\ core = "run"
  /\ beat' = TRUE
  /\ UNCHANGED <<control, watchdog, core, rtos, bell, irq, rings, users>>

(* satlink_fault: publish the fault, pend the interrupt, and stop.         *)
Fault ==
  /\ core \in {"boot", "run"}
  /\ core' = "dead" /\ rtos' = "FAULT" /\ irq' = TRUE
  /\ UNCHANGED <<control, watchdog, beat, bell, rings, users>>

(* The firmware stops without a report. *)
Hang ==
  /\ core \in {"boot", "run"}
  /\ core' = "dead"
  /\ UNCHANGED <<control, watchdog, rtos, beat, bell, irq, rings, users>>

(* ipc_send: the ring in a critical section, then the doorbell.            *)
Send ==
  /\ core = "run" /\ ~bell
  /\ Len(toLinux) < Capacity
  /\ toLinux' = Append(toLinux, boot)
  /\ bell' = TRUE
  /\ UNCHANGED <<control, watchdog, core, rtos, beat, irq, toRtos, users>>

Ring ==
  /\ core = "run" /\ bell
  /\ bell' = FALSE /\ irq' = TRUE
  /\ UNCHANGED <<control, watchdog, core, rtos, beat, rings, users>>

(* drain_ipc: the modem task looks at the ring every 10 ms and on its      *)
(* doorbell, which is therefore left out.                                  *)
Drain ==
  /\ core = "run" /\ toRtos # <<>>
  /\ toRtos' = Tail(toRtos)
  /\ UNCHANGED <<control, watchdog, core1, irq, toLinux, users>>

(* amp_irq *)
Irq ==
  /\ irq /\ irq' = FALSE
  /\ Wake
  /\ UNCHANGED <<control, watchdog, core1, rings>>

-----------------------------------------------------------------------------
(* amp_read, each turn of its loop from the look at the state on; a reader *)
(* that returned is one that has not looked yet.                           *)
ReadStep(r, pc) == reader' = [reader EXCEPT ![r] = pc]

Read(r) ==
  /\ reader[r] = "idle"
  /\ state = "RUNNING"          \* else -ENODEV
  /\ ReadStep(r, "ring")
  /\ UNCHANGED <<control, watchdog, core1, irq, rings, woken, writer>>

(* Under rx_lock, with room for any message; the caller's buffer may be    *)
(* too small for it.  An empty ring returns -EAGAIN to an O_NONBLOCK       *)
(* reader.                                                                 *)
ReadRing(r) ==
  /\ reader[r] = "ring"
  /\ \/ /\ toLinux # <<>>
        /\ toLinux' = Tail(toLinux)
        /\ ReadStep(r, "copy")
        /\ UNCHANGED woken
     \/ /\ toLinux = <<>>
        /\ ReadStep(r, "idle") \/ ReadStep(r, "wait")
        /\ woken' = woken \ {r}
        /\ UNCHANGED toLinux
  /\ UNCHANGED <<control, watchdog, core1, irq, toRtos, writer>>

(* wait_event_interruptible: on rx_wq first, then look, then sleep, unless *)
(* woken since.                                                            *)
RxReady == state # "RUNNING" \/ toLinux # <<>>
ReadWait(r) ==
  /\ reader[r] = "wait"
  /\ IF RxReady THEN ReadStep(r, "idle")
     ELSE ReadStep(r, IF r \in woken THEN "wait" ELSE "asleep")
  /\ woken' = woken \ {r}
  /\ UNCHANGED <<control, watchdog, core1, irq, rings, writer>>

(* amp_poll: a reader that has not looked at the ring waits for the same.  *)
Poll(r) ==
  /\ reader[r] = "idle"
  /\ ReadStep(r, "wait")
  /\ woken' = woken \ {r}
  /\ UNCHANGED <<control, watchdog, core1, irq, rings, writer>>

(* A signal, or the time of a poll is up. *)
Interrupted(r) ==
  /\ reader[r] = "asleep"
  /\ ReadStep(r, "idle")
  /\ UNCHANGED <<control, watchdog, core1, irq, rings, woken, writer>>

(* Copy the message to the caller; one too small for it gets -EMSGSIZE and *)
(* the message is gone.                                                    *)
ReadCopy(r) ==
  /\ reader[r] = "copy"
  /\ ReadStep(r, "idle")
  /\ UNCHANGED <<control, watchdog, core1, irq, rings, woken, writer>>

-----------------------------------------------------------------------------
(* amp_write: a full ring is tried again after 5 ms from the look at the   *)
(* state on, or returned to an O_NONBLOCK writer.                          *)
Write ==
  /\ writer = "idle"
  /\ state = "RUNNING"          \* else -ENODEV
  /\ writer' = "ring"
  /\ UNCHANGED <<control, watchdog, core1, irq, rings, reader, woken>>

WriteRing ==
  /\ writer = "ring" /\ writer' = "idle"
  /\ IF Len(toRtos) < Capacity THEN toRtos' = Append(toRtos, boot)
     ELSE UNCHANGED toRtos
  /\ UNCHANGED <<control, watchdog, core1, irq, toLinux, reader, woken>>

-----------------------------------------------------------------------------
StartLocked ==
  StartTakeCpu \/ StartLoad \/ StartRelease \/ StartWait \/ StartGiveUp \/ StartUp

Core1 == Boot \/ Run \/ Beat \/ Fault \/ Hang \/ Send \/ Ring \/ Drain

Reading(r) == ReadRing(r) \/ ReadWait(r) \/ ReadCopy(r)

Next ==
  \/ StartLocked
  \/ \E p \in Callers : state_store(p) \/ StopCancelled(p) \/ StopLocked(p)
  \/ Tick \/ WatchdogRuns \/ WatchdogLooks \/ WatchdogActs
  \/ Core1 \/ Irq
  \/ \E r \in Readers : Read(r) \/ Poll(r) \/ Reading(r) \/ Interrupted(r)
  \/ Write \/ WriteRing

Spec == Init /\ [][Next]_vars

(* Linux schedules its threads, work and interrupts; time passes; a boot   *)
(* is given up in the end.  state_lock is a mutex with a queue of waiters. *)
(* Core 1 owes nothing but its heartbeat, and may stop at any step.        *)
Fairness ==
  /\ WF_vars(StartTakeCpu) /\ WF_vars(StartLoad) /\ WF_vars(StartRelease)
  /\ WF_vars(start = "wait" /\ StartWait /\ start' # "wait")
  /\ WF_vars(StartGiveUp) /\ WF_vars(StartUp)
  /\ \A p \in Callers : WF_vars(StopCancelled(p)) /\ SF_vars(StopLocked(p))
  /\ WF_vars(Tick) /\ WF_vars(WatchdogRuns) /\ SF_vars(WatchdogLooks)
  /\ WF_vars(WatchdogActs) /\ WF_vars(Irq)
  /\ \A r \in Readers : WF_vars(Reading(r))
  /\ WF_vars(Beat) /\ WF_vars(Ring)

FairSpec == Spec /\ Fairness

-----------------------------------------------------------------------------
(* Types of the variables. *)
TypeOK ==
  /\ state \in {"OFFLINE", "BOOTING", "RUNNING", "FAULT", "CRASHED"}
  /\ owner \in Callers \cup {"watchdog", "none"}
  /\ start \in {"none", "take", "load", "release", "wait", "giveup", "up"}
  /\ boot \in 0 .. MaxBoots
  /\ caller \in [Callers -> {"idle", "start", "cancel", "stop"}]
  /\ pending \in BOOLEAN /\ wpc \in {"idle", "lock", "hold", "start"}
  /\ quiet \in 0 .. Stall + 1 /\ taken \in BOOLEAN
  /\ core \in {"linux", "held", "reset", "boot", "run", "dead"}
  /\ rtos \in {"OFFLINE", "BOOTING", "RUNNING", "FAULT"}
  /\ beat \in BOOLEAN /\ bell \in BOOLEAN /\ irq \in BOOLEAN
  /\ toLinux \in Seq(0 .. MaxBoots) /\ Len(toLinux) <= Capacity
  /\ toRtos \in Seq(0 .. MaxBoots) /\ Len(toRtos) <= Capacity
  /\ reader \in [Readers -> {"idle", "ring", "wait", "asleep", "copy"}]
  /\ woken \subseteq Readers
  /\ writer \in {"idle", "ring"}

(* Core 1 is out of reset only when the driver says so: nobody loads a     *)
(* firmware or lays out the rings under a core that executes.              *)
OfflineHeld ==
  /\ state = "OFFLINE" => core \in {"linux", "held"}
  /\ start \in {"load", "release"} => core = "held"

(* The rings hold messages of this boot only: neither side is handed what  *)
(* was queued for, or by, the firmware before.                             *)
RingsOfThisBoot ==
  /\ \A i \in 1 .. Len(toLinux) : toLinux[i] = boot
  /\ \A i \in 1 .. Len(toRtos) : toRtos[i] = boot

(* A load, of whatever image, touches only the memory of the core it holds *)
(* in reset, and reads only the image.                                     *)
SegmentsInside == [][StartLoad => core = "held" /\ LoadsInside]_vars

(* A firmware that beats is never declared crashed, however late the       *)
(* watchdog work runs and across restarts.                                 *)
OnlyDeadCrash == [][state' = "CRASHED" /\ state # "CRASHED" => core = "dead"]_vars

(* A firmware that died is noticed: the driver leaves RUNNING. *)
DeathNoticed == (state = "RUNNING" /\ core = "dead") ~> state # "RUNNING"

(* A reader asleep with a message queued, or with no firmware running,     *)
(* wakes up.                                                               *)
SleeperReturns ==
  \A r \in Readers : (reader[r] = "asleep" /\ RxReady) ~> reader[r] # "asleep"

(* A stop returns, even against a watchdog that is restarting Core 1: it   *)
(* waits for the work without holding the lock the work needs.             *)
StopReturns == \A p \in Callers : caller[p] = "cancel" ~> caller[p] = "idle"

=============================================================================
