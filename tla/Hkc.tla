---------------------------------- MODULE Hkc ----------------------------------
(***************************************************************************)
(* The housekeeping controller: the application's logic (hkc_app), the     *)
(* main loop around it, the MCP2515 with its two receive buffers and one   *)
(* transmit buffer, the watchdog, and the way through the bootloader back  *)
(* to the application; on the Linux side the daemon that listens on the    *)
(* bus.  Commands come at any time, from any process and any number of     *)
(* times (HkcClient repeats a command whose answer is late).  What the     *)
(* bootloader does with an image is in CanBoot.                            *)
(*                                                                         *)
(* now is the free-running millisecond counter, modulo Wrap, in units that *)
(* make the periods small.  In one unit the main loop comes around at      *)
(* least once, unless the application hangs.                               *)
(*                                                                         *)
(* owed (the time to the next STATUS), lost and asked are history.  A      *)
(* definition whose name starts with Faulty_ is a plausible mistake in the *)
(* definition after it.                                                    *)
(***************************************************************************)
EXTENDS BitTiming, Sequences, Integers

CONSTANTS
  Wrap,       \* 2^32 of the millisecond counter
  Periods,    \* HKC_APP_PERIOD_MIN_MS .. HKC_APP_PERIOD_MAX_MS
  Default,    \* HKC_APP_PERIOD_DEFAULT_MS
  WdtTime,    \* time from a kick to the watchdog's reset
  Frames,     \* frames of this instance that others send
  Traffic,    \* bound of the model: such frames
  Faults,     \* bound of the model: hangs and outages of the bus
  None

ASSUME HkcAssumption ==
  /\ Periods \subseteq Nat \ {0} /\ Default \in Periods
  /\ \A p \in Periods : 2 * (p + 1) < Wrap
  /\ Wrap \in Nat /\ WdtTime \in Nat \ {0}
  /\ None \notin Frames /\ Traffic \in Nat /\ Faults \in Nat

VARIABLES
  cpu,    \* who runs, and where in its loop it is
  app,    \* hkc_app_t
  chip,   \* MCP2515: receive buffers, overrun flags, TXB0; the driver's count
  now,    \* g_now_ms
  wdt,    \* time left, or None while the watchdog is off
  mailbox, \* word the bootloader looks at
  bus,    \* somebody acknowledges frames
  hk,     \* what the daemon has of the HKC
  left,   \* frames and failures the model still allows
  owed, lost, asked

mainVars == <<cpu, app, chip, now, wdt, mailbox, bus, hk, left, owed, lost, asked>>
history == <<owed, lost, asked>>

(* ENTER_BOOT_KEY0, ENTER_BOOT_KEY1 *)
Keys == 1

Ack(st) == [id |-> "ack", status |-> st]
(* send_housekeeping: three frames, the flags as they are when the last one *)
(* is put together.                                                        *)
Status(a) == [id |-> "status", flags |-> a.flags]

(* Wrap-safe "now has reached deadline". *)
Faulty_Reached(t, deadline) == t >= deadline
Reached(t, deadline) == (t - deadline) % Wrap < Wrap \div 2

Later(t, d) == (t + d) % Wrap

(* hkc_app_init *)
InitApp == [period |-> Default, next |-> 0, flags |-> {}, led |-> "heartbeat", boot |-> FALSE]

(* satlink_mcp2515_init: a reset of the chip takes what is in its buffers. *)
InitChip == [rxb0 |-> None, rxb1 |-> None, ovr |-> FALSE, txb0 |-> None, overruns |-> 0]

(* The application's main: clock at 0, watchdog on. *)
StartApp ==
  /\ cpu' = [runs |-> "app", at |-> "drain", todo |-> <<>>, last |-> None]
  /\ app' = InitApp
  /\ chip' = InitChip
  /\ now' = 0
  /\ wdt' = WdtTime
  /\ owed' = 0

MainInit ==
  /\ cpu = [runs |-> "app", at |-> "drain", todo |-> <<>>, last |-> None]
  /\ app = InitApp /\ chip = InitChip
  /\ now = 0 /\ wdt = WdtTime
  /\ mailbox = FALSE
  /\ bus = TRUE
  /\ hk = [valid |-> FALSE, flags |-> {}]
  /\ left = [frames |-> Traffic, faults |-> Faults]
  /\ owed = 0 /\ lost = FALSE /\ asked = FALSE

-----------------------------------------------------------------------------
(* The chip and the bus.                                                   *)

(* A frame goes to RXB0, to RXB1 if that is full, and is lost after that.  *)
Arrive(f) ==
  /\ left.frames > 0 /\ bus /\ cpu.runs # "boot"
  /\ left' = [left EXCEPT !.frames = @ - 1]
  /\ \/ /\ chip.rxb0 = None
        /\ chip' = [chip EXCEPT !.rxb0 = f]
        /\ UNCHANGED lost
     \/ /\ chip.rxb0 # None /\ chip.rxb1 = None
        /\ chip' = [chip EXCEPT !.rxb1 = f]
        /\ UNCHANGED lost
     \/ /\ chip.rxb0 # None /\ chip.rxb1 # None
        /\ chip' = [chip EXCEPT !.ovr = TRUE]
        /\ lost' = TRUE
  /\ UNCHANGED <<cpu, app, now, wdt, mailbox, bus, hk, owed, asked>>

(* CanPlatformSource::Poll, for the frame that leaves TXB0. *)
Faulty_Heard(f) ==
  CASE f.id = "env" -> [hk EXCEPT !.valid = TRUE]
    [] f.id = "status" /\ ~hk.valid -> [hk EXCEPT !.flags = f.flags]
    [] OTHER -> hk

Heard(f) ==
  CASE f.id = "env" -> [hk EXCEPT !.valid = TRUE]
    [] f.id = "status" -> [hk EXCEPT !.flags = f.flags]
    [] OTHER -> hk

Transmit ==
  /\ bus /\ chip.txb0 # None
  /\ chip' = [chip EXCEPT !.txb0 = None]
  /\ hk' = Heard(chip.txb0)
  /\ UNCHANGED <<cpu, app, now, wdt, mailbox, bus, left, history>>

Outage ==
  /\ bus /\ left.faults > 0
  /\ left' = [left EXCEPT !.faults = @ - 1]
  /\ bus' = FALSE
  /\ UNCHANGED <<cpu, app, chip, now, wdt, mailbox, hk, history>>

Reconnect ==
  /\ ~bus
  /\ bus' = TRUE
  /\ UNCHANGED <<cpu, app, chip, now, wdt, mailbox, hk, left, history>>

-----------------------------------------------------------------------------
(* The main loop of the application.                                       *)

Running(at) == cpu.runs = "app" /\ cpu.at = at /\ cpu.todo = <<>>

(* send() of main.c: TXB0 frees up, or the attempts run out and the logic  *)
(* notes the error.                                                        *)
McpSend ==
  /\ cpu.runs = "app" /\ cpu.todo # <<>>
  /\ LET f == Head(cpu.todo)
     IN  /\ cpu' = [cpu EXCEPT !.todo = Tail(@)]
         /\ \/ /\ chip.txb0 = None
               /\ chip' = [chip EXCEPT !.txb0 = IF f.id = "status" THEN Status(app) ELSE f]
               /\ UNCHANGED app
            \/ /\ chip.txb0 # None /\ ~bus
               /\ app' = [app EXCEPT !.flags = @ \cup {"CAN_TX"}]
               /\ UNCHANGED chip
         /\ owed' = IF f.id = "status" THEN app.period ELSE owed
  /\ UNCHANGED <<now, wdt, mailbox, bus, hk, left, lost, asked>>

(* handle_command: the logic after it, and the status of the answer. *)
HandleCommand(c) ==
  CASE c.op = "SET_LED" -> <<[app EXCEPT !.led = "override"], "OK">>
    [] c.op = "SET_PERIOD" -> IF c.arg \in Periods
                                THEN <<[app EXCEPT !.period = c.arg, !.next = now], "OK">>
                                ELSE <<app, "BAD_ARG">>
    [] c.op = "ENTER_BOOT" -> IF c.arg = Keys THEN <<[app EXCEPT !.boot = TRUE], "OK">>
                                              ELSE <<app, "BAD_ARG">>
    [] c.op = "CLEAR_ERRORS" -> <<[app EXCEPT !.flags = {}], "OK">>
    [] c.op = "GET_VERSION" -> <<app, "OK">>
    [] OTHER -> <<app, "UNKNOWN">>

(* hkc_app_on_frame; only commands are answered. *)
OnFrame(f) ==
  IF f.id # "command"
    THEN UNCHANGED <<app, cpu, lost, owed>>
    ELSE LET r == HandleCommand(f)
         IN  /\ app' = r[1]
             /\ cpu' = [cpu EXCEPT !.todo = <<Ack(r[2])>>]
             /\ lost' = (lost /\ f.op # "CLEAR_ERRORS")
             /\ owed' = IF f.op = "SET_PERIOD" /\ f.arg \in Periods THEN 0 ELSE owed

(* check_overrun counts and clears the chip's flags. *)
Overruns == [chip EXCEPT !.overruns = IF @ = 0 /\ chip.ovr THEN 1 ELSE @, !.ovr = FALSE]

(* satlink_mcp2515_receive: RXB0 before RXB1. *)
McpReceive ==
  /\ Running("drain")
  /\ \/ /\ chip.rxb0 # None
        /\ chip' = [Overruns EXCEPT !.rxb0 = None]
        /\ OnFrame(chip.rxb0)
     \/ /\ chip.rxb0 = None /\ chip.rxb1 # None
        /\ chip' = [Overruns EXCEPT !.rxb1 = None]
        /\ OnFrame(chip.rxb1)
  /\ UNCHANGED <<now, wdt, mailbox, bus, hk, left, asked>>

(* The buffers are empty: the loop goes on with what the driver counted.   *)
Drained ==
  /\ Running("drain")
  /\ chip.rxb0 = None /\ chip.rxb1 = None
  /\ chip' = [Overruns EXCEPT !.overruns = 0]
  /\ app' = IF Overruns.overruns > 0 THEN [app EXCEPT !.flags = @ \cup {"CAN_RX_OVR"}] ELSE app
  /\ cpu' = [cpu EXCEPT !.at = IF now # cpu.last THEN "poll" ELSE "sleep"]
  /\ UNCHANGED <<now, wdt, mailbox, bus, hk, left, history>>

(* enter_bootloader: the mailbox word, and a jump; interrupts, chip and    *)
(* watchdog are left as they are.  bootloader main() takes the word back.  *)
EnterBootloader ==
  /\ cpu' = [runs |-> "boot", at |-> "wait", todo |-> <<>>, last |-> None]
  /\ mailbox' = TRUE
  /\ chip' = InitChip
  /\ app' = InitApp
  /\ UNCHANGED wdt

(* hkc_app_poll, once per millisecond, and the kick of the watchdog. *)
Poll ==
  /\ Running("poll")
  /\ IF app.boot
       THEN EnterBootloader /\ asked' = TRUE /\ lost' = FALSE /\ UNCHANGED <<now, owed, left>>
       ELSE LET due == Reached(now, app.next)
            IN  /\ \E alarm \in BOOLEAN :
                     /\ left' = [left EXCEPT !.faults = IF alarm THEN @ - 1 ELSE @]
                     /\ left'.faults >= 0
                     /\ app' = [app EXCEPT
                          !.flags = IF alarm THEN @ \cup {"XADC_ALARM"} ELSE @,
                          !.next = IF due THEN Later(now, app.period) ELSE @]
                /\ cpu' = [cpu EXCEPT !.at = "sleep", !.last = now,
                             !.todo = IF due THEN <<[id |-> "env"], [id |-> "supply"], Status(app)>> ELSE <<>>]
                /\ wdt' = WdtTime
                /\ UNCHANGED <<chip, mailbox, now, owed, asked, lost>>
  /\ UNCHANGED <<bus, hk>>

(* WFI, and the next interrupt. *)
Wake ==
  /\ Running("sleep")
  /\ now # cpu.last \/ chip.rxb0 # None
  /\ cpu' = [cpu EXCEPT !.at = "drain"]
  /\ UNCHANGED <<app, chip, now, wdt, mailbox, bus, hk, left, history>>

(* An exception, or a loop that does not end. *)
Hang ==
  /\ cpu.runs = "app" /\ left.faults > 0
  /\ left' = [left EXCEPT !.faults = @ - 1]
  /\ cpu' = [cpu EXCEPT !.runs = "hung", !.todo = <<>>]
  /\ UNCHANGED <<app, chip, now, wdt, mailbox, bus, hk, history>>

-----------------------------------------------------------------------------
(* Time, the watchdog and the bootloader.                                  *)

(* The timer tick.  The watchdog runs whoever has the CPU. *)
Tick ==
  /\ wdt # 0
  /\ cpu.runs = "app" => Running("sleep") /\ cpu.last = now
  /\ now' = IF cpu.runs = "app" THEN Later(now, 1) ELSE now
  /\ wdt' = IF wdt = None THEN None ELSE wdt - 1
  /\ owed' = IF cpu.runs = "app" THEN owed - 1 ELSE 0
  /\ UNCHANGED <<cpu, app, chip, mailbox, bus, hk, left, lost, asked>>

(* The reset reaches the MCU subsystem only; main() of the bootloader then *)
(* finds and clears WRS, which leaves the watchdog off, and the mailbox.   *)
Faulty_WatchdogReset ==
  /\ wdt = 0
  /\ cpu' = [runs |-> "boot", at |-> "wait", todo |-> <<>>, last |-> None]
  /\ wdt' = None
  /\ chip' = InitChip /\ app' = InitApp
  /\ owed' = 0
  /\ mailbox' = TRUE
  /\ UNCHANGED <<now, bus, hk, left, lost, asked>>

WatchdogReset ==
  /\ wdt = 0
  /\ cpu' = [runs |-> "boot", at |-> "wait", todo |-> <<>>, last |-> None]
  /\ wdt' = None
  /\ chip' = InitChip /\ app' = InitApp
  /\ mailbox' = FALSE
  /\ owed' = 0 /\ lost' = FALSE
  /\ UNCHANGED <<now, bus, hk, left, asked>>

(* A frame for the bootloader, and the BOOT request. *)
Talk ==
  /\ cpu.runs = "boot" /\ left.frames > 0
  /\ left' = [left EXCEPT !.frames = @ - 1]
  /\ cpu' = [cpu EXCEPT !.at = "talked"]
  /\ UNCHANGED <<app, chip, now, wdt, mailbox, bus, hk, history>>

BootRequest ==
  /\ cpu.runs = "boot" /\ left.frames > 0
  /\ left' = [left EXCEPT !.frames = @ - 1]
  /\ StartApp
  /\ asked' = FALSE /\ lost' = FALSE
  /\ UNCHANGED <<mailbox, bus, hk>>

(* Nobody talked for AUTOBOOT_POLLS, and the image is valid. *)
AutobootMain ==
  /\ cpu.runs = "boot" /\ cpu.at = "wait" /\ ~mailbox
  /\ StartApp
  /\ lost' = FALSE
  /\ UNCHANGED <<mailbox, bus, hk, left, asked>>

MainLoop == McpSend \/ McpReceive \/ Drained \/ Poll \/ Wake

MainNext ==
  \/ MainLoop \/ Hang
  \/ \E f \in Frames : Arrive(f)
  \/ Transmit \/ Outage \/ Reconnect
  \/ Tick \/ WatchdogReset \/ Talk \/ BootRequest \/ AutobootMain

(* The loops go on, time passes, and a bus that is up carries what waits.  *)
(* Nobody promises that the bus comes back.                                *)
MainSpec ==
  /\ MainInit /\ [][MainNext]_mainVars
  /\ WF_mainVars(MainLoop) /\ WF_mainVars(Tick) /\ WF_mainVars(Transmit)
  /\ WF_mainVars(WatchdogReset) /\ WF_mainVars(AutobootMain)

-----------------------------------------------------------------------------
(* Telemetry at the commanded period (SRS-HKC-005), "with the new period   *)
(* straight away" when it changes, over the wrap of the millisecond        *)
(* counter, bursts of frames and a bus nobody listens to: when a STATUS is *)
(* owed the loop is never more than one unit late.                         *)
PeriodKept == cpu.runs = "app" => owed >= -1

(* Whoever sets the chip up, at whatever rate the bus has, sets up a bit   *)
(* timing the chip takes and the other stations of the bus keep.           *)
TimingRight == [][cpu'.runs # cpu.runs /\ chip' = InitChip => RightTiming]_mainVars

(* The whole way: Linux hears of it, unless it had the errors cleared, the *)
(* bus is gone or the controller has left the application.                 *)
LossReported ==
  lost ~> ("CAN_RX_OVR" \in hk.flags \/ ~lost \/ ~bus \/ cpu.runs # "app")

(* An application that hangs is back after the watchdog's reset, through   *)
(* the bootloader, unless somebody talks to that.                          *)
Recovers == cpu.runs = "hung" ~> (cpu.runs = "app" \/ cpu.at = "talked")

(* "The ENTER_BOOT command of the application sets a mailbox word that     *)
(* disables this timeout": only a BOOT request starts the application.     *)
StaysInBootloader == [][cpu.runs = "boot" /\ asked /\ cpu'.runs = "app" => ~asked']_mainVars
================================================================================
