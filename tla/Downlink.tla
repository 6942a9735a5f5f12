------------------------------- MODULE Downlink --------------------------------
(***************************************************************************)
(* The downlink: the payload manager of the Linux daemon (FeedModem and    *)
(* what it goes by: OnStatus, the hold after a change of the link, the     *)
(* pass emulation) against the modem application and the receiver of       *)
(* Core 1.  The manager never sees the link: it knows the last STATUS and  *)
(* an estimate of the modem's queue.                                       *)
(*                                                                         *)
(* Time is counted in ticks.  In one tick the modem sends some parts of    *)
(* frames and the daemon's loop comes around at least once; the STATUS of  *)
(* a tick may be made anywhere in that loop.  What a frame carries is left *)
(* to TmFrame; the configuration messages to PayloadCtl.                   *)
(*                                                                         *)
(* link, boot, heard and waited are history: they number the links and the *)
(* firmware instances and say which link the last good frame came over,    *)
(* and no other variable depends on them.                                  *)
(*                                                                         *)
(* A definition whose name starts with Faulty_ is a plausible mistake in   *)
(* the definition that follows it; no specification uses it.               *)
(***************************************************************************)
EXTENDS Acm

CONSTANTS
  kLinkSettle,      \* kLinkSettleMs in ticks
  StatusPeriod,     \* STATUS_PERIOD_MS
  Parts,            \* parts of a tick the sample path is followed in
  LockTime,         \* 2 * SATLINK_FRAME_MAX_SYMBOLS at 6 kSym/s, in parts
  FrameTime,        \* time a frame of each MODCOD is on the air, in parts
  Unit,             \* what a frame counts in the estimate
  TxQueue,          \* SATLINK_MODEM_APP_TX_QUEUE
  MaxFramesQueued,  \* config.max_frames_queued
  Levels,           \* Es/N0 the channel emulator is set to
  Nothing,          \* Es/N0 at which nothing is received
  Smoothing,        \* 1 / ESN0_SMOOTHING
  Backlog,          \* bound of the model: frames of packets waiting
  Events,           \* bound of the model: telecommands and crashes
  Patience          \* ticks a frame may wait for a modem that could send it

ASSUME DownlinkAssumption ==
  /\ {kLinkSettle, StatusPeriod, Parts, LockTime, Smoothing, TxQueue, MaxFramesQueued}
       \subseteq Nat \ {0}
  /\ FrameTime \in [Modcods -> Nat \ {0}]
  /\ \A m \in Modcods : (Unit * Parts) % FrameTime[m] = 0
  /\ Nothing \notin Levels

VARIABLES
  mgr,      \* payload manager: status, estimate, hold, channel_ and configuration
  pass,     \* pass emulation: off, rising, climbing, sinking, setting
  backlog,  \* frames the multiplexer could fill
  modem,    \* modem application and receiver of Core 1
  channel,  \* channel emulator: Es/N0 and number of the setting
  prev,     \* channel at the last tick
  report,   \* STATUS on its way to the daemon, at most one
  due,      \* a STATUS is due in this tick
  turn,     \* where the daemon's loop is
  left,     \* telecommands and crashes the model still allows
  waited    \* history: ticks the link has been there and no frame was

vars == <<mgr, pass, backlog, modem, channel, prev, report, due, turn, left, waited>>

Low == Min(Modcods)
High == Max(Modcods)

(* A hold outlasts a STATUS period and the receiver's lock on a channel    *)
(* that is gone (2000 ms, 1000 ms, 768 ms); a new instance begins with a   *)
(* frame of more than one part.                                            *)
ASSUME SettleAssumption ==
  Parts * (kLinkSettle - StatusPeriod) > LockTime /\ FrameTime[Low] > 1

NoStatus == [locked |-> FALSE, depth |-> 0, modcod |-> Low, heard |-> 0, boot |-> 0]

(* The firmware's defaults (satlink_modem_app_init). *)
Fresh(n) == [core |-> "up", boot |-> n, conf |-> Low, auto |-> FALSE,
             acm |-> InitController(Low, High), tx |-> Low, air |-> Low, todo |-> FrameTime[Low],
             depth |-> 0, overflow |-> FALSE, locked |-> FALSE, since |-> LockTime,
             esn0 |-> Nothing, heard |-> 0, clock |-> StatusPeriod]

(* PayloadManager::Start has configured the modem. *)
Init ==
  /\ \E m \in Modcods, a \in BOOLEAN, e \in Levels :
       /\ mgr = [status |-> NoStatus, estimate |-> 0, hold |-> 0, conf |-> m, auto |-> a,
                 level |-> e]
       /\ modem = [Fresh(1) EXCEPT !.conf = m, !.auto = a]
       /\ channel = [level |-> e, link |-> 1]
  /\ pass = "off"
  /\ backlog = 0
  /\ prev = channel
  /\ report = {}
  /\ due = FALSE
  /\ turn = [at |-> "poll", stepped |-> FALSE, lag |-> 0]
  /\ left = Events
  /\ waited = 0

-----------------------------------------------------------------------------
(* The modem: one tick of the sample path.                                 *)

(* hunt() and header_symbol(): the sync marker and the header get through  *)
(* wherever anything does; both are spread.                                *)
Found(c) == c.level # Nothing

Decodes(m, c) == c.level >= Threshold[m.air]

(* The first frame's measurement is taken as it is, of the others a part   *)
(* of the difference, rounded up: it comes as close as is asked for.       *)
Smoothed(m, e) ==
  IF m.esn0 = Nothing THEN e
  ELSE IF e >= m.esn0 THEN m.esn0 - (m.esn0 - e) \div Smoothing
  ELSE m.esn0 + (e - m.esn0) \div Smoothing

(* finish_frame: any frame found moves the measurement, one that decodes   *)
(* locks the receiver.                                                     *)
Hear(m, c) ==
  IF ~Found(c) THEN m
  ELSE IF ~Decodes(m, c) THEN [m EXCEPT !.esn0 = Smoothed(m, c.level)]
  ELSE [m EXCEPT !.esn0 = Smoothed(m, c.level), !.locked = TRUE, !.since = 0,
                 !.heard = c.link]

(* symbol(): no good frame for LockTime and the lock is gone. *)
Silence(m) ==
  LET since == Min({m.since + 1, LockTime})
  IN  [m EXCEPT !.since = since, !.locked = @ /\ since < LockTime]

(* The MODCOD chosen once, not per frame. *)
Faulty_NextFrame(m) ==
  [m EXCEPT !.air = m.tx, !.todo = FrameTime[m.tx], !.depth = IF @ > 0 THEN @ - 1 ELSE 0]

(* next_frame(): the MODCOD of the frame that starts, DATA if one waits. *)
NextFrame(m) ==
  LET acm == IF m.auto THEN Update(m.acm, m.esn0, m.locked) ELSE m.acm
      tx  == IF m.auto THEN acm.current ELSE m.conf
  IN  [m EXCEPT !.acm = acm, !.tx = tx, !.air = tx, !.todo = FrameTime[tx],
                !.depth = IF @ > 0 THEN @ - 1 ELSE 0]

(* One part; a frame that ends in it met one of the channels cs. *)
Part(m, cs) ==
  IF m.todo > 1
    THEN {[Silence(m) EXCEPT !.todo = @ - 1]}
    ELSE {NextFrame(Hear(Silence(m), c)) : c \in cs}

(* The parts of a tick: a frame that ends just after a change of the       *)
(* channel may still be heard as it was sent.                              *)
Sent[n \in 0 .. Parts] ==
  IF n = 0 THEN {modem}
  ELSE UNION {Part(m, IF n = 1 THEN {prev, channel} ELSE {channel}) : m \in Sent[n - 1]}

Visible(p) == p \in {"climbing", "sinking"}

(* The link carries the MODCOD the next frame would have. *)
Reachable ==
  /\ pass = "off" \/ Visible(pass)
  /\ modem.core = "up"
  /\ Threshold[IF modem.auto THEN Low ELSE modem.conf] <= channel.level

(* Time passes once the daemon's loop has come around. *)
Tick ==
  /\ turn.at = "poll" /\ turn.stepped /\ ~due
  /\ turn' = [at |-> "poll", stepped |-> FALSE, lag |-> 1]
  /\ mgr' = [mgr EXCEPT !.hold = IF @ > 0 THEN @ - 1 ELSE 0]
  /\ prev' = channel
  /\ waited' = IF Reachable /\ backlog > 0 /\ modem.depth = 0
                  THEN Min({waited + 1, Patience + 1}) ELSE 0
  /\ IF modem.core = "up"
       THEN /\ \E m \in Sent[Parts] :
                 modem' = [m EXCEPT !.clock = IF @ = 1 THEN StatusPeriod ELSE @ - 1]
            /\ due' = (modem.clock = 1)
       ELSE UNCHANGED <<modem, due>>
  /\ UNCHANGED <<pass, backlog, channel, report, left>>

(* satlink_modem_app_tick: the STATUS of the moment it is made. *)
Report ==
  /\ due
  /\ due' = FALSE
  /\ report' = {[locked |-> modem.locked, depth |-> modem.depth, modcod |-> modem.tx,
                 heard |-> modem.heard, boot |-> modem.boot]}
  /\ turn' = [turn EXCEPT !.stepped = FALSE]
  /\ UNCHANGED <<mgr, pass, backlog, modem, channel, prev, left, waited>>

-----------------------------------------------------------------------------
(* The daemon's loop: PayloadManager::Step.                                *)

Queued(n) == Min({backlog + n, Backlog})

(* MSG_CHANNEL: the emulator takes the setting when Core 1 is there. *)
Emulate(e, renumber) ==
  channel' = IF modem.core = "up"
               THEN [level |-> e, link |-> IF renumber THEN channel.link + 1 ELSE channel.link]
               ELSE channel

(* ModemClient::Poll and OnStatus: the estimate starts again from the      *)
(* STATUS, and a change of the lock is an event to send.                   *)
Noted ==
  IF report = {} THEN mgr
  ELSE LET s == CHOOSE s \in report : TRUE
       IN  [mgr EXCEPT !.status = s, !.estimate = s.depth * Unit]

LockEvents == IF Noted.status.locked # mgr.status.locked THEN 1 ELSE 0

Hold(m) == [m EXCEPT !.hold = kLinkSettle]

(* UpdatePass, at most once in kPassUpdateMs. *)
NoUpdate ==
  /\ mgr' = Noted
  /\ backlog' = Queued(LockEvents)
  /\ UNCHANGED <<pass, channel>>

(* Es/N0 climbs to the culmination of the pass and sinks again. *)
Course(p) ==
  CASE p = "rising" -> {Nothing} \X {"rising"} \cup Levels \X {"climbing"}
    [] p = "climbing" -> {e \in Levels : e >= channel.level} \X {"climbing"}
                         \cup {channel.level} \X {"sinking"}
    [] p = "sinking" -> {e \in Levels : e <= channel.level} \X {"sinking"}
                        \cup {<<Nothing, "setting">>}
    [] OTHER -> {<<Nothing, "setting">>}

TrackPass ==
  /\ pass # "off"
  /\ \E c \in Course(pass) :
       /\ pass' = c[2]
       /\ backlog' = Queued(LockEvents + (IF Visible(c[2]) # Visible(pass) THEN 1 ELSE 0))
       /\ Emulate(c[1], FALSE)
  /\ mgr' = Noted

(* StopPass at the end of the tail: the channel of before the pass. *)
EndPass ==
  /\ pass = "setting"
  /\ pass' = "off"
  /\ mgr' = Hold(Noted)
  /\ Emulate(mgr.level, TRUE)
  /\ backlog' = Queued(LockEvents)

UpdatePass == NoUpdate \/ TrackPass \/ EndPass

(* The first half of a Step: what the modem sent, then the pass. *)
Poll ==
  /\ turn.at = "poll" /\ ~turn.stepped
  /\ turn' = [turn EXCEPT !.at = "feed"]
  /\ report' = {}
  /\ UpdatePass
  /\ UNCHANGED <<modem, due, prev, left, waited>>

Faulty_MayFeed == mgr.status.locked /\ (pass = "off" \/ Visible(pass))

(* What FeedModem goes by: the last STATUS, the pass and the hold. *)
MayFeed == mgr.status.locked /\ (pass = "off" \/ Visible(pass)) /\ mgr.hold = 0

(* The estimate less what the modem sends in the time since the last call. *)
Drained ==
  Max({0, mgr.estimate - turn.lag * ((Unit * Parts) \div FrameTime[mgr.status.modcod])})

Faulty_Offered == Min({backlog, MaxFramesQueued})

(* Frames the loop of FeedModem offers before the estimate is full. *)
Offered == Min({backlog, Max({0, (MaxFramesQueued * Unit - Drained + Unit - 1) \div Unit})})

(* MSG_TX_FRAME: the modem counts what does not fit and drops it. *)
Accept(n) ==
  modem' = [modem EXCEPT !.depth = Min({@ + n, TxQueue}),
                         !.overflow = @ \/ modem.depth + n > TxQueue]

(* Frames handed to the modem, all of them while it runs. *)
FeedModem ==
  /\ turn.at = "feed"
  /\ turn' = [at |-> "poll", stepped |-> report = {}, lag |-> 0]
  /\ CASE ~MayFeed -> UNCHANGED <<mgr, backlog, modem>>
       [] MayFeed /\ modem.core = "offline" ->  \* SendFrame fails, the frame is gone
            /\ mgr' = [mgr EXCEPT !.estimate = Drained]
            /\ backlog' = backlog - Min({Offered, 1})
            /\ UNCHANGED modem
       [] OTHER ->
            /\ mgr' = [mgr EXCEPT !.estimate = Drained + Offered * Unit]
            /\ backlog' = backlog - Offered
            /\ IF modem.core = "up" THEN Accept(Offered) ELSE UNCHANGED modem
  /\ UNCHANGED <<pass, channel, report, due, prev, left, waited>>

-----------------------------------------------------------------------------
(* Telecommands, packets to send, and the firmware's failures.             *)

(* A command is the first thing in a Step, so the rest of it follows. *)
Commanded ==
  /\ turn.at = "poll"
  /\ turn' = [turn EXCEPT !.stepped = FALSE]
  /\ waited' = 0
  /\ UNCHANGED prev

Counted == left > 0 /\ left' = left - 1

SetChannel(e) ==
  /\ Commanded /\ Counted
  /\ mgr' = [Hold(mgr) EXCEPT !.level = e]
  /\ pass' = "off"
  /\ Emulate(e, TRUE)
  /\ UNCHANGED <<backlog, modem, report, due>>

(* ACM off, and STATUS has the MODCOD of before; then the MODCOD, which is *)
(* the next frame's.                                                       *)
SetModcod(m) ==
  /\ Commanded /\ Counted
  /\ mgr' = [Hold(mgr) EXCEPT !.conf = m, !.auto = FALSE]
  /\ modem' = IF modem.core = "up"
                THEN [modem EXCEPT !.auto = FALSE, !.tx = modem.conf, !.conf = m] ELSE modem
  /\ UNCHANGED <<pass, backlog, channel, report, due>>

StartPass ==
  /\ Commanded /\ Counted
  /\ pass' = "rising"
  /\ Emulate(Nothing, FALSE)
  /\ UNCHANGED <<mgr, backlog, modem, report, due>>

StopPass ==
  /\ Commanded
  /\ pass # "off"
  /\ pass' = "off"
  /\ mgr' = Hold(mgr)
  /\ Emulate(mgr.level, TRUE)
  /\ UNCHANGED <<backlog, modem, report, due, left>>

(* Stop and start: a new instance and new rings; Start() configures it. *)
RestartModem ==
  /\ Commanded /\ Counted
  /\ modem' = [Fresh(modem.boot + 1) EXCEPT !.conf = mgr.conf, !.auto = mgr.auto]
  /\ channel' = [level |-> mgr.level, link |-> channel.link + 1]
  /\ backlog' = Queued(1)
  /\ report' = {} /\ due' = FALSE
  /\ UNCHANGED <<mgr, pass>>

(* Packets for the downlink, in any of the daemon's steps. *)
Emit ==
  /\ turn.at = "feed"
  /\ backlog < Backlog
  /\ backlog' = backlog + 1
  /\ UNCHANGED <<mgr, pass, modem, channel, report, turn, due, prev, left, waited>>

(* Core 1 stops; the rings take messages until the driver notices. *)
Crash ==
  /\ modem.core = "up" /\ Counted
  /\ modem' = [modem EXCEPT !.core = "dead"]
  /\ due' = FALSE
  /\ waited' = 0
  /\ UNCHANGED <<mgr, pass, backlog, channel, report, turn, prev>>

Notice ==
  /\ modem.core = "dead"
  /\ modem' = [modem EXCEPT !.core = "offline"]
  /\ UNCHANGED <<mgr, pass, backlog, channel, report, turn, due, prev, left, waited>>

(* The driver starts Core 1 again; the new instance has its defaults and   *)
(* the daemon is not told.                                                 *)
WatchdogRestart ==
  /\ modem.core = "offline"
  /\ modem' = Fresh(modem.boot + 1)
  /\ channel' = [level |-> Max(Levels), link |-> channel.link + 1]
  /\ report' = {}
  /\ UNCHANGED <<mgr, pass, backlog, turn, due, prev, left, waited>>

(* The loops of the two cores. *)
Loop == Tick \/ Report \/ Poll \/ FeedModem

Next ==
  \/ Loop
  \/ \E e \in Levels : SetChannel(e)
  \/ \E m \in Modcods : SetModcod(m)
  \/ StartPass \/ StopPass \/ RestartModem \/ Emit \/ Crash \/ Notice
  \/ WatchdogRestart

Spec == Init /\ [][Next]_vars

-----------------------------------------------------------------------------
(* The modem's queue is fed from an estimate and a STATUS that may already *)
(* be old when it is read.  A frame that does not fit is dropped, and only *)
(* a counter no STATUS carries says so (modem_app.c, TX_FRAME).  That can  *)
(* happen only while the modem sends slower than the STATUS said: never    *)
(* from feeding alone, nor from restarts, holds and passes.                *)
DroppedInFade ==
  [][~modem.overflow /\ modem'.overflow
       => FrameTime[modem.air] > FrameTime[mgr.status.modcod]]_vars

(* About to feed the firmware that sent the STATUS. *)
Feeding ==
  turn.at = "feed" /\ MayFeed /\ modem.core = "up" /\ mgr.status.boot = modem.boot

(* After a change of the channel the daemon waits two STATUS periods, "so  *)
(* the lock state it goes by describes the new link": what it feeds on is  *)
(* a lock of the channel as it is now, for the same firmware instance.     *)
SettledLink ==
  Feeding /\ pass = "off" => mgr.status.heard = channel.link

(* Store and forward goes on: once the link carries the MODCOD in use and   *)
(* stays that way, what is queued reaches the modem within Patience,        *)
(* whatever lock, hold, pass and restarts came before.                      *)
PromptAgain == waited <= Patience
================================================================================
