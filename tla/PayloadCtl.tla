------------------------------ MODULE PayloadCtl -------------------------------
(***************************************************************************)
(* The control side of the payload: telecommands arrive in datagrams, the  *)
(* payload manager of the Linux daemon checks and executes them, and what  *)
(* they set goes to the modem application of Core 1 in messages through    *)
(* the ring.  A message that finds the ring full is tried again for a      *)
(* second, so Core 1 may work, die or come back between any two messages   *)
(* of one command.  What the manager does with frames is in Downlink.      *)
(*                                                                         *)
(* done, told, heard, commanders and cmd.boot are history.  A definition   *)
(* whose name starts with Faulty_ is a plausible mistake in the definition *)
(* after it.                                                               *)
(***************************************************************************)
EXTENDS Sequences, SequencesExt, Integers

CONSTANTS
  Stations,    \* senders of datagrams
  Modcods,     \* 0 .. SATLINK_MODCOD_COUNT - 1
  Loops,       \* SATLINK_LOOP_*
  Channels,    \* noise and gain of the channel emulator
  Sids,        \* housekeeping structures
  Options,     \* command lines of the daemon: --modcod, --loopback, --no-acm
  Functions,   \* ST[08] functions and other requests of this instance
  Capacity,    \* bound of the model: messages the ring to Core 1 holds
  Telecommands,\* bound of the model: datagrams
  Boots,       \* bound of the model: firmware instances
  None

ASSUME PayloadAssumption ==
  /\ Modcods # {} /\ \A m \in Modcods : m \in Nat /\ 0 .. m \subseteq Modcods
  /\ None \notin Stations \cup Channels
  /\ \A tc \in Functions : {"f", "arg", "ok", "ours", "from"} \subseteq DOMAIN tc
  /\ Capacity \in Nat \ {0} /\ Telecommands \in Nat /\ Boots \in Nat \ {0}

VARIABLES
  mgr,     \* config_, acm_config_, channel_ and the pass of the payload manager
  hk,      \* structures reported periodically, and those whose period is over
  cmd,     \* command in execution: messages still to send, outcome
  socket,  \* datagrams that wait
  dest,    \* where telemetry goes
  ring,    \* messages to Core 1
  core,    \* up, dead (the driver has not noticed), offline
  fw,      \* modem application: configuration and number of the instance
  left,    \* datagrams and failures of Core 1 the model still allows
  done,    \* history: settings whose command was reported as completed
  told,    \* history: instance that got the whole configuration
  heard, commanders  \* history: who got telemetry, who sent a telecommand

vars == <<mgr, hk, cmd, socket, dest, ring, core, fw, left, done, told, heard, commanders>>

history == <<done, told>>
ground == <<heard, commanders>>

High == CHOOSE m \in Modcods : m + 1 \notin Modcods

Acm == [auto : BOOLEAN, lo : Modcods, hi : Modcods]

-----------------------------------------------------------------------------
(* The messages (libs/amp/src/msg.c): what is encoded is what is decoded.  *)

Time == [type |-> "TIME"]
ModemConfig(m) == [type |-> "MODEM_CONFIG", modcod |-> m.modcod, loopback |-> m.loopback]
Channel(c) == [type |-> "CHANNEL", channel |-> c]
AcmConfig(a) == [type |-> "ACM_CONFIG", auto |-> a.auto, lo |-> a.lo, hi |-> a.hi]

(* satlink_modem_app_init *)
Fresh(n) == [modcod |-> 1, loopback |-> "analog", channel |-> "clear",
             acm |-> [auto |-> FALSE, lo |-> 0, hi |-> High], boot |-> n]

(* satlink_modem_app_on_msg; bounds and MODCODs were checked by the sender. *)
OnMsg(m) ==
  CASE m.type = "MODEM_CONFIG" -> [fw EXCEPT !.modcod = m.modcod, !.loopback = m.loopback]
    [] m.type = "CHANNEL"      -> [fw EXCEPT !.channel = m.channel]
    [] m.type = "ACM_CONFIG"   -> [fw EXCEPT !.acm = [auto |-> m.auto, lo |-> m.lo, hi |-> m.hi]]
    [] OTHER                   -> fw

-----------------------------------------------------------------------------
(* What is sent, and whether the command fails when it cannot be.          *)

Must(m) == [msg |-> m, must |-> TRUE]
May(m) == [msg |-> m, must |-> FALSE]

Idle == cmd.f = "none"

NoCommand == [f |-> "none", arg |-> None, todo |-> <<>>, outcome |-> "none", boot |-> 0]

(* A command that goes on to send its messages. *)
Execute(f, arg, m, todo) ==
  /\ mgr' = m
  /\ cmd' = [f |-> f, arg |-> arg, todo |-> todo, outcome |-> "ok", boot |-> 0]

(* Start: time, modem, ACM (its bounds are the widest again), channel. *)
Configured(m) == [m EXCEPT !.acm = [auto |-> @.auto, lo |-> 0, hi |-> High]]
StartMessages(m) ==
  <<May(Time), May(ModemConfig(m)), May(AcmConfig(Configured(m).acm)), May(Channel(m.channel))>>

Init ==
  /\ \E o \in Options :
       mgr = Configured([modcod |-> o.modcod, loopback |-> o.loopback, channel |-> "clear",
                         pass |-> FALSE, acm |-> [auto |-> o.acm, lo |-> 0, hi |-> High]])
  /\ cmd = [NoCommand EXCEPT !.f = "start", !.todo = StartMessages(mgr), !.outcome = "ok"]
  /\ hk = [on |-> {}, over |-> {}]
  /\ socket = <<>>
  /\ dest = None
  /\ ring = <<>>
  /\ core = "up"
  /\ fw = Fresh(1)
  /\ left = [telecommands |-> Telecommands, boots |-> Boots - 1]
  /\ done = [modcod |-> None, loopback |-> None, auto |-> None, bounds |-> None, channel |-> None]
  /\ told = 1
  /\ heard = {}
  /\ commanders = {}

(* AmpDevice::Send: EAGAIN is tried again for a second, and then fails. *)
Send ==
  /\ cmd.todo # <<>>
  /\ core # "offline" /\ Len(ring) < Capacity
  /\ ring' = Append(ring, Head(cmd.todo).msg)
  /\ cmd' = [cmd EXCEPT !.todo = Tail(@), !.boot = fw.boot]
  /\ UNCHANGED <<mgr, hk, socket, dest, core, fw, left, history, ground>>

SendFails ==
  /\ cmd.todo # <<>>
  /\ core = "offline" \/ Len(ring) = Capacity
  /\ cmd' = IF Head(cmd.todo).must THEN [cmd EXCEPT !.todo = <<>>, !.outcome = "failed"]
                                   ELSE [cmd EXCEPT !.todo = Tail(@)]
  /\ told' = 0
  /\ done' = IF Head(cmd.todo).msg.type = "CHANNEL" THEN [done EXCEPT !.channel = None] ELSE done
  /\ UNCHANGED <<mgr, hk, socket, dest, ring, core, fw, left, ground>>

(* The settings a command promises with its completion report. *)
Promised(c) ==
  CASE c.f = "modcod"   -> [modcod |-> c.arg, auto |-> FALSE]
    [] c.f = "acm"      -> [auto |-> c.arg.auto, bounds |-> <<c.arg.lo, c.arg.hi>>]
    [] c.f = "loopback" -> [loopback |-> c.arg]
    [] c.f = "channel"  -> [channel |-> c.arg]
    [] OTHER            -> <<>>

(* ST[1,7] or ST[1,8]; the main loop goes on. *)
Complete ==
  /\ ~Idle /\ cmd.todo = <<>>
  /\ cmd' = [NoCommand EXCEPT !.outcome = cmd.outcome]
  /\ done' = [s \in DOMAIN done |->
               IF s \notin DOMAIN Promised(cmd) THEN done[s]
               ELSE IF cmd.outcome = "ok" THEN [value |-> Promised(cmd)[s], boot |-> cmd.boot]
               ELSE None]
  /\ UNCHANGED <<mgr, hk, socket, dest, ring, core, fw, left, told, ground>>

-----------------------------------------------------------------------------
(* Telecommands (Execute, ExecuteFunction and the control functions).      *)

SetModcod(m) ==
  LET n == [mgr EXCEPT !.modcod = m, !.acm.auto = FALSE]
  IN  Execute("modcod", m, n, <<Must(AcmConfig(n.acm)), Must(ModemConfig(n))>>)

SetAcm(a) == Execute("acm", a, [mgr EXCEPT !.acm = a], <<Must(AcmConfig(a))>>)

(* StopPass: back to the channel of before; nobody looks whether it went.  *)
Faulty_Restore == <<>>
Restore == IF mgr.pass THEN <<May(Channel(mgr.channel))>> ELSE <<>>

SetChannel(c) ==
  Execute("channel", c, [mgr EXCEPT !.channel = c, !.pass = FALSE],
          Restore \o <<Must(Channel(c))>>)

Faulty_SetLoopback(l) ==
  Execute("loopback", l, [mgr EXCEPT !.loopback = l],
          <<Must(ModemConfig([modcod |-> 1, loopback |-> l]))>>)

SetLoopback(l) ==
  LET n == [mgr EXCEPT !.loopback = l]
  IN  Execute("loopback", l, n, <<Must(ModemConfig(n))>>)

(* StartPass and its first UpdatePass. *)
StartPass == Execute("pass", None, [mgr EXCEPT !.pass = TRUE], <<May(Channel("pass"))>>)

StopPass == Execute("stop", None, [mgr EXCEPT !.pass = FALSE], Restore)

(* A stop and a start of Core 1: new rings, a new instance with its        *)
(* defaults, which Start() configures.                                     *)
NewInstance ==
  /\ fw' = Fresh(fw.boot + 1)
  /\ ring' = <<>>
  /\ left' = [left EXCEPT !.boots = @ - 1]

RestartModem ==
  /\ left.boots > 0
  /\ \/ /\ NewInstance
        /\ core' = "up"
        /\ told' = fw.boot + 1
        /\ Execute("restart", None, Configured(mgr), StartMessages(mgr))
     \/ /\ \/ core' = "offline" /\ ring' = <<>>     \* the start failed after the stop
           \/ UNCHANGED <<core, ring>>            \* not configured (-ENOTSUP), or no stop
        /\ cmd' = [NoCommand EXCEPT !.f = "restart", !.outcome = "failed"]
        /\ UNCHANGED <<mgr, told, fw, left>>

(* The parts of a request after its header, checked before any is applied. *)
Valid(tc) ==
  CASE tc.f = "modcod"   -> tc.arg \in Modcods
    [] tc.f = "acm"      -> tc.arg \in Acm /\ tc.arg.lo <= tc.arg.hi
    [] tc.f = "loopback" -> tc.arg \in Loops
    [] tc.f = "report"   -> tc.arg.sids # {} /\ tc.arg.sids \subseteq Sids
    [] OTHER             -> TRUE

(* ST[3,5], ST[3,6]: switch the periodic reports of structures. *)
Report(r) ==
  /\ hk' = [hk EXCEPT !.on = IF r.on THEN @ \cup r.sids ELSE @ \ r.sids]
  /\ Execute("report", r, mgr, <<>>)

(* A telecommand that is refused: corrupt, for another application or with *)
(* bad data.  A failure is always reported.                                *)
Refuse ==
  /\ cmd' = [NoCommand EXCEPT !.outcome = "refused"]
  /\ UNCHANGED <<mgr, hk, ring, core, fw, left, told>>

Accept(tc) ==
  /\ IF tc.f = "report" THEN Report(tc.arg) ELSE UNCHANGED hk
  /\ \/ tc.f = "report"
     \/ tc.f = "modcod" /\ SetModcod(tc.arg)
     \/ tc.f = "acm" /\ SetAcm(tc.arg)
     \/ tc.f = "channel" /\ SetChannel(tc.arg)
     \/ tc.f = "loopback" /\ SetLoopback(tc.arg)
     \/ tc.f = "pass" /\ StartPass
     \/ tc.f = "stop" /\ StopPass
     \/ tc.f = "restart" /\ RestartModem
     \/ tc.f = "ping" /\ Execute("ping", None, mgr, <<>>)
  /\ tc.f # "restart" => UNCHANGED <<ring, core, fw, left, told>>

(* Only a well-formed telecommand moves the downlink to its sender (with   *)
(* --gs nothing does).                                                     *)
Faulty_Redirected(tc) == tc.from
Redirected(tc) == IF tc.ok THEN tc.from ELSE dest

(* ReceiveTc and HandleTc. *)
HandleTc ==
  /\ Idle /\ socket # <<>>
  /\ socket' = Tail(socket)
  /\ LET tc == Head(socket)
     IN  /\ dest' = Redirected(tc)
         /\ IF tc.ok /\ tc.ours /\ Valid(tc) THEN Accept(tc) ELSE Refuse
  /\ UNCHANGED <<done, ground>>

(* A datagram: a telecommand, or something that is none.  What comes while  *)
(* a command is executed is read after it.                                 *)
Datagram(s, tc) ==
  /\ Idle
  /\ left.telecommands > 0
  /\ left' = [left EXCEPT !.telecommands = @ - 1]
  /\ socket' = Append(socket, [tc EXCEPT !.from = s])
  /\ commanders' = IF tc.ok THEN commanders \cup {s} ELSE commanders
  /\ UNCHANGED <<mgr, hk, cmd, dest, ring, core, fw, history, heard>>

-----------------------------------------------------------------------------
(* The rest of a Step: pass, housekeeping, the packets that came through.  *)

TrackPass ==
  /\ Idle /\ mgr.pass
  /\ \/ Execute("track", None, mgr, <<May(Channel("pass"))>>)
     \/ Execute("track", None, [mgr EXCEPT !.pass = FALSE],      \* its end
                <<May(Channel("pass")), May(Channel(mgr.channel))>>)
  /\ UNCHANGED <<hk, socket, dest, ring, core, fw, left, history, ground>>

PeriodOver(s) ==
  /\ Idle
  /\ s \in hk.on \ hk.over
  /\ hk' = [hk EXCEPT !.over = @ \cup {s}]
  /\ UNCHANGED <<mgr, cmd, socket, dest, ring, core, fw, left, history, ground>>

UpdateHousekeeping ==
  /\ Idle
  /\ hk.on \cap hk.over # {}
  /\ hk' = [hk EXCEPT !.over = @ \ hk.on]
  /\ UNCHANGED <<mgr, cmd, socket, dest, ring, core, fw, left, history, ground>>

(* OnPacket and SendTm: what came through the link goes to the station of  *)
(* now, and nowhere while there is none.                                   *)
SendTm ==
  /\ Idle
  /\ heard' = heard \cup ({dest} \ {None})
  /\ UNCHANGED <<mgr, hk, cmd, socket, dest, ring, core, fw, left, history, commanders>>

-----------------------------------------------------------------------------
(* Core 1 and its driver.                                                  *)

DrainIpc ==
  /\ core = "up" /\ ring # <<>>
  /\ ring' = Tail(ring)
  /\ fw' = OnMsg(Head(ring))
  /\ UNCHANGED <<mgr, hk, cmd, socket, dest, core, left, history, ground>>

Crash ==
  /\ core = "up" /\ left.boots > 0
  /\ core' = "dead"
  /\ UNCHANGED <<mgr, hk, cmd, socket, dest, ring, fw, left, history, ground>>

Notice ==
  /\ core = "dead"
  /\ core' = "offline"
  /\ UNCHANGED <<mgr, hk, cmd, socket, dest, ring, fw, left, history, ground>>

WatchdogRestart ==
  /\ core = "offline" /\ left.boots > 0
  /\ core' = "up"
  /\ NewInstance
  /\ UNCHANGED <<mgr, hk, cmd, socket, dest, history, ground>>

Manager == Send \/ SendFails \/ Complete \/ HandleTc

Next ==
  \/ Manager
  \/ \E s \in Stations, tc \in Functions : Datagram(s, tc)
  \/ TrackPass
  \/ \E s \in Sids : PeriodOver(s)
  \/ UpdateHousekeeping \/ SendTm
  \/ DrainIpc \/ Crash \/ Notice \/ WatchdogRestart

Spec == Init /\ [][Next]_vars

-----------------------------------------------------------------------------
Settled == Idle /\ core = "up" /\ ring = <<>>

Setting(s) ==
  CASE s = "modcod"   -> fw.modcod
    [] s = "loopback" -> fw.loopback
    [] s = "auto"     -> fw.acm.auto
    [] s = "bounds"   -> <<fw.acm.lo, fw.acm.hi>>
    [] s = "channel"  -> fw.channel

(* What a command reported as completed (ST[1,7]) has set is what the modem *)
(* works with, until another command changes it or the firmware instance   *)
(* is another, also when the instance changed between two messages of the  *)
(* command or commands for other settings failed.  Only the end of a pass  *)
(* may leave the channel wrong, when its message is lost.                  *)
DoneIsDone ==
  Settled => \A s \in DOMAIN done :
               done[s] # None /\ done[s].boot = fw.boot /\ (s = "channel" => ~mgr.pass)
                 => Setting(s) = done[s].value

(* The daemon knows the modem only by what it has sent: SCPI queries and   *)
(* the next MODEM_CONFIG are answered from config_.  For an instance that  *)
(* Start() has configured, with no message lost since, that is what the    *)
(* modem has, after passes, restarts and refused commands as well.         *)
ConfigAgrees ==
  Settled /\ told = fw.boot =>
    /\ fw.modcod = mgr.modcod /\ fw.loopback = mgr.loopback
    /\ fw.acm = mgr.acm
    /\ ~mgr.pass => fw.channel = mgr.channel

(* posix_io.cpp: "a stray or corrupt datagram must not redirect the        *)
(* downlink": telemetry reaches nobody who never sent a telecommand.       *)
OnlyCommanders == heard \subseteq commanders

================================================================================
