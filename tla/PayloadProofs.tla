---------------------------- MODULE PayloadProofs ----------------------------
(***************************************************************************)
(* What the control side of the payload promises, for any stations,        *)
(* settings, size of the ring to Core 1 and number of firmware instances:  *)
(* a setting that was reported as done is in effect, the daemon knows what *)
(* the modem works with, and only who commands hears telemetry.            *)
(*                                                                         *)
(* The argument is about the last message of each kind on its way: Carried *)
(* says which value of a setting the modem will have when the ring is      *)
(* empty.                                                                  *)
(***************************************************************************)
EXTENDS PayloadCtl, SequenceTheorems, TLAPS

Settings == {"modcod", "loopback", "auto", "bounds", "channel"}

(* The kind of message that sets s, and what it sets it to. *)
Kind(s) ==
  CASE s \in {"modcod", "loopback"} -> "MODEM_CONFIG"
    [] s \in {"auto", "bounds"}     -> "ACM_CONFIG"
    [] OTHER                        -> "CHANNEL"

About(m, s) == m.type = Kind(s)

Value(m, s) ==
  CASE s = "modcod"   -> m.modcod
    [] s = "loopback" -> m.loopback
    [] s = "auto"     -> m.auto
    [] s = "bounds"   -> <<m.lo, m.hi>>
    [] OTHER          -> m.channel

(* What a firmware with configuration f works with. *)
Has(f, s) ==
  CASE s = "modcod"   -> f.modcod
    [] s = "loopback" -> f.loopback
    [] s = "auto"     -> f.acm.auto
    [] s = "bounds"   -> <<f.acm.lo, f.acm.hi>>
    [] OTHER          -> f.channel

(* What the manager of configuration m has last set. *)
Wants(m, s) ==
  CASE s = "modcod"   -> m.modcod
    [] s = "loopback" -> m.loopback
    [] s = "auto"     -> m.acm.auto
    [] s = "bounds"   -> <<m.acm.lo, m.acm.hi>>
    [] OTHER          -> m.channel

(* With the messages r on their way to f, setting s comes to be v. *)
Carried(r, f, s, v) ==
  /\ (\A i \in 1 .. Len(r) : ~About(r[i], s)) => Has(f, s) = v
  /\ \A i \in 1 .. Len(r) :
       About(r[i], s) /\ (\A j \in i + 1 .. Len(r) : ~About(r[j], s)) => Value(r[i], s) = v

ToSend(c, s) == \E i \in 1 .. Len(c.todo) : About(c.todo[i].msg, s)

Promises(c) == DOMAIN Promised(c)

-----------------------------------------------------------------------------
(* The inductive invariant.                                                *)

AcmShape(a) == a = [auto |-> a.auto, lo |-> a.lo, hi |-> a.hi]

MgrShape(m) ==
  /\ m = [modcod |-> m.modcod, loopback |-> m.loopback, channel |-> m.channel,
          pass |-> m.pass, acm |-> m.acm]
  /\ AcmShape(m.acm)

FwShape(f) ==
  /\ f = [modcod |-> f.modcod, loopback |-> f.loopback, channel |-> f.channel,
          acm |-> f.acm, boot |-> f.boot]
  /\ AcmShape(f.acm)

Shape ==
  /\ MgrShape(mgr) /\ FwShape(fw)
  /\ fw.boot \in Nat \ {0}
  /\ told \in 0 .. fw.boot
  /\ cmd = [f |-> cmd.f, arg |-> cmd.arg, todo |-> cmd.todo, outcome |-> cmd.outcome,
            boot |-> cmd.boot]
  /\ cmd.boot \in 0 .. fw.boot
  /\ \E S : cmd.todo \in Seq(S)
  /\ \E S : ring \in Seq(S)
  /\ Idle => cmd.todo = <<>>
  /\ DOMAIN done = Settings
  /\ \A s \in Settings : done[s] # None => done[s].boot \in 0 .. fw.boot

(* A message still to send has what the manager wants; of those for the    *)
(* channel, the last one, and outside a pass.                              *)
Truthful(m, c) ==
  \A s \in Settings : \A i \in 1 .. Len(c.todo) :
    /\ About(c.todo[i].msg, s)
    /\ s = "channel" => /\ ~m.pass
                        /\ \A j \in i + 1 .. Len(c.todo) : ~About(c.todo[j].msg, s)
    => Value(c.todo[i].msg, s) = Wants(m, s)

(* What may be lost without a report of failure: messages for the channel, *)
(* and what a start sends.                                                 *)
Obliged(c) ==
  /\ \A i \in 1 .. Len(c.todo) :
       c.todo[i].must /\ ~About(c.todo[i].msg, "channel") => ~ToSend(c, "channel")
  /\ Promises(c) # {} =>
       \A i \in 1 .. Len(c.todo) :
         c.todo[i].must \/ (i < Len(c.todo) /\ About(c.todo[i].msg, "channel"))

(* Behind ConfigAgrees. *)
Agrees ==
  told = fw.boot /\ core # "offline" =>
    \A s \in Settings :
      ~ToSend(cmd, s) /\ (s = "channel" => ~mgr.pass) => Carried(ring, fw, s, Wants(mgr, s))

(* Behind DoneIsDone: the settings that no command is about to change ... *)
Kept ==
  \A s \in Settings \ Promises(cmd) :
    done[s] # None /\ done[s].boot = fw.boot =>
      /\ Wants(mgr, s) = done[s].value
      /\ core # "offline" /\ (s = "channel" => ~mgr.pass /\ ~ToSend(cmd, s)) =>
           Carried(ring, fw, s, done[s].value)

(* ... and those that one is.  Between its two messages, a new instance    *)
(* has the automatic mode off by itself.                                   *)
Promising ==
  cmd.outcome = "ok" =>
    \A s \in Promises(cmd) :
      /\ Wants(mgr, s) = Promised(cmd)[s]
      /\ s = "channel" => ~mgr.pass
      /\ cmd.todo # <<>> => \/ About(cmd.todo[Len(cmd.todo)].msg, s)
                            \/ s = "auto" /\ mgr.acm.auto = FALSE
      /\ core # "offline" /\ ~ToSend(cmd, s) /\ (cmd.boot = fw.boot \/ cmd.todo # <<>>) =>
           Carried(ring, fw, s, Wants(mgr, s))

(* Behind OnlyCommanders. *)
Addressed ==
  /\ \E S : socket \in Seq(S)
  /\ \A i \in 1 .. Len(socket) : socket[i].ok => socket[i].from \in commanders
  /\ dest \in commanders \cup {None}
  /\ heard \subseteq commanders

Control == Shape /\ Truthful(mgr, cmd) /\ Obliged(cmd) /\ Agrees /\ Kept /\ Promising

-----------------------------------------------------------------------------
(* The messages on their way.                                              *)

LEMMA SettingIs == \A s \in Settings : Setting(s) = Has(fw, s)
BY DEF Settings, Setting, Has

(* A message joins the others. *)
LEMMA Appended ==
  ASSUME NEW S, NEW r \in Seq(S), NEW m, NEW f, NEW s, NEW v,
         IF About(m, s) THEN Value(m, s) = v ELSE Carried(r, f, s, v)
  PROVE  Carried(Append(r, m), f, s, v)
<1> DEFINE q == Append(r, m)
           n == Len(r)
<1>1. n \in Nat /\ Len(q) = n + 1 /\ q[n + 1] = m /\ \A i \in 1 .. n : q[i] = r[i]
  OBVIOUS
<1> HIDE DEF q, n
<1>2. CASE About(m, s)
  <2>1. ~(\A i \in 1 .. Len(q) : ~About(q[i], s))
    BY <1>1, <1>2
  <2>2. ASSUME NEW i \in 1 .. Len(q), \A j \in i + 1 .. Len(q) : ~About(q[j], s)
        PROVE  i = n + 1
    BY <1>1, <1>2, <2>2
  <2>3. Value(q[n + 1], s) = v
    BY <1>1, <1>2
  <2> QED
    BY <2>1, <2>2, <2>3 DEF Carried, q
<1>3. CASE ~About(m, s)
  <2>1. Carried(r, f, s, v)
    BY <1>3
  <2>2. (\A i \in 1 .. Len(q) : ~About(q[i], s)) => Has(f, s) = v
    <3>1. (\A i \in 1 .. n : ~About(r[i], s)) => Has(f, s) = v
      BY <2>1 DEF Carried, n
    <3> QED
      BY <1>1, <3>1
  <2>3. ASSUME NEW i \in 1 .. Len(q), About(q[i], s),
               \A j \in i + 1 .. Len(q) : ~About(q[j], s)
        PROVE  Value(q[i], s) = v
    <3>1. i \in 1 .. n /\ q[i] = r[i]
      BY <1>1, <1>3, <2>3
    <3>2. \A j \in i + 1 .. n : ~About(r[j], s)
      BY <1>1, <2>3, <3>1
    <3> QED
      BY <2>1, <2>3, <3>1, <3>2 DEF Carried, n
  <2> QED
    BY <2>2, <2>3 DEF Carried, q
<1> QED
  BY <1>2, <1>3

(* The modem takes the first. *)
LEMMA Drained ==
  ASSUME NEW S, ring \in Seq(S), ring # <<>>, FwShape(fw), NEW s \in Settings, NEW v,
         Carried(ring, fw, s, v)
  PROVE  Carried(Tail(ring), OnMsg(Head(ring)), s, v)
<1> DEFINE q == Tail(ring)
           n == Len(ring)
           m == ring[1]
           f == OnMsg(m)
<1>1. /\ n \in Nat \ {0} /\ Len(q) = n - 1 /\ \A i \in 1 .. n - 1 : q[i] = ring[i + 1]
      /\ Head(ring) = m
  OBVIOUS
<1>2. Has(f, s) = IF About(m, s) THEN Value(m, s) ELSE Has(fw, s)
  <2>1. CASE m.type = "MODEM_CONFIG"
    BY <2>1 DEF OnMsg, FwShape, AcmShape, Has, About, Kind, Value, Settings
  <2>2. CASE m.type = "CHANNEL"
    BY <2>2 DEF OnMsg, FwShape, AcmShape, Has, About, Kind, Value, Settings
  <2>3. CASE m.type = "ACM_CONFIG"
    BY <2>3 DEF OnMsg, FwShape, AcmShape, Has, About, Kind, Value, Settings
  <2>4. CASE m.type \notin {"MODEM_CONFIG", "CHANNEL", "ACM_CONFIG"}
    BY <2>4 DEF OnMsg, FwShape, AcmShape, Has, About, Kind, Value, Settings
  <2> QED
    BY <2>1, <2>2, <2>3, <2>4
<1> HIDE DEF q, n, m, f
<1>3. ASSUME \A i \in 1 .. Len(q) : ~About(q[i], s) PROVE Has(f, s) = v
  <2>1. \A i \in 2 .. n : ~About(ring[i], s)
    <3> SUFFICES ASSUME NEW i \in 2 .. n PROVE ~About(ring[i], s)
      OBVIOUS
    <3>1. i - 1 \in 1 .. n - 1 /\ q[i - 1] = ring[i]
      BY <1>1
    <3> QED
      BY <1>1, <1>3, <3>1
  <2>2. CASE About(m, s)
    <3>1. 1 \in 1 .. Len(ring) /\ \A j \in 1 + 1 .. Len(ring) : ~About(ring[j], s)
      BY <1>1, <2>1 DEF n
    <3> QED
      BY <3>1, <2>2, <1>2 DEF Carried, m
  <2>3. CASE ~About(m, s)
    <3>1. \A i \in 1 .. Len(ring) : ~About(ring[i], s)
      BY <1>1, <2>1, <2>3 DEF n, m
    <3> QED
      BY <3>1, <2>3, <1>2 DEF Carried
  <2> QED
    BY <2>2, <2>3
<1>4. ASSUME NEW i \in 1 .. Len(q), About(q[i], s),
             \A j \in i + 1 .. Len(q) : ~About(q[j], s)
      PROVE  Value(q[i], s) = v
  <2>1. i + 1 \in 1 .. n /\ q[i] = ring[i + 1]
    BY <1>1
  <2>2. ASSUME NEW j \in (i + 1) + 1 .. n PROVE ~About(ring[j], s)
    <3>1. j - 1 \in i + 1 .. Len(q) /\ j - 1 \in 1 .. n - 1 /\ q[j - 1] = ring[(j - 1) + 1]
      BY <1>1
    <3>2. (j - 1) + 1 = j
      OBVIOUS
    <3> QED
      BY <1>4, <3>1, <3>2
  <2> QED
    BY <1>4, <2>1, <2>2 DEF Carried, n
<1> QED
  BY <1>1, <1>3, <1>4 DEF Carried, q, f

(* With nothing on its way the modem has it. *)
LEMMA Arrived ==
  ASSUME NEW f, NEW s, NEW v, Carried(<<>>, f, s, v)
  PROVE  Has(f, s) = v
BY DEF Carried

LEMMA Nothing ==
  ASSUME NEW f, NEW s PROVE Carried(<<>>, f, s, Has(f, s))
BY DEF Carried

-----------------------------------------------------------------------------
(* Commands.                                                               *)

LEMMA PromisesAre ==
  ASSUME NEW c
  PROVE  /\ Promises(c) \subseteq Settings
         /\ c.f = "modcod" => /\ Promises(c) = {"modcod", "auto"}
                              /\ Promised(c)["modcod"] = c.arg /\ Promised(c)["auto"] = FALSE
         /\ c.f = "acm" => /\ Promises(c) = {"auto", "bounds"}
                           /\ Promised(c)["auto"] = c.arg.auto
                           /\ Promised(c)["bounds"] = <<c.arg.lo, c.arg.hi>>
         /\ c.f = "loopback" => /\ Promises(c) = {"loopback"}
                                /\ Promised(c)["loopback"] = c.arg
         /\ c.f = "channel" => /\ Promises(c) = {"channel"}
                               /\ Promised(c)["channel"] = c.arg
         /\ c.f \notin {"modcod", "acm", "loopback", "channel"} => Promises(c) = {}
<1>1. CASE c.f = "modcod"
  BY <1>1 DEF Promises, Promised, Settings
<1>2. CASE c.f = "acm"
  BY <1>2 DEF Promises, Promised, Settings
<1>3. CASE c.f = "loopback"
  BY <1>3 DEF Promises, Promised, Settings
<1>4. CASE c.f = "channel"
  BY <1>4 DEF Promises, Promised, Settings
<1>5. CASE c.f \notin {"modcod", "acm", "loopback", "channel"}
  <2>1. Promised(c) = <<>>
    BY <1>5 DEF Promised
  <2>2. Promises(c) = {}
    BY <2>1 DEF Promises
  <2> QED
    BY <1>5, <2>2
<1> QED
  BY <1>1, <1>2, <1>3, <1>4, <1>5

(* What is left to send, for the lists that commands begin with. *)
LEMMA NoneToSend ==
  ASSUME NEW c, c.todo = <<>>
  PROVE  (\A s : ~ToSend(c, s)) /\ (\A m : Truthful(m, c)) /\ Obliged(c)
BY DEF ToSend, Truthful, Obliged

LEMMA OneToSend ==
  ASSUME NEW c, NEW x, c.todo = <<x>>
  PROVE  /\ \A s : ToSend(c, s) <=> About(x.msg, s)
         /\ \A m : (\A s \in Settings : About(x.msg, s) /\ (s = "channel" => ~m.pass)
                                        => Value(x.msg, s) = Wants(m, s))
                   => Truthful(m, c)
         /\ c.todo # <<>> /\ c.todo[Len(c.todo)] = x
         /\ (Promises(c) # {} => x.must) => Obliged(c)
<1>1. Len(c.todo) = 1 /\ c.todo[1] = x /\ 1 .. 1 = {1}
  OBVIOUS
<1> QED
  BY <1>1 DEF ToSend, Truthful, Obliged

LEMMA TwoToSend ==
  ASSUME NEW c, NEW x, NEW y, c.todo = <<x, y>>
  PROVE  /\ \A s : ToSend(c, s) <=> About(x.msg, s) \/ About(y.msg, s)
         /\ \A m : (\A s \in Settings :
                     /\ About(x.msg, s) /\ (s = "channel" => ~m.pass /\ ~About(y.msg, s))
                          => Value(x.msg, s) = Wants(m, s)
                     /\ About(y.msg, s) /\ (s = "channel" => ~m.pass)
                          => Value(y.msg, s) = Wants(m, s))
                   => Truthful(m, c)
         /\ c.todo # <<>> /\ c.todo[Len(c.todo)] = y
         /\ /\ x.must /\ About(y.msg, "channel") => About(x.msg, "channel")
            /\ y.must /\ About(x.msg, "channel") => About(y.msg, "channel")
            /\ Promises(c) # {} => y.must /\ (x.must \/ About(x.msg, "channel"))
            => Obliged(c)
<1>1. Len(c.todo) = 2 /\ c.todo[1] = x /\ c.todo[2] = y /\ 1 .. 2 = {1, 2}
      /\ 1 + 1 .. 2 = {2} /\ 1 < 2
  OBVIOUS
<1> QED
  BY <1>1 DEF ToSend, Truthful, Obliged

LEMMA StartToSend ==
  ASSUME NEW c, NEW m, MgrShape(m), c.todo = StartMessages(m)
  PROVE  /\ \A s \in Settings : ToSend(c, s)
         /\ Truthful(Configured(m), c)
         /\ Promises(c) = {} => Obliged(c)
         /\ MgrShape(Configured(m))
<1>1. /\ Len(c.todo) = 4 /\ 1 .. 4 = {1, 2, 3, 4}
      /\ c.todo[1].msg = Time /\ c.todo[2].msg = ModemConfig(m)
      /\ c.todo[3].msg = AcmConfig(Configured(m).acm) /\ c.todo[4].msg = Channel(m.channel)
  BY DEF StartMessages, May
<1>2. \A s \in Settings : ToSend(c, s)
  <2>1. About(c.todo[2].msg, "modcod") /\ About(c.todo[2].msg, "loopback")
    BY <1>1 DEF About, Kind, ModemConfig
  <2>2. About(c.todo[3].msg, "auto") /\ About(c.todo[3].msg, "bounds")
    BY <1>1 DEF About, Kind, AcmConfig
  <2>3. About(c.todo[4].msg, "channel")
    BY <1>1 DEF About, Kind, Channel
  <2> QED
    BY <1>1, <2>1, <2>2, <2>3 DEF ToSend, Settings
<1>3. MgrShape(Configured(m)) /\ Configured(m) = [m EXCEPT !.acm = Configured(m).acm]
  BY DEF Configured, MgrShape, AcmShape
<1>4. ASSUME NEW s \in Settings, NEW i \in 1 .. Len(c.todo), About(c.todo[i].msg, s)
      PROVE  Value(c.todo[i].msg, s) = Wants(Configured(m), s)
  <2>1. i # 1
    BY <1>1, <1>4 DEF About, Kind, Time, Settings
  <2>2. CASE i = 2
    <3>1. s \in {"modcod", "loopback"}
      BY <1>1, <1>4, <2>2 DEF About, Kind, ModemConfig, Settings
    <3> QED
      BY <1>1, <1>3, <2>2, <3>1 DEF Value, Wants, ModemConfig, MgrShape
  <2>3. CASE i = 3
    <3>1. s \in {"auto", "bounds"}
      BY <1>1, <1>4, <2>3 DEF About, Kind, AcmConfig, Settings
    <3> QED
      BY <1>1, <2>3, <3>1 DEF Value, Wants, AcmConfig
  <2>4. CASE i = 4
    <3>1. s = "channel"
      BY <1>1, <1>4, <2>4 DEF About, Kind, Channel, Settings
    <3> QED
      BY <1>1, <1>3, <2>4, <3>1 DEF Value, Wants, Channel, MgrShape
  <2> QED
    BY <1>1, <2>1, <2>2, <2>3, <2>4
<1>5. Truthful(Configured(m), c)
  BY <1>4 DEF Truthful
<1>6. Promises(c) = {} => Obliged(c)
  BY <1>1 DEF StartMessages, May, Obliged
<1> QED
  BY <1>2, <1>3, <1>5, <1>6

(* A command begins: what it changes it promises and goes on to send. *)
LEMMA Commanded ==
  ASSUME Control, Idle, UNCHANGED <<ring, core, fw, told, done>>,
         NEW f, NEW a, NEW m, NEW todo, NEW S, todo \in Seq(S), f # "none",
         Execute(f, a, m, todo),
         MgrShape(m), Truthful(m, cmd'), Obliged(cmd'),
         \A s \in Settings : Wants(m, s) # Wants(mgr, s) => s \in Promises(cmd'),
         mgr.pass /\ ~m.pass => ToSend(cmd', "channel"),
         \A s \in Promises(cmd') :
           /\ Wants(m, s) = Promised(cmd')[s]
           /\ s = "channel" => ~m.pass
           /\ ToSend(cmd', s)
           /\ About(todo[Len(todo)].msg, s) \/ (s = "auto" /\ m.acm.auto = FALSE)
  PROVE  Control'
<1>1. /\ mgr' = m
      /\ cmd' = [f |-> f, arg |-> a, todo |-> todo, outcome |-> "ok", boot |-> 0]
  BY DEF Execute
<1>2. cmd.todo = <<>> /\ cmd.f = "none" /\ Promises(cmd) = {}
  BY PromisesAre DEF Control, Shape, Idle
<1>3. \A s : ~ToSend(cmd, s)
  BY <1>2, NoneToSend
<1>4. Shape'
  <2>1. 0 \in 0 .. fw.boot
    BY DEF Control, Shape
  <2> QED
    BY <1>1, <2>1 DEF Control, Shape, Idle
<1>5. Agrees'
  <2> SUFFICES ASSUME told = fw.boot, core # "offline", NEW s \in Settings,
                      ~ToSend(cmd', s), s = "channel" => ~m.pass
               PROVE  Carried(ring, fw, s, Wants(m, s))
    BY <1>1 DEF Agrees
  <2>1. s \notin Promises(cmd') /\ Wants(m, s) = Wants(mgr, s)
    OBVIOUS
  <2>2. s = "channel" => ~mgr.pass
    OBVIOUS
  <2> QED
    BY <2>1, <2>2, <1>3 DEF Control, Agrees
<1>6. Kept'
  <2> SUFFICES ASSUME NEW s \in Settings \ Promises(cmd'),
                      done[s] # None, done[s].boot = fw.boot
               PROVE  /\ Wants(m, s) = done[s].value
                      /\ core # "offline" /\ (s = "channel" => ~m.pass /\ ~ToSend(cmd', s)) =>
                           Carried(ring, fw, s, done[s].value)
    BY <1>1 DEF Kept
  <2>1. Wants(m, s) = Wants(mgr, s)
    OBVIOUS
  <2>2. s = "channel" /\ ~m.pass /\ ~ToSend(cmd', s) => ~mgr.pass
    OBVIOUS
  <2>3. s \in Settings \ Promises(cmd)
    BY <1>2
  <2> QED
    BY <2>1, <2>2, <2>3, <1>3 DEF Control, Kept
<1>7. Promising'
  BY <1>1 DEF Promising
<1> QED
  BY <1>1, <1>4, <1>5, <1>6, <1>7 DEF Control

(* The messages, and what they are about. *)
LEMMA AboutAcm ==
  ASSUME NEW m, NEW s \in Settings
  PROVE  LET x == AcmConfig(m.acm)
         IN  /\ About(x, s) <=> s \in {"auto", "bounds"}
             /\ About(x, s) => Value(x, s) = Wants(m, s)
BY DEF About, Kind, AcmConfig, Value, Wants, Settings

LEMMA AboutModem ==
  ASSUME NEW m, NEW s \in Settings
  PROVE  LET x == ModemConfig(m)
         IN  /\ About(x, s) <=> s \in {"modcod", "loopback"}
             /\ About(x, s) => Value(x, s) = Wants(m, s)
BY DEF About, Kind, ModemConfig, Value, Wants, Settings

LEMMA AboutChannel ==
  ASSUME NEW c, NEW s \in Settings
  PROVE  LET x == Channel(c)
         IN  /\ About(x, s) <=> s = "channel"
             /\ About(x, s) => Value(x, s) = c
BY DEF About, Kind, Channel, Value, Settings

LEMMA Joined ==
  ASSUME NEW a, NEW b PROVE <<a>> \o <<b>> = <<a, b>>
<1> DEFINE s == <<a>> \o <<b>>
           t == <<a, b>>
           S == {a, b}
<1>1. s \in Seq(S) /\ t \in Seq(S)
  OBVIOUS
<1>2. Len(s) = 2 /\ Len(t) = 2
  OBVIOUS
<1>3. s[1] = a /\ s[2] = b /\ t[1] = a /\ t[2] = b
  OBVIOUS
<1> HIDE DEF s, t, S
<1>4. \A i \in 1 .. Len(s) : s[i] = t[i]
  BY <1>2, <1>3
<1>5. s = t
  BY <1>1, <1>2, <1>4, SeqEqual
<1> QED
  BY <1>5 DEF s, t

LEMMA SetModcodControl ==
  ASSUME Control, Idle, UNCHANGED <<ring, core, fw, told, done>>, NEW k, SetModcod(k)
  PROVE  Control'
<1> DEFINE n == [mgr EXCEPT !.modcod = k, !.acm.auto = FALSE]
           x == Must(AcmConfig(n.acm))
           y == Must(ModemConfig(n))
           c == [f |-> "modcod", arg |-> k, todo |-> <<x, y>>, outcome |-> "ok", boot |-> 0]
<1>1. cmd' = c /\ Execute("modcod", k, n, <<x, y>>)
  BY DEF SetModcod, Execute
<1>2. /\ MgrShape(n) /\ n.modcod = k /\ n.acm.auto = FALSE
      /\ \A s \in Settings \ {"modcod", "auto"} : Wants(n, s) = Wants(mgr, s)
      /\ n.pass = mgr.pass
  <2> MgrShape(mgr)
    BY DEF Control, Shape
  <2>1. /\ n.modcod = k /\ n.channel = mgr.channel /\ n.pass = mgr.pass
        /\ n.loopback = mgr.loopback /\ n.acm = [mgr.acm EXCEPT !.auto = FALSE]
        /\ n = [modcod |-> n.modcod, loopback |-> n.loopback, channel |-> n.channel,
                pass |-> n.pass, acm |-> n.acm]
    <3>1. n = [modcod |-> k, loopback |-> mgr.loopback, channel |-> mgr.channel,
               pass |-> mgr.pass, acm |-> [mgr.acm EXCEPT !.auto = FALSE]]
      <4> DEFINE o == [mgr EXCEPT !.modcod = k]
      <4>1. o = [modcod |-> k, loopback |-> mgr.loopback, channel |-> mgr.channel,
                 pass |-> mgr.pass, acm |-> mgr.acm]
        BY DEF MgrShape
      <4>2. n = [o EXCEPT !.acm.auto = FALSE]
        OBVIOUS
      <4> HIDE DEF o, n
      <4> QED
        BY <4>1, <4>2
    <3> HIDE DEF n
    <3> QED
      BY <3>1
  <2> HIDE DEF n
  <2>2. /\ n.acm.auto = FALSE /\ n.acm.lo = mgr.acm.lo /\ n.acm.hi = mgr.acm.hi
        /\ AcmShape(n.acm)
    BY <2>1 DEF MgrShape, AcmShape
  <2>3. \A s \in Settings \ {"modcod", "auto"} : Wants(n, s) = Wants(mgr, s)
    BY <2>1, <2>2 DEF Wants, Settings
  <2> QED
    BY <2>1, <2>2, <2>3 DEF MgrShape
<1>3. x.msg = AcmConfig(n.acm) /\ y.msg = ModemConfig(n) /\ x.must /\ y.must
  BY DEF Must
<1>4. /\ c.f = "modcod" /\ c.arg = k /\ c.todo = <<x, y>>
      /\ <<x, y>> \in Seq({x, y})
  OBVIOUS
<1> HIDE DEF n, x, y, c
<1>5. /\ Promises(c) = {"modcod", "auto"} /\ Promised(c)["modcod"] = k
      /\ Promised(c)["auto"] = FALSE
  BY <1>4, PromisesAre
<1>6. Truthful(n, c) /\ Obliged(c)
  <2>1. \A s \in Settings : /\ About(x.msg, s) => Value(x.msg, s) = Wants(n, s)
                            /\ About(y.msg, s) => Value(y.msg, s) = Wants(n, s)
    BY <1>3, AboutAcm, AboutModem
  <2>2. ~About(x.msg, "channel") /\ ~About(y.msg, "channel")
    BY <1>3, AboutAcm, AboutModem DEF Settings
  <2> QED
    BY <2>1, <2>2, <1>3, <1>4, TwoToSend
<1>7. /\ ToSend(c, "modcod") /\ ToSend(c, "auto")
      /\ About(<<x, y>>[Len(<<x, y>>)].msg, "modcod")
  <2>1. About(x.msg, "auto") /\ About(y.msg, "modcod")
    BY <1>3, AboutAcm, AboutModem DEF Settings
  <2> QED
    BY <2>1, <1>4, TwoToSend
<1>8. Wants(n, "modcod") = k /\ Wants(n, "auto") = FALSE
  BY <1>2 DEF Wants
<1>9. /\ \A s \in Settings : Wants(n, s) # Wants(mgr, s) => s \in Promises(c)
      /\ mgr.pass /\ ~n.pass => ToSend(c, "channel")
  BY <1>2, <1>5, <1>7
<1>10. \A s \in Promises(c) :
         /\ Wants(n, s) = Promised(c)[s]
         /\ s = "channel" => ~n.pass
         /\ ToSend(c, s)
         /\ About(<<x, y>>[Len(<<x, y>>)].msg, s) \/ (s = "auto" /\ n.acm.auto = FALSE)
  BY <1>2, <1>5, <1>7, <1>8
<1> QED
  BY <1>1, <1>2, <1>4, <1>6, <1>9, <1>10, Commanded

LEMMA SetAcmControl ==
  ASSUME Control, Idle, UNCHANGED <<ring, core, fw, told, done>>, NEW a \in Acm, SetAcm(a)
  PROVE  Control'
<1> DEFINE n == [mgr EXCEPT !.acm = a]
           x == Must(AcmConfig(a))
           c == [f |-> "acm", arg |-> a, todo |-> <<x>>, outcome |-> "ok", boot |-> 0]
<1>1. cmd' = c /\ Execute("acm", a, n, <<x>>)
  BY DEF SetAcm, Execute
<1>2. /\ MgrShape(n) /\ n.acm = a
      /\ \A s \in Settings \ {"auto", "bounds"} : Wants(n, s) = Wants(mgr, s)
      /\ n.pass = mgr.pass
  BY DEF Control, Shape, MgrShape, AcmShape, Wants, Settings, Acm
<1>3. x.msg = AcmConfig(n.acm) /\ x.must
  BY <1>2 DEF Must
<1>4. /\ c.f = "acm" /\ c.arg = a /\ c.todo = <<x>>
      /\ <<x>> \in Seq({x})
  OBVIOUS
<1> HIDE DEF n, x, c
<1>5. /\ Promises(c) = {"auto", "bounds"} /\ Promised(c)["auto"] = a.auto
      /\ Promised(c)["bounds"] = <<a.lo, a.hi>>
  BY <1>4, PromisesAre
<1>6. Truthful(n, c) /\ Obliged(c)
  <2>1. \A s \in Settings : About(x.msg, s) => Value(x.msg, s) = Wants(n, s)
    BY <1>3, AboutAcm
  <2> QED
    BY <2>1, <1>3, <1>4, OneToSend
<1>7. /\ ToSend(c, "auto") /\ ToSend(c, "bounds")
      /\ About(<<x>>[Len(<<x>>)].msg, "auto") /\ About(<<x>>[Len(<<x>>)].msg, "bounds")
  <2>1. About(x.msg, "auto") /\ About(x.msg, "bounds")
    BY <1>3, AboutAcm DEF Settings
  <2> QED
    BY <2>1, <1>4, OneToSend
<1>8. Wants(n, "auto") = a.auto /\ Wants(n, "bounds") = <<a.lo, a.hi>>
  BY <1>2 DEF Wants
<1>9. /\ \A s \in Settings : Wants(n, s) # Wants(mgr, s) => s \in Promises(c)
      /\ mgr.pass /\ ~n.pass => ToSend(c, "channel")
  BY <1>2, <1>5, <1>7
<1>10. \A s \in Promises(c) :
         /\ Wants(n, s) = Promised(c)[s]
         /\ s = "channel" => ~n.pass
         /\ ToSend(c, s)
         /\ About(<<x>>[Len(<<x>>)].msg, s) \/ (s = "auto" /\ n.acm.auto = FALSE)
  BY <1>2, <1>5, <1>7, <1>8
<1> QED
  BY <1>1, <1>2, <1>4, <1>6, <1>9, <1>10, Commanded

LEMMA SetLoopbackControl ==
  ASSUME Control, Idle, UNCHANGED <<ring, core, fw, told, done>>, NEW l, SetLoopback(l)
  PROVE  Control'
<1> DEFINE n == [mgr EXCEPT !.loopback = l]
           x == Must(ModemConfig(n))
           c == [f |-> "loopback", arg |-> l, todo |-> <<x>>, outcome |-> "ok", boot |-> 0]
<1>1. cmd' = c /\ Execute("loopback", l, n, <<x>>)
  BY DEF SetLoopback, Execute
<1>2. /\ MgrShape(n) /\ n.loopback = l
      /\ \A s \in Settings \ {"loopback"} : Wants(n, s) = Wants(mgr, s)
      /\ n.pass = mgr.pass
  BY DEF Control, Shape, MgrShape, AcmShape, Wants, Settings
<1>3. x.msg = ModemConfig(n) /\ x.must
  BY DEF Must
<1>4. /\ c.f = "loopback" /\ c.arg = l /\ c.todo = <<x>>
      /\ <<x>> \in Seq({x})
  OBVIOUS
<1> HIDE DEF n, x, c
<1>5. Promises(c) = {"loopback"} /\ Promised(c)["loopback"] = l
  BY <1>4, PromisesAre
<1>6. Truthful(n, c) /\ Obliged(c)
  <2>1. \A s \in Settings : About(x.msg, s) => Value(x.msg, s) = Wants(n, s)
    BY <1>3, AboutModem
  <2> QED
    BY <2>1, <1>3, <1>4, OneToSend
<1>7. ToSend(c, "loopback") /\ About(<<x>>[Len(<<x>>)].msg, "loopback")
  <2>1. About(x.msg, "loopback")
    BY <1>3, AboutModem DEF Settings
  <2> QED
    BY <2>1, <1>4, OneToSend
<1>8. Wants(n, "loopback") = l
  BY <1>2 DEF Wants
<1>9. /\ \A s \in Settings : Wants(n, s) # Wants(mgr, s) => s \in Promises(c)
      /\ mgr.pass /\ ~n.pass => ToSend(c, "channel")
  BY <1>2, <1>5, <1>7
<1>10. \A s \in Promises(c) :
         /\ Wants(n, s) = Promised(c)[s]
         /\ s = "channel" => ~n.pass
         /\ ToSend(c, s)
         /\ About(<<x>>[Len(<<x>>)].msg, s) \/ (s = "auto" /\ n.acm.auto = FALSE)
  BY <1>2, <1>5, <1>7, <1>8
<1> QED
  BY <1>1, <1>2, <1>4, <1>6, <1>9, <1>10, Commanded

LEMMA SetChannelControl ==
  ASSUME Control, Idle, UNCHANGED <<ring, core, fw, told, done>>, NEW v, SetChannel(v)
  PROVE  Control'
<1> DEFINE n == [mgr EXCEPT !.channel = v, !.pass = FALSE]
           x == May(Channel(mgr.channel))
           y == Must(Channel(v))
           todo == Restore \o <<y>>
           c == [f |-> "channel", arg |-> v, todo |-> todo, outcome |-> "ok", boot |-> 0]
<1>1. cmd' = c /\ Execute("channel", v, n, todo)
  BY DEF SetChannel, Execute
<1>2. /\ MgrShape(n) /\ n.channel = v /\ n.pass = FALSE
      /\ \A s \in Settings \ {"channel"} : Wants(n, s) = Wants(mgr, s)
  <2> MgrShape(mgr)
    BY DEF Control, Shape
  <2>1. /\ n.channel = v /\ n.pass = FALSE
        /\ n.modcod = mgr.modcod /\ n.loopback = mgr.loopback /\ n.acm = mgr.acm
        /\ MgrShape(n)
    <3>1. n = [modcod |-> mgr.modcod, loopback |-> mgr.loopback, channel |-> v,
               pass |-> FALSE, acm |-> mgr.acm]
      <4> DEFINE o == [mgr EXCEPT !.channel = v]
      <4>1. o = [modcod |-> mgr.modcod, loopback |-> mgr.loopback, channel |-> v,
                 pass |-> mgr.pass, acm |-> mgr.acm]
        BY DEF MgrShape
      <4>2. n = [o EXCEPT !.pass = FALSE]
        OBVIOUS
      <4> HIDE DEF o, n
      <4> QED
        BY <4>1, <4>2
    <3> HIDE DEF n
    <3> QED
      BY <3>1 DEF MgrShape
  <2> HIDE DEF n
  <2>2. \A s \in Settings \ {"channel"} : Wants(n, s) = Wants(mgr, s)
    BY <2>1 DEF Wants, Settings
  <2> QED
    BY <2>1, <2>2
<1>3. x.msg = Channel(mgr.channel) /\ y.msg = Channel(v) /\ y.must
  BY DEF May, Must
<1>4. /\ c.f = "channel" /\ c.arg = v /\ c.todo = todo
      /\ todo = <<x, y>> \/ todo = <<y>>
      /\ todo \in Seq({x, y})
  <2>1. todo = <<x, y>> \/ todo = <<y>>
    <3>1. CASE mgr.pass
      <4>1. Restore = <<x>>
        BY <3>1 DEF Restore
      <4> HIDE DEF x, y
      <4>2. <<x>> \o <<y>> = <<x, y>>
        BY Joined
      <4> QED
        BY <4>1, <4>2 DEF todo
    <3>2. CASE ~mgr.pass
      BY <3>2 DEF Restore
    <3> QED
      BY <3>1, <3>2
  <2>2. <<x, y>> \in Seq({x, y}) /\ <<y>> \in Seq({x, y})
    OBVIOUS
  <2> QED
    BY <2>1, <2>2
<1> HIDE DEF n, x, y, c, todo
<1>5. Promises(c) = {"channel"} /\ Promised(c)["channel"] = v
  BY <1>4, PromisesAre
<1>6. /\ \A s \in Settings : About(y.msg, s) => Value(y.msg, s) = Wants(n, s)
      /\ \A s \in Settings : About(x.msg, s) => About(y.msg, s) /\ s = "channel"
      /\ About(y.msg, "channel") /\ About(x.msg, "channel")
  <2>1. \A s \in Settings : /\ About(x.msg, s) <=> s = "channel"
                            /\ About(y.msg, s) <=> s = "channel"
                            /\ About(y.msg, s) => Value(y.msg, s) = v
    BY <1>3, AboutChannel
  <2>2. Wants(n, "channel") = v
    BY <1>2 DEF Wants
  <2> QED
    BY <2>1, <2>2 DEF Settings
<1>7. /\ Truthful(n, c) /\ Obliged(c) /\ ToSend(c, "channel")
      /\ About(todo[Len(todo)].msg, "channel")
  <2>1. CASE todo = <<x, y>>
    BY <2>1, <1>3, <1>4, <1>6, TwoToSend
  <2>2. CASE todo = <<y>>
    BY <2>2, <1>3, <1>4, <1>6, OneToSend
  <2> QED
    BY <1>4, <2>1, <2>2
<1>8. Wants(n, "channel") = v
  BY <1>2 DEF Wants
<1>9. /\ \A s \in Settings : Wants(n, s) # Wants(mgr, s) => s \in Promises(c)
      /\ mgr.pass /\ ~n.pass => ToSend(c, "channel")
  BY <1>2, <1>5, <1>7
<1>10. \A s \in Promises(c) :
         /\ Wants(n, s) = Promised(c)[s]
         /\ s = "channel" => ~n.pass
         /\ ToSend(c, s)
         /\ About(todo[Len(todo)].msg, s) \/ (s = "auto" /\ n.acm.auto = FALSE)
  BY <1>2, <1>5, <1>7, <1>8
<1> QED
  BY <1>1, <1>2, <1>4, <1>7, <1>9, <1>10, Commanded

(* Commands that set nothing but may begin or end a pass. *)
LEMMA PassControl ==
  ASSUME Control, Idle, UNCHANGED <<ring, core, fw, told, done>>,
         NEW f \in {"pass", "stop", "track", "report", "ping"}, NEW a, NEW b,
         NEW todo, Execute(f, a, [mgr EXCEPT !.pass = b], todo),
         \/ todo = <<>> /\ (mgr.pass => b)
         \/ todo = <<May(Channel("pass"))>> /\ b
         \/ todo = <<May(Channel(mgr.channel))>>
         \/ todo = <<May(Channel("pass")), May(Channel(mgr.channel))>>
  PROVE  Control'
<1> DEFINE n == [mgr EXCEPT !.pass = b]
           x == May(Channel("pass"))
           y == May(Channel(mgr.channel))
           c == [f |-> f, arg |-> a, todo |-> todo, outcome |-> "ok", boot |-> 0]
<1>1. cmd' = c /\ Execute(f, a, n, todo)
  BY DEF Execute
<1>2. /\ MgrShape(n) /\ n.pass = b /\ n.channel = mgr.channel
      /\ \A s \in Settings : Wants(n, s) = Wants(mgr, s)
  BY DEF Control, Shape, MgrShape, AcmShape, Wants, Settings
<1>3. x.msg = Channel("pass") /\ y.msg = Channel(n.channel)
  BY <1>2 DEF May
<1>4. /\ c.f = f /\ c.todo = todo
      /\ \/ todo = <<>> /\ (mgr.pass => b)
         \/ todo = <<x>> /\ b
         \/ todo = <<y>>
         \/ todo = <<x, y>>
      /\ todo \in Seq({x, y})
  <2>1. /\ <<x, y>> \in Seq({x, y}) /\ <<x>> \in Seq({x, y}) /\ <<y>> \in Seq({x, y})
        /\ <<>> \in Seq({x, y})
    OBVIOUS
  <2> QED
    BY <2>1
<1> HIDE DEF n, x, y, c
<1>5. Promises(c) = {}
  BY <1>4, PromisesAre
<1>6. \A s \in Settings : /\ About(x.msg, s) <=> s = "channel"
                          /\ About(y.msg, s) <=> s = "channel"
                          /\ About(y.msg, s) => Value(y.msg, s) = Wants(n, s)
  <2>1. Wants(n, "channel") = n.channel
    BY DEF Wants
  <2> QED
    BY <1>3, <2>1, AboutChannel
<1>7. Truthful(n, c) /\ Obliged(c) /\ (mgr.pass /\ ~b => ToSend(c, "channel"))
  <2>1. CASE todo = <<>> /\ (mgr.pass => b)
    BY <2>1, <1>4, <1>5, NoneToSend
  <2>2. CASE todo = <<x>> /\ b
    <3>1. \A s \in Settings : About(x.msg, s) /\ (s = "channel" => ~n.pass) => FALSE
      BY <2>2, <1>2, <1>6
    <3> QED
      BY <2>2, <3>1, <1>4, <1>5, OneToSend
  <2>3. CASE todo = <<y>>
    BY <2>3, <1>4, <1>5, <1>6, OneToSend DEF Settings
  <2>4. CASE todo = <<x, y>>
    BY <2>4, <1>4, <1>5, <1>6, TwoToSend DEF Settings
  <2> QED
    BY <1>4, <2>1, <2>2, <2>3, <2>4
<1> QED
  BY <1>1, <1>2, <1>4, <1>5, <1>7, Commanded

LEMMA SamePass == ASSUME Control PROVE [mgr EXCEPT !.pass = mgr.pass] = mgr
BY DEF Control, Shape, MgrShape

(* A refused command, and a restart that failed. *)
LEMMA NothingControl ==
  ASSUME Control, Idle, UNCHANGED <<mgr, fw, told, done>>,
         NEW f, f \notin {"modcod", "acm", "loopback", "channel"}, NEW o,
         cmd' = [f |-> f, arg |-> None, todo |-> <<>>, outcome |-> o, boot |-> 0],
         UNCHANGED <<ring, core>> \/ (ring' = <<>> /\ core' = "offline")
  PROVE  Control'
<1>1. cmd.todo = <<>> /\ Promises(cmd) = {} /\ Promises(cmd') = {} /\ cmd'.todo = <<>>
  BY PromisesAre DEF Control, Shape, Idle
<1>2. (\A s : ~ToSend(cmd, s)) /\ (\A s : ~ToSend(cmd', s)) /\ Truthful(mgr, cmd')
      /\ Obliged(cmd')
  BY <1>1, NoneToSend
<1>3. Shape'
  <2>1. 0 \in 0 .. fw.boot /\ <<>> \in Seq({})
    BY DEF Control, Shape
  <2> QED
    BY <1>1, <2>1 DEF Control, Shape, Idle
<1>4. Agrees' /\ Kept'
  BY <1>1, <1>2 DEF Control, Agrees, Kept
<1>5. Promising'
  BY <1>1 DEF Promising
<1> QED
  BY <1>2, <1>3, <1>4, <1>5 DEF Control

LEMMA RestartControl ==
  ASSUME Control, Idle, UNCHANGED done, RestartModem
  PROVE  Control'
<1>1. CASE /\ NewInstance /\ core' = "up" /\ told' = fw.boot + 1
           /\ Execute("restart", None, Configured(mgr), StartMessages(mgr))
  <2> DEFINE c == [f |-> "restart", arg |-> None, todo |-> StartMessages(mgr),
                   outcome |-> "ok", boot |-> 0]
  <2>1. /\ cmd' = c /\ mgr' = Configured(mgr) /\ fw' = Fresh(fw.boot + 1) /\ ring' = <<>>
    BY <1>1 DEF Execute, NewInstance
  <2>2. MgrShape(mgr) /\ c.todo = StartMessages(mgr) /\ c.f = "restart"
    BY DEF Control, Shape
  <2> HIDE DEF c
  <2>3. Promises(c) = {}
    BY <2>2, PromisesAre
  <2>4. /\ \A s \in Settings : ToSend(c, s)
        /\ Truthful(Configured(mgr), c) /\ Obliged(c)
        /\ MgrShape(Configured(mgr))
    BY <2>2, <2>3, StartToSend
  <2>5. fw'.boot = fw.boot + 1 /\ FwShape(fw') /\ fw.boot \in Nat \ {0}
    BY <2>1 DEF Fresh, FwShape, AcmShape, Control, Shape
  <2>6. Shape'
    <3>1. /\ c = [f |-> c.f, arg |-> c.arg, todo |-> c.todo, outcome |-> c.outcome,
                  boot |-> c.boot]
          /\ c.boot = 0 /\ c.f # "none"
      BY DEF c
    <3>2. c.todo \in Seq({c.todo[1], c.todo[2], c.todo[3], c.todo[4]})
      BY <2>2 DEF StartMessages
    <3>3. \A s \in Settings : done[s] # None => done[s].boot \in 0 .. fw.boot + 1
      BY <2>5 DEF Control, Shape
    <3>4. 0 \in 0 .. fw.boot + 1 /\ fw.boot + 1 \in 0 .. fw.boot + 1 /\ <<>> \in Seq({})
          /\ fw.boot + 1 \in Nat \ {0}
      BY <2>5
    <3>5. DOMAIN done' = Settings
      BY DEF Control, Shape
    <3> QED
      BY <1>1, <2>1, <2>4, <2>5, <3>1, <3>2, <3>3, <3>4, <3>5 DEF Shape, Idle
  <2>7. Agrees'
    BY <2>1, <2>4 DEF Agrees
  <2>8. Kept'
    <3>1. \A s \in Settings : done[s] # None => done[s].boot # fw.boot + 1
      BY <2>5 DEF Control, Shape
    <3> QED
      BY <2>1, <2>5, <3>1 DEF Kept
  <2>9. Promising'
    BY <2>1, <2>3 DEF Promising
  <2> QED
    BY <2>1, <2>4, <2>6, <2>7, <2>8, <2>9 DEF Control
<1>2. CASE /\ (core' = "offline" /\ ring' = <<>>) \/ UNCHANGED <<core, ring>>
           /\ cmd' = [NoCommand EXCEPT !.f = "restart", !.outcome = "failed"]
           /\ UNCHANGED <<mgr, told, fw, left>>
  <2>1. cmd' = [f |-> "restart", arg |-> None, todo |-> <<>>, outcome |-> "failed", boot |-> 0]
    BY <1>2 DEF NoCommand
  <2> QED
    BY <1>2, <2>1, NothingControl
<1> QED
  BY <1>1, <1>2 DEF RestartModem

LEMMA HandleTcControl ==
  ASSUME Control, HandleTc
  PROVE  Control'
<1> DEFINE tc == Head(socket)
<1>1. Idle /\ done' = done
  BY DEF HandleTc, history
<1>2. CASE Refuse
  <2>1. cmd' = [f |-> "none", arg |-> None, todo |-> <<>>, outcome |-> "refused", boot |-> 0]
    BY <1>2 DEF Refuse, NoCommand
  <2> QED
    BY <1>1, <1>2, <2>1, NothingControl DEF Refuse
<1>3. CASE Accept(tc) /\ Valid(tc)
  <2>1. tc.f # "restart" => UNCHANGED <<ring, core, fw, told, done>>
    BY <1>1, <1>3 DEF Accept
  <2>2. CASE tc.f = "report"
    <3>1. Execute("report", tc.arg, mgr, <<>>)
      BY <1>3, <2>2 DEF Accept, Report
    <3>2. Execute("report", tc.arg, [mgr EXCEPT !.pass = mgr.pass], <<>>)
      BY <3>1, SamePass
    <3> HIDE DEF tc
    <3> QED
      BY <1>1, <2>1, <2>2, <3>2, PassControl
  <2>3. CASE tc.f = "modcod" /\ SetModcod(tc.arg)
    BY <1>1, <2>1, <2>3, SetModcodControl
  <2>4. CASE tc.f = "acm" /\ SetAcm(tc.arg)
    <3>1. tc.arg \in Acm
      BY <1>3, <2>4 DEF Valid
    <3> QED
      BY <1>1, <2>1, <2>4, <3>1, SetAcmControl
  <2>5. CASE tc.f = "channel" /\ SetChannel(tc.arg)
    BY <1>1, <2>1, <2>5, SetChannelControl
  <2>6. CASE tc.f = "loopback" /\ SetLoopback(tc.arg)
    BY <1>1, <2>1, <2>6, SetLoopbackControl
  <2>7. CASE tc.f = "pass" /\ StartPass
    <3>1. Execute("pass", None, [mgr EXCEPT !.pass = TRUE], <<May(Channel("pass"))>>)
      BY <2>7 DEF StartPass
    <3> QED
      BY <1>1, <2>1, <2>7, <3>1, PassControl
  <2>8. CASE tc.f = "stop" /\ StopPass
    <3>1. Execute("stop", None, [mgr EXCEPT !.pass = FALSE], Restore)
      BY <2>8 DEF StopPass
    <3>2. \/ Restore = <<>> /\ (mgr.pass => FALSE)
          \/ Restore = <<May(Channel(mgr.channel))>>
      BY DEF Restore
    <3> QED
      BY <1>1, <2>1, <2>8, <3>1, <3>2, PassControl
  <2>9. CASE tc.f = "restart" /\ RestartModem
    BY <1>1, <2>9, RestartControl
  <2>10. CASE tc.f = "ping" /\ Execute("ping", None, mgr, <<>>)
    <3>1. Execute("ping", None, [mgr EXCEPT !.pass = mgr.pass], <<>>)
      BY <2>10, SamePass
    <3> HIDE DEF tc
    <3> QED
      BY <1>1, <2>1, <2>10, <3>1, PassControl
  <2> QED
    BY <1>3, <2>2, <2>3, <2>4, <2>5, <2>6, <2>7, <2>8, <2>9, <2>10 DEF Accept
<1> QED
  BY <1>2, <1>3 DEF HandleTc

LEMMA TrackPassControl ==
  ASSUME Control, TrackPass
  PROVE  Control'
<1>1. Idle /\ mgr.pass /\ UNCHANGED <<ring, core, fw, told, done>>
  BY DEF TrackPass, history
<1>2. CASE Execute("track", None, mgr, <<May(Channel("pass"))>>)
  BY <1>1, <1>2, SamePass, PassControl
<1>3. CASE Execute("track", None, [mgr EXCEPT !.pass = FALSE],
                   <<May(Channel("pass")), May(Channel(mgr.channel))>>)
  BY <1>1, <1>3, PassControl
<1> QED
  BY <1>2, <1>3 DEF TrackPass

-----------------------------------------------------------------------------
(* Sending, and the other steps.                                           *)

LEMMA PromisedSame ==
  ASSUME NEW c, NEW d, c.f = d.f, c.arg = d.arg
  PROVE  Promised(c) = Promised(d) /\ Promises(c) = Promises(d)
BY DEF Promised, Promises

(* What is left when the first of some messages is gone. *)
LEMMA TailAt ==
  ASSUME NEW S, NEW t \in Seq(S), t # <<>>
  PROVE  /\ Len(t) \in Nat \ {0} /\ Head(t) = t[1]
         /\ Tail(t) \in Seq(S) /\ Len(Tail(t)) = Len(t) - 1
         /\ Tail(t) = <<>> <=> Len(t) = 1
         /\ \A i \in 1 .. Len(t) - 1 : Tail(t)[i] = t[i + 1]
         /\ \A i \in 2 .. Len(t) : t[i] = Tail(t)[i - 1] /\ i - 1 \in 1 .. Len(t) - 1
<1> DEFINE r == Tail(t)
           n == Len(t)
<1>1. /\ n \in Nat \ {0} /\ r \in Seq(S) /\ Len(r) = n - 1 /\ Head(t) = t[1]
      /\ \A i \in 1 .. n - 1 : r[i] = t[i + 1]
  OBVIOUS
<1> HIDE DEF r, n
<1>2. r = <<>> <=> n = 1
  BY <1>1, EmptySeq
<1>3. \A i \in 2 .. n : t[i] = r[i - 1] /\ i - 1 \in 1 .. n - 1
  <2> SUFFICES ASSUME NEW i \in 2 .. n PROVE t[i] = r[i - 1] /\ i - 1 \in 1 .. n - 1
    OBVIOUS
  <2>1. i - 1 \in 1 .. n - 1 /\ (i - 1) + 1 = i
    BY <1>1
  <2>2. r[i - 1] = t[(i - 1) + 1]
    BY <1>1, <2>1
  <2> QED
    BY <2>1, <2>2
<1> QED
  BY <1>1, <1>2, <1>3 DEF r, n

LEMMA Rest ==
  ASSUME NEW S, NEW c, NEW d, c.todo \in Seq(S), c.todo # <<>>, d.todo = Tail(c.todo)
  PROVE  /\ d.todo \in Seq(S)
         /\ \A s : ToSend(c, s) <=> About(Head(c.todo).msg, s) \/ ToSend(d, s)
         /\ d.todo # <<>> => d.todo[Len(d.todo)] = c.todo[Len(c.todo)]
         /\ d.todo = <<>> => Len(c.todo) = 1
         /\ \A s : d.todo # <<>> /\ About(c.todo[Len(c.todo)].msg, s) => ToSend(d, s)
<1> DEFINE t == c.todo
           r == d.todo
           n == Len(t)
<1>1. /\ n \in Nat \ {0} /\ r \in Seq(S) /\ Len(r) = n - 1 /\ Head(t) = t[1]
      /\ \A i \in 1 .. n - 1 : r[i] = t[i + 1]
      /\ r = <<>> <=> n = 1
  BY TailAt
<1>2. \A i \in 2 .. n : t[i] = r[i - 1] /\ i - 1 \in 1 .. n - 1
  BY TailAt
<1> HIDE DEF t, r, n
<1>3. ASSUME NEW s PROVE ToSend(c, s) <=> About(Head(t).msg, s) \/ ToSend(d, s)
  <2>1. ASSUME ToSend(c, s) PROVE About(Head(t).msg, s) \/ ToSend(d, s)
    <3>1. PICK i \in 1 .. n : About(t[i].msg, s)
      BY <2>1 DEF ToSend, n, t
    <3>2. CASE i = 1
      BY <3>1, <3>2, <1>1
    <3>3. CASE i # 1
      <4>1. i \in 2 .. n
        BY <1>1, <3>3
      <4>2. i - 1 \in 1 .. Len(r) /\ About(r[i - 1].msg, s)
        BY <1>1, <1>2, <3>1, <4>1
      <4> QED
        BY <4>2 DEF ToSend, r
    <3> QED
      BY <3>2, <3>3
  <2>2. ASSUME ToSend(d, s) PROVE ToSend(c, s)
    <3>1. PICK i \in 1 .. Len(r) : About(r[i].msg, s)
      BY <2>2 DEF ToSend, r
    <3>2. i + 1 \in 1 .. n /\ About(t[i + 1].msg, s)
      BY <3>1, <1>1
    <3> QED
      BY <3>2 DEF ToSend, t, n
  <2>3. ASSUME About(Head(t).msg, s) PROVE ToSend(c, s)
    <3>1. 1 \in 1 .. n /\ About(t[1].msg, s)
      BY <2>3, <1>1
    <3> QED
      BY <3>1 DEF ToSend, t, n
  <2> QED
    BY <2>1, <2>2, <2>3
<1>4. r # <<>> => Len(r) \in 1 .. Len(r) /\ n \in 2 .. n /\ Len(r) = n - 1
  BY <1>1
<1>5. r # <<>> => r[Len(r)] = t[n]
  BY <1>2, <1>4
<1>6. ASSUME NEW s, r # <<>>, About(t[n].msg, s) PROVE ToSend(d, s)
  BY <1>4, <1>5, <1>6 DEF ToSend, r
<1> QED
  BY <1>1, <1>3, <1>5, <1>6 DEF t, r, n

LEMMA RestTruthful ==
  ASSUME NEW S, NEW c, NEW d, c.todo \in Seq(S), c.todo # <<>>, d.todo = Tail(c.todo),
         NEW m, Truthful(m, c)
  PROVE  /\ Truthful(m, d)
         /\ \A s \in Settings :
              About(Head(c.todo).msg, s) /\ (s = "channel" => ~m.pass /\ ~ToSend(d, s))
                => Value(Head(c.todo).msg, s) = Wants(m, s)
<1> DEFINE t == c.todo
           r == d.todo
           n == Len(t)
<1>1. /\ n \in Nat \ {0} /\ Len(r) = n - 1 /\ Head(t) = t[1]
      /\ \A i \in 1 .. n - 1 : r[i] = t[i + 1]
  BY TailAt
<1>2. \A i \in 2 .. n : t[i] = r[i - 1] /\ i - 1 \in 1 .. n - 1
  BY TailAt
<1> HIDE DEF t, r, n
<1>3. ASSUME NEW s \in Settings, NEW i \in 1 .. n, About(t[i].msg, s),
             s = "channel" => ~m.pass /\ \A j \in i + 1 .. n : ~About(t[j].msg, s)
      PROVE  Value(t[i].msg, s) = Wants(m, s)
  BY <1>3 DEF Truthful, t, n
<1>4. ASSUME NEW s \in Settings, NEW i \in 1 .. Len(r), About(r[i].msg, s),
             s = "channel" => ~m.pass /\ \A j \in i + 1 .. Len(r) : ~About(r[j].msg, s)
      PROVE  Value(r[i].msg, s) = Wants(m, s)
  <2>1. i + 1 \in 1 .. n /\ r[i] = t[i + 1]
    BY <1>1
  <2>2. s = "channel" => \A j \in (i + 1) + 1 .. n : ~About(t[j].msg, s)
    <3> SUFFICES ASSUME s = "channel", NEW j \in (i + 1) + 1 .. n PROVE ~About(t[j].msg, s)
      OBVIOUS
    <3>1. j \in 2 .. n /\ j - 1 \in i + 1 .. Len(r)
      BY <1>1
    <3> QED
      BY <1>2, <1>4, <3>1
  <2> QED
    BY <1>3, <1>4, <2>1, <2>2
<1>5. Truthful(m, d)
  BY <1>4 DEF Truthful, r
<1>6. ASSUME NEW s \in Settings, About(Head(t).msg, s),
             s = "channel" => ~m.pass /\ ~ToSend(d, s)
      PROVE  Value(Head(t).msg, s) = Wants(m, s)
  <2>1. 1 \in 1 .. n /\ About(t[1].msg, s)
    BY <1>1, <1>6
  <2>2. s = "channel" => \A j \in 1 + 1 .. n : ~About(t[j].msg, s)
    <3> SUFFICES ASSUME s = "channel", NEW j \in 2 .. n PROVE ~About(t[j].msg, s)
      OBVIOUS
    <3>1. t[j] = r[j - 1] /\ j - 1 \in 1 .. Len(r)
      BY <1>1, <1>2
    <3> QED
      BY <1>6, <3>1 DEF ToSend, r
  <2> QED
    BY <1>1, <1>3, <1>6, <2>1, <2>2
<1> QED
  BY <1>5, <1>6 DEF t

LEMMA RestObliged ==
  ASSUME NEW S, NEW c, NEW d, c.todo \in Seq(S), c.todo # <<>>, d.todo = Tail(c.todo),
         Promises(d) = Promises(c), Obliged(c)
  PROVE  Obliged(d)
<1> DEFINE t == c.todo
           r == d.todo
           n == Len(t)
<1>1. /\ n \in Nat \ {0} /\ Len(r) = n - 1
      /\ \A i \in 1 .. n - 1 : r[i] = t[i + 1]
  BY TailAt
<1>2. \A s : ToSend(d, s) => ToSend(c, s)
  BY Rest
<1> HIDE DEF t, r, n
<1>3. \A i \in 1 .. Len(r) : i + 1 \in 1 .. n /\ r[i] = t[i + 1] /\ (i + 1 < n => i < Len(r))
  BY <1>1
<1>4. /\ \A i \in 1 .. n :
           t[i].must /\ ~About(t[i].msg, "channel") => ~ToSend(c, "channel")
      /\ Promises(c) # {} =>
           \A i \in 1 .. n : t[i].must \/ (i < n /\ About(t[i].msg, "channel"))
  BY DEF Obliged, t, n
<1>5. /\ \A i \in 1 .. Len(r) :
           r[i].must /\ ~About(r[i].msg, "channel") => ~ToSend(d, "channel")
      /\ Promises(d) # {} =>
           \A i \in 1 .. Len(r) : r[i].must \/ (i < Len(r) /\ About(r[i].msg, "channel"))
  BY <1>2, <1>3, <1>4
<1> QED
  BY <1>5 DEF Obliged, r

LEMMA SendControl ==
  ASSUME Control, Send
  PROVE  Control'
<1> DEFINE x == Head(cmd.todo).msg
<1>1. /\ cmd.todo # <<>> /\ core # "offline" /\ ring' = Append(ring, x)
      /\ UNCHANGED <<mgr, core, fw, told, done>>
  BY DEF Send, history
<1>2. PICK S : cmd.todo \in Seq(S)
  BY DEF Control, Shape
<1>3. PICK R : ring \in Seq(R)
  BY DEF Control, Shape
<1>4. /\ cmd'.f = cmd.f /\ cmd'.arg = cmd.arg /\ cmd'.outcome = cmd.outcome
      /\ cmd'.todo = Tail(cmd.todo) /\ cmd'.boot = fw.boot
      /\ cmd' = [f |-> cmd.f, arg |-> cmd.arg, todo |-> Tail(cmd.todo),
                 outcome |-> cmd.outcome, boot |-> fw.boot]
  BY DEF Send, Control, Shape
<1>5. Promised(cmd') = Promised(cmd) /\ Promises(cmd') = Promises(cmd)
  BY <1>4, PromisedSame
<1>6. /\ Truthful(mgr, cmd')
      /\ \A s \in Settings :
           About(x, s) /\ (s = "channel" => ~mgr.pass /\ ~ToSend(cmd', s))
             => Value(x, s) = Wants(mgr, s)
  BY ZenonT(30), <1>1, <1>2, <1>4, RestTruthful DEF Control
<1>7. Obliged(cmd')
  BY <1>1, <1>2, <1>4, <1>5, RestObliged DEF Control
<1>8. /\ cmd'.todo \in Seq(S)
      /\ \A s : ToSend(cmd, s) <=> About(x, s) \/ ToSend(cmd', s)
      /\ cmd'.todo # <<>> => cmd'.todo[Len(cmd'.todo)] = cmd.todo[Len(cmd.todo)]
  <2> SUFFICES ASSUME NEW d, d.todo = Tail(cmd.todo)
               PROVE  /\ d.todo \in Seq(S)
                      /\ \A s : ToSend(cmd, s) <=> About(x, s) \/ ToSend(d, s)
                      /\ d.todo # <<>> => d.todo[Len(d.todo)] = cmd.todo[Len(cmd.todo)]
    BY <1>4
  <2> QED
    BY <1>1, <1>2, Rest
<1>9. ring' \in Seq(R \cup {x})
  <2>1. ring \in Seq(R \cup {x})
    BY <1>3
  <2> HIDE DEF x
  <2> QED
    BY <1>1, <2>1
<1> HIDE DEF x
<1>10. \A s, v : (IF About(x, s) THEN Value(x, s) = v ELSE Carried(ring, fw, s, v))
                  => Carried(ring', fw, s, v)
  BY <1>1, <1>3, Appended
<1>11. Shape'
  <2>1. fw.boot \in 0 .. fw.boot /\ ~Idle
    BY <1>1 DEF Control, Shape
  <2> QED
    BY <1>1, <1>4, <1>8, <1>9, <2>1 DEF Control, Shape, Idle
<1>12. Agrees'
  <2> SUFFICES ASSUME told = fw.boot, NEW s \in Settings, ~ToSend(cmd', s),
                      s = "channel" => ~mgr.pass
               PROVE  Carried(ring', fw, s, Wants(mgr, s))
    BY <1>1 DEF Agrees
  <2>1. CASE About(x, s)
    BY <2>1, <1>6, <1>10
  <2>2. CASE ~About(x, s)
    <3>1. Carried(ring, fw, s, Wants(mgr, s))
      BY <2>2, <1>1, <1>8 DEF Control, Agrees
    <3> QED
      BY <2>2, <3>1, <1>10
  <2> QED
    BY <2>1, <2>2
<1>13. Kept'
  <2> SUFFICES ASSUME NEW s \in Settings \ Promises(cmd),
                      done[s] # None, done[s].boot = fw.boot
               PROVE  /\ Wants(mgr, s) = done[s].value
                      /\ (s = "channel" => ~mgr.pass /\ ~ToSend(cmd', s)) =>
                           Carried(ring', fw, s, done[s].value)
    BY <1>1, <1>5 DEF Kept
  <2>1. Wants(mgr, s) = done[s].value
    BY DEF Control, Kept
  <2>2. ASSUME s = "channel" => ~mgr.pass /\ ~ToSend(cmd', s)
        PROVE  Carried(ring', fw, s, done[s].value)
    <3>1. CASE About(x, s)
      BY <2>1, <2>2, <3>1, <1>6, <1>10
    <3>2. CASE ~About(x, s)
      <4>1. Carried(ring, fw, s, done[s].value)
        BY <2>2, <3>2, <1>1, <1>8 DEF Control, Kept
      <4> QED
        BY <3>2, <4>1, <1>10
    <3> QED
      BY <3>1, <3>2
  <2> QED
    BY <2>1, <2>2
<1>14. Promising'
  <2> SUFFICES ASSUME cmd.outcome = "ok", NEW s \in Promises(cmd)
               PROVE  /\ Wants(mgr, s) = Promised(cmd)[s]
                      /\ s = "channel" => ~mgr.pass
                      /\ cmd'.todo # <<>> => \/ About(cmd'.todo[Len(cmd'.todo)].msg, s)
                                             \/ s = "auto" /\ mgr.acm.auto = FALSE
                      /\ ~ToSend(cmd', s) => Carried(ring', fw, s, Wants(mgr, s))
    BY <1>1, <1>4, <1>5 DEF Promising
  <2>1. s \in Settings
    BY PromisesAre
  <2>2. /\ Wants(mgr, s) = Promised(cmd)[s]
        /\ s = "channel" => ~mgr.pass
        /\ \/ About(cmd.todo[Len(cmd.todo)].msg, s)
           \/ s = "auto" /\ mgr.acm.auto = FALSE
        /\ ~ToSend(cmd, s) => Carried(ring, fw, s, Wants(mgr, s))
    BY <1>1 DEF Control, Promising
  <2>3. ASSUME ~ToSend(cmd', s) PROVE Carried(ring', fw, s, Wants(mgr, s))
    <3>1. CASE About(x, s)
      BY <2>1, <2>2, <2>3, <3>1, <1>6, <1>10
    <3>2. CASE ~About(x, s)
      BY <2>2, <2>3, <3>2, <1>8, <1>10
    <3> QED
      BY <3>1, <3>2
  <2> QED
    BY <2>2, <2>3, <1>8
<1> QED
  BY <1>1, <1>6, <1>7, <1>11, <1>12, <1>13, <1>14 DEF Control

LEMMA SendFailsControl ==
  ASSUME Control, SendFails
  PROVE  Control'
<1> DEFINE h == Head(cmd.todo)
           x == h.msg
<1>1. /\ cmd.todo # <<>> /\ told' = 0 /\ UNCHANGED <<mgr, ring, core, fw>>
      /\ cmd' = IF h.must THEN [cmd EXCEPT !.todo = <<>>, !.outcome = "failed"]
                          ELSE [cmd EXCEPT !.todo = Tail(@)]
      /\ done' = IF x.type = "CHANNEL" THEN [done EXCEPT !["channel"] = None] ELSE done
  BY DEF SendFails
<1>2. PICK S : cmd.todo \in Seq(S)
  BY DEF Control, Shape
<1>3. /\ DOMAIN done = Settings /\ DOMAIN done' = Settings
      /\ \A s \in Settings \ {"channel"} : done'[s] = done[s]
      /\ About(x, "channel") => done'["channel"] = None
      /\ ~About(x, "channel") => done'["channel"] = done["channel"]
  BY <1>1 DEF Control, Shape, About, Kind, Settings
<1>4. Agrees'
  BY <1>1 DEF Control, Shape, Agrees
<1>5. 1 \in 1 .. Len(cmd.todo) /\ h = cmd.todo[1]
  BY <1>1, <1>2, TailAt
<1>6. ~Idle
  BY <1>1 DEF Control, Shape
<1>7. /\ cmd'.f = cmd.f /\ cmd'.arg = cmd.arg /\ cmd'.boot = cmd.boot
      /\ cmd' = [f |-> cmd'.f, arg |-> cmd'.arg, todo |-> cmd'.todo,
                 outcome |-> cmd'.outcome, boot |-> cmd'.boot]
      /\ h.must => cmd'.todo = <<>> /\ cmd'.outcome = "failed"
      /\ ~h.must => cmd'.todo = Tail(cmd.todo) /\ cmd'.outcome = cmd.outcome
  <2>1. CASE h.must
    BY <1>1, <2>1 DEF Control, Shape
  <2>2. CASE ~h.must
    BY <1>1, <2>2 DEF Control, Shape
  <2> QED
    BY <2>1, <2>2
<1> HIDE DEF h, x
<1>8. Promised(cmd') = Promised(cmd) /\ Promises(cmd') = Promises(cmd)
  BY <1>7, PromisedSame
<1>9. Shape'
  <2>1. cmd'.todo \in Seq(S)
    BY <1>1, <1>2, <1>7, TailAt
  <2>2. \A s \in Settings : done'[s] # None => done'[s].boot \in 0 .. fw.boot
    <3> SUFFICES ASSUME NEW s \in Settings, done'[s] # None
                 PROVE  done'[s].boot \in 0 .. fw.boot
      OBVIOUS
    <3>1. done'[s] = done[s]
      <4>1. CASE s = "channel"
        BY <1>3, <4>1
      <4>2. CASE s # "channel"
        BY <1>3, <4>2
      <4> QED
        BY <4>1, <4>2
    <3> QED
      BY <3>1 DEF Control, Shape
  <2>3. told' \in 0 .. fw.boot
    BY <1>1 DEF Control, Shape
  <2> QED
    BY <1>1, <1>3, <1>6, <1>7, <2>1, <2>2, <2>3 DEF Control, Shape, Idle
<1>10. \A s \in Settings \ Promises(cmd) :
         done[s] # None /\ done[s].boot = fw.boot =>
           /\ Wants(mgr, s) = done[s].value
           /\ core # "offline" /\ (s = "channel" => ~mgr.pass /\ ~ToSend(cmd, s)) =>
                Carried(ring, fw, s, done[s].value)
  BY DEF Control, Kept
<1>11. ASSUME ~About(x, "channel") /\ ~ToSend(cmd', "channel") => ~ToSend(cmd, "channel")
       PROVE  Kept'
  <2> SUFFICES ASSUME NEW s \in Settings \ Promises(cmd),
                      done'[s] # None, done'[s].boot = fw.boot
               PROVE  /\ Wants(mgr, s) = done'[s].value
                      /\ core # "offline" /\ (s = "channel" => ~mgr.pass /\ ~ToSend(cmd', s)) =>
                           Carried(ring, fw, s, done'[s].value)
    BY <1>1, <1>8 DEF Kept
  <2>1. done'[s] = done[s] /\ (s = "channel" => ~About(x, "channel"))
    <3>1. CASE s = "channel"
      BY <1>3, <3>1
    <3>2. CASE s # "channel"
      BY <1>3, <3>2
    <3> QED
      BY <3>1, <3>2
  <2> QED
    BY <2>1, <1>10, <1>11
<1>12. CASE h.must
  <2>1. Truthful(mgr, cmd') /\ Obliged(cmd')
    BY <1>7, <1>12, NoneToSend
  <2>2. Promising'
    BY <1>7, <1>12 DEF Promising
  <2>3. ~About(x, "channel") => ~ToSend(cmd, "channel")
    BY <1>5, <1>12 DEF Control, Obliged, x
  <2> QED
    BY <1>1, <1>4, <1>9, <1>11, <2>1, <2>2, <2>3 DEF Control
<1>13. CASE ~h.must
  <2>1. Truthful(mgr, cmd') /\ Obliged(cmd')
    BY <1>1, <1>2, <1>7, <1>8, <1>13, RestTruthful, RestObliged DEF Control
  <2>2. /\ \A s : ToSend(cmd, s) <=> About(x, s) \/ ToSend(cmd', s)
        /\ cmd'.todo # <<>> => cmd'.todo[Len(cmd'.todo)] = cmd.todo[Len(cmd.todo)]
        /\ cmd'.todo = <<>> => Len(cmd.todo) = 1
        /\ \A s : cmd'.todo # <<>> /\ About(cmd.todo[Len(cmd.todo)].msg, s) => ToSend(cmd', s)
    <3> SUFFICES ASSUME NEW d, d.todo = Tail(cmd.todo)
                 PROVE  /\ \A s : ToSend(cmd, s) <=> About(x, s) \/ ToSend(d, s)
                        /\ d.todo # <<>> => d.todo[Len(d.todo)] = cmd.todo[Len(cmd.todo)]
                        /\ d.todo = <<>> => Len(cmd.todo) = 1
                        /\ \A s : d.todo # <<>> /\ About(cmd.todo[Len(cmd.todo)].msg, s)
                                    => ToSend(d, s)
      BY <1>7, <1>13
    <3> QED
      BY <1>1, <1>2, Rest DEF x, h
  <2>3. Promises(cmd) # {} => cmd'.todo # <<>> /\ About(x, "channel")
    <3>1. Promises(cmd) # {} => 1 < Len(cmd.todo) /\ About(cmd.todo[1].msg, "channel")
      BY <1>5, <1>13 DEF Control, Obliged
    <3>2. Promises(cmd) # {} => cmd'.todo # <<>>
      <4>1. cmd'.todo = <<>> => ~(1 < Len(cmd.todo))
        <5> SUFFICES ASSUME Len(cmd.todo) = 1 PROVE ~(1 < Len(cmd.todo))
          BY <2>2
        <5> QED
          OBVIOUS
      <4> QED
        BY <3>1, <4>1
    <3>3. x = cmd.todo[1].msg
      BY <1>5 DEF x
    <3> QED
      BY <3>1, <3>2, <3>3
  <2>4. Promising'
    <3> SUFFICES ASSUME cmd.outcome = "ok", NEW s \in Promises(cmd)
                 PROVE  /\ Wants(mgr, s) = Promised(cmd)[s]
                        /\ s = "channel" => ~mgr.pass
                        /\ cmd'.todo # <<>> => \/ About(cmd'.todo[Len(cmd'.todo)].msg, s)
                                               \/ s = "auto" /\ mgr.acm.auto = FALSE
                        /\ core # "offline" /\ ~ToSend(cmd', s) =>
                             Carried(ring, fw, s, Wants(mgr, s))
      BY ZenonT(30), <1>1, <1>7, <1>8, <1>13 DEF Promising
    <3>1. /\ Wants(mgr, s) = Promised(cmd)[s]
          /\ s = "channel" => ~mgr.pass
          /\ \/ About(cmd.todo[Len(cmd.todo)].msg, s)
             \/ s = "auto" /\ mgr.acm.auto = FALSE
          /\ core # "offline" /\ ~ToSend(cmd, s) => Carried(ring, fw, s, Wants(mgr, s))
      BY <1>1 DEF Control, Promising
    <3>2. s \in Settings
      BY PromisesAre
    <3>3. ~ToSend(cmd', s) => ~About(x, s)
      <4>1. CASE s = "channel"
        <5>1. About(cmd.todo[Len(cmd.todo)].msg, s)
          BY <3>1, <4>1
        <5> QED
          BY <5>1, <2>2, <2>3
      <4>2. CASE s # "channel"
        <5>1. ~About(x, s)
          BY <2>3, <3>2, <4>2 DEF About, Kind, Settings
        <5> QED
          BY <5>1
      <4> QED
        BY <4>1, <4>2
    <3> QED
      BY <2>2, <3>1, <3>3
  <2> QED
    BY <1>1, <1>4, <1>9, <1>11, <2>1, <2>2, <2>4 DEF Control
<1> QED
  BY <1>12, <1>13

LEMMA CompleteControl ==
  ASSUME Control, Complete
  PROVE  Control'
<1>1. /\ ~Idle /\ cmd.todo = <<>> /\ UNCHANGED <<mgr, ring, core, fw, told>>
      /\ cmd' = [f |-> "none", arg |-> None, todo |-> <<>>, outcome |-> cmd.outcome, boot |-> 0]
  BY DEF Complete, NoCommand
<1>2. (\A s : ~ToSend(cmd, s)) /\ (\A s : ~ToSend(cmd', s))
  BY <1>1, NoneToSend
<1>3. Promises(cmd') = {} /\ Promises(cmd) \subseteq Settings
  BY <1>1, PromisesAre
<1>4. Truthful(mgr, cmd') /\ Obliged(cmd')
  BY <1>1, NoneToSend
<1>5. /\ DOMAIN done' = Settings
      /\ \A s \in Settings \ Promises(cmd) : done'[s] = done[s]
      /\ \A s \in Promises(cmd) :
           done'[s] # None =>
             /\ cmd.outcome = "ok"
             /\ done'[s].value = Promised(cmd)[s] /\ done'[s].boot = cmd.boot
  <2>1. DOMAIN done = Settings
    BY DEF Control, Shape
  <2>2. done' = [s \in DOMAIN done |->
                  IF s \notin Promises(cmd) THEN done[s]
                  ELSE IF cmd.outcome = "ok"
                    THEN [value |-> Promised(cmd)[s], boot |-> cmd.boot]
                  ELSE None]
    BY DEF Complete, Promises
  <2> QED
    BY <1>3, <2>1, <2>2
<1>6. Shape'
  <2>1. \A s \in Settings : done'[s] # None => done'[s].boot \in 0 .. fw.boot
    BY <1>5 DEF Control, Shape
  <2>2. 0 \in 0 .. fw.boot /\ <<>> \in Seq({})
    BY DEF Control, Shape
  <2> QED
    BY <1>1, <1>5, <2>1, <2>2 DEF Control, Shape, Idle
<1>7. Agrees'
  BY <1>1, <1>2 DEF Control, Agrees
<1>8. Kept'
  <2> SUFFICES ASSUME NEW s \in Settings, done'[s] # None, done'[s].boot = fw.boot
               PROVE  /\ Wants(mgr, s) = done'[s].value
                      /\ core # "offline" /\ (s = "channel" => ~mgr.pass) =>
                           Carried(ring, fw, s, done'[s].value)
    BY <1>1, <1>2, <1>3 DEF Kept
  <2>1. CASE s \in Promises(cmd)
    BY <2>1, <1>1, <1>2, <1>5 DEF Control, Promising
  <2>2. CASE s \notin Promises(cmd)
    BY <2>2, <1>2, <1>5 DEF Control, Kept
  <2> QED
    BY <2>1, <2>2
<1>9. Promising'
  BY <1>3 DEF Promising
<1> QED
  BY <1>1, <1>4, <1>6, <1>7, <1>8, <1>9 DEF Control

LEMMA DrainIpcControl ==
  ASSUME Control, DrainIpc
  PROVE  Control'
<1>1. /\ core = "up" /\ ring # <<>> /\ ring' = Tail(ring) /\ fw' = OnMsg(Head(ring))
      /\ UNCHANGED <<mgr, cmd, core, told, done>>
  BY DEF DrainIpc, history
<1>2. PICK R : ring \in Seq(R)
  BY DEF Control, Shape
<1>3. FwShape(fw') /\ fw'.boot = fw.boot
  <2> DEFINE m == Head(ring)
  <2>1. CASE m.type = "MODEM_CONFIG"
    BY <1>1, <2>1 DEF OnMsg, Control, Shape, FwShape, AcmShape
  <2>2. CASE m.type = "CHANNEL"
    BY <1>1, <2>2 DEF OnMsg, Control, Shape, FwShape, AcmShape
  <2>3. CASE m.type = "ACM_CONFIG"
    BY <1>1, <2>3 DEF OnMsg, Control, Shape, FwShape, AcmShape
  <2>4. CASE m.type \notin {"MODEM_CONFIG", "CHANNEL", "ACM_CONFIG"}
    BY <1>1, <2>4 DEF OnMsg, Control, Shape, FwShape, AcmShape
  <2> QED
    BY <2>1, <2>2, <2>3, <2>4
<1>4. \A s \in Settings : \A v : Carried(ring, fw, s, v) => Carried(ring', fw', s, v)
  BY <1>1, <1>2, Drained DEF Control, Shape
<1>5. Shape'
  <2>1. ring' \in Seq(R)
    BY <1>1, <1>2, TailAt
  <2> QED
    BY <1>1, <1>3, <2>1 DEF Control, Shape, Idle
<1>6. Agrees' /\ Kept'
  BY <1>1, <1>3, <1>4 DEF Control, Agrees, Kept
<1>7. Promising'
  <2>1. Promises(cmd) \subseteq Settings
    BY PromisesAre
  <2> QED
    BY <1>1, <1>3, <1>4, <2>1 DEF Control, Promising
<1> QED
  BY <1>1, <1>5, <1>6, <1>7 DEF Control

LEMMA WatchdogRestartControl ==
  ASSUME Control, WatchdogRestart
  PROVE  Control'
<1>1. /\ fw' = Fresh(fw.boot + 1) /\ ring' = <<>>
      /\ UNCHANGED <<mgr, cmd, told, done>>
  BY DEF WatchdogRestart, NewInstance, history
<1>2. fw'.boot = fw.boot + 1 /\ FwShape(fw') /\ fw.boot \in Nat \ {0}
      /\ fw'.acm.auto = FALSE
  BY <1>1 DEF Fresh, FwShape, AcmShape, Control, Shape
<1>3. Shape'
  <2>1. /\ \A n \in 0 .. fw.boot : n \in 0 .. fw.boot + 1
        /\ <<>> \in Seq({}) /\ fw.boot + 1 \in Nat \ {0}
    BY <1>2
  <2>2. \A s \in Settings : done[s] # None => done[s].boot \in 0 .. fw.boot + 1
    BY <2>1 DEF Control, Shape
  <2> QED
    BY <1>1, <1>2, <2>1, <2>2 DEF Control, Shape, Idle
<1>4. /\ told # fw.boot + 1 /\ cmd.boot # fw.boot + 1
      /\ \A s \in Settings : done[s] # None => done[s].boot # fw.boot + 1
  BY <1>2 DEF Control, Shape
<1>5. Agrees' /\ Kept'
  BY <1>1, <1>2, <1>4 DEF Agrees, Kept
<1>6. Promising'
  <2> SUFFICES ASSUME cmd.outcome = "ok", NEW s \in Promises(cmd)
               PROVE  /\ Wants(mgr, s) = Promised(cmd)[s]
                      /\ s = "channel" => ~mgr.pass
                      /\ cmd.todo # <<>> => \/ About(cmd.todo[Len(cmd.todo)].msg, s)
                                            \/ s = "auto" /\ mgr.acm.auto = FALSE
                      /\ ~ToSend(cmd, s) /\ cmd.todo # <<>> =>
                           Carried(<<>>, fw', s, Wants(mgr, s))
    BY <1>1, <1>2, <1>4 DEF Promising
  <2>1. /\ Wants(mgr, s) = Promised(cmd)[s]
        /\ s = "channel" => ~mgr.pass
        /\ cmd.todo # <<>> => \/ About(cmd.todo[Len(cmd.todo)].msg, s)
                              \/ s = "auto" /\ mgr.acm.auto = FALSE
    BY DEF Control, Promising
  <2>2. ASSUME ~ToSend(cmd, s), cmd.todo # <<>>
        PROVE  Carried(<<>>, fw', s, Wants(mgr, s))
    <3>1. Len(cmd.todo) \in 1 .. Len(cmd.todo)
      BY <2>2, TailAt DEF Control, Shape
    <3>2. s = "auto" /\ mgr.acm.auto = FALSE
      BY <2>1, <2>2, <3>1 DEF ToSend
    <3>3. Has(fw', s) = FALSE /\ Wants(mgr, s) = FALSE
      BY <1>2, <3>2 DEF Has, Wants
    <3>4. Carried(<<>>, fw', s, Has(fw', s))
      BY Nothing
    <3> QED
      BY <3>3, <3>4
  <2> QED
    BY <2>1, <2>2
<1> QED
  BY <1>1, <1>3, <1>5, <1>6 DEF Control

(* Core 1 dies; the driver takes it down. *)
LEMMA CoreControl ==
  ASSUME Control, Crash \/ Notice
  PROVE  Control'
<1>1. /\ UNCHANGED <<mgr, cmd, ring, fw, told, done>>
      /\ core # "offline" /\ core' \in {"dead", "offline"}
  BY DEF Crash, Notice, history
<1>2. Shape'
  BY <1>1 DEF Control, Shape, Idle
<1>3. Agrees' /\ Kept' /\ Promising'
  BY <1>1 DEF Control, Agrees, Kept, Promising
<1> QED
  BY <1>1, <1>2, <1>3 DEF Control

LEMMA FrameControl ==
  ASSUME Control, UNCHANGED <<mgr, cmd, ring, core, fw, told, done>>
  PROVE  Control'
BY DEF Control, Shape, Agrees, Kept, Promising, Idle

LEMMA InitControl == Init => Control
<1> SUFFICES ASSUME Init PROVE Control
  OBVIOUS
<1>1. PICK o \in Options :
        mgr = Configured([modcod |-> o.modcod, loopback |-> o.loopback, channel |-> "clear",
                          pass |-> FALSE, acm |-> [auto |-> o.acm, lo |-> 0, hi |-> High]])
  BY DEF Init
<1>2. MgrShape(mgr) /\ Configured(mgr) = mgr
  BY <1>1 DEF Configured, MgrShape, AcmShape
<1>3. /\ cmd = [f |-> "start", arg |-> None, todo |-> StartMessages(mgr), outcome |-> "ok",
                boot |-> 0]
      /\ ring = <<>> /\ core = "up" /\ fw = Fresh(1) /\ told = 1
      /\ done = [modcod |-> None, loopback |-> None, auto |-> None, bounds |-> None,
                 channel |-> None]
  BY DEF Init, NoCommand
<1>4. cmd.todo = StartMessages(mgr) /\ cmd.f = "start"
  BY <1>3
<1>5. Promises(cmd) = {}
  BY <1>4, PromisesAre
<1>6. /\ \A s \in Settings : ToSend(cmd, s)
      /\ Truthful(mgr, cmd) /\ Obliged(cmd)
  BY <1>2, <1>4, <1>5, StartToSend
<1>7. FwShape(fw) /\ fw.boot = 1
  BY <1>3 DEF Fresh, FwShape, AcmShape
<1>8. DOMAIN done = Settings /\ \A s \in Settings : done[s] = None
  BY <1>3 DEF Settings
<1>9. Shape
  <2>1. cmd.todo \in Seq({cmd.todo[1], cmd.todo[2], cmd.todo[3], cmd.todo[4]})
    BY <1>4 DEF StartMessages
  <2>2. <<>> \in Seq({}) /\ 0 \in 0 .. 1 /\ 1 \in 0 .. 1 /\ 1 \in Nat \ {0}
    OBVIOUS
  <2>3. /\ cmd = [f |-> cmd.f, arg |-> cmd.arg, todo |-> cmd.todo, outcome |-> cmd.outcome,
                  boot |-> cmd.boot]
        /\ cmd.boot = 0 /\ ~Idle
    BY <1>3 DEF Idle
  <2> QED
    BY <1>2, <1>3, <1>7, <1>8, <2>1, <2>2, <2>3 DEF Shape
<1>10. Agrees /\ Kept /\ Promising
  BY <1>5, <1>6, <1>8 DEF Agrees, Kept, Promising
<1> QED
  BY <1>6, <1>9, <1>10 DEF Control

LEMMA NextControl == Control /\ [Next]_vars => Control'
<1> SUFFICES ASSUME Control, [Next]_vars PROVE Control'
  OBVIOUS
<1>1. CASE Send
  BY <1>1, SendControl
<1>2. CASE SendFails
  BY <1>2, SendFailsControl
<1>3. CASE Complete
  BY <1>3, CompleteControl
<1>4. CASE HandleTc
  BY <1>4, HandleTcControl
<1>5. CASE \E s \in Stations, tc \in Functions : Datagram(s, tc)
  BY <1>5, FrameControl DEF Datagram, history
<1>6. CASE TrackPass
  BY <1>6, TrackPassControl
<1>7. CASE (\E s \in Sids : PeriodOver(s)) \/ UpdateHousekeeping \/ SendTm
  BY <1>7, FrameControl DEF PeriodOver, UpdateHousekeeping, SendTm, history
<1>8. CASE DrainIpc
  BY <1>8, DrainIpcControl
<1>9. CASE Crash \/ Notice
  BY <1>9, CoreControl
<1>10. CASE WatchdogRestart
  BY <1>10, WatchdogRestartControl
<1>11. CASE UNCHANGED vars
  BY <1>11, FrameControl DEF vars
<1> QED
  BY <1>1, <1>2, <1>3, <1>4, <1>5, <1>6, <1>7, <1>8, <1>9, <1>10, <1>11 DEF Next, Manager

LEMMA ControlAlways == Spec => []Control
<1> QED
  BY InitControl, NextControl, PTL DEF Spec

-----------------------------------------------------------------------------
(* The results.                                                            *)

LEMMA IdlePromisesNothing ==
  ASSUME Control, Settled
  PROVE  /\ Promises(cmd) = {} /\ (\A s : ~ToSend(cmd, s))
         /\ ring = <<>> /\ core # "offline"
<1>1. cmd.f = "none" /\ cmd.todo = <<>>
  BY DEF Control, Shape, Settled, Idle
<1> QED
  BY <1>1, PromisesAre, NoneToSend DEF Settled

(* What a command reported as completed is what the modem works with, for  *)
(* any mix of commands, failures, passes and instances of Core 1.          *)
THEOREM DoneIsDoneAlways == Spec => []DoneIsDone
<1>1. Control => DoneIsDone
  <2> SUFFICES ASSUME Control, Settled, NEW s \in DOMAIN done,
                      done[s] # None, done[s].boot = fw.boot, s = "channel" => ~mgr.pass
               PROVE  Setting(s) = done[s].value
    BY DEF DoneIsDone
  <2>1. s \in Settings
    BY DEF Control, Shape
  <2>2. Carried(ring, fw, s, done[s].value)
    BY <2>1, IdlePromisesNothing DEF Control, Kept
  <2> QED
    BY <2>1, <2>2, Arrived, SettingIs, IdlePromisesNothing
<1> QED
  BY <1>1, ControlAlways, PTL

(* What the daemon takes the modem's configuration to be, for an instance  *)
(* that got all of it, is what it is.                                      *)
THEOREM ConfigAgreesAlways == Spec => []ConfigAgrees
<1>1. Control => ConfigAgrees
  <2> SUFFICES ASSUME Control, Settled, told = fw.boot
               PROVE  /\ fw.modcod = mgr.modcod /\ fw.loopback = mgr.loopback
                      /\ fw.acm = mgr.acm
                      /\ ~mgr.pass => fw.channel = mgr.channel
    BY DEF ConfigAgrees
  <2>1. \A s \in Settings : (s = "channel" => ~mgr.pass) => Has(fw, s) = Wants(mgr, s)
    BY Arrived, IdlePromisesNothing DEF Control, Agrees
  <2>2. /\ fw.modcod = mgr.modcod /\ fw.loopback = mgr.loopback
        /\ fw.acm.auto = mgr.acm.auto
        /\ <<fw.acm.lo, fw.acm.hi>> = <<mgr.acm.lo, mgr.acm.hi>>
        /\ ~mgr.pass => fw.channel = mgr.channel
    BY <2>1 DEF Has, Wants, Settings
  <2>3. AcmShape(fw.acm) /\ AcmShape(mgr.acm)
    BY DEF Control, Shape, FwShape, MgrShape
  <2> QED
    BY <2>2, <2>3 DEF AcmShape
<1> QED
  BY <1>1, ControlAlways, PTL

LEMMA NextAddressed == Addressed /\ [Next]_vars => Addressed'
<1> SUFFICES ASSUME Addressed, [Next]_vars PROVE Addressed'
  OBVIOUS
<1>1. PICK S : socket \in Seq(S)
  BY DEF Addressed
<1>2. CASE HandleTc
  <2>1. /\ socket # <<>> /\ socket' = Tail(socket) /\ commanders' = commanders /\ heard' = heard
        /\ dest' = IF Head(socket).ok THEN Head(socket).from ELSE dest
    BY <1>2 DEF HandleTc, Redirected, ground
  <2>2. 1 \in 1 .. Len(socket) /\ Head(socket) = socket[1]
    BY <1>1, <2>1, TailAt
  <2>3. dest' \in commanders \cup {None}
    BY <2>1, <2>2 DEF Addressed
  <2>4. socket' \in Seq(S)
    BY <1>1, <2>1, TailAt
  <2>5. \A i \in 1 .. Len(socket') : i + 1 \in 1 .. Len(socket) /\ socket'[i] = socket[i + 1]
    BY <1>1, <2>1, TailAt
  <2> QED
    BY <2>1, <2>3, <2>4, <2>5 DEF Addressed
<1>3. CASE \E s \in Stations, tc \in Functions : Datagram(s, tc)
  <2>1. PICK s \in Stations, tc \in Functions : Datagram(s, tc)
    BY <1>3
  <2> DEFINE x == [tc EXCEPT !.from = s]
  <2>2. /\ socket' = Append(socket, x) /\ dest' = dest /\ heard' = heard
        /\ commanders' = IF tc.ok THEN commanders \cup {s} ELSE commanders
    BY <2>1 DEF Datagram
  <2>3. x.from = s /\ x.ok = tc.ok
    BY PayloadAssumption
  <2> HIDE DEF x
  <2>4. commanders \subseteq commanders' /\ (x.ok => x.from \in commanders')
    BY <2>2, <2>3
  <2>5. /\ socket' \in Seq(S \cup {x}) /\ Len(socket') = Len(socket) + 1
        /\ Len(socket) \in Nat
        /\ socket'[Len(socket) + 1] = x
        /\ \A i \in 1 .. Len(socket) : socket'[i] = socket[i]
    <3>1. socket \in Seq(S \cup {x})
      BY <1>1
    <3> QED
      BY <2>2, <3>1
  <2>6. ASSUME NEW i \in 1 .. Len(socket'), socket'[i].ok
        PROVE  socket'[i].from \in commanders'
    <3>1. CASE i = Len(socket) + 1
      BY <2>4, <2>5, <2>6, <3>1
    <3>2. CASE i # Len(socket) + 1
      <4>1. i \in 1 .. Len(socket) /\ socket'[i] = socket[i]
        BY <2>5, <3>2
      <4> QED
        BY <2>4, <2>6, <4>1 DEF Addressed
    <3> QED
      BY <3>1, <3>2
  <2> QED
    BY <2>2, <2>4, <2>5, <2>6 DEF Addressed
<1>4. CASE SendTm
  BY <1>4 DEF SendTm, Addressed
<1>5. CASE UNCHANGED <<socket, dest, heard, commanders>>
  BY <1>5 DEF Addressed
<1>6. Send \/ SendFails \/ Complete => UNCHANGED <<socket, dest, heard, commanders>>
  BY DEF Send, SendFails, Complete, ground
<1>7. TrackPass \/ UpdateHousekeeping \/ (\E s \in Sids : PeriodOver(s))
        => UNCHANGED <<socket, dest, heard, commanders>>
  BY DEF TrackPass, UpdateHousekeeping, PeriodOver, ground
<1>8. DrainIpc \/ Crash \/ Notice \/ WatchdogRestart
        => UNCHANGED <<socket, dest, heard, commanders>>
  BY DEF DrainIpc, Crash, Notice, WatchdogRestart, ground
<1>9. UNCHANGED vars => UNCHANGED <<socket, dest, heard, commanders>>
  BY DEF vars
<1> QED
  BY <1>2, <1>3, <1>4, <1>5, <1>6, <1>7, <1>8, <1>9 DEF Next, Manager

(* Telemetry never goes to anybody but a sender of a well-formed           *)
(* telecommand, however many datagrams of whatever kind come from others.  *)
THEOREM OnlyCommandersAlways == Spec => []OnlyCommanders
<1>1. Init => Addressed
  <2>1. <<>> \in Seq({})
    OBVIOUS
  <2> QED
    BY <2>1 DEF Init, Addressed
<1>2. Addressed => OnlyCommanders
  BY DEF Addressed, OnlyCommanders
<1> QED
  BY <1>1, <1>2, NextAddressed, PTL DEF Spec

=============================================================================
