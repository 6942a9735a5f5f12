---------------------------------- MODULE Scpi ----------------------------------
(***************************************************************************)
(* The payload as a SCPI instrument: program messages come in lines over   *)
(* several TCP connections (TcpLineServer), one parser with one error      *)
(* queue and one set of IEEE 488.2 registers serves all of them            *)
(* (libs/scpi), and its handlers set and read the payload manager          *)
(* (ScpiInstrument).  A handler runs to its end before the next line is    *)
(* looked at; Core 1, its restarts and what of its status has arrived      *)
(* change between any two lines.                                           *)
(*                                                                         *)
(* Text is abstracted to what the parser tells apart: a mnemonic is its    *)
(* word, a parameter a number or a word, a unit one of a few forms.        *)
(*                                                                         *)
(* In scpi, mark, raised, owed and read are history.  A definition whose   *)
(* name starts with Faulty_ is a plausible mistake in the one after it.    *)
(***************************************************************************)
EXTENDS Sequences, SequencesExt, FiniteSets, Integers

CONSTANTS
  Clients,      \* programs that connect
  Lines,        \* program messages of this instance
  Options,      \* command lines of the daemon: --modcod, --loopback, --no-acm
  Top,          \* SATLINK_MODCOD_COUNT - 1
  kQueueSize,   \* entries of the error queue
  kMaxClients,
  Room,         \* answers the connection takes while its client does not read
  Messages,     \* bound of the model: lines sent
  Received,     \* bound of the model: frames an instance of Core 1 receives
  Boots,        \* bound of the model: instances of Core 1
  None

Units ==
  [form : {"relative", "absolute", "common", "malformed"}, header : Seq(STRING),
   query : BOOLEAN, params : Seq([word : STRING, num : Int])]

ASSUME LinesAssumption ==
  Lines \subseteq [length : {"fits", "over 4096", "over 8192"}, units : Seq(Units)]

ASSUME ScpiAssumption ==
  /\ Top \in Nat /\ kQueueSize \in Nat \ {0} /\ kMaxClients \in Nat \ {0}
  /\ Room \in Nat \ {0} /\ Messages \in Nat /\ Received \in Nat /\ Boots \in Nat

VARIABLES
  defaults,  \* configuration the daemon was started with
  mgr,       \* settings of the payload manager
  scpi,      \* parser and instrument: error queue, registers, path, baseline
  conn,      \* [Clients -> connection: open, and the answers to read]
  status,    \* last STATUS message of Core 1
  core,      \* Core 1: up, counters and number of the instance
  left       \* lines the model still allows

vars == <<defaults, mgr, scpi, conn, status, core, left>>

-----------------------------------------------------------------------------
(* Parameters and the functions of Call that read them: a value, or an     *)
(* error that Fail has noted.                                              *)

Word(w) == [word |-> w, num |-> 0]
Num(n) == [word |-> "number", num |-> n]

Value(v) == [value |-> v, error |-> "none"]
Error(e) == [value |-> None, error |-> e]

Expect(ps, n) ==
  CASE Len(ps) < n -> Error("MissingParameter")
    [] Len(ps) > n -> Error("ParameterNotAllowed")
    [] OTHER -> Value(n)

Integer(ps, i, lo, hi, def) ==
  IF i > Len(ps) THEN Error("MissingParameter")
  ELSE CASE ps[i].word = "MIN" -> Value(lo)
         [] ps[i].word = "MAX" -> Value(hi)
         [] ps[i].word = "DEF" /\ def # None -> Value(def)
         [] ps[i].word = "number" ->
              IF ps[i].num \in lo .. hi THEN Value(ps[i].num) ELSE Error("DataOutOfRange")
         [] OTHER -> Error("DataType")

Boolean(ps, i) ==
  IF i > Len(ps) THEN Error("MissingParameter")
  ELSE CASE ps[i] \in {Word("ON"), Num(1)} -> Value(TRUE)
         [] ps[i] \in {Word("OFF"), Num(0)} -> Value(FALSE)
         [] OTHER -> Error("IllegalParameterValue")

Loops == {"ANALog", "DIGital", "SOFTware"}
Choice(ps, i) ==
  IF i > Len(ps) THEN Error("MissingParameter")
  ELSE IF ps[i].word \in Loops THEN Value(ps[i].word) ELSE Error("IllegalParameterValue")

-----------------------------------------------------------------------------
(* Parser: the error queue and the registers.  An entry is the error and   *)
(* its number in the order of all errors (history).                        *)

EsrBitFor(e) ==
  CASE e \in {"Command", "Syntax", "DataType", "ParameterNotAllowed", "MissingParameter",
              "UndefinedHeader"} -> "CommandError"
    [] e \in {"Execution", "SettingsConflict", "DataOutOfRange", "IllegalParameterValue",
              "HardwareMissing"} -> "ExecutionError"

QueueOverflow == [error |-> "QueueOverflow", nr |-> 0]

Faulty_PushError(s, e) ==
  LET entry == [error |-> e, nr |-> s.raised + 1]
  IN  IF Len(s.errors) >= kQueueSize
        THEN [s EXCEPT !.errors = Append(Front(@), entry), !.raised = @ + 1,
                       !.esr = @ \cup {EsrBitFor(e)}, !.owed = @ \cup {EsrBitFor(e)}]
        ELSE [s EXCEPT !.errors = Append(@, entry), !.raised = @ + 1,
                       !.esr = @ \cup {EsrBitFor(e)}, !.owed = @ \cup {EsrBitFor(e)}]
Faulty_PushErrorFirst(s, e) ==
  LET entry == [error |-> e, nr |-> s.raised + 1]
  IN  IF Len(s.errors) >= kQueueSize
        THEN [s EXCEPT !.errors = Append(Front(@), QueueOverflow), !.raised = @ + 1,
                       !.owed = @ \cup {EsrBitFor(e)}]
        ELSE [s EXCEPT !.errors = Append(@, entry), !.raised = @ + 1,
                       !.esr = @ \cup {EsrBitFor(e)}, !.owed = @ \cup {EsrBitFor(e)}]
PushError(s, e) ==
  LET entry == [error |-> e, nr |-> s.raised + 1]
  IN  [s EXCEPT
        !.esr = @ \cup {EsrBitFor(e)}, !.owed = @ \cup {EsrBitFor(e)}, !.raised = @ + 1,
        !.errors = IF Len(@) >= kQueueSize THEN Append(Front(@), QueueOverflow)
                                           ELSE Append(@, entry)]

(* PopError; what was read last is history. *)
PopError(s) ==
  IF s.errors = <<>> THEN s
  ELSE [s EXCEPT !.errors = Tail(@),
         !.read = IF Head(s.errors).nr = 0 THEN [@ EXCEPT !.marked = TRUE]
                  ELSE [nr |-> Head(s.errors).nr, marked |-> FALSE]]

PopAll(s) ==
  [s EXCEPT !.errors = <<>>, !.read = [nr |-> s.raised, marked |-> FALSE]]

(* The status byte: what is summarised, and the request for service when   *)
(* one of that is enabled.  A mask is all the bits or none.                *)
Bits == {"CommandError", "ExecutionError", "OPC", "errors", "events"}
Stb(s) ==
  LET summary == {b \in {"errors", "events"} :
                    IF b = "errors" THEN s.errors # <<>> ELSE s.esr \cap s.ese # {}}
  IN  summary \cup IF summary \cap s.sre # {} THEN {"service"} ELSE {}

(* Clear: *CLS. *)
Clear(s) == [PopAll(s) EXCEPT !.esr = {}, !.owed = {}]

-----------------------------------------------------------------------------
(* The payload manager, as the handlers use it.  What is set is set in any *)
(* case; that the message could not be sent is an error.  x is the payload *)
(* while a line runs: mgr, scpi, core, and the answers of the line.        *)

Widest == [on |-> FALSE, lo |-> 0, hi |-> Top, margin |-> 1, hysteresis |-> 1]
Clean == [noise |-> 0, gain |-> 1]

Fail(x, e) == [x EXCEPT !.scpi = PushError(@, e)]
Sent(x) == IF x.core.up THEN x ELSE Fail(x, "Execution")

SetModcod(m, v) == [m EXCEPT !.modcod = v, !.acm.on = FALSE]
SetChannel(m, v) == [m EXCEPT !.channel = v, !.pass = FALSE]

(* ScpiInstrument::Reset; the calls' results are not looked at. *)
WithAcm(m) == IF defaults.acm THEN [m EXCEPT !.acm = [Widest EXCEPT !.on = TRUE]] ELSE m
ResetManager(m) ==
  WithAcm(SetModcod([SetChannel(m, Clean) EXCEPT !.loopback = defaults.loopback], defaults.modcod))

(* The window of MEASure:BER? and MEASure:FER?: a restart of Core 1, seen  *)
(* by its counters, restarts it.                                           *)
Zero == [ok |-> 0, crc |-> 0, bits |-> 0, wrong |-> 0]
Behind(c, b) == c.bits < b.bits \/ c.ok < b.ok \/ c.crc < b.crc
Faulty_Window(s) ==
  IF status.count.bits <= s.baseline.bits THEN [s EXCEPT !.baseline = Zero] ELSE s
Window(s) == IF Behind(status.count, s.baseline) THEN [s EXCEPT !.baseline = Zero] ELSE s
Difference(s) ==
  [wrong |-> status.count.wrong - s.baseline.wrong, bits |-> status.count.bits - s.baseline.bits]

(* MEASure:RESet, and the end of *RST. *)
Rebase(s) == [s EXCEPT !.baseline = status.count, !.mark = status]

-----------------------------------------------------------------------------
(* Handlers.  Each returns the payload after it; one that has failed       *)
(* changes nothing else.                                                   *)

Failed(check) == check.error # "none"
Note(x, check) == IF Failed(check) THEN Fail(x, check.error) ELSE x

(* A setter: with its check passed, m is the manager after it. *)
Set(x, check, m) == IF Failed(check) THEN Fail(x, check.error) ELSE Sent([x EXCEPT !.mgr = m])

(* The chain of "value, and then Expect" stops at the first that fails. *)
First(a, b) == IF Failed(a) THEN a ELSE b

Limits(x, ps) ==
  LET lo == Integer(ps, 1, 0, Top, 0)
      hi == Integer(ps, 2, 0, Top, Top)
  IN  CASE Failed(lo) \/ Failed(hi) -> Note(Note(x, lo), hi)
        [] ~Failed(lo) /\ ~Failed(hi) /\ ~Failed(Expect(ps, 2)) /\ lo.value > hi.value ->
             Fail(x, "SettingsConflict")
        [] OTHER -> Set(x, Expect(ps, 2), [x.mgr EXCEPT !.acm.lo = lo.value, !.acm.hi = hi.value])

(* ChannelFor: the noise that gives an Es/N0, at full gain. *)
ChannelFor(esn0) == [Clean EXCEPT !.noise = 1 - esn0]

(* RestartModem; outcome is what the driver makes of the stop and start.   *)
(* A new instance gets its configuration again, with ACM's limits as they  *)
(* were at first.                                                          *)
RestartOutcomes == {"new", "stopped", "refused", "missing"}
RestartModem(x, outcome) ==
  CASE outcome = "new" -> [x EXCEPT !.mgr.acm = [Widest EXCEPT !.on = x.mgr.acm.on],
                                    !.core = [up |-> TRUE, boot |-> @.boot + 1, count |-> Zero]]
    [] outcome = "stopped" -> Fail([x EXCEPT !.core.up = FALSE], "Execution")
    [] outcome = "refused" -> Fail(x, "Execution")
    [] outcome = "missing" -> Fail(x, "HardwareMissing")     \* -ENOTSUP

(* Commands without a parameter have Expect(0, 0). *)
Plain(x, ps, result) == IF ps = <<>> THEN result ELSE Note(x, Expect(ps, 0))

(* A number of decibels, degrees or times, with its default. *)
Decibels(ps, i, def) == Integer(ps, i, 0, 1, def)

(* PASS:STARt takes up to three numbers and stops at the first that fails. *)
StartPass(x, ps) ==
  LET numbers == [i \in DOMAIN ps |-> Decibels(ps, i, 1)]
      failed == {i \in DOMAIN ps : Failed(numbers[i])}
  IN  IF Len(ps) > 3 THEN Note(x, Expect(ps, 3))
      ELSE IF failed # {} THEN Fail(x, numbers[Min(failed)].error)
      ELSE [x EXCEPT !.mgr.pass = TRUE]

Do(name, ps, x, outcome) ==
  CASE name = "*CLS" -> Plain(x, ps, [x EXCEPT !.scpi = Clear(@)])
    [] name = "*RST" -> Plain(x, ps, [x EXCEPT !.mgr = ResetManager(@), !.scpi = Rebase(@)])
    [] name \in {"*ESE", "*SRE"} ->
         LET v == Integer(ps, 1, 0, 1, None)
             check == First(v, Expect(ps, 1))
             enabled == IF v.value = 1 THEN Bits ELSE {}
         IN  IF Failed(check) THEN Note(x, check)
             ELSE IF name = "*ESE" THEN [x EXCEPT !.scpi.ese = enabled]
             ELSE [x EXCEPT !.scpi.sre = enabled]
    [] name = "*OPC" -> [x EXCEPT !.scpi.esr = @ \cup {"OPC"}]
    [] name = "*WAI" -> x
    [] name = "MOD:MODC" ->
         LET v == Integer(ps, 1, 0, Top, None)
         IN  Set(x, First(v, Expect(ps, 1)), SetModcod(x.mgr, v.value))
    [] name = "MOD:ACM" ->
         LET v == Boolean(ps, 1)
         IN  Set(x, First(v, Expect(ps, 1)), [x.mgr EXCEPT !.acm.on = v.value])
    [] name = "MOD:ACM:LIM" -> Limits(x, ps)
    [] name = "MOD:ACM:MARG" ->
         LET v == Decibels(ps, 1, 1)
         IN  Set(x, First(v, Expect(ps, 1)), [x.mgr EXCEPT !.acm.margin = v.value])
    [] name = "MOD:ACM:HYST" ->
         LET v == Decibels(ps, 1, 1)
         IN  Set(x, First(v, Expect(ps, 1)), [x.mgr EXCEPT !.acm.hysteresis = v.value])
    [] name = "MOD:LOOP" ->
         LET v == Choice(ps, 1)
         IN  Set(x, First(v, Expect(ps, 1)), [x.mgr EXCEPT !.loopback = v.value])
    [] name = "MOD:REST" -> Plain(x, ps, RestartModem(x, outcome))
    [] name = "CHAN:ESN0" ->
         LET v == Decibels(ps, 1, None)
         IN  Set(x, First(v, Expect(ps, 1)), SetChannel(x.mgr, ChannelFor(v.value)))
    [] name = "CHAN:NOIS" ->
         LET v == Integer(ps, 1, 0, 1, 0)
             noisy == [x.mgr.channel EXCEPT !.noise = v.value]
         IN  Set(x, First(v, Expect(ps, 1)), SetChannel(x.mgr, noisy))
    [] name = "CHAN:GAIN" ->
         LET v == Integer(ps, 1, 0, 1, 1)
             weaker == [x.mgr.channel EXCEPT !.gain = v.value]
         IN  Set(x, First(v, Expect(ps, 1)), SetChannel(x.mgr, weaker))
    [] name = "CHAN:CLE" -> Plain(x, ps, Sent([x EXCEPT !.mgr = SetChannel(@, Clean)]))
    [] name = "PASS:STAR" -> StartPass(x, ps)
    [] name = "PASS:STOP" -> Plain(x, ps, [x EXCEPT !.mgr.pass = FALSE])
    [] name = "MEAS:RES" -> Plain(x, ps, [x EXCEPT !.scpi = Rebase(@)])

(* Queries that only read. *)
Reading(name, x) ==
  CASE name = "SYST:ERR:COUN?" -> Len(x.scpi.errors)
    [] name = "*STB?" -> Stb(x.scpi)
    [] name = "*OPC?" -> TRUE
    [] name = "MOD:ACM?" -> x.mgr.acm.on
    [] name = "MOD:ACM:LIM?" -> <<x.mgr.acm.lo, x.mgr.acm.hi>>
    [] name = "MOD:LOOP?" -> x.mgr.loopback
    [] name = "CHAN:GAIN?" -> x.mgr.channel.gain
    [] name = "MEAS:COUN?" -> status.count
    [] name = "PASS:STAT?" -> x.mgr.pass

(* Queries look at no parameter; each has an answer. *)
Answer(name, x) ==
  LET s == x.scpi
      reply(t, answer) == [x EXCEPT !.scpi = t, !.answers = Append(@, answer)]
  IN  CASE name = "*ESR?" -> reply([s EXCEPT !.esr = {}, !.owed = {}], s.esr)
        [] name = "SYST:ERR?" ->
             reply(PopError(s), IF s.errors = <<>> THEN "NoError" ELSE Head(s.errors).error)
        [] name = "SYST:ERR:ALL?" -> reply(PopAll(s), s.errors)
        [] name \in {"MEAS:BER?", "MEAS:FER?"} -> reply(Window(s), Difference(Window(s)))
        [] OTHER -> reply(s, Reading(name, x))

-----------------------------------------------------------------------------
(* Finding a command.  A pattern is a sequence of mnemonics, some of them  *)
(* optional; a header matches when it is the pattern without some optional *)
(* ones.                                                                   *)

Node(w) == [word |-> w, optional |-> FALSE]
Optional(w) == [word |-> w, optional |-> TRUE]
Match(nodes) ==
  {LET kept == SetToSortSeq(DOMAIN nodes \ dropped, <)
   IN  [i \in DOMAIN kept |-> nodes[kept[i]].word] :
     dropped \in SUBSET {i \in DOMAIN nodes : nodes[i].optional}}
Command(name, nodes, query) == [name |-> name, headers |-> Match(nodes), query |-> query]

Commands ==
  {Command("*CLS", <<Node("*CLS")>>, FALSE),
   Command("*RST", <<Node("*RST")>>, FALSE),
   Command("*ESR?", <<Node("*ESR")>>, TRUE),
   Command("*ESE", <<Node("*ESE")>>, FALSE),
   Command("*SRE", <<Node("*SRE")>>, FALSE),
   Command("*STB?", <<Node("*STB")>>, TRUE),
   Command("*OPC", <<Node("*OPC")>>, FALSE),
   Command("*OPC?", <<Node("*OPC")>>, TRUE),
   Command("*WAI", <<Node("*WAI")>>, FALSE),
   Command("SYST:ERR?", <<Node("SYST"), Node("ERR"), Optional("NEXT")>>, TRUE),
   Command("SYST:ERR:ALL?", <<Node("SYST"), Node("ERR"), Node("ALL")>>, TRUE),
   Command("SYST:ERR:COUN?", <<Node("SYST"), Node("ERR"), Node("COUN")>>, TRUE),
   Command("MOD:MODC", <<Node("MOD"), Node("MODC")>>, FALSE),
   Command("MOD:ACM", <<Node("MOD"), Node("ACM"), Optional("STAT")>>, FALSE),
   Command("MOD:ACM?", <<Node("MOD"), Node("ACM"), Optional("STAT")>>, TRUE),
   Command("MOD:ACM:LIM", <<Node("MOD"), Node("ACM"), Node("LIM")>>, FALSE),
   Command("MOD:ACM:LIM?", <<Node("MOD"), Node("ACM"), Node("LIM")>>, TRUE),
   Command("MOD:ACM:MARG", <<Node("MOD"), Node("ACM"), Node("MARG")>>, FALSE),
   Command("MOD:ACM:HYST", <<Node("MOD"), Node("ACM"), Node("HYST")>>, FALSE),
   Command("MOD:LOOP?", <<Node("MOD"), Node("LOOP")>>, TRUE),
   Command("MOD:LOOP", <<Node("MOD"), Node("LOOP")>>, FALSE),
   Command("MOD:REST", <<Node("MOD"), Node("REST")>>, FALSE),
   Command("CHAN:NOIS", <<Node("CHAN"), Node("NOIS")>>, FALSE),
   Command("CHAN:ESN0", <<Node("CHAN"), Node("ESN0")>>, FALSE),
   Command("CHAN:GAIN", <<Node("CHAN"), Node("GAIN")>>, FALSE),
   Command("CHAN:GAIN?", <<Node("CHAN"), Node("GAIN")>>, TRUE),
   Command("CHAN:CLE", <<Node("CHAN"), Node("CLE")>>, FALSE),
   Command("PASS:STAR", <<Node("PASS"), Node("STAR")>>, FALSE),
   Command("PASS:STOP", <<Node("PASS"), Node("STOP")>>, FALSE),
   Command("PASS:STAT?", <<Node("PASS"), Node("STAT")>>, TRUE),
   Command("MEAS:COUN?", <<Node("MEAS"), Node("COUN")>>, TRUE),
   Command("MEAS:FER?", <<Node("MEAS"), Node("FER")>>, TRUE),
   Command("MEAS:RES", <<Node("MEAS"), Node("RES")>>, FALSE),
   Command("MEAS:BER?", <<Node("MEAS"), Node("BER")>>, TRUE)}

Find(header, query) ==
  LET found == {c \in Commands : c.query = query /\ header \in c.headers}
  IN  IF found = {} THEN None ELSE (CHOOSE c \in found : TRUE).name

(* The header of a unit under the path that earlier units of the message   *)
(* left, and if there is none, from the root.  A common command, as *RST,  *)
(* leaves the path alone, and so does a unit that names no command.        *)
Resolve(u, path) ==
  LET below == path \o u.header
      under == IF u.form = "relative" /\ path # <<>> THEN Find(below, u.query) ELSE None
  IN  CASE u.form = "malformed" -> [name |-> "malformed", path |-> path]
        [] under # None -> [name |-> under, path |-> Front(below)]
        [] OTHER -> LET name == Find(u.header, u.query)
                    IN  [name |-> name, path |-> IF u.form = "common" \/ name = None
                                                   THEN path ELSE Front(u.header)]

(* The commands that the units of a line name; no handler changes that. *)
Calls(units) ==
  LET path[n \in 0 .. Len(units)] == IF n = 0 THEN <<>> ELSE Resolve(units[n], path[n - 1]).path
  IN  [n \in 1 .. Len(units) |-> [unit |-> units[n], name |-> Resolve(units[n], path[n - 1]).name]]

(* ExecuteOne: a unit of the line. *)
ExecuteOne(x, c, outcome) ==
  CASE c.name = "malformed" \/ (c.name # None /\ Word("empty") \in ToSet(c.unit.params)) ->
         Fail(x, "Syntax")
    [] c.name = None -> Fail(x, "UndefinedHeader")
    [] OTHER -> IF c.unit.query THEN Answer(c.name, x) ELSE Do(c.name, c.unit.params, x, outcome)

(* Execute: the units in order, from the root. *)
After(start, calls, outcome) ==
  LET x[n \in 0 .. Len(calls)] == IF n = 0 THEN start ELSE ExecuteOne(x[n - 1], calls[n], outcome)
  IN  x[Len(calls)]
Execute(line, outcome) ==
  LET start == [mgr |-> mgr, scpi |-> scpi, core |-> core, answers |-> <<>>]
  IN  IF line.length = "over 4096" THEN Fail(start, "Command")
      ELSE After(start, Calls(line.units), outcome)

-----------------------------------------------------------------------------
(* TcpLineServer.                                                          *)

Init ==
  /\ defaults \in Options
  /\ mgr = [modcod |-> defaults.modcod, loopback |-> defaults.loopback, channel |-> Clean,
            pass |-> FALSE, acm |-> [Widest EXCEPT !.on = defaults.acm]]
  /\ status = [boot |-> 1, count |-> Zero]
  /\ scpi = [errors |-> <<>>, esr |-> {}, ese |-> {}, sre |-> {},
             baseline |-> Zero, mark |-> status,
             raised |-> 0, owed |-> {}, read |-> [nr |-> 0, marked |-> FALSE]]
  /\ conn = [c \in Clients |-> [state |-> "none", out |-> <<>>]]
  /\ core = [up |-> TRUE, boot |-> 1, count |-> Zero]
  /\ left = Messages

(* Poll accepts; one connection too many is closed at once. *)
Connect(c) ==
  /\ conn[c].state = "none"
  /\ LET open == {d \in Clients : conn[d].state = "open"}
     IN  conn' = [conn EXCEPT ![c].state = IF Cardinality(open) < kMaxClients THEN "open" ELSE "closed"]
  /\ UNCHANGED <<defaults, mgr, scpi, status, core, left>>

ReadAnswer(c) ==
  /\ conn[c].out # <<>>
  /\ conn' = [conn EXCEPT ![c].out = Tail(@)]
  /\ UNCHANGED <<defaults, mgr, scpi, status, core, left>>

(* The client ends its connection, and may make a new one. *)
Disconnect(c) ==
  /\ conn[c].state # "none"
  /\ conn' = [conn EXCEPT ![c] = [state |-> "none", out |-> <<>>]]
  /\ UNCHANGED <<defaults, mgr, scpi, status, core, left>>

(* The answer of a line.  What the connection does not take at once is     *)
(* lost, perhaps from the middle of the answer on, and the client is out.  *)
Faulty_Reply(k, answers) ==
  IF answers = <<>> THEN {k}
  ELSE IF Len(k.out) < Room THEN {[k EXCEPT !.out = Append(@, "answer")]}
  ELSE {k, [k EXCEPT !.out = Append(@, "part")]}
Reply(k, answers) ==
  IF answers = <<>> THEN {k}
  ELSE IF Len(k.out) < Room THEN {[k EXCEPT !.out = Append(@, "answer")]}
  ELSE {[k EXCEPT !.state = "closed"],
        [k EXCEPT !.state = "closed", !.out = Append(@, "part")]}

(* Serve: a line has come whole; one that does not fit the buffer is       *)
(* dropped, and nothing is said of it.                                     *)
Restarting == {l \in Lines : \E i \in DOMAIN l.units : Last(l.units[i].header) = "REST"}
Serve(c, line) ==
  /\ conn[c].state = "open" /\ left > 0
  /\ left' = left - 1
  /\ IF line.length = "over 8192"
       THEN UNCHANGED <<conn, mgr, scpi, core>>
       ELSE \E outcome \in IF line \in Restarting THEN RestartOutcomes ELSE {"new"} :
            \E x \in {Execute(line, outcome)} :
              /\ x.core.boot <= Boots
              /\ mgr' = x.mgr /\ scpi' = x.scpi /\ core' = x.core
              /\ \E r \in Reply(conn[c], x.answers) : conn' = [conn EXCEPT ![c] = r]
  /\ UNCHANGED <<defaults, status>>

-----------------------------------------------------------------------------
(* Core 1: a good idle frame, one with wrong bits, a lost data frame.      *)

Receive ==
  /\ core.up /\ core.count.ok + core.count.crc < Received
  /\ \E f \in {[ok |-> 1, crc |-> 0, bits |-> 1, wrong |-> 0],
               [ok |-> 0, crc |-> 1, bits |-> 1, wrong |-> 1],
               [ok |-> 0, crc |-> 1, bits |-> 0, wrong |-> 0]} :
       core' = [core EXCEPT !.count = [n \in DOMAIN f |-> @[n] + f[n]]]
  /\ UNCHANGED <<defaults, mgr, scpi, conn, status, left>>

(* A STATUS message arrives. *)
OnStatus ==
  /\ core.up
  /\ status' = [boot |-> core.boot, count |-> core.count]
  /\ UNCHANGED <<defaults, mgr, scpi, conn, core, left>>

Crash ==
  /\ core.up /\ core.boot < Boots
  /\ core' = [core EXCEPT !.up = FALSE]
  /\ UNCHANGED <<defaults, mgr, scpi, conn, status, left>>

WatchdogRestart ==
  /\ ~core.up /\ core.boot < Boots
  /\ core' = [up |-> TRUE, boot |-> core.boot + 1, count |-> Zero]
  /\ UNCHANGED <<defaults, mgr, scpi, conn, status, left>>

Next ==
  \/ \E c \in Clients :
       \/ Connect(c) \/ ReadAnswer(c) \/ Disconnect(c)
       \/ \E line \in Lines : Serve(c, line)
  \/ Receive \/ OnStatus \/ Crash \/ WatchdogRestart

Spec == Init /\ [][Next]_vars

-----------------------------------------------------------------------------
(* "Reports errors through a 16-entry error queue" (SRS-SCPI-001): an      *)
(* error that nobody can read any more was followed by "Queue overflow" at *)
(* its place in the order, or was before the last error read or cleared;   *)
(* over any sequence of errors, reads and clears by several clients.       *)
Overflowed(s, i) == s.errors[i].nr = 0
Accounted(s) ==
  \A nr \in s.read.nr + 1 .. s.raised :
    \/ \E i \in DOMAIN s.errors : s.errors[i].nr = nr
    \/ /\ s.read.marked
       /\ \A j \in DOMAIN s.errors : Overflowed(s, j) \/ s.errors[j].nr > nr
    \/ \E i \in DOMAIN s.errors :
         /\ Overflowed(s, i)
         /\ \A j \in DOMAIN s.errors :
              \/ Overflowed(s, j)
              \/ IF j < i THEN s.errors[j].nr < nr ELSE s.errors[j].nr > nr
ErrorsAccounted == Accounted(scpi)

(* The event status register tells of the errors that the queue had no     *)
(* room for as well.                                                       *)
EventsKept == scpi.owed \subseteq scpi.esr

(* A client that has lost a part of an answer gets no other: it could not  *)
(* tell any more which answer belongs to which query.                      *)
AnswersWhole ==
  \A c \in Clients : \A i \in DOMAIN conn[c].out :
    conn[c].out[i] = "part" => i = Len(conn[c].out) /\ conn[c].state = "closed"

(* "BER and FER cover the window since the last MEASure:RESet", whatever   *)
(* other clients ask between, as long as the instance of Core 1 whose      *)
(* counters it began with is the one reporting; after a restart it is this *)
(* window still or, from a query that sees the counters behind, all of the *)
(* new instance, and never a third one.                                    *)
WindowKept ==
  /\ status.boot = scpi.mark.boot => scpi.baseline = scpi.mark.count
  /\ scpi.baseline \in {scpi.mark.count, Zero}

================================================================================
