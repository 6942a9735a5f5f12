-------------------------------- MODULE Ground ---------------------------------
(***************************************************************************)
(* Telecommands and their verification: three kinds of ground station, the *)
(* command line (host/cli), the Python client (host/python) and the window *)
(* of host/gs, command the same payload manager over UDP.  A station knows *)
(* its command again by nothing but a sequence count: reports come late,   *)
(* out of order, twice, not at all, or to another station than the one     *)
(* that asked, since telemetry goes to whoever commanded last.             *)
(*                                                                         *)
(* Nothing keeps the counts of three stations apart, nor those of one      *)
(* station from what is left of a command of a round before: commands may  *)
(* share a count, and then no station can tell whose a report is.          *)
(*                                                                         *)
(* log, bogus, wrong and shared are history, and so is the field nr of a   *)
(* datagram or a report: the command it is about.  A name that starts with *)
(* Faulty_ is of a plausible mistake in the definition after it.           *)
(***************************************************************************)
EXTENDS Icd, FiniteSets

CONSTANTS
  Counts,       \* sequence counts 0 .. Counts - 1 (16384 in the code)
  Uses,         \* commands of this instance: station, and ping, function, report or unknown
  Events        \* bound of the model: commands, and disturbances: what is lost, comes twice or
                \* too early, datagrams that are no telecommand, periodic reports

ASSUME GroundAssumption ==
  /\ Counts \in Nat \ {0, 1}
  /\ Uses \subseteq Stations \X {"ping", "function", "report", "unknown"}
  /\ Events \in Nat

Clients == {"cli", "python"}     \* stations that wait for the answer to one command
None == "none"

VARIABLES
  session,  \* of a client: what it waits for
  next,     \* Commander: sequence count of the next command
  rows,     \* tcs_: the table of telecommands in the window
  tc_rows,  \* tc_rows_: row of a sequence count
  up,       \* datagrams to the payload
  direct,   \* config_.tm_direct: telemetry does not take the modem link
  dest,     \* station that gets telemetry
  link,     \* telemetry packets on the modem link
  down,     \* datagrams to each station, also those that wait in its socket
  left,     \* commands and disturbances the model still allows
  log,      \* history: commands, what the payload reported, what the client said
  bogus,    \* history: counts read from datagrams that were no telecommand
  wrong,    \* history: numbers that were read as others
  shared    \* history: commands that shared their count while something still bore it

groundVars == <<session, next, rows, tc_rows, up, direct, dest, link, down, left,
                log, bogus, wrong, shared>>

stations == <<session, next, rows, tc_rows>>
board == <<dest, link>>
history == <<log, bogus, wrong, shared>>

Verification(d, subtype) == [type |-> "verification", nr |-> d.nr, count |-> d.count,
                             subtype |-> subtype, failure |-> subtype \in {2, 8}]
Pong == [type |-> "pong", nr |-> 0, count |-> 0]
Housekeeping == [type |-> "hk", nr |-> 0, count |-> 0]

NoCommand == [mode |-> "idle", nr |-> 0, count |-> 0, completed |-> FALSE, pong |-> FALSE]

GroundInit ==
  /\ session = [c \in Clients |-> NoCommand]
  /\ next \in [{"python"} -> 0 .. Counts - 1] /\ rows = <<>> /\ tc_rows = <<>>
  /\ up = {} /\ link = <<>> /\ down = [s \in Stations |-> <<>>]
  /\ direct \in BOOLEAN
  /\ dest = None
  /\ left = Events
  /\ log = <<>> /\ bogus = {} /\ wrong = {} /\ shared = {}

-----------------------------------------------------------------------------
Event == left > 0 /\ left' = left - 1

(* The stations send.                                                      *)

(* The window counts from 0, the Python client from the clock, the command *)
(* line takes the clock for every command.                                 *)
Numbers(s) ==
  CASE s = "gs"     -> {Len(rows) % Counts}
    [] s = "python" -> {next["python"]}
    [] s = "cli"    -> 0 .. Counts - 1

(* Commands that share count n when s sends one with it: the new one, when *)
(* something of another is still on its way, a command that a client waits *)
(* for, and the one of the row that the window finds under n.              *)
Bears(r, n) == r.type = "verification" /\ r.count = n
OnItsWay(n) ==
  \/ \E d \in up : d.nr # 0 /\ d.count = n
  \/ \E r \in ToSet(link) \cup UNION {ToSet(down[s]) : s \in Stations} : r.nr # 0 /\ Bears(r, n)
Sharing(s, n) ==
  {Len(log) + 1 : x \in {y \in {n} : OnItsWay(y)}}
    \cup {session[c].nr : c \in {b \in Clients : session[b].mode = "wait" /\ session[b].count = n}}
    \cup {rows[tc_rows[x]].nr : x \in {y \in DOMAIN tc_rows : y = n /\ s # "gs"}}

Command(n) == [count |-> n, sent |-> TRUE, reported |-> {}, said |-> None]

Datagram(s, n, kind) == [from |-> s, count |-> n, kind |-> kind, nr |-> Len(log) + 1, ok |-> TRUE]

Sends(s, n, kind) ==
  /\ up' = up \cup {Datagram(s, n, kind)}
  /\ log' = Append(log, Command(n))
  /\ shared' = shared \cup Sharing(s, n)

(* GsLink::Send and OnTcSent: a new row, and the count leads to it. *)
Faulty_OnTcSent(n) ==
  /\ rows' = Append(rows, [nr |-> Len(log) + 1, acceptance |-> "...", completion |-> "..."])
  /\ tc_rows' = IF n \in DOMAIN tc_rows THEN tc_rows ELSE tc_rows @@ (n :> Len(rows) + 1)

OnTcSent(n) ==
  /\ rows' = Append(rows, [nr |-> Len(log) + 1, acceptance |-> "...", completion |-> "..."])
  /\ tc_rows' = [x \in DOMAIN tc_rows \cup {n} |-> IF x = n THEN Len(rows) + 1 ELSE tc_rows[x]]

WindowSend(kind) ==
  /\ <<"gs", kind>> \in Uses /\ Event
  /\ \E n \in Numbers("gs") :
       /\ OnTcSent(n)
       /\ Sends("gs", n, kind)
  /\ UNCHANGED <<session, next, direct, board, down, bogus, wrong>>

(* execute: the command line wants the answer to a ping as well. *)
Waiting(c, n, kind) == [mode |-> "wait", nr |-> Len(log) + 1, count |-> n, completed |-> FALSE,
                        pong |-> ~(c = "cli" /\ kind = "ping")]

Advance(c, n) == next' = IF c = "python" THEN [next EXCEPT ![c] = (n + 1) % Counts] ELSE next

ClientSend(c, kind) ==
  /\ <<c, kind>> \in Uses
  /\ session[c].mode = "idle" /\ Event
  /\ \E n \in Numbers(c) :
       /\ Advance(c, n)
       /\ session' = [session EXCEPT ![c] = Waiting(c, n, kind)]
       /\ Sends(c, n, kind)
  /\ UNCHANGED <<rows, tc_rows, direct, board, down, bogus, wrong>>

(* The socket refuses the datagram: the command line calls it rejected.    *)
(* (The Python client raises an error, the window does not look.)          *)
SendFails(kind) ==
  /\ <<"cli", kind>> \in Uses
  /\ session["cli"].mode = "idle" /\ Event
  /\ \E n \in Numbers("cli") :
       /\ log' = Append(log, [Command(n) EXCEPT !.sent = FALSE, !.said = "rejected"])
  /\ UNCHANGED <<stations, up, direct, board, down, bogus, wrong, shared>>

(* hk and monitor: a ping to get the telemetry, whose answer nobody awaits. *)
Watch ==
  /\ session["cli"].mode = "idle" /\ Event
  /\ \E n \in Numbers("cli") :
       /\ session' = [session EXCEPT !["cli"] = [NoCommand EXCEPT !.mode = "watch"]]
       /\ Sends("cli", n, "ping")
  /\ UNCHANGED <<next, rows, tc_rows, direct, board, down, bogus, wrong>>

EndWatch ==
  /\ session["cli"].mode = "watch"
  /\ session' = [session EXCEPT !["cli"] = NoCommand]
  /\ UNCHANGED <<next, rows, tc_rows, up, direct, board, down, left, history>>

(* Anything that is no telecommand, a command that was damaged on its way  *)
(* included: the count is read from wherever it would be, or is 0.         *)
Stray(n) ==
  /\ Event
  /\ up' = up \cup {[from |-> None, count |-> n, kind |-> "unknown", nr |-> 0, ok |-> FALSE]}
  /\ UNCHANGED <<stations, direct, board, down, history>>

-----------------------------------------------------------------------------
(* The payload manager.                                                    *)

(* SendTm, while there is a station to send to. *)
SendTm(s, reports) == IF s = None THEN UNCHANGED down
                      ELSE down' = [down EXCEPT ![s] = @ \o reports]

(* EmitTm: on the modem link in any case; with tm_direct what comes out of *)
(* it is not sent again (OnPacket), so the model leaves it out.            *)
EmitTm(reports, s) ==
  IF direct THEN SendTm(s, reports) /\ UNCHANGED link
            ELSE link' = link \o reports /\ UNCHANGED down

(* What HandleTc reports: all it accepts can fail but for a ping. *)
Answers(d) ==
  IF ~d.ok \/ d.kind = "unknown" THEN {<<Verification(d, 2)>>}
  ELSE CASE d.kind = "ping"     -> {<<Verification(d, 1), Pong, Verification(d, 7)>>}
         [] d.kind = "function" -> {<<Verification(d, 1), Verification(d, v)>> : v \in {7, 8}}
         [] d.kind = "report"   -> {<<Verification(d, 1), Housekeeping, Verification(d, 7)>>,
                                    <<Verification(d, 1), Verification(d, 8)>>}

(* The arguments of a request as the manager reads them. *)
Misunderstood(d) ==
  IF d.ok /\ d.kind = "function"
    THEN {<<d.from, f>> : f \in {g \in Requests(d.from) : Accepted[d.from][g] # Asked[d.from][g]}}
    ELSE {}

Subtypes(reports) == {reports[i].subtype : i \in {j \in DOMAIN reports : reports[j].type = "verification"}}

(* ReceiveTc: telemetry follows a well-formed telecommand. *)
Redirected(d) == IF d.ok THEN d.from ELSE dest

HandleTc(d) ==
  /\ d \in up
  /\ \/ up' = up \ {d} /\ UNCHANGED left
     \/ Event /\ UNCHANGED up
  /\ dest' = Redirected(d)
  /\ \E reports \in Answers(d) :
       /\ EmitTm(reports, dest')
       /\ log' = IF d.ok THEN [log EXCEPT ![d.nr].reported = @ \cup Subtypes(reports)] ELSE log
  /\ bogus' = IF d.ok THEN bogus ELSE bogus \cup {d.count}
  /\ wrong' = wrong \cup Misunderstood(d)
  /\ UNCHANGED <<stations, direct, shared>>

UpdateHousekeeping ==
  /\ Event
  /\ EmitTm(<<Housekeeping>>, dest)
  /\ UNCHANGED <<stations, up, direct, dest, history>>

(* OnPacket: what came through the link goes to the station of now. *)
OnPacket ==
  /\ link # <<>>
  /\ link' = Tail(link)
  /\ SendTm(dest, <<Head(link)>>)
  /\ UNCHANGED <<stations, up, direct, dest, left, history>>

LoseDatagram ==
  /\ Event
  /\ \/ \E d \in up : up' = up \ {d} /\ UNCHANGED <<link, down>>
     \/ link # <<>> /\ link' = Tail(link) /\ UNCHANGED <<up, down>>
     \/ \E s \in Stations : /\ down[s] # <<>>
                            /\ down' = [down EXCEPT ![s] = Tail(@)]
                            /\ UNCHANGED <<up, link>>
  /\ UNCHANGED <<stations, direct, dest, history>>

(* The datagrams of one station overtake each other. *)
Overtake(s) ==
  /\ Len(down[s]) > 1
  /\ Event
  /\ down' = [down EXCEPT ![s] = <<@[2], @[1]>> \o SubSeq(@, 3, Len(@))]
  /\ UNCHANGED <<stations, up, direct, board, history>>

-----------------------------------------------------------------------------
(* The stations receive.                                                   *)

(* A datagram is read once, or comes once more. *)
Read1(s) ==
  /\ down[s] # <<>>
  /\ \/ down' = [down EXCEPT ![s] = Tail(@)] /\ UNCHANGED left
     \/ Event /\ UNCHANGED down

Misread(s, r) ==
  IF r.type # "hk" THEN {}
  ELSE {<<s, x>> : x \in {y \in Structures : \E n \in Points : Shown[s][y][n] # Measured[s][y][n]}}

(* MainWindow::OnVerification.  The columns of acceptance and completion.  *)
Success(r) == r.subtype \in {1, 3, 5, 7}

Column(r) == IF r.subtype <= 2 THEN "acceptance" ELSE "completion"

OnVerification(r) ==
  IF r.count \notin DOMAIN tc_rows THEN UNCHANGED rows
  ELSE LET row == tc_rows[r.count]
           shown == [rows EXCEPT ![row][Column(r)] = IF Success(r) THEN "OK" ELSE "FAILED"]
       IN  rows' = IF ~Success(r) /\ Column(r) = "acceptance"
                     THEN [shown EXCEPT ![row].completion = "-"] ELSE shown

(* GsLink::OnReadyRead *)
OnReadyRead ==
  /\ Read1("gs")
  /\ LET r == Head(down["gs"])
     IN  /\ IF r.type = "verification" THEN OnVerification(r) ELSE UNCHANGED rows
         /\ wrong' = wrong \cup Misread("gs", r)
  /\ UNCHANGED <<session, next, tc_rows, up, direct, board, log, bogus, shared>>

(* Session::execute and PayloadClient.execute: a report of the own command. *)
Faulty_Mine(c, r) == r.type = "verification"
Mine(c, r) == r.type = "verification" /\ r.count = session[c].count

(* The command line looks for a failure code, Python at the subtype. *)
Failed(c, r) == IF c = "cli" THEN r.failure ELSE ~Success(r)

After(c, r) ==
  [session[c] EXCEPT !.completed = @ \/ (Mine(c, r) /\ r.subtype \in {7, 8}),
                     !.pong = @ \/ r.type = "pong"]

Said(c, r) ==
  IF Mine(c, r) /\ Failed(c, r) THEN "rejected"
  ELSE IF After(c, r).completed /\ After(c, r).pong THEN "done" ELSE None

ReceiveReport(c) ==
  /\ session[c].mode # "idle"
  /\ Read1(c)
  /\ LET r == Head(down[c])
     IN  /\ wrong' = wrong \cup Misread(c, r)
         /\ IF session[c].mode = "watch" THEN UNCHANGED <<session, log>>
            ELSE /\ session' = [session EXCEPT ![c] = IF Said(c, r) = None THEN After(c, r) ELSE NoCommand]
                 /\ log' = [log EXCEPT ![session[c].nr].said = Said(c, r)]
  /\ UNCHANGED <<next, rows, tc_rows, up, direct, board, bogus, shared>>

(* The command line has ended: its port is closed.  (What comes to the     *)
(* Python client between two commands waits in its socket.)                *)
NoListener ==
  /\ down["cli"] # <<>> /\ session["cli"].mode = "idle"
  /\ down' = [down EXCEPT !["cli"] = Tail(@)]
  /\ UNCHANGED <<stations, up, direct, board, left, history>>

Timeout(c) ==
  /\ session[c].mode = "wait"
  /\ session' = [session EXCEPT ![c] = NoCommand]
  /\ log' = [log EXCEPT ![session[c].nr].said = "timeout"]
  /\ UNCHANGED <<next, rows, tc_rows, up, direct, board, down, left, bogus, wrong, shared>>

GroundNext ==
  \/ \E k \in {u[2] : u \in Uses} : WindowSend(k) \/ SendFails(k) \/ \E c \in Clients : ClientSend(c, k)
  \/ Watch \/ EndWatch
  \/ \E n \in 0 .. Counts - 1 : Stray(n)
  \/ \E d \in up : HandleTc(d)
  \/ UpdateHousekeeping \/ OnPacket \/ LoseDatagram
  \/ \E s \in Stations : Overtake(s)
  \/ OnReadyRead \/ NoListener
  \/ \E c \in Clients : ReceiveReport(c) \/ Timeout(c)

GroundSpec == GroundInit /\ [][GroundNext]_groundVars

-----------------------------------------------------------------------------
(* What the payload reported of command i, or, when i shared its count, of *)
(* any command with this count.                                            *)
Namesakes(i) == {i} \cup {j \in DOMAIN log : i \in shared /\ log[j].count = log[i].count}
Reported(i) == UNION {log[j].reported : j \in Namesakes(i)}

(* A client that ends says the truth about its own command: done only when *)
(* the payload reported its completion, rejected only when it reported a   *)
(* failure, read the count from a datagram that was no telecommand, or was *)
(* never asked, whatever reports of other commands came in between.  Only  *)
(* a command that met its count in use may be taken for one of the others  *)
(* with this count.                                                        *)
OutcomeTrue ==
  \A i \in DOMAIN log :
    /\ log[i].said = "done" => 7 \in Reported(i)
    /\ log[i].said = "rejected" =>
         \/ ~log[i].sent
         \/ Reported(i) \cap {2, 8} # {}
         \/ log[i].count \in bogus

(* A row of the window never shows what the payload did not report of the  *)
(* command of this row, also when its count was used before; only while a  *)
(* client's command or the rest of an older one has its count may a row    *)
(* show what was reported of that one.                                     *)
RowTrue(row) ==
  LET refused == 2 \in Reported(row.nr) \/ log[row.nr].count \in bogus
  IN  /\ row.acceptance = "OK" => 1 \in Reported(row.nr)
      /\ row.acceptance = "FAILED" => refused
      /\ row.completion = "OK" => 7 \in Reported(row.nr)
      /\ row.completion = "FAILED" => 8 \in Reported(row.nr)
      /\ row.completion = "-" => refused

RowsTrue == \A i \in DOMAIN rows : RowTrue(rows[i])

(* Every number a station shows is the one Core 1 or the manager counted,  *)
(* and every argument the manager takes is the one the station was given,  *)
(* through encoders and decoders in four languages; the decoders of the    *)
(* three languages accept the same packets.                                *)
NumbersArrive ==
  /\ wrong = {}
  /\ CarriedArrive /\ ChangeArrives /\ RequestsArrive
  /\ PacketsArrive /\ ReportsArrive /\ BusArrives
================================================================================
