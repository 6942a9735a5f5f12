--------------------------------- MODULE Icd ----------------------------------
(***************************************************************************)
(* The numbers of docs/icd on their way: from the modem application of     *)
(* Core 1 in STATUS and CONSTELLATION messages and from the housekeeping   *)
(* controller in CAN frames to the payload manager, and from there in      *)
(* ST[03] reports to the three ground stations; and the arguments of ST[08]*)
(* and ST[03] requests from the stations to the manager.  Every end of     *)
(* every hop is code of its own: C, C++, Rust and Python know the layouts  *)
(* by heart.  A byte is modelled by the number it belongs to, its place in *)
(* it and how that number was written.                                     *)
(* A definition whose name starts with Faulty_ is a plausible mistake in   *)
(* the definition after it.                                                *)
(***************************************************************************)
EXTENDS Sequences, SequencesExt, Integers, TLC

Stations == {"gs", "cli", "python"}
Structures == {"modem", "link", "platform", "constellation"}
Points == {0, 2}               \* points of a constellation, enough to be off by one

(* Fields: bytes, sign and steps per unit of the number.  A number that is *)
(* never negative reads the same with and without a sign.                  *)
Fields(w, signed, per, names) ==
  [i \in DOMAIN names |-> [name |-> names[i], w |-> w, form |-> <<w, signed, per>>]]
U8(names) == Fields(1, FALSE, 1, names)
U16(names) == Fields(2, FALSE, 1, names)
U32(names) == Fields(4, FALSE, 1, names)
Tenths(names) == Fields(2, FALSE, 10, names)
Centi(names) == Fields(2, TRUE, 100, names)
Milli(names) == Fields(2, TRUE, 1000, names)
Offset(names) == Fields(1, TRUE, 64, names)     \* S8, 1/64 of the symbol amplitude

Names(layout) == {layout[i].name : i \in DOMAIN layout}
Start(layout, i) ==
  LET at[k \in 1 .. Len(layout) + 1] == IF k = 1 THEN 0 ELSE at[k - 1] + layout[k - 1].w
  IN  at[i]
Size(layout) == Start(layout, Len(layout) + 1)

(* ByteWriter, struct.pack, satlink_put_le*: the bytes of the numbers v. *)
Write(layout, v) ==
  FlattenSeq([i \in DOMAIN layout |->
    [k \in 1 .. layout[i].w |-> [of |-> v[layout[i].name], form |-> layout[i].form, byte |-> k]]])

Garbled == [name |-> "garbled", n |-> 0]
Unknown == [unknown |-> Garbled]

Number(f, bytes) ==
  IF \A k \in DOMAIN bytes : bytes[k].of = bytes[1].of /\ bytes[k].form = f.form /\ bytes[k].byte = k
    THEN bytes[1].of ELSE Garbled

(* ByteReader, Reader, struct.unpack, satlink_get_le*: too long and too     *)
(* short are refused alike.                                                *)
Read(layout, bytes) ==
  IF Len(bytes) # Size(layout) THEN Unknown
  ELSE [n \in Names(layout) |->
         LET i == CHOOSE j \in DOMAIN layout : layout[j].name = n
             s == Start(layout, i)
         IN  Number(layout[i], SubSeq(bytes, s + 1, s + layout[i].w))]

(* What every number really is; n is the one of the count of points. *)
Real(names, n) == [x \in names |-> [name |-> x, n |-> IF x = "count" THEN n ELSE 0]]

(* Numbers from two sources. *)
Also(f, g) == [x \in DOMAIN f \cup DOMAIN g |-> IF x \in DOMAIN f THEN f[x] ELSE g[x]]

Spots(n) == Offset(SubSeq(<<"i1", "q1", "i2", "q2">>, 1, 2 * n))

-----------------------------------------------------------------------------
(* Core 1 and Linux: libs/amp/src/msg.c.                                   *)

Counters == U32(<<"uptime_ms", "frames_ok", "frames_crc_error", "header_errors", "bit_errors",
                  "bits_checked", "tx_data_frames", "tx_idle_frames", "dma_underruns",
                  "rx_overruns", "rx_latency_max_us", "rx_latency_avg_us">>)

EncodeStatus == Counters \o Centi(<<"esn0">>)
                \o U8(<<"locked", "tx_modcod", "acm_enabled", "tx_queue_depth">>)
                \o Tenths(<<"cpu_load">>) \o U8(<<"spare1", "spare2">>)

DecodeStatus == Counters \o Centi(<<"esn0">>)
                \o U8(<<"locked", "tx_modcod", "acm_enabled", "tx_queue_depth">>)
                \o Tenths(<<"cpu_load">>) \o U8(<<"not read1", "not read2">>)

EncodeConstellation(n) == U8(<<"modcod", "count">>) \o Spots(n)
DecodeConstellation(bytes) ==
  IF Len(bytes) < 2 THEN Unknown
  ELSE Read(U8(<<"modcod", "count">>) \o Spots(bytes[2].of.n), bytes)

Status == Read(DecodeStatus, Write(EncodeStatus, Real(Names(EncodeStatus), 0)))

Constellation(n) ==
  DecodeConstellation(Write(EncodeConstellation(n), Real(Names(EncodeConstellation(n)), n)))

(* The other messages.  What a decoder refuses besides a wrong length, a    *)
(* loopback mode or MODCOD limits out of order, is not sent.               *)
Frame == U8(<<"data1", "data2">>)      \* SATLINK_MSG_FRAME_BYTES, 128 in the code

encode_ping == U32(<<"token", "uptime_ms">>)
decode_ping == U32(<<"token", "uptime_ms">>)
encode_modem_config == U8(<<"tx_enable", "rx_enable", "modcod", "loopback">>)
decode_modem_config == U8(<<"tx_enable", "rx_enable", "modcod", "loopback">>)
encode_channel == U16(<<"noise_level", "gain_q15">>)
decode_channel == U16(<<"noise_level", "gain_q15">>)
encode_acm_config == U8(<<"enabled", "min", "max">>) \o Centi(<<"margin", "hysteresis">>)
decode_acm_config == U8(<<"enabled", "min", "max">>) \o Centi(<<"margin", "hysteresis">>)
encode_time == U32(<<"unix_ms low", "unix_ms high">>)
decode_time == U32(<<"unix_ms low", "unix_ms high">>)
encode_rx_frame == U8(<<"modcod", "crc_ok">>) \o Centi(<<"esn0">>) \o U8(<<"seq">>) \o Frame
decode_rx_frame == U8(<<"modcod", "crc_ok">>) \o Centi(<<"esn0">>) \o U8(<<"seq">>) \o Frame

(* What the firmware takes from Linux and Linux (Dispatch) from it. *)
Carried ==
  { <<encode_ping, decode_ping>>, <<encode_modem_config, decode_modem_config>>,
    <<encode_channel, decode_channel>>, <<encode_acm_config, decode_acm_config>>,
    <<encode_time, decode_time>>, <<encode_rx_frame, decode_rx_frame>> }

CarriedArrive ==
  \A m \in Carried :
    Read(m[2], Write(m[1], Real(Names(m[1]), 0))) = Real(Names(m[1]), 0)

(* LOG: the text up to its end, cut at LogMax characters; the first byte   *)
(* is the level.  An empty message and a longer one are refused.           *)
LogMax == 10                   \* SATLINK_MSG_LOG_MAX, 120 in the code
encode_log(text) == <<"level">> \o SubSeq(text, 1, IF Len(text) < LogMax THEN Len(text) ELSE LogMax)
decode_log(bytes) == IF Len(bytes) \in 1 .. LogMax + 1 THEN Tail(bytes) ELSE <<"refused">>

(* "ACM 1->2 up at 12.3 dB" is how the manager learns of a change: it     *)
(* counts characters.                                                      *)
on_acm_change(from, to) == <<"A", "C", "M", " ", from, "-", ">", to, " ", "u", "p">>
OnLog(text) ==
  IF Len(text) >= 8 /\ SubSeq(text, 1, 4) = <<"A", "C", "M", " ">>
    THEN <<text[5], text[8]>> ELSE <<>>

ChangeArrives ==
  OnLog(decode_log(encode_log(on_acm_change("0", "1")))) = <<"0", "1">>

-----------------------------------------------------------------------------
(* Packets: libs/pus, host/cli/src/pus.rs and host/python/satlink/pus.py.  *)
(* The parts of a word of the header are fields of a few bits.             *)
Bits(w, name) == Fields(w, FALSE, 0, <<name>>)

EncodePrimaryHeader ==
  Bits(3, "version") \o Bits(1, "type") \o Bits(1, "secondary") \o Bits(11, "apid")
  \o Bits(2, "flags") \o Bits(14, "count") \o Bits(16, "length")
DecodePrimaryHeader ==
  Bits(3, "version") \o Bits(1, "type") \o Bits(1, "secondary") \o Bits(11, "apid")
  \o Bits(2, "flags") \o Bits(14, "count") \o Bits(16, "length")
primary_header ==
  Bits(3, "version") \o Bits(1, "type") \o Bits(1, "secondary") \o Bits(11, "apid")
  \o Bits(2, "flags") \o Bits(14, "count") \o Bits(16, "length")
header_py ==
  Bits(3, "version") \o Bits(1, "type") \o Bits(1, "secondary") \o Bits(11, "apid")
  \o Bits(2, "flags") \o Bits(14, "count") \o Bits(16, "length")

Finish(header, body) == header \o body \o U16(<<"crc">>)

EncodeTc ==
  Finish(EncodePrimaryHeader,
         Bits(4, "pus") \o Bits(4, "ack") \o U8(<<"service", "subtype">>) \o U16(<<"source">>))
encode_tc ==
  Finish(primary_header,
         Bits(4, "pus") \o Bits(4, "ack") \o U8(<<"service", "subtype">>) \o U16(<<"source">>))
encode_py ==
  Finish(header_py,
         Bits(4, "pus") \o Bits(4, "ack") \o U8(<<"service", "subtype">>) \o U16(<<"source">>))
DecodeTc ==
  Finish(DecodePrimaryHeader,
         Bits(4, "pus") \o Bits(4, "ack") \o U8(<<"service", "subtype">>) \o U16(<<"source">>))

EncodeTm ==
  Finish(EncodePrimaryHeader,
         Bits(4, "pus") \o Bits(4, "status") \o U8(<<"service", "subtype">>)
         \o U16(<<"counter", "destination">>) \o U32(<<"seconds">>) \o U16(<<"fraction">>))
DecodeTm ==
  Finish(DecodePrimaryHeader,
         Bits(4, "pus") \o Bits(4, "status") \o U8(<<"service", "subtype">>)
         \o U16(<<"counter", "destination">>) \o U32(<<"seconds">>) \o U16(<<"fraction">>))
decode_tm ==
  Finish(primary_header,
         Bits(4, "pus") \o Bits(4, "status") \o U8(<<"service", "subtype">>)
         \o U16(<<"counter", "destination">>) \o U32(<<"seconds">>) \o U16(<<"fraction">>))
decode_py ==
  Finish(header_py,
         Bits(4, "pus") \o Bits(4, "status") \o U8(<<"service", "subtype">>)
         \o U16(<<"counter", "destination">>) \o U32(<<"seconds">>) \o U16(<<"fraction">>))

(* What a decoder accepts of a packet whose size and declared length need  *)
(* not agree; crc says whether the CRC over all of it is right.            *)
PusVersion == 2

CheckCommon(p, type, sec) ==
  /\ p.size >= 6
  /\ p.version = 0
  /\ p.size = 6 + p.length + 1
  /\ p.type = type
  /\ p.secondary
  /\ p.size >= 6 + sec + 2
  /\ p.pus = PusVersion
  /\ p.crc

accepts_rs(p) ==
  /\ p.size >= 6 /\ p.version = 0
  /\ 6 + p.length + 1 = p.size
  /\ p.type = "tm" /\ p.secondary
  /\ p.size >= 6 + 13 + 2
  /\ p.pus = PusVersion /\ p.crc

accepts_py(p) ==
  /\ p.size >= 6 /\ p.version = 0
  /\ 6 + p.length + 1 = p.size
  /\ p.type = "tm" /\ p.secondary
  /\ p.size >= 6 + 13 + 2
  /\ p.pus = PusVersion /\ p.crc

(* What EncodeTm and EncodeTc make of n bytes of data. *)
Whole(type, sec, n) ==
  [size |-> 6 + sec + n + 2, length |-> sec + n + 2 - 1, version |-> 0, type |-> type,
   secondary |-> TRUE, pus |-> PusVersion, crc |-> TRUE]

Arriving == [size : 5 .. 24, length : 0 .. 17, version : {0, 1}, type : {"tm", "tc"},
             secondary : BOOLEAN, pus : {1, PusVersion}, crc : BOOLEAN]

PacketsArrive ==
  /\ \A h \in {<<EncodeTc, DecodeTc>>, <<encode_tc, DecodeTc>>, <<encode_py, DecodeTc>>,
               <<EncodeTm, DecodeTm>>, <<EncodeTm, decode_tm>>, <<EncodeTm, decode_py>>} :
       Read(h[2], Write(h[1], Real(Names(h[1]), 0))) = Real(Names(h[1]), 0)
  /\ \A n \in Points : /\ CheckCommon(Whole("tc", 5, n), "tc", 5)
                       /\ CheckCommon(Whole("tm", 13, n), "tm", 13)
  /\ \A p \in Arriving : /\ accepts_rs(p) = CheckCommon(p, "tm", 13)
                         /\ accepts_py(p) = CheckCommon(p, "tm", 13)

-----------------------------------------------------------------------------
(* The bus of the housekeeping controller: libs/hkc_proto/src/hk_proto.c.  *)
(* A decoder takes a frame that is longer than what it reads.              *)
MaxDlc == 8                    \* SATLINK_CAN_MAX_DLC

frame_matches(f, id, min) == f.id = id /\ Len(f.data) \in min .. MaxDlc

Decode(id, layout, f) ==
  IF frame_matches(f, id, Size(layout)) THEN Read(layout, SubSeq(f.data, 1, Size(layout)))
                                        ELSE Unknown

encode_env == Centi(<<"temp">>) \o U16(<<"vccint", "vccaux", "vbram">>)
decode_env == Centi(<<"temp">>) \o U16(<<"vccint", "vccaux", "vbram">>)
encode_supply == U16(<<"vccpint", "vccpaux", "vcco_ddr">>)
decode_supply == U16(<<"vccpint", "vccpaux", "vcco_ddr">>)
encode_status ==
  U32(<<"hkc_uptime">>) \o U8(<<"reset_cause", "switches", "cmd_count", "error_flags">>)
decode_status ==
  U32(<<"hkc_uptime">>) \o U8(<<"reset_cause", "switches", "cmd_count", "error_flags">>)

(* send_housekeeping *)
HkFrame(id, layout) == [id |-> id, data |-> Write(layout, Real(Names(layout), 0))]
HkFrames == [env    |-> HkFrame("env", encode_env),
             supply |-> HkFrame("supply", encode_supply),
             status |-> HkFrame("status", encode_status)]

(* DescribeFrame tries one decoder after the other.  *)
DescribeFrame(f) ==
  LET as == {<<"env", Decode("env", decode_env, f)>>,
             <<"supply", Decode("supply", decode_supply, f)>>,
             <<"status", Decode("status", decode_status, f)>>}
  IN  {d \in as : d[2] # Unknown}

(* Commands and their answers; the bytes that are not there read as 0.     *)
Padded(bytes, n) == [i \in 1 .. n |-> IF i <= Len(bytes) THEN bytes[i] ELSE 0]

encode_command(op, args) == [id |-> "command", data |-> <<op>> \o args]
decode_command(f) ==
  [op |-> f.data[1], argc |-> Len(f.data) - 1, argv |-> Padded(Tail(f.data), MaxDlc - 1)]
encode_ack(a) == [id |-> "ack", data |-> <<a.op, a.status>> \o SubSeq(a.datav, 1, a.datac)]
decode_ack(f) ==
  [op |-> f.data[1], status |-> f.data[2], datac |-> Len(f.data) - 2,
   datav |-> Padded(SubSeq(f.data, 3, Len(f.data)), MaxDlc - 2)]

(* "satlink-hkc period": handle_command reads the two bytes. *)
PeriodArgs(ms) == <<ms % 256, (ms \div 256) % 256>>
Periods == 0 .. 10000
CommandedPeriod(c) == c.argv[1] + 256 * c.argv[2]

(* send_ack: a version has three bytes, nothing else has any. *)
send_ack(op, data) == encode_ack([op |-> op, status |-> 0, datac |-> Len(data),
                                  datav |-> Padded(data, MaxDlc - 2)])

(* A fraction of a second that is none is refused at both ends. *)
Times == 0 .. 3000
SyncTime(t) == [unix_s |-> t \div 1000, millis |-> t % 1000]
encode_time_sync(time) == IF time.millis > 999 THEN <<>> ELSE <<time.unix_s, time.millis>>
decode_time_sync(data) ==
  IF Len(data) < 2 \/ data[2] > 999 THEN <<>> ELSE [unix_s |-> data[1], millis |-> data[2]]

(* Codes of the XADC to 0.01 degrees, and the text of such a number: the   *)
(* quotient of C++ is 0 just below zero, and has no sign then.             *)
Codes == 0 .. 4095
xadc_temp_centi_c(code) == (code * 100795) \div 8192 - 27315
Magnitude(v) == IF v < 0 THEN -v ELSE v
Hundredths(v) ==
  LET whole == (IF v < 0 THEN -1 ELSE 1) * (Magnitude(v) \div 100)
  IN  [minus |-> (v < 0 /\ whole = 0) \/ whole < 0, whole |-> Magnitude(whole),
       frac |-> Magnitude(v) % 100]

BusArrives ==
  /\ \A n \in DOMAIN HkFrames :
       \E d \in DescribeFrame(HkFrames[n]) :
         DescribeFrame(HkFrames[n]) = {d} /\ d[1] = n /\ d[2] = Real(DOMAIN d[2], 0)
  /\ \A ms \in Periods :
       CommandedPeriod(decode_command(encode_command("SET_PERIOD", PeriodArgs(ms)))) = ms
  /\ \A data \in {<<>>, <<1, 2, 3>>} :
       LET a == decode_ack(send_ack("op", data))
       IN  a.op = "op" /\ SubSeq(a.datav, 1, a.datac) = data
  /\ \A t \in Times :
       decode_time_sync(encode_time_sync(SyncTime(t))) = SyncTime(t)
  /\ \A code \in Codes :
       LET v == xadc_temp_centi_c(code)
           h == Hundredths(v)
       IN  -32768 <= v /\ v <= 32767 /\ v = (IF h.minus THEN -1 ELSE 1) * (100 * h.whole + h.frac)

(* CanPlatformSource::Poll; the rest of the structure is the driver's. *)
HkcSource ==
  Also(Decode("env", decode_env, HkFrames["env"]),
       Also(Decode("status", decode_status, HkFrames["status"]),
            Real({"sid", "hkc_valid", "rtos_state", "rtos_restarts"}, 0)))

-----------------------------------------------------------------------------
(* The payload manager: HousekeepingData.  The numbers of the modem are    *)
(* what was decoded.                                                       *)

ModemData ==
  U8(<<"sid", "locked", "tx_modcod", "acm_enabled">>) \o Centi(<<"esn0">>)
  \o U32(<<"frames_ok", "frames_crc_error", "header_errors", "bit_errors", "bits_checked",
           "rx_latency_max_us", "rx_latency_avg_us">>)
  \o Tenths(<<"cpu_load">>) \o U8(<<"tx_queue_depth">>) \o U32(<<"uptime_ms">>)

LinkData ==
  U8(<<"sid", "active">>) \o Centi(<<"elevation">>) \o U16(<<"range">>) \o Milli(<<"range_rate">>)
  \o Centi(<<"esn0">>)
  \o U32(<<"frames_sent", "frames_received", "lost_frames", "packets", "resyncs", "ip_down",
           "ip_up", "dropped">>)

PlatformData ==
  U8(<<"sid", "hkc_valid">>) \o Centi(<<"temp">>) \o U16(<<"vccint", "vccaux", "vbram">>)
  \o U32(<<"hkc_uptime">>) \o U8(<<"error_flags", "rtos_state">>) \o U32(<<"rtos_restarts">>)

HousekeepingData(s, n) ==
  LET sid == Real({"sid"}, 0)
      own(layout) == Write(layout, Real(Names(layout), 0))
  IN  CASE s = "modem"    -> Write(ModemData, Also(Status, sid))
        [] s = "link"     -> own(LinkData)
        [] s = "platform" -> Write(PlatformData, HkcSource)
        [] OTHER          -> Write(U8(<<"sid", "modcod", "count">>) \o Spots(n),
                                   Also(Constellation(n), sid))

-----------------------------------------------------------------------------
(* The ground stations.  mission_tm.cpp, mission.rs and mission.py; in the *)
(* format strings of the last two letters in a row are two numbers.        *)

DecodeModemHk ==
  U8(<<"sid", "locked", "tx_modcod", "acm_enabled">>) \o Centi(<<"esn0">>)
  \o U32(<<"frames_ok", "frames_crc_error", "header_errors", "bit_errors", "bits_checked",
           "rx_latency_max_us", "rx_latency_avg_us">>)
  \o Tenths(<<"cpu_load">>) \o U8(<<"tx_queue_depth">>) \o U32(<<"uptime_ms">>)

decode_modem ==
  U8(<<"sid", "locked", "tx_modcod", "acm_enabled">>) \o Centi(<<"esn0">>)
  \o U32(<<"frames_ok", "frames_crc_error", "header_errors", "bit_errors", "bits_checked",
           "rx_latency_max_us", "rx_latency_avg_us">>)
  \o Tenths(<<"cpu_load">>) \o U8(<<"tx_queue_depth">>) \o U32(<<"uptime_ms">>)

ModemHk ==    \* >BBBBhIIIIIIIHBI
  U8(<<"sid", "locked", "tx_modcod", "acm_enabled">>) \o Centi(<<"esn0">>)
  \o U32(<<"frames_ok", "frames_crc_error", "header_errors", "bit_errors", "bits_checked",
           "rx_latency_max_us", "rx_latency_avg_us">>)
  \o Tenths(<<"cpu_load">>) \o U8(<<"tx_queue_depth">>) \o U32(<<"uptime_ms">>)

DecodeLinkHk ==
  U8(<<"sid", "active">>) \o Centi(<<"elevation">>) \o U16(<<"range">>) \o Milli(<<"range_rate">>)
  \o Centi(<<"esn0">>)
  \o U32(<<"frames_sent", "frames_received", "lost_frames", "packets", "resyncs", "ip_down",
           "ip_up", "dropped">>)

decode_link ==
  U8(<<"sid", "active">>) \o Centi(<<"elevation">>) \o U16(<<"range">>) \o Milli(<<"range_rate">>)
  \o Centi(<<"esn0">>)
  \o U32(<<"frames_sent", "frames_received", "lost_frames", "packets", "resyncs", "ip_down",
           "ip_up", "dropped">>)

(* Range and range rate are next to each other, one signed and one not. *)
Faulty_LinkHk ==
  U8(<<"sid", "active">>) \o Centi(<<"elevation">>) \o Milli(<<"range", "range_rate">>)
  \o Centi(<<"esn0">>)
  \o U32(<<"frames_sent", "frames_received", "lost_frames", "packets", "resyncs", "ip_down",
           "ip_up", "dropped">>)

LinkHk ==     \* >BBhHhhIIIIIIII
  U8(<<"sid", "active">>) \o Centi(<<"elevation">>) \o U16(<<"range">>) \o Milli(<<"range_rate">>)
  \o Centi(<<"esn0">>)
  \o U32(<<"frames_sent", "frames_received", "lost_frames", "packets", "resyncs", "ip_down",
           "ip_up", "dropped">>)

DecodePlatformHk ==
  U8(<<"sid", "hkc_valid">>) \o Centi(<<"temp">>) \o U16(<<"vccint", "vccaux", "vbram">>)
  \o U32(<<"hkc_uptime">>) \o U8(<<"error_flags", "rtos_state">>) \o U32(<<"rtos_restarts">>)

decode_platform ==
  U8(<<"sid", "hkc_valid">>) \o Centi(<<"temp">>) \o U16(<<"vccint", "vccaux", "vbram">>)
  \o U32(<<"hkc_uptime">>) \o U8(<<"error_flags", "rtos_state">>) \o U32(<<"rtos_restarts">>)

PlatformHk == \* >BBhHHHIBBI
  U8(<<"sid", "hkc_valid">>) \o Centi(<<"temp">>) \o U16(<<"vccint", "vccaux", "vbram">>)
  \o U32(<<"hkc_uptime">>) \o U8(<<"error_flags", "rtos_state">>) \o U32(<<"rtos_restarts">>)

(* The count says how many points follow.  C++ and Rust read until the     *)
(* data end, Python looks at the length first: a wrong length is refused   *)
(* by all three.                                                           *)
DecodeConstellationHk(bytes) ==
  IF Len(bytes) < 3 THEN Unknown
  ELSE Read(U8(<<"sid", "modcod", "count">>) \o Spots(bytes[3].of.n), bytes)

decode_constellation(bytes) ==
  IF Len(bytes) < 3 THEN Unknown
  ELSE Read(U8(<<"sid", "modcod", "count">>) \o Spots(bytes[3].of.n), bytes)

ConstellationHk(bytes) ==
  IF Len(bytes) < 3 \/ Len(bytes) # 3 + 2 * bytes[3].of.n THEN Unknown
  ELSE Read(U8(<<"sid", "modcod", "count">>) \o Spots(bytes[3].of.n), bytes)

(* ST[01] reports, with a failure code or without, and ST[05] reports.     *)
VerificationData(failed) ==
  U16(<<"packet id", "sequence control">>) \o IF failed THEN U16(<<"failure">>) ELSE <<>>
EmitEvent == U16(<<"id">>) \o U8(<<"from", "to">>)

(* The same in all stations: 4 bytes or 6, the count in the second word.   *)
InterpretVerification(failed) ==
  U16(<<"packet id", "sequence control">>) \o IF failed THEN U16(<<"failure">>) ELSE <<>>
InterpretEvent == U16(<<"id">>) \o U8(<<"from", "to">>)

ReportsArrive ==
  \A h \in {<<VerificationData(f), InterpretVerification(f)>> : f \in BOOLEAN}
           \cup {<<EmitEvent, InterpretEvent>>} :
    Read(h[2], Write(h[1], Real(Names(h[1]), 0))) = Real(Names(h[1]), 0)

(* Interpret and interpret of an ST[3,25] report. *)
Interpret(s, bytes) ==
  CASE s = "modem"    -> Read(DecodeModemHk, bytes)
    [] s = "link"     -> Read(DecodeLinkHk, bytes)
    [] s = "platform" -> Read(DecodePlatformHk, bytes)
    [] OTHER          -> DecodeConstellationHk(bytes)

interpret_rs(s, bytes) ==
  CASE s = "modem"    -> Read(decode_modem, bytes)
    [] s = "link"     -> Read(decode_link, bytes)
    [] s = "platform" -> Read(decode_platform, bytes)
    [] OTHER          -> decode_constellation(bytes)

interpret_py(s, bytes) ==
  CASE s = "modem"    -> Read(ModemHk, bytes)
    [] s = "link"     -> Read(LinkHk, bytes)
    [] s = "platform" -> Read(PlatformHk, bytes)
    [] OTHER          -> ConstellationHk(bytes)

(* What a station shows of structure s, and what it should show. *)
Shown == [g \in Stations |-> [s \in Structures |-> [n \in Points |->
            CASE g = "gs"     -> Interpret(s, HousekeepingData(s, n))
              [] g = "cli"    -> interpret_rs(s, HousekeepingData(s, n))
              [] g = "python" -> interpret_py(s, HousekeepingData(s, n))]]]
Measured == [g \in Stations |-> [s \in Structures |-> [n \in Points |->
               Real(DOMAIN Shown[g][s][n] \ {"unknown"}, n)]]]

-----------------------------------------------------------------------------
(* Requests: the Commander of each station, then Execute and               *)
(* ExecuteFunction.  The first byte of ST[08] data is the function.        *)

Elevation == Fields(2, FALSE, 100, <<"max_el">>)   \* positive; written with a sign or without

Functions == {"SetModcod", "SetAcm", "SetChannel", "StartPass", "StopPass", "SetLoopback",
              "RestartModem", "Report", "Period"}

Commander_cpp(f) ==
  CASE f = "SetModcod"   -> U8(<<"id", "modcod">>)
    [] f = "SetAcm"      -> U8(<<"id", "enabled", "lo", "hi">>) \o Centi(<<"margin", "hyst">>)
    [] f = "SetChannel"  -> U8(<<"id">>) \o U16(<<"noise", "gain">>)
    [] f = "StartPass"   -> U8(<<"id">>) \o Elevation \o Centi(<<"zenith">>) \o U8(<<"scale">>)
    [] f = "SetLoopback" -> U8(<<"id", "mode">>)
    [] f = "Report"      -> U8(<<"n", "sid1", "sid2">>)
    [] f = "Period"      -> U8(<<"sid">>) \o U32(<<"period">>)
    [] OTHER             -> U8(<<"id">>)

Commander_rs(f) ==
  CASE f = "SetModcod"   -> U8(<<"id", "modcod">>)
    [] f = "SetAcm"      -> U8(<<"id", "enabled", "lo", "hi">>) \o Centi(<<"margin", "hyst">>)
    [] f = "SetChannel"  -> U8(<<"id">>) \o U16(<<"noise", "gain">>)
    [] f = "StartPass"   -> U8(<<"id">>) \o Elevation \o Centi(<<"zenith">>) \o U8(<<"scale">>)
    [] f = "SetLoopback" -> U8(<<"id", "mode">>)
    [] f = "Report"      -> U8(<<"n", "sid1", "sid2">>)
    [] OTHER             -> U8(<<"id">>)

Commander_py(f) ==
  CASE f = "SetModcod"   -> U8(<<"id", "modcod">>)
    [] f = "SetAcm"      -> U8(<<"id", "enabled", "lo", "hi">>) \o Centi(<<"margin", "hyst">>)
    [] f = "SetChannel"  -> U8(<<"id">>) \o U16(<<"noise", "gain">>)
    [] f = "StartPass"   -> U8(<<"id">>) \o Elevation \o Centi(<<"zenith">>) \o U8(<<"scale">>)
    [] f = "SetLoopback" -> U8(<<"id", "mode">>)
    [] f = "Report"      -> U8(<<"n", "sid1", "sid2">>)
    [] f = "Period"      -> U8(<<"sid">>) \o U32(<<"period">>)
    [] OTHER             -> U8(<<"id">>)

Parsed(f) ==
  CASE f = "SetModcod"   -> U8(<<"id", "modcod">>)
    [] f = "SetAcm"      -> U8(<<"id", "enabled", "lo", "hi">>) \o Centi(<<"margin", "hyst">>)
    [] f = "SetChannel"  -> U8(<<"id">>) \o U16(<<"noise", "gain">>)
    [] f = "StartPass"   -> U8(<<"id">>) \o Elevation \o Centi(<<"zenith">>) \o U8(<<"scale">>)
    [] f = "SetLoopback" -> U8(<<"id", "mode">>)
    [] f = "Report"      -> U8(<<"n", "sid1", "sid2">>)
    [] f = "Period"      -> U8(<<"sid">>) \o U32(<<"period">>)
    [] OTHER             -> U8(<<"id">>)

(* The command line has no word for the period of a structure. *)
Requests(g) == IF g = "cli" THEN Functions \ {"Period"} ELSE Functions

Built(g, f) ==
  CASE g = "gs" -> Commander_cpp(f) [] g = "cli" -> Commander_rs(f) [] g = "python" -> Commander_py(f)

Accepted == [g \in Stations |-> [f \in Requests(g) |->
            Read(Parsed(f), Write(Built(g, f), Real(Names(Built(g, f)), 0)))]]
Asked == [g \in Stations |-> [f \in Requests(g) |-> Real(Names(Built(g, f)), 0)]]

RequestsArrive == \A g \in Stations : \A f \in Requests(g) : Accepted[g][f] = Asked[g][f]
===============================================================================
