------------------------------ MODULE TmFrame -------------------------------
(***************************************************************************)
(* CCSDS TM transfer frames (libs/pus/src/tm_frame.cpp): the multiplexer   *)
(* that packs the packets of several virtual channels into frames, the     *)
(* demultiplexer that finds them again, and between them a link that keeps *)
(* the order of frames and may lose any of them: SendFrame fails, the      *)
(* modem restarts with frames queued, the receiver drops a bad CRC-16.     *)
(* Multiplexer and demultiplexer belong to one payload manager, whose      *)
(* FeedModem asks for a frame only when there is data, so idle frames are  *)
(* left out.                                                               *)
(*                                                                         *)
(* A byte is the packet it belongs to, its place in it and the packet's    *)
(* size, which the first bytes, the header, carry.  Names of packets are   *)
(* used again once nothing is left of the packet.                          *)
(*                                                                         *)
(* sent and gap are history: no other variable depends on them.            *)
(*                                                                         *)
(* A definition whose name starts with Faulty_ is a plausible mistake in   *)
(* the definition that follows it; no specification uses it.               *)
(***************************************************************************)
EXTENDS Naturals, Sequences, SequencesExt

CONSTANTS
  Channels,        \* virtual channels in use, 0 first
  kFrameDataSize,  \* bytes of packets in a frame
  kPrimaryHeaderSize,
  kMaxPacket,      \* largest packet the demultiplexer accepts
  CountMod,        \* values of a frame counter (256)
  QueueLimit,
  Offers,          \* packets offered on each channel
  AirLimit         \* bound of the model: frames on their way

kFhpNoPacketStart == 2047
Idle == "idle"

Byte(id, n, i) == [id |-> id, n |-> n, i |-> i]
Bytes(p) == [i \in 1 .. p.n |-> Byte(p.id, p.n, i)]
Packets == UNION {Offers[c] : c \in Channels}

(* Each frame that ends in a fill packet too short to be one must leave    *)
(* room for the next: 122 bytes against 7.                                 *)
ASSUME FrameAssumption ==
  /\ Channels \subseteq 0 .. 6
  /\ kPrimaryHeaderSize \in Nat \ {0}
  /\ kFrameDataSize \in Nat /\ kFrameDataSize > 2 * kPrimaryHeaderSize
  /\ kFrameDataSize < 2046
  /\ CountMod \in Nat /\ CountMod > 1
  /\ \A p \in Packets :
       p = [id |-> p.id, n |-> p.n] /\ p.n \in Nat /\ p.n > kPrimaryHeaderSize
  /\ kMaxPacket \in Nat /\ kMaxPacket >= kFrameDataSize + kPrimaryHeaderSize
  /\ QueueLimit \in Nat /\ AirLimit \in Nat \ {0}
  /\ \A p \in Packets : p.id # Idle

VARIABLES
  tx,    \* multiplexer, per channel: queue, partial, count
  air,   \* frames sent and not yet received, oldest first
  rx,    \* demultiplexer, per channel: buffer, synced, have_count, expected
  out,   \* what this step's Push handed over, and what it added to lost_frames
  sent,  \* packets queued, not yet handed over and not hit by a loss
  gap    \* per channel: frames lost since the last one received

vars == <<tx, air, rx, out, sent, gap>>

Nothing == [packets |-> <<>>, lost |-> 0]

Init ==
  /\ tx = [c \in Channels |-> [queue |-> <<>>, partial |-> <<>>, count |-> 0]]
  /\ air = <<>>
  /\ rx = [c \in Channels |-> [buffer |-> <<>>, synced |-> FALSE,
                               have_count |-> FALSE, expected |-> 0]]
  /\ out = Nothing
  /\ sent = [c \in Channels |-> <<>>]
  /\ gap = [c \in Channels |-> 0]

-----------------------------------------------------------------------------
(* A frame counter of 8 bits. *)
NextCount(n) == (n + 1) % CountMod

(* Packets with bytes in the system, whose names are taken. *)
IdsIn(bytes) == {bytes[i].id : i \in DOMAIN bytes}
InFlight(c) ==
  {p.id : p \in ToSet(tx[c].queue) \cup ToSet(sent[c])}
  \cup IdsIn(tx[c].partial) \cup IdsIn(rx[c].buffer)
  \cup UNION {IdsIn(f.data) : f \in {g \in ToSet(air) : g.vc = c}}

(* A packet longer than kMaxPacket is queued and sent like any other and   *)
(* thrown away by the demultiplexer: it is not in sent.                    *)
Enqueue(c, p) ==
  /\ p.id \notin InFlight(c)
  /\ Len(tx[c].queue) < QueueLimit
  /\ tx' = [tx EXCEPT ![c].queue = Append(@, p)]
  /\ sent' = IF p.n > kMaxPacket THEN sent
             ELSE [sent EXCEPT ![c] = Append(@, p)]
  /\ out' = Nothing
  /\ UNCHANGED <<air, rx, gap>>

-----------------------------------------------------------------------------
HasData == \E c \in Channels : tx[c].queue # <<>> \/ tx[c].partial # <<>>

Lowest(S) == CHOOSE c \in S : \A d \in S : c <= d

(* A channel with a packet in progress first, then the highest-priority    *)
(* channel with data.                                                      *)
Serve ==
  LET busy == {c \in Channels : tx[c].partial # <<>>}
  IN  IF busy # {} THEN Lowest(busy)
      ELSE Lowest({c \in Channels : tx[c].queue # <<>>})

(* The rest of the packet in progress and the first k queued ones. *)
Stream(ch) ==
  LET bytes[k \in 0 .. Len(ch.queue)] ==
        IF k = 0 THEN ch.partial ELSE bytes[k - 1] \o Bytes(ch.queue[k])
  IN  bytes

(* Packets taken from the queue: until the frame is full or none is left.  *)
Taken(ch) ==
  CHOOSE k \in 0 .. Len(ch.queue) :
    /\ k = Len(ch.queue) \/ Len(Stream(ch)[k]) >= kFrameDataSize
    /\ \A j \in 0 .. k - 1 : Len(Stream(ch)[j]) < kFrameDataSize

(* The unused tail is an idle packet, which may continue in the next frame *)
(* when the tail is too short for one.                                     *)
Filled(s) ==
  LET rest == kFrameDataSize - Len(s)
      n == IF rest > kPrimaryHeaderSize THEN rest ELSE kPrimaryHeaderSize + 1
  IN  IF Len(s) >= kFrameDataSize THEN s ELSE s \o Bytes([id |-> Idle, n |-> n])

FirstHeaderPointer(ch) ==
  IF Len(ch.partial) >= kFrameDataSize THEN kFhpNoPacketStart
  ELSE Len(ch.partial)

NextFrame ==
  /\ HasData /\ Len(air) < AirLimit
  /\ LET c == Serve
         ch == tx[c]
         k == Taken(ch)
         s == Filled(Stream(ch)[k])
     IN  /\ air' = Append(air, [vc |-> c, count |-> ch.count,
                                fhp |-> FirstHeaderPointer(ch),
                                data |-> SubSeq(s, 1, kFrameDataSize)])
         /\ tx' = [tx EXCEPT ![c] =
                     [queue |-> SubSeq(ch.queue, k + 1, Len(ch.queue)),
                      partial |-> SubSeq(s, kFrameDataSize + 1, Len(s)),
                      count |-> NextCount(ch.count)]]
  /\ out' = Nothing
  /\ UNCHANGED <<rx, sent, gap>>

(* Packets that come first in s and have bytes in a frame. *)
Hit(s, f) ==
  CHOOSE n \in 0 .. Len(s) :
    /\ \A i \in 1 .. n : s[i].id \in IdsIn(f.data)
    /\ n < Len(s) => s[n + 1].id \notin IdsIn(f.data)

(* The link loses a frame, and with it the packets it carried: the oldest  *)
(* that are not handed over yet.  CountMod frames of a channel in a row    *)
(* would leave its counter as it was.                                      *)
Lose ==
  /\ air # <<>>
  /\ LET f == Head(air) IN
     /\ gap[f.vc] < CountMod - 1
     /\ gap' = [gap EXCEPT ![f.vc] = @ + 1]
     /\ sent' = [sent EXCEPT ![f.vc] = SubSeq(@, Hit(@, f) + 1, Len(@))]
  /\ air' = Tail(air)
  /\ out' = Nothing
  /\ UNCHANGED <<tx, rx>>

-----------------------------------------------------------------------------
(* The length field of the header that starts here; where no header starts *)
(* the bytes can say anything, a small packet for one.                     *)
PacketSize(b) == IF b.i = 1 THEN b.n ELSE kPrimaryHeaderSize + 1

(* Extract: the whole packets at the start of the buffer, and what is left *)
(* of it.  Idle packets are counted and not handed over.                   *)
Extract(buffer) ==
  LET header(at) == at + kPrimaryHeaderSize <= Len(buffer)
      n(at) == PacketSize(buffer[at + 1])
      packet[at \in 0 .. Len(buffer)] ==
        CASE header(at) /\ n(at) > kMaxPacket ->
               [synced |-> FALSE, packets |-> <<>>, buffer |-> <<>>]
          [] ~header(at) \/ (n(at) <= kMaxPacket /\ at + n(at) > Len(buffer)) ->
               [synced |-> TRUE, packets |-> <<>>,
                buffer |-> SubSeq(buffer, at + 1, Len(buffer))]
          [] OTHER ->
               [packet[at + n(at)] EXCEPT !.packets =
                  IF buffer[at + 1].id = Idle THEN @
                  ELSE <<SubSeq(buffer, at + 1, at + n(at))>> \o @]
  IN  packet[0]

(* What the check of the frame counter leaves of the buffer. *)
Gap(ch, f) == ch.have_count /\ f.count # ch.expected

Faulty_Resumed(ch, f) ==
  [buffer |-> IF Gap(ch, f) THEN <<>> ELSE ch.buffer, synced |-> ch.synced,
   packets |-> <<>>]

Resumed(ch, f) ==
  [buffer |-> IF Gap(ch, f) THEN <<>> ELSE ch.buffer,
   synced |-> ch.synced /\ ~Gap(ch, f), packets |-> <<>>]

Faulty_FramesLost(ch, f) == IF ch.have_count /\ f.count # ch.expected THEN 1 ELSE 0

(* What Push adds to lost_frames, in the 8 bits of the counter. *)
FramesLost(ch, f) ==
  IF ch.have_count THEN (f.count + CountMod - ch.expected) % CountMod ELSE 0

(* The bytes to look for packets in: from the first header on when the     *)
(* packet in progress is not known or does not end where the pointer says  *)
(* that a new one starts.                                                  *)
Assembled(ch, f) ==
  LET disagree == /\ f.fhp # kFhpNoPacketStart
                  /\ Len(ch.buffer) >= kPrimaryHeaderSize
                  /\ PacketSize(ch.buffer[1]) # Len(ch.buffer) + f.fhp
  IN  IF ~ch.synced \/ disagree THEN SubSeq(f.data, f.fhp + 1, kFrameDataSize)
      ELSE ch.buffer \o f.data

(* A slice of the buffer as the packet it should be. *)
Packet(bytes) ==
  LET p == [id |-> bytes[1].id, n |-> bytes[1].n]
  IN  IF bytes = Bytes(p) THEN p ELSE bytes

(* FrameDemultiplexer::Push, for the frames of its own multiplexer: a wrong *)
(* spacecraft and a pointer beyond the frame do not pass the CRC.          *)
Push(f) ==
  LET ch == Resumed(rx[f.vc], f)
      found == IF ~ch.synced /\ f.fhp = kFhpNoPacketStart THEN ch
               ELSE Extract(Assembled(ch, f))
      n == Len(found.packets)
  IN  /\ rx' = [rx EXCEPT ![f.vc] =
                  [buffer |-> found.buffer, synced |-> found.synced,
                   have_count |-> TRUE, expected |-> NextCount(f.count)]]
      /\ out' = [packets |-> [i \in 1 .. n |-> <<f.vc, Packet(found.packets[i])>>],
                 lost |-> FramesLost(rx[f.vc], f)]
      /\ sent' = [sent EXCEPT ![f.vc] = SubSeq(@, n + 1, Len(@))]
      /\ gap' = [gap EXCEPT ![f.vc] = 0]

Receive ==
  /\ air # <<>>
  /\ Push(Head(air))
  /\ air' = Tail(air)
  /\ UNCHANGED tx

Next ==
  \/ \E c \in Channels : \E p \in Offers[c] : Enqueue(c, p)
  \/ NextFrame
  \/ Lose
  \/ Receive

Spec == Init /\ [][Next]_vars

-----------------------------------------------------------------------------
(* tm_frame.hpp: "a frame never interleaves two channels' packets": one    *)
(* channel at most is in the middle of a packet, and only that one can     *)
(* continue it.                                                            *)
OneInProgress ==
  \A c, d \in Channels : tx[c].partial # <<>> /\ tx[d].partial # <<>> => c = d

(* The users of a channel get whole packets, in the order they were        *)
(* queued, none twice, and a lost frame costs the packets that it carried  *)
(* and no other (SRS-PUS-002: "A frame lost to the channel costs only the  *)
(* packets it carried").                                                   *)
Link == INSTANCE PacketLink WITH out <- out.packets
ImplementsLink == Link!Spec

(* lost_frames grows by the number of frames of the channel lost since the *)
(* last one received, for fewer than CountMod in a row.                    *)
LossesCounted ==
  [][Receive => LET c == Head(air).vc
                IN  out'.lost = IF rx[c].have_count THEN gap[c] ELSE 0]_vars

-----------------------------------------------------------------------------
(* Why every loss is counted: the counters of the frames of a channel run  *)
(* on from the last one received over the frames lost since, through those *)
(* on their way, to the one the multiplexer uses next.                     *)
CountersRunOn ==
  \A c \in Channels :
    LET known == rx[c].have_count
        due == (rx[c].expected + gap[c]) % CountMod
        none(from, to) == \A k \in from .. to : air[k].vc # c
    IN  /\ none(1, Len(air)) => (known => tx[c].count = due)
        /\ \A i \in 1 .. Len(air) : air[i].vc = c =>
             /\ none(1, i - 1) => (known => air[i].count = due)
             /\ none(i + 1, Len(air)) => tx[c].count = NextCount(air[i].count)
             /\ \A j \in i + 1 .. Len(air) :
                  air[j].vc = c /\ none(i + 1, j - 1) =>
                    air[j].count = NextCount(air[i].count)
=============================================================================
