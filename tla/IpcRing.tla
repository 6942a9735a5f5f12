------------------------------ MODULE IpcRing -------------------------------
(***************************************************************************)
(* The lock-free single-producer / single-consumer message ring that       *)
(* carries one direction of the Linux <-> FreeRTOS IPC                     *)
(* (libs/amp/src/ipc_ring.c), at the grain of its accesses to shared       *)
(* memory: every word the producer stores, every word the consumer loads   *)
(* and every publication of an index is a step of its own, so the two      *)
(* cores interleave freely between them.  The barriers make program order  *)
(* visible order, which is what a sequence of steps means here.            *)
(*                                                                         *)
(* Units are 32-bit words: every index, offset and record size of the code *)
(* is a multiple of 4 bytes.  A word is a pair of 16-bit halves <<lo, hi>>.*)
(*                                                                         *)
(* The variables written, consumed and queue are history: no other         *)
(* variable depends on them.  They say which messages are queued and where *)
(* each one lies.                                                          *)
(*                                                                         *)
(* A definition whose name starts with Faulty_ is a plausible mistake in   *)
(* the definition that follows it; no specification uses it.               *)
(***************************************************************************)
EXTENDS Integers, Sequences

CONSTANTS
  Size,        \* words in the data area
  IndexMod,    \* words after which the indices wrap (2^32 bytes)
  MaxPayload,  \* SATLINK_RING_MAX_PAYLOAD, bytes
  Messages,    \* the messages the producer offers
  Caps,        \* capacities, bytes, of the buffers the consumer offers
  Stale,       \* words the data area may hold before it is laid out
  MaxSends,    \* bound of the model: messages queued between two layouts
  MaxLayouts   \* bound of the model: times the ring is laid out again

Half == 65536          \* one more than the largest 16-bit half
PadType == Half - 1
HdrWords == 2

Word == (0 .. Half - 1) \X (0 .. Half - 1)

(* Words taken by n payload bytes, and by the whole record. *)
PayloadWords(n) == (n + 3) \div 4
RecordWords(n) == HdrWords + PayloadWords(n)

Message(m) ==
  /\ m \in [type : 0 .. Half - 1, len : 0 .. Half - 1, body : Seq(Word)]
  /\ Len(m.body) = PayloadWords(m.len)

(* The data area is cut from the shared region as a power of two; 2^32 is  *)
(* a larger power of two, hence a multiple of it.                          *)
ASSUME RingAssumption ==
  /\ Size \in Nat /\ Size > 0
  /\ IndexMod \in Nat /\ IndexMod > Size /\ IndexMod % Size = 0
  /\ MaxPayload \in Nat /\ MaxPayload < Half
  /\ Size >= 2 * RecordWords(MaxPayload)   \* 128 KiB against 520 bytes
  /\ MaxSends \in Nat /\ MaxSends \div Half < Half   \* seq is 32 bits wide
  /\ MaxLayouts \in Nat
  /\ \A m \in Messages : Message(m)
  /\ Caps \subseteq 0 .. Half - 1
  /\ Stale \subseteq Word /\ Stale # {}

VARIABLES
  head,      \* hdr->head: written by the producer only
  tail,      \* hdr->tail: written by the consumer only
  mem,       \* the data area
  seq,       \* the producer handle's next sequence number
  ppc,       \* producer: "idle", "pad", "store"
  pmsg,      \* producer: the message it is writing
  ppos,      \* producer: index where the record starts
  pcount,    \* producer: words of the record stored so far
  cpc,       \* consumer: "idle", "begin", "peek", "copy"
  ccap,      \* consumer: capacity of its buffer
  chead,     \* consumer: the head it loaded
  cbuf,      \* consumer: words of the record loaded so far
  cresult,   \* consumer: what the last read returned
  out,       \* consumer: the last message returned
  written,   \* history: words published since the layout, unwrapped
  consumed,  \* history: words released since the layout, unwrapped
  layouts,   \* history: times the ring was laid out again
  queue      \* history: the messages published and not yet released

shared == <<head, tail, mem>>
producer == <<seq, ppc, pmsg, ppos, pcount>>
consumer == <<cpc, ccap, chead, cbuf, cresult, out>>
history == <<written, consumed, layouts, queue>>
vars == <<shared, producer, consumer, history>>

-----------------------------------------------------------------------------
Offset(i) == i % Size
ToEnd(i) == Size - Offset(i)

(* Unsigned 32-bit arithmetic of the code on the indices. *)
Advance(i, n) == (i + n) % IndexMod
Used(h, t) == (h - t) % IndexMod

(* What precedes a record of r words written at index i. *)
Padding(i, r) == IF r > ToEnd(i) THEN ToEnd(i) ELSE 0

(* The words of a record: length and type, sequence number, payload. *)
RecordWord(m, s, k) ==
  IF k = 1 THEN <<m.len, m.type>>
  ELSE IF k = 2 THEN <<s % Half, s \div Half>>
  ELSE m.body[k - HdrWords]

(* What the consumer makes of the words it has loaded. *)
Decode(buf) ==
  [seq |-> buf[2][1] + Half * buf[2][2],
   msg |-> [type |-> buf[1][2], len |-> buf[1][1],
            body |-> [k \in 1 .. PayloadWords(buf[1][1]) |-> buf[k + HdrWords]]]]

NoMessage == [none |-> TRUE]

-----------------------------------------------------------------------------
(* satlink_ring_init by Linux, seen from one ring. *)
Init ==
  /\ head = 0 /\ tail = 0
  /\ \E w \in Stale : mem = [o \in 0 .. Size - 1 |-> w]
  /\ seq = 0 /\ ppc = "idle" /\ pmsg = NoMessage /\ ppos = 0 /\ pcount = 0
  /\ cpc = "idle" /\ ccap = 0 /\ chead = 0 /\ cbuf = <<>> /\ cresult = "none"
  /\ out = NoMessage
  /\ written = 0 /\ consumed = 0 /\ layouts = 0 /\ queue = <<>>

(* What the format can carry. *)
Valid(m) == m.type # PadType /\ m.len <= MaxPayload

Faulty_FitsAlwaysPadded(m) ==
  ToEnd(head) + RecordWords(m.len) <= Size - Used(head, tail)
Fits(m) ==
  LET r == RecordWords(m.len)
  IN Padding(head, r) + r <= Size - Used(head, tail)

(* satlink_ring_write returns CORRUPT, TOO_BIG or, when there is not       *)
(* enough room as the producer sees it, FULL, and changes nothing.         *)
WriteRefused(m) ==
  /\ ppc = "idle"
  /\ ~Valid(m) \/ ~Fits(m)
  /\ UNCHANGED vars

WriteStart(m) ==
  /\ ppc = "idle" /\ Valid(m) /\ Fits(m)
  /\ seq < MaxSends
  /\ LET pad == Padding(head, RecordWords(m.len))
     IN /\ ppc' = IF pad = 0 THEN "store" ELSE "pad"
        /\ ppos' = Advance(head, pad)
  /\ pmsg' = m
  /\ pcount' = 0
  /\ UNCHANGED <<shared, seq, consumer, history>>

Faulty_WritePadPublished ==
  /\ ppc = "pad"
  /\ mem' = [mem EXCEPT ![Offset(head)] = <<0, PadType>>]
  /\ head' = ppos
  /\ ppc' = "store"
  /\ UNCHANGED <<tail, seq, pmsg, ppos, pcount, consumer, history>>

(* Mark the rest of the data area as padding. *)
WritePad ==
  /\ ppc = "pad"
  /\ mem' = [mem EXCEPT ![Offset(head)] = <<0, PadType>>]
  /\ ppc' = "store"
  /\ UNCHANGED <<head, tail, seq, pmsg, ppos, pcount, consumer, history>>

StoreWord ==
  /\ ppc = "store" /\ pcount < RecordWords(pmsg.len)
  /\ mem' = [mem EXCEPT ![Offset(ppos) + pcount] = RecordWord(pmsg, seq, pcount + 1)]
  /\ pcount' = pcount + 1
  /\ UNCHANGED <<head, tail, seq, ppc, pmsg, ppos, consumer, history>>

Faulty_WritePublishBeforePayload ==
  /\ ppc = "store" /\ pcount = HdrWords
  /\ LET r == RecordWords(pmsg.len)
         start == written + Padding(head, r)
     IN /\ head' = Advance(ppos, r)
        /\ queue' = Append(queue, [pos |-> written, start |-> start,
                                   seq |-> seq, msg |-> pmsg])
        /\ written' = start + r
  /\ seq' = seq + 1
  /\ ppc' = "idle" /\ pmsg' = NoMessage /\ ppos' = 0 /\ pcount' = 0
  /\ UNCHANGED <<tail, mem, consumer, consumed, layouts>>
WritePublish ==
  /\ ppc = "store" /\ pcount = RecordWords(pmsg.len)
  /\ head' = Advance(ppos, pcount)
  /\ seq' = seq + 1
  /\ ppc' = "idle"
  /\ LET start == written + Padding(head, pcount)
     IN /\ queue' = Append(queue, [pos |-> written, start |-> start,
                                   seq |-> seq, msg |-> pmsg])
        /\ written' = start + pcount
  /\ pmsg' = NoMessage /\ ppos' = 0 /\ pcount' = 0
  /\ UNCHANGED <<tail, mem, consumer, consumed, layouts>>

-----------------------------------------------------------------------------
(* satlink_ring_read with room for cap payload bytes. *)
ReadCall(cap) ==
  /\ cpc = "idle"
  /\ cpc' = "begin" /\ ccap' = cap /\ cresult' = "none"
  /\ UNCHANGED <<shared, producer, chead, cbuf, out, history>>

ReadReturn(result) ==
  /\ cpc' = "idle" /\ cresult' = result
  /\ ccap' = 0 /\ chead' = 0 /\ cbuf' = <<>>

(* The head of the loop: load head and tail. *)
ReadIndices ==
  /\ cpc = "begin"
  /\ \/ head = tail /\ ReadReturn("EMPTY")
     \/ Used(head, tail) > Size /\ ReadReturn("CORRUPT")
     \/ /\ head # tail /\ Used(head, tail) <= Size
        /\ cpc' = "peek" /\ chead' = head
        /\ UNCHANGED <<ccap, cbuf, cresult>>
  /\ UNCHANGED <<shared, producer, out, history>>

AtPadding ==
  \/ ToEnd(tail) < HdrWords
  \/ mem[Offset(tail)][2] = PadType

Faulty_SkipPaddingUnreleased ==
  /\ cpc = "peek" /\ AtPadding
  /\ cpc' = "begin" /\ chead' = 0
  /\ UNCHANGED <<shared, producer, ccap, cbuf, cresult, out, history>>

(* Release the padding and go round the loop again. *)
SkipPadding ==
  /\ cpc = "peek" /\ AtPadding
  /\ tail' = Advance(tail, ToEnd(tail))
  /\ consumed' = consumed + ToEnd(tail)
  /\ cpc' = "begin" /\ chead' = 0
  /\ UNCHANGED <<head, mem, producer, ccap, cbuf, cresult, out, written, layouts, queue>>

Malformed(n) ==
  \/ n > MaxPayload
  \/ RecordWords(n) > ToEnd(tail)
  \/ RecordWords(n) > Used(chead, tail)

(* The length the record header gives is checked before anything is taken. *)
ReadHeader ==
  /\ cpc = "peek" /\ ~AtPadding
  /\ LET n == mem[Offset(tail)][1]
     IN \/ Malformed(n) /\ ReadReturn("CORRUPT")
        \/ ~Malformed(n) /\ n > ccap /\ ReadReturn("TOO_BIG")
        \/ /\ ~Malformed(n) /\ n <= ccap
           /\ cpc' = "copy" /\ cbuf' = <<mem[Offset(tail)]>>
           /\ UNCHANGED <<ccap, chead, cresult>>
  /\ UNCHANGED <<shared, producer, out, history>>

LoadWord ==
  /\ cpc = "copy" /\ Len(cbuf) < RecordWords(cbuf[1][1])
  /\ cbuf' = Append(cbuf, mem[Offset(tail) + Len(cbuf)])
  /\ UNCHANGED <<shared, producer, cpc, ccap, chead, cresult, out, history>>

(* Release the record only after its last word was loaded. *)
ReadPublish ==
  /\ cpc = "copy" /\ Len(cbuf) = RecordWords(cbuf[1][1])
  /\ tail' = Advance(tail, Len(cbuf))
  /\ out' = Decode(cbuf)
  /\ ReadReturn("OK")
  /\ consumed' = consumed + Len(cbuf)
  /\ queue' = IF queue = <<>> THEN queue ELSE Tail(queue)
  /\ UNCHANGED <<head, mem, producer, written, layouts>>

-----------------------------------------------------------------------------
(* Linux lays the ring out again for the next boot of Core 1, under the    *)
(* lock of its own side: Core 1, whichever end it has, is held in reset    *)
(* wherever it was.  The data area is left as it is.                       *)
Reinit ==
  /\ ppc = "idle" \/ cpc = "idle"
  /\ layouts < MaxLayouts /\ layouts' = layouts + 1
  /\ head' = 0 /\ tail' = 0
  /\ seq' = 0 /\ ppc' = "idle"
  /\ pmsg' = NoMessage /\ ppos' = 0 /\ pcount' = 0
  /\ cpc' = "idle" /\ ccap' = 0 /\ chead' = 0 /\ cbuf' = <<>> /\ cresult' = "none"
  /\ written' = 0 /\ consumed' = 0 /\ queue' = <<>>
  /\ UNCHANGED <<mem, out>>

Produce ==
  \/ \E m \in Messages : WriteRefused(m) \/ WriteStart(m)
  \/ WritePad
  \/ StoreWord
  \/ WritePublish

Consume ==
  \/ \E cap \in Caps : ReadCall(cap)
  \/ ReadIndices
  \/ SkipPadding
  \/ ReadHeader
  \/ LoadWord
  \/ ReadPublish

Next == Produce \/ Consume \/ Reinit

Spec == Init /\ [][Next]_vars

(* A call to satlink_ring_read runs to its end, and the consumer keeps     *)
(* calling it: every caller polls or is woken, and offers a buffer of      *)
(* SATLINK_RING_MAX_PAYLOAD bytes.  Nothing is assumed of the producer.    *)
Fairness ==
  /\ WF_vars(ReadIndices) /\ WF_vars(SkipPadding) /\ WF_vars(ReadHeader)
  /\ WF_vars(LoadWord) /\ WF_vars(ReadPublish)
  /\ SF_vars(ReadCall(MaxPayload))

FairSpec == Spec /\ Fairness

-----------------------------------------------------------------------------
Entry == [pos : Nat, start : Nat, seq : 0 .. MaxSends - 1,
          msg : {m \in Messages : Valid(m)}]

(* Types of the variables. *)
TypeOK ==
  /\ head \in 0 .. IndexMod - 1 /\ tail \in 0 .. IndexMod - 1
  /\ mem \in [0 .. Size - 1 -> Word]
  /\ seq \in 0 .. MaxSends
  /\ ppc \in {"idle", "pad", "store"}
  /\ ppc # "idle" => pmsg \in Messages /\ Valid(pmsg) /\ seq < MaxSends
  /\ ppos \in 0 .. IndexMod - 1 /\ pcount \in Nat
  /\ cpc \in {"idle", "begin", "peek", "copy"}
  /\ ccap \in 0 .. Half - 1 /\ chead \in 0 .. IndexMod - 1
  /\ cbuf \in Seq(Word) /\ (cpc = "copy" => cbuf # <<>>)
  /\ cresult \in {"none", "OK", "EMPTY", "TOO_BIG", "CORRUPT"}
  /\ written \in Nat /\ consumed \in Nat /\ layouts \in 0 .. MaxLayouts
  /\ queue \in Seq(Entry)

End(e) == e.start + RecordWords(e.msg.len)

(* The queued records tile the unread part of the data area, oldest first, *)
(* each one behind its padding, and none straddles the end of the area:    *)
(* satlink_ring_write never publishes over a record that was not released, *)
(* in whatever order the two cores' steps fall and across the wrap of the  *)
(* indices.                                                                *)
Layout ==
  /\ consumed <= written /\ written - consumed <= Size
  /\ head = written % IndexMod /\ tail = consumed % IndexMod
  /\ queue = <<>> => consumed = written
  /\ queue # <<>> => /\ consumed \in {queue[1].pos, queue[1].start}
                     /\ End(queue[Len(queue)]) = written
  /\ \A i \in 1 .. Len(queue) :
       /\ queue[i].start = queue[i].pos
                            + Padding(queue[i].pos, RecordWords(queue[i].msg.len))
       /\ Offset(queue[i].start) + RecordWords(queue[i].msg.len) <= Size
       /\ i < Len(queue) => queue[i + 1].pos = End(queue[i])

(* Every word of every queued record, and the mark of the padding the      *)
(* consumer has still to step over, stay as written until released.        *)
RecordsIntact ==
  \A i \in 1 .. Len(queue) :
    /\ queue[i].pos # queue[i].start /\ consumed <= queue[i].pos =>
         mem[Offset(queue[i].pos)][2] = PadType
    /\ \A k \in 1 .. RecordWords(queue[i].msg.len) :
         mem[Offset(queue[i].start) + k - 1]
           = RecordWord(queue[i].msg, queue[i].seq, k)

(* The consumer never finds a malformed record or index (and so neither    *)
(* side ever reports an I/O error or a fault for one).                     *)
NeverCorrupt == cresult # "CORRUPT"

(* A ring with nothing queued takes any message of a legal size, wherever  *)
(* the indices stand: the padding in front of it cannot make it permanently*)
(* too big.                                                                *)
EmptyRingAccepts == head = tail => \A m \in Messages : Valid(m) => Fits(m)

(* amp_rx_ready, amp_poll and the callers of satlink_ring_used take bytes  *)
(* in use for a message to read: padding alone never shows as one.         *)
UsedMeansReadable == head # tail <=> queue # <<>>

-----------------------------------------------------------------------------
(* What makes Layout and RecordsIntact inductive: the order of all the     *)
(* records, where a record being written goes and what is there already,   *)
(* and what the consumer knows of the oldest record while it reads it.     *)
Ordered ==
  \A i \in 1 .. Len(queue) :
    /\ consumed <= queue[i].start /\ queue[i].pos <= queue[i].start
    /\ End(queue[i]) <= written
    /\ \A j \in 1 .. Len(queue) : i < j => End(queue[i]) <= queue[j].pos

Writing ==
  ppc # "idle" =>
    LET r == RecordWords(pmsg.len)
        pad == Padding(head, r)
    IN /\ written + pad + r - consumed <= Size
       /\ ppos = Advance(head, pad)
       /\ pcount <= r
       /\ ppc = "pad" => pcount = 0 /\ pad > 0
       /\ ppc = "store" /\ pad > 0 => mem[Offset(head)][2] = PadType
       /\ \A k \in 1 .. pcount : mem[Offset(ppos) + k - 1] = RecordWord(pmsg, seq, k)

Reading ==
  /\ cpc \in {"peek", "copy"} => queue # <<>>
  /\ cpc = "peek" => Used(chead, tail) >= End(queue[1]) - consumed
  /\ cpc = "copy" =>
       /\ consumed = queue[1].start
       /\ Len(cbuf) <= RecordWords(queue[1].msg.len)
       /\ \A k \in 1 .. Len(cbuf) :
            cbuf[k] = RecordWord(queue[1].msg, queue[1].seq, k)

IndInv ==
  TypeOK /\ Layout /\ RecordsIntact /\ NeverCorrupt /\ Ordered /\ Writing /\ Reading

-----------------------------------------------------------------------------
(* The messages delivered are the messages queued, whole, once, in order.  *)
Queue == INSTANCE MsgQueue WITH
  Messages <- {m \in Messages : Valid(m)},
  sent <- seq,
  queue <- [i \in 1 .. Len(queue) |-> [seq |-> queue[i].seq, msg |-> queue[i].msg]]
QueueSpec == Queue!Spec

(* Every message queued is eventually taken, or wiped with the ring.       *)
OldestLeaves ==
  \A s \in 0 .. MaxSends - 1 :
    (queue # <<>> /\ queue[1].seq = s) ~> (queue = <<>> \/ queue[1].seq # s)
=============================================================================
