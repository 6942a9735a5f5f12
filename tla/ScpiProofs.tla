------------------------------- MODULE ScpiProofs -------------------------------
(***************************************************************************)
(* Proofs about Scpi, for any clients, any program messages of any length, *)
(* any error queue, and any crashes and restarts of Core 1: no error and   *)
(* no event is forgotten, the measuring window is the one that was set,    *)
(* and no client gets an answer after a cut one.                           *)
(***************************************************************************)
EXTENDS Scpi, SequenceTheorems, WellFoundedInduction, TLAPS

Errors ==
  {"Command", "Syntax", "DataType", "ParameterNotAllowed", "MissingParameter", "UndefinedHeader",
   "Execution", "SettingsConflict", "DataOutOfRange", "IllegalParameterValue",
   "HardwareMissing"}
Entries == [error : Errors \cup {"QueueOverflow"}, nr : Nat]
Counts == [ok : Nat, crc : Nat, bits : Nat, wrong : Nat]
Reports == [boot : Nat, count : Counts]
Parsers ==
  [errors : Seq(Entries), esr : SUBSET Bits, ese : SUBSET Bits, sre : SUBSET Bits,
   baseline : Counts, mark : Reports, raised : Nat, owed : SUBSET Bits,
   read : [nr : Nat, marked : BOOLEAN]]
Cores == [up : BOOLEAN, boot : Nat, count : Counts]
Connections == [state : {"none", "open", "closed"}, out : Seq({"answer", "part"})]

(* The queue by the numbers of its entries, 0 for "Queue overflow": errors *)
(* are in the order in which they were raised, and every one is there or   *)
(* an overflow stands for it.                                              *)
Numbers(s) == [i \in DOMAIN s.errors |-> s.errors[i].nr]

Sorted(q, raised) ==
  \A i \in DOMAIN q :
    /\ q[i] <= raised
    /\ \A j \in DOMAIN q : i < j => q[i] = 0 \/ q[j] = 0 \/ q[i] < q[j]

Unread(q, read) == \A i \in DOMAIN q : q[i] = 0 \/ q[i] > read

Dropped(q, i, nr) ==
  q[i] = 0 /\ \A j \in DOMAIN q : q[j] = 0 \/ IF j < i THEN q[j] < nr ELSE q[j] > nr
Covers(q, marked, nr) ==
  \/ \E i \in DOMAIN q : q[i] = nr
  \/ marked /\ \A j \in DOMAIN q : q[j] = 0 \/ q[j] > nr
  \/ \E i \in DOMAIN q : Dropped(q, i, nr)

Queue(s) ==
  /\ Sorted(Numbers(s), s.raised) /\ Unread(Numbers(s), s.read.nr) /\ s.read.nr <= s.raised
  /\ \A nr \in s.read.nr + 1 .. s.raised : Covers(Numbers(s), s.read.marked, nr)

(* b was counted by the same instance of Core 1 after a, or by a later one. *)
NotBefore(b, a) ==
  \/ a.boot < b.boot
  \/ a.boot = b.boot /\ ~Behind(b.count, a.count)

(* What holds of the parser between any two calls of its functions.        *)
Measured(s) ==
  /\ NotBefore(status, s.mark)
  /\ status.boot = s.mark.boot => s.baseline = s.mark.count
  /\ s.baseline \in {s.mark.count, Zero}
Kept(s) == s \in Parsers /\ Queue(s) /\ s.owed \subseteq s.esr /\ Measured(s)

(* The payload while a line runs. *)
Good(x) ==
  /\ x \in [mgr : {x.mgr}, scpi : Parsers, core : Cores, answers : {x.answers}]
  /\ Kept(x.scpi) /\ NotBefore(x.core, status)

TypeOK == status \in Reports /\ core \in Cores /\ conn \in [Clients -> Connections]

Inv == TypeOK /\ Kept(scpi) /\ NotBefore(core, status) /\ AnswersWhole

-----------------------------------------------------------------------------
(* The bits of the errors are bits of the register. *)
LEMMA ErrorBits == \A e \in Errors : EsrBitFor(e) \in Bits
BY DEF Errors, EsrBitFor, Bits

LEMMA QueueAccounted ==
  ASSUME NEW s, Queue(s)
  PROVE  Accounted(s)
<1> SUFFICES ASSUME NEW nr \in s.read.nr + 1 .. s.raised
             PROVE  Covers(Numbers(s), s.read.marked, nr) =>
                      \/ \E i \in DOMAIN s.errors : s.errors[i].nr = nr
                      \/ /\ s.read.marked
                         /\ \A j \in DOMAIN s.errors : Overflowed(s, j) \/ s.errors[j].nr > nr
                      \/ \E i \in DOMAIN s.errors :
                           /\ Overflowed(s, i)
                           /\ \A j \in DOMAIN s.errors :
                                \/ Overflowed(s, j)
                                \/ IF j < i THEN s.errors[j].nr < nr ELSE s.errors[j].nr > nr
  BY DEF Queue, Accounted
<1> QED
  BY DEF Covers, Dropped, Numbers, Overflowed

(* An error that the queue has room for. *)
LEMMA PushFits ==
  ASSUME NEW n \in Nat, NEW q \in [1 .. n -> Nat], NEW r \in [1 .. n + 1 -> Nat],
         NEW raised \in Nat, NEW marked, Sorted(q, raised),
         NEW read \in 0 .. raised, Unread(q, read),
         \A i \in 1 .. n : r[i] = q[i], r[n + 1] = raised + 1
  PROVE  /\ Sorted(r, raised + 1) /\ Unread(r, read) /\ Covers(r, marked, raised + 1)
         /\ \A nr \in 1 .. raised : Covers(q, marked, nr) => Covers(r, marked, nr)
<1>1. Sorted(r, raised + 1) /\ Unread(r, read)
  <2>1. DOMAIN q = 1 .. n /\ DOMAIN r = 1 .. n + 1
    OBVIOUS
  <2>2. ASSUME NEW i \in 1 .. n + 1
        PROVE  /\ r[i] <= raised + 1 /\ (r[i] = 0 \/ r[i] > read)
               /\ \A j \in 1 .. n + 1 : i < j => r[i] = 0 \/ r[j] = 0 \/ r[i] < r[j]
    <3>1. CASE i = n + 1
      BY <3>1
    <3>2. CASE i # n + 1
      <4>1. i \in 1 .. n /\ r[i] = q[i] /\ q[i] \in Nat
        BY <3>2
      <4>2. q[i] <= raised /\ (q[i] = 0 \/ q[i] > read)
        BY <2>1, <4>1 DEF Sorted, Unread
      <4>3. ASSUME NEW j \in 1 .. n + 1, i < j PROVE r[i] = 0 \/ r[j] = 0 \/ r[i] < r[j]
        <5>1. CASE j = n + 1
          BY <4>1, <4>2, <5>1
        <5>2. CASE j # n + 1
          BY <2>1, <4>1, <4>3, <5>2 DEF Sorted
        <5> QED
          BY <5>1, <5>2
      <4> QED
        BY <4>1, <4>2, <4>3
    <3> QED
      BY <3>1, <3>2
  <2> QED
    BY <2>1, <2>2 DEF Sorted, Unread
<1>2. Covers(r, marked, raised + 1)
  BY DEF Covers
<1>3. ASSUME NEW nr \in 1 .. raised, Covers(q, marked, nr)
      PROVE  Covers(r, marked, nr)
  <2>1. CASE \E i \in DOMAIN q : q[i] = nr
    BY <2>1 DEF Covers
  <2>2. CASE marked /\ \A j \in DOMAIN q : q[j] = 0 \/ q[j] > nr
    <3>1. ASSUME NEW j \in DOMAIN r PROVE r[j] = 0 \/ r[j] > nr
      <4>1. j \in 1 .. n \/ j = n + 1
        OBVIOUS
      <4> QED
        BY <2>2, <4>1
    <3> QED
      BY <2>2, <3>1 DEF Covers
  <2>3. ASSUME NEW i \in DOMAIN q, Dropped(q, i, nr)
        PROVE  Covers(r, marked, nr)
    <3>1. i \in DOMAIN r /\ Dropped(r, i, nr)
      BY <2>3 DEF Dropped
    <3> QED
      BY <3>1 DEF Covers
  <2> QED
    BY <1>3, <2>1, <2>2, <2>3 DEF Covers
<1> QED
  BY <1>1, <1>2, <1>3

(* An error that it has no room for: "Queue overflow" takes the place of   *)
(* the last entry, and stands for it and for the error that came.          *)
LEMMA PushOverflows ==
  ASSUME NEW n \in Nat \ {0}, NEW q \in [1 .. n -> Nat], NEW r \in [1 .. n -> Nat],
         NEW raised \in Nat, NEW marked, Sorted(q, raised),
         NEW read \in 0 .. raised, Unread(q, read),
         \A i \in 1 .. n - 1 : r[i] = q[i], r[n] = 0
  PROVE  /\ Sorted(r, raised + 1) /\ Unread(r, read) /\ Covers(r, marked, raised + 1)
         /\ \A nr \in 1 .. raised : Covers(q, marked, nr) => Covers(r, marked, nr)
<1>1. Sorted(r, raised + 1) /\ Unread(r, read)
  BY DEF Sorted, Unread
<1>2. Covers(r, marked, raised + 1)
  <2>1. Dropped(r, n, raised + 1)
    BY DEF Dropped, Sorted
  <2> QED
    BY <2>1 DEF Covers
<1>3. ASSUME NEW nr \in 1 .. raised, Covers(q, marked, nr)
      PROVE  Covers(r, marked, nr)
  <2>1. ASSUME NEW i \in DOMAIN q, q[i] = nr
        PROVE  Covers(r, marked, nr)
    <3>1. CASE i < n
      BY <2>1, <3>1 DEF Covers
    <3>2. CASE i = n
      <4>1. \A j \in 1 .. n - 1 : q[j] = 0 \/ q[j] < nr
        BY <2>1, <3>2 DEF Sorted
      <4>2. Dropped(r, n, nr)
        BY <4>1 DEF Dropped
      <4> QED
        BY <4>2 DEF Covers
    <3> QED
      BY <3>1, <3>2
  <2>2. CASE marked /\ \A j \in DOMAIN q : q[j] = 0 \/ q[j] > nr
    BY <2>2 DEF Covers
  <2>3. ASSUME NEW i \in DOMAIN q, Dropped(q, i, nr)
        PROVE  Covers(r, marked, nr)
    <3>1. i \in DOMAIN r /\ Dropped(r, i, nr)
      BY <2>3 DEF Dropped
    <3> QED
      BY <3>1 DEF Covers
  <2> QED
    BY <1>3, <2>1, <2>2, <2>3 DEF Covers
<1> QED
  BY <1>1, <1>2, <1>3

(* The oldest entry is read. *)
LEMMA PopFirst ==
  ASSUME NEW n \in Nat \ {0}, NEW q \in [1 .. n -> Nat], NEW r \in [1 .. n - 1 -> Nat],
         NEW raised \in Nat, NEW marked, Sorted(q, raised),
         NEW read \in 0 .. raised, Unread(q, read),
         \A i \in 1 .. n - 1 : r[i] = q[i + 1]
  PROVE  /\ Sorted(r, raised) /\ Unread(r, read)
         /\ q[1] # 0 => q[1] > read /\ q[1] <= raised /\ Unread(r, q[1])
         /\ q[1] = 0 => \A nr \in 1 .. raised : Covers(q, marked, nr) => Covers(r, TRUE, nr)
         /\ q[1] # 0 => \A nr \in q[1] + 1 .. raised : Covers(q, marked, nr) => Covers(r, FALSE, nr)
<1>1. Sorted(r, raised) /\ Unread(r, read)
  BY DEF Sorted, Unread
<1>6. ASSUME q[1] # 0
      PROVE  q[1] > read /\ q[1] <= raised /\ Unread(r, q[1])
  <2>1. 1 \in DOMAIN q /\ q[1] > read /\ q[1] <= raised
    BY <1>6 DEF Unread, Sorted
  <2>2. ASSUME NEW i \in 1 .. n - 1 PROVE r[i] = 0 \/ r[i] > q[1]
    <3>1. i + 1 \in DOMAIN q /\ 1 < i + 1 /\ r[i] = q[i + 1] /\ q[i + 1] \in Nat
      OBVIOUS
    <3> QED
      BY <1>6, <2>1, <3>1 DEF Sorted
  <2> QED
    BY <2>1, <2>2 DEF Unread
<1>2. ASSUME NEW nr \in 1 .. raised, NEW i \in DOMAIN q, q[i] = nr, i # 1, NEW m
      PROVE  Covers(r, m, nr)
  <2>1. i - 1 \in DOMAIN r /\ r[i - 1] = nr
    BY <1>2
  <2> QED
    BY <2>1 DEF Covers
<1>3. ASSUME NEW nr \in 1 .. raised, NEW i \in DOMAIN q, Dropped(q, i, nr), i # 1, NEW m
      PROVE  Covers(r, m, nr)
  <2>1. i - 1 \in DOMAIN r /\ r[i - 1] = 0
    BY <1>3 DEF Dropped
  <2>2. ASSUME NEW j \in DOMAIN r
        PROVE  r[j] = 0 \/ IF j < i - 1 THEN r[j] < nr ELSE r[j] > nr
    <3>1. j + 1 \in DOMAIN q /\ r[j] = q[j + 1] /\ (j + 1 < i <=> j < i - 1)
      OBVIOUS
    <3> QED
      BY <1>3, <3>1 DEF Dropped
  <2>3. Dropped(r, i - 1, nr)
    BY <2>1, <2>2 DEF Dropped
  <2> QED
    BY <2>1, <2>3 DEF Covers
<1>4. ASSUME q[1] = 0, NEW nr \in 1 .. raised, Covers(q, marked, nr)
      PROVE  Covers(r, TRUE, nr)
  <2>0. \A i \in DOMAIN q : q[i] = nr => i # 1
    BY <1>4
  <2>1. CASE marked /\ \A j \in DOMAIN q : q[j] = 0 \/ q[j] > nr
    BY <2>1 DEF Covers
  <2>2. CASE Dropped(q, 1, nr)
    <3>1. \A j \in DOMAIN r : j + 1 \in DOMAIN q /\ r[j] = q[j + 1] /\ ~(j + 1 < 1)
      OBVIOUS
    <3> QED
      BY <2>2, <3>1 DEF Covers, Dropped
  <2> QED
    BY <1>2, <1>3, <1>4, <2>0, <2>1, <2>2 DEF Covers
<1>5. ASSUME q[1] # 0, NEW nr \in q[1] + 1 .. raised, Covers(q, marked, nr)
      PROVE  Covers(r, FALSE, nr)
  <2>0. nr \in 1 .. raised /\ q[1] # nr /\ 1 \in DOMAIN q /\ q[1] < nr
    OBVIOUS
  <2>1. ~Dropped(q, 1, nr)
    BY <1>5 DEF Dropped
  <2>2. ~\A j \in DOMAIN q : q[j] = 0 \/ q[j] > nr
    BY <1>5, <2>0
  <2> QED
    BY <1>2, <1>3, <1>5, <2>0, <2>1, <2>2 DEF Covers
<1> QED
  BY <1>1, <1>4, <1>5, <1>6

-----------------------------------------------------------------------------
(* The numbers of a parser's queue. *)
LEMMA EntryNumbers ==
  ASSUME NEW e \in Seq(Entries)
  PROVE  \A i \in DOMAIN e : e[i].nr \in Nat
<1>1. \A i \in DOMAIN e : e[i] \in Entries
  OBVIOUS
<1> QED
  BY <1>1 DEF Entries

LEMMA QueueNumbers ==
  ASSUME NEW s \in Parsers
  PROVE  /\ s.errors \in Seq(Entries) /\ Len(s.errors) \in Nat
         /\ DOMAIN s.errors = 1 .. Len(s.errors)
         /\ Numbers(s) \in [1 .. Len(s.errors) -> Nat]
         /\ \A i \in 1 .. Len(s.errors) : Numbers(s)[i] = s.errors[i].nr
         /\ s.raised \in Nat /\ s.read \in [nr : Nat, marked : BOOLEAN]
<1>1. s.errors \in Seq(Entries) /\ s.raised \in Nat /\ s.read \in [nr : Nat, marked : BOOLEAN]
  BY DEF Parsers
<1>2. \A i \in 1 .. Len(s.errors) : s.errors[i].nr \in Nat
  BY <1>1, EntryNumbers
<1> QED
  BY <1>1, <1>2 DEF Numbers

LEMMA FrontElements ==
  ASSUME NEW S, NEW s \in Seq(S), Len(s) > 0
  PROVE  /\ Front(s) \in Seq(S) /\ Len(Front(s)) = Len(s) - 1
         /\ \A n \in 1 .. Len(s) - 1 : Front(s)[n] = s[n]
<1>1. /\ Len(s) \in Nat /\ 1 \in Int /\ Len(s) - 1 \in Int
      /\ \A i \in 1 .. Len(s) - 1 : s[i] \in S
  OBVIOUS
<1>2. /\ SubSeq(s, 1, Len(s) - 1) \in Seq(S)
      /\ Len(SubSeq(s, 1, Len(s) - 1)) = IF 1 <= Len(s) - 1 THEN Len(s) - 1 - 1 + 1 ELSE 0
      /\ \A i \in 1 .. Len(s) - 1 - 1 + 1 : SubSeq(s, 1, Len(s) - 1)[i] = s[1 + i - 1]
  BY <1>1, SubSeqProperties
<1>3. Len(s) - 1 - 1 + 1 = Len(s) - 1 /\ \A i \in Nat : 1 + i - 1 = i
  BY <1>1
<1>4. \A i \in 1 .. Len(s) - 1 : SubSeq(s, 1, Len(s) - 1)[i] = s[i]
  BY <1>2, <1>3
<1>5. Len(SubSeq(s, 1, Len(s) - 1)) = Len(s) - 1
  <2> DEFINE l == Len(SubSeq(s, 1, Len(s) - 1))
             k == Len(s)
  <2>1. l = IF 1 <= k - 1 THEN k - 1 - 1 + 1 ELSE 0
    BY <1>2
  <2>2. k \in Nat /\ k > 0
    BY <1>1
  <2> HIDE DEF l, k
  <2>3. l = k - 1
    BY <2>1, <2>2
  <2> QED
    BY <2>3 DEF l, k
<1> QED
  BY <1>2, <1>4, <1>5 DEF Front

(* An error is noted. *)
LEMMA PushQueue ==
  ASSUME NEW s \in Parsers, Queue(s), NEW e \in Errors
  PROVE  PushError(s, e) \in Parsers /\ Queue(PushError(s, e))
<1> DEFINE t == PushError(s, e)
           entry == [error |-> e, nr |-> s.raised + 1]
           n == Len(s.errors)
           Pushed == /\ t.errors \in Seq(Entries) /\ Unread(Numbers(t), s.read.nr)
                     /\ Sorted(Numbers(t), s.raised + 1)
                     /\ Covers(Numbers(t), s.read.marked, s.raised + 1)
                     /\ \A nr \in 1 .. s.raised :
                          Covers(Numbers(s), s.read.marked, nr) => Covers(Numbers(t), s.read.marked, nr)
<1>1. /\ s.errors \in Seq(Entries) /\ n \in Nat
      /\ Numbers(s) \in [1 .. n -> Nat] /\ \A i \in 1 .. n : Numbers(s)[i] = s.errors[i].nr
      /\ s.raised \in Nat /\ s.read.nr \in Nat
  BY QueueNumbers
<1>0. s.read.nr \in 0 .. s.raised /\ Unread(Numbers(s), s.read.nr)
  BY <1>1 DEF Queue
<1>2. /\ t.raised = s.raised + 1 /\ t.read = s.read
      /\ t.errors = IF n >= kQueueSize THEN Append(Front(s.errors), QueueOverflow)
                                       ELSE Append(s.errors, entry)
  BY DEF PushError, Parsers
<1>3. entry \in Entries /\ QueueOverflow \in Entries /\ QueueOverflow.nr = 0
      /\ entry.nr = s.raised + 1
  BY <1>1 DEF Entries, QueueOverflow
<1>4. ASSUME n >= kQueueSize PROVE Pushed
  <2> DEFINE f == Front(s.errors)
  <2>1. n \in Nat \ {0} /\ n > 0
    BY <1>1, <1>4, ScpiAssumption
  <2>2. f \in Seq(Entries) /\ Len(f) = n - 1 /\ \A i \in 1 .. n - 1 : f[i] = s.errors[i]
    BY <1>1, <2>1, FrontElements
  <2>3. t.errors = Append(f, QueueOverflow)
    BY <1>2, <1>4
  <2> HIDE DEF f, t
  <2>4. /\ t.errors \in Seq(Entries) /\ DOMAIN t.errors = 1 .. Len(f) + 1
        /\ t.errors[Len(f) + 1] = QueueOverflow
        /\ \A i \in 1 .. Len(f) : t.errors[i] = f[i]
    BY <1>3, <2>2, <2>3
  <2>5. /\ DOMAIN t.errors = 1 .. n /\ t.errors[n].nr = 0
        /\ \A i \in 1 .. n - 1 : t.errors[i].nr = s.errors[i].nr
    BY <1>1, <1>3, <2>2, <2>4
  <2>6. /\ Numbers(t) \in [1 .. n -> Nat] /\ Numbers(t)[n] = 0
        /\ \A i \in 1 .. n - 1 : Numbers(t)[i] = Numbers(s)[i]
    <3>1. \A i \in DOMAIN t.errors : t.errors[i].nr \in Nat
      BY <2>4, EntryNumbers
    <3>2. DOMAIN Numbers(t) = 1 .. n /\ \A i \in 1 .. n : Numbers(t)[i] = t.errors[i].nr
      BY <2>5 DEF Numbers
    <3>3. Numbers(t) \in [1 .. n -> Nat]
      BY <2>5, <3>1 DEF Numbers
    <3>4. \A i \in 1 .. n - 1 : i \in 1 .. n
      BY <2>1
    <3> QED
      BY <1>1, <2>1, <2>5, <3>2, <3>3, <3>4
  <2>7. /\ Sorted(Numbers(t), s.raised + 1) /\ Unread(Numbers(t), s.read.nr)
        /\ Covers(Numbers(t), s.read.marked, s.raised + 1)
        /\ \A nr \in 1 .. s.raised :
             Covers(Numbers(s), s.read.marked, nr) => Covers(Numbers(t), s.read.marked, nr)
    <3>1. Sorted(Numbers(s), s.raised)
      BY DEF Queue
    <3> DEFINE q == Numbers(s)
               r == Numbers(t)
               raised == s.raised
               marked == s.read.marked
               read == s.read.nr
    <3>2. /\ n \in Nat /\ q \in [1 .. n -> Nat] /\ raised \in Nat /\ Sorted(q, raised)
          /\ read \in 0 .. raised /\ Unread(q, read)
      BY <1>0, <1>1, <3>1
    <3> HIDE DEF n, q, r, raised, marked, read
    <3>3. /\ Sorted(r, raised + 1) /\ Unread(r, read) /\ Covers(r, marked, raised + 1)
          /\ \A nr \in 1 .. raised : Covers(q, marked, nr) => Covers(r, marked, nr)
      BY <2>1, <2>6, <3>2, PushOverflows DEF q, r
    <3> QED
      BY <3>3 DEF q, r, raised, marked, read
  <2> QED
    BY <2>4, <2>7
<1>5. ASSUME ~(n >= kQueueSize) PROVE Pushed
  <2>1. t.errors = Append(s.errors, entry)
    BY <1>2, <1>5
  <2> HIDE DEF t, entry
  <2>2. /\ t.errors \in Seq(Entries) /\ DOMAIN t.errors = 1 .. n + 1
        /\ t.errors[n + 1] = entry
        /\ \A i \in 1 .. n : t.errors[i] = s.errors[i]
    BY <1>1, <1>3, <2>1
  <2>3. /\ Numbers(t) \in [1 .. n + 1 -> Nat] /\ Numbers(t)[n + 1] = s.raised + 1
        /\ \A i \in 1 .. n : Numbers(t)[i] = Numbers(s)[i]
    <3>1. \A i \in DOMAIN t.errors : t.errors[i].nr \in Nat
      BY <2>2, EntryNumbers
    <3> QED
      BY <1>1, <1>3, <2>2, <3>1 DEF Numbers
  <2>4. /\ Sorted(Numbers(t), s.raised + 1) /\ Unread(Numbers(t), s.read.nr)
        /\ Covers(Numbers(t), s.read.marked, s.raised + 1)
        /\ \A nr \in 1 .. s.raised :
             Covers(Numbers(s), s.read.marked, nr) => Covers(Numbers(t), s.read.marked, nr)
    <3>1. Sorted(Numbers(s), s.raised)
      BY DEF Queue
    <3> DEFINE q == Numbers(s)
               r == Numbers(t)
               raised == s.raised
               marked == s.read.marked
               read == s.read.nr
    <3>2. /\ n \in Nat /\ q \in [1 .. n -> Nat] /\ raised \in Nat /\ Sorted(q, raised)
          /\ read \in 0 .. raised /\ Unread(q, read)
      BY <1>0, <1>1, <3>1
    <3> HIDE DEF n, q, r, raised, marked, read
    <3>3. /\ Sorted(r, raised + 1) /\ Unread(r, read) /\ Covers(r, marked, raised + 1)
          /\ \A nr \in 1 .. raised : Covers(q, marked, nr) => Covers(r, marked, nr)
      BY <2>3, <3>2, PushFits DEF q, r, raised
    <3> QED
      BY <3>3 DEF q, r, raised, marked, read
  <2> QED
    BY <2>2, <2>4
<1>6. /\ t.errors \in Seq(Entries) /\ Unread(Numbers(t), s.read.nr)
      /\ Sorted(Numbers(t), s.raised + 1) /\ Covers(Numbers(t), s.read.marked, s.raised + 1)
      /\ \A nr \in 1 .. s.raised :
           Covers(Numbers(s), s.read.marked, nr) => Covers(Numbers(t), s.read.marked, nr)
  <2> HIDE DEF t
  <2> QED
    BY <1>4, <1>5
<1>7. t \in Parsers
  <2>1. EsrBitFor(e) \in Bits
    BY ErrorBits
  <2>2. t = [s EXCEPT !.esr = s.esr \cup {EsrBitFor(e)}, !.owed = s.owed \cup {EsrBitFor(e)},
                      !.raised = s.raised + 1, !.errors = t.errors]
    BY DEF PushError, Parsers
  <2>3. s.esr \cup {EsrBitFor(e)} \in SUBSET Bits /\ s.owed \cup {EsrBitFor(e)} \in SUBSET Bits
    BY <2>1 DEF Parsers
  <2>4. s.raised + 1 \in Nat
    BY <1>1
  <2> HIDE DEF t
  <2> QED
    BY <1>6, <2>2, <2>3, <2>4 DEF Parsers
<1>8. Queue(t)
  <2> HIDE DEF t
  <2>1. \A nr \in s.read.nr + 1 .. s.raised + 1 : nr = s.raised + 1 \/ nr \in 1 .. s.raised
    BY <1>1
  <2>2. \A nr \in s.read.nr + 1 .. s.raised : Covers(Numbers(s), s.read.marked, nr)
    BY DEF Queue
  <2>3. \A nr \in s.read.nr + 1 .. s.raised + 1 : Covers(Numbers(t), s.read.marked, nr)
    <3> TAKE nr \in s.read.nr + 1 .. s.raised + 1
    <3>1. nr = s.raised + 1 \/ (nr \in s.read.nr + 1 .. s.raised /\ nr \in 1 .. s.raised)
      BY <1>1
    <3> QED
      BY <1>6, <2>2, <3>1
  <2>4. s.read.nr <= s.raised + 1
    BY <1>0, <1>1
  <2> QED
    BY <1>2, <1>6, <2>3, <2>4 DEF Queue
<1> QED
  BY <1>7, <1>8

(* Reading the oldest error, or "Queue overflow". *)
LEMMA PopQueue ==
  ASSUME NEW s \in Parsers, Queue(s)
  PROVE  /\ PopError(s) \in Parsers /\ Queue(PopError(s))
         /\ PopError(s).esr = s.esr /\ PopError(s).owed = s.owed
         /\ PopError(s).mark = s.mark /\ PopError(s).baseline = s.baseline
<1>1. CASE s.errors = <<>>
  BY <1>1 DEF PopError
<1>2. CASE s.errors # <<>>
  <2> DEFINE t == PopError(s)
             n == Len(s.errors)
             rest == IF Head(s.errors).nr = 0 THEN [s.read EXCEPT !.marked = TRUE]
                     ELSE [nr |-> Head(s.errors).nr, marked |-> FALSE]
             q == Numbers(s)
             r == Numbers(t)
             raised == s.raised
             marked == s.read.marked
             read == s.read.nr
  <2>1. /\ s.errors \in Seq(Entries) /\ n \in Nat /\ DOMAIN s.errors = 1 .. n
        /\ q \in [1 .. n -> Nat] /\ (\A i \in 1 .. n : q[i] = s.errors[i].nr)
        /\ raised \in Nat /\ s.read \in [nr : Nat, marked : BOOLEAN]
    BY QueueNumbers
  <2>2. /\ n \in Nat \ {0} /\ Tail(s.errors) \in Seq(Entries) /\ Len(Tail(s.errors)) = n - 1
        /\ Head(s.errors) = s.errors[1] /\ Head(s.errors) \in Entries
        /\ \A i \in 1 .. n - 1 : Tail(s.errors)[i] = s.errors[i + 1]
    BY <2>1, <1>2
  <2>3. rest \in [nr : Nat, marked : BOOLEAN]
    BY <2>1, <2>2 DEF Entries
  <2>4. t = [s EXCEPT !.errors = Tail(s.errors), !.read = rest]
    BY <1>2 DEF PopError, Parsers
  <2>5. /\ t \in Parsers /\ t.errors = Tail(s.errors) /\ t.read = rest /\ t.raised = s.raised
        /\ t.esr = s.esr /\ t.owed = s.owed /\ t.mark = s.mark /\ t.baseline = s.baseline
    <3> HIDE DEF t, rest
    <3> QED
      BY <2>2, <2>3, <2>4 DEF Parsers
  <2>6. r \in [1 .. n - 1 -> Nat] /\ \A i \in 1 .. n - 1 : r[i] = q[i + 1]
    <3> HIDE DEF t
    <3>1. /\ t.errors \in Seq(Entries) /\ DOMAIN t.errors = 1 .. n - 1
          /\ \A i \in 1 .. n - 1 : t.errors[i] = s.errors[i + 1] /\ i + 1 \in 1 .. n
      BY <2>2, <2>5
    <3>2. \A i \in DOMAIN t.errors : t.errors[i].nr \in Nat
      BY <3>1, EntryNumbers
    <3>3. DOMAIN r = 1 .. n - 1 /\ \A i \in 1 .. n - 1 : r[i] = t.errors[i].nr
      BY <3>1 DEF Numbers
    <3>4. r \in [1 .. n - 1 -> Nat]
      BY <3>1, <3>2 DEF Numbers
    <3> QED
      BY <2>1, <3>1, <3>3, <3>4
  <2>7. /\ Sorted(q, raised) /\ Unread(q, read) /\ read \in 0 .. raised
        /\ \A nr \in read + 1 .. raised : Covers(q, marked, nr)
    BY <2>1 DEF Queue
  <2>8. /\ Sorted(r, raised) /\ Unread(r, read)
        /\ q[1] # 0 => q[1] > read /\ q[1] <= raised /\ Unread(r, q[1])
        /\ q[1] = 0 => \A nr \in 1 .. raised : Covers(q, marked, nr) => Covers(r, TRUE, nr)
        /\ q[1] # 0 => \A nr \in q[1] + 1 .. raised : Covers(q, marked, nr) => Covers(r, FALSE, nr)
    <3> HIDE DEF n, q, r, raised, marked, read
    <3> QED
      BY <2>1, <2>2, <2>6, <2>7, PopFirst
  <2>9. Head(s.errors).nr = q[1] /\ q[1] \in Nat
    BY <2>1, <2>2
  <2>10. Queue(t)
    <3>1. CASE q[1] = 0
      <4>1. t.read.nr = s.read.nr /\ t.read.marked = TRUE
        BY <2>1, <2>5, <2>9, <3>1
      <4>2. \A nr \in s.read.nr + 1 .. raised : nr \in 1 .. raised
        BY <2>1
      <4>3. \A nr \in s.read.nr + 1 .. raised : Covers(r, TRUE, nr)
        BY <2>7, <2>8, <3>1, <4>2
      <4> HIDE DEF t
      <4> QED
        BY <2>5, <2>7, <2>8, <4>1, <4>3 DEF Queue
    <3>2. CASE q[1] # 0
      <4>1. t.read.nr = q[1] /\ t.read.marked = FALSE
        BY <2>5, <2>9, <3>2
      <4>2. \A nr \in q[1] + 1 .. raised : nr \in s.read.nr + 1 .. raised
        BY <2>1, <2>8, <2>9, <3>2
      <4>3. \A nr \in q[1] + 1 .. raised : Covers(r, FALSE, nr)
        BY <2>7, <2>8, <3>2, <4>2
      <4> HIDE DEF t
      <4> QED
        BY <2>5, <2>8, <3>2, <4>1, <4>3 DEF Queue
    <3> QED
      BY <3>1, <3>2
  <2> QED
    BY <2>5, <2>10
<1> QED
  BY <1>1, <1>2

(* What the rest of the parser's functions leave of the queue. *)
LEMMA SameQueue ==
  ASSUME NEW s, NEW t, Queue(s), t.errors = s.errors, t.raised = s.raised, t.read = s.read
  PROVE  Queue(t)
<1>1. Numbers(t) = Numbers(s)
  BY DEF Numbers
<1> QED
  BY <1>1 DEF Queue

LEMMA EmptyQueue ==
  ASSUME NEW s \in Parsers
  PROVE  /\ PopAll(s) \in Parsers /\ Queue(PopAll(s)) /\ PopAll(s).errors = <<>>
         /\ PopAll(s).esr = s.esr /\ PopAll(s).owed = s.owed
         /\ PopAll(s).mark = s.mark /\ PopAll(s).baseline = s.baseline
<1> DEFINE t == PopAll(s)
<1>1. s.raised \in Nat /\ <<>> \in Seq(Entries) /\ [nr |-> s.raised, marked |-> FALSE] \in [nr : Nat, marked : BOOLEAN]
  BY DEF Parsers
<1>2. /\ t \in Parsers /\ t.errors = <<>> /\ t.raised = s.raised
      /\ t.read = [nr |-> s.raised, marked |-> FALSE]
      /\ t.esr = s.esr /\ t.owed = s.owed /\ t.mark = s.mark /\ t.baseline = s.baseline
  BY <1>1 DEF PopAll, Parsers
<1> HIDE DEF t
<1>3. Queue(t)
  <2>1. DOMAIN Numbers(t) = {} /\ t.read.nr = s.raised
    BY <1>2 DEF Numbers
  <2>2. Sorted(Numbers(t), t.raised) /\ Unread(Numbers(t), t.read.nr)
    BY <2>1 DEF Sorted, Unread
  <2>3. t.read.nr <= t.raised
    BY <1>1, <1>2, <2>1
  <2>4. ASSUME NEW nr \in t.read.nr + 1 .. t.raised
        PROVE  Covers(Numbers(t), t.read.marked, nr)
    BY <1>1, <1>2, <2>1
  <2> QED
    BY <2>2, <2>3, <2>4 DEF Queue
<1> QED
  BY <1>2, <1>3 DEF t

-----------------------------------------------------------------------------
(* The parser's functions, and what keeps the queue, the events and the    *)
(* measuring window right.                                                 *)
LEMMA KeptPush ==
  ASSUME NEW s, Kept(s), NEW e \in Errors
  PROVE  Kept(PushError(s, e))
<1>1. PushError(s, e) \in Parsers /\ Queue(PushError(s, e))
  BY PushQueue DEF Kept
<1>2. /\ PushError(s, e).esr = s.esr \cup {EsrBitFor(e)}
      /\ PushError(s, e).owed = s.owed \cup {EsrBitFor(e)}
      /\ PushError(s, e).mark = s.mark /\ PushError(s, e).baseline = s.baseline
  BY DEF PushError, Kept, Parsers
<1> QED
  BY <1>1, <1>2 DEF Kept, Measured

LEMMA KeptPops ==
  ASSUME NEW s, Kept(s)
  PROVE  Kept(PopError(s)) /\ Kept(PopAll(s)) /\ Kept(Clear(s))
<1>1. Kept(PopError(s))
  BY PopQueue DEF Kept, Measured
<1>2. Kept(PopAll(s))
  BY EmptyQueue DEF Kept, Measured
<1>3. Kept(Clear(s))
  <2> DEFINE t == PopAll(s)
  <2>1. t \in Parsers /\ Queue(t) /\ Measured(t)
    BY <1>2 DEF Kept
  <2> HIDE DEF t
  <2> DEFINE c == [t EXCEPT !.esr = {}, !.owed = {}]
  <2>2. /\ c \in Parsers /\ c.errors = t.errors /\ c.raised = t.raised /\ c.read = t.read
        /\ c.esr = {} /\ c.owed = {} /\ c.mark = t.mark /\ c.baseline = t.baseline
    BY <2>1 DEF Parsers
  <2> HIDE DEF c
  <2>3. Kept(c)
    BY <2>1, <2>2, SameQueue DEF Kept, Measured
  <2> QED
    BY <2>3 DEF Clear, c, t
<1> QED
  BY <1>1, <1>2, <1>3

(* Bits that are read, set or enabled. *)
LEMMA KeptBits ==
  ASSUME NEW s, Kept(s)
  PROVE  /\ Kept([s EXCEPT !.esr = {}, !.owed = {}])
         /\ Kept([s EXCEPT !.esr = s.esr \cup {"OPC"}])
         /\ \A b \in SUBSET Bits : Kept([s EXCEPT !.ese = b]) /\ Kept([s EXCEPT !.sre = b])
<1>0. s \in Parsers /\ Queue(s) /\ s.owed \subseteq s.esr /\ Measured(s) /\ s.esr \cup {"OPC"} \in SUBSET Bits
  BY DEF Kept, Parsers, Bits
<1>1. ASSUME NEW t \in Parsers, t.errors = s.errors, t.raised = s.raised, t.read = s.read,
             t.mark = s.mark, t.baseline = s.baseline, t.owed \subseteq t.esr
      PROVE  Kept(t)
  BY <1>0, <1>1, SameQueue DEF Kept, Measured
<1>2. Kept([s EXCEPT !.esr = {}, !.owed = {}])
  <2> DEFINE t == [s EXCEPT !.esr = {}, !.owed = {}]
  <2>1. /\ t \in Parsers /\ t.errors = s.errors /\ t.raised = s.raised /\ t.read = s.read
        /\ t.mark = s.mark /\ t.baseline = s.baseline /\ t.owed \subseteq t.esr
    BY <1>0 DEF Parsers
  <2> QED
    BY <1>1, <2>1
<1>3. Kept([s EXCEPT !.esr = s.esr \cup {"OPC"}])
  <2> DEFINE t == [s EXCEPT !.esr = s.esr \cup {"OPC"}]
  <2>1. /\ t \in Parsers /\ t.errors = s.errors /\ t.raised = s.raised /\ t.read = s.read
        /\ t.mark = s.mark /\ t.baseline = s.baseline /\ t.owed \subseteq t.esr
    BY <1>0 DEF Parsers
  <2> QED
    BY <1>1, <2>1
<1>4. ASSUME NEW b \in SUBSET Bits PROVE Kept([s EXCEPT !.ese = b]) /\ Kept([s EXCEPT !.sre = b])
  <2>1. ASSUME NEW t \in {[s EXCEPT !.ese = b], [s EXCEPT !.sre = b]}
        PROVE  /\ t \in Parsers /\ t.errors = s.errors /\ t.raised = s.raised /\ t.read = s.read
               /\ t.mark = s.mark /\ t.baseline = s.baseline /\ t.owed \subseteq t.esr
    BY <1>0, <2>1 DEF Parsers
  <2> QED
    BY <1>1, <2>1
<1> QED
  BY <1>2, <1>3, <1>4

LEMMA CountsAhead ==
  ASSUME NEW c \in Counts
  PROVE  ~Behind(c, c) /\ ~Behind(c, Zero) /\ Zero \in Counts
BY DEF Counts, Behind, Zero

(* Asking for a rate starts a new window only when the counters show a     *)
(* restart; MEASure:RESet starts one in any case.                          *)
LEMMA KeptWindow ==
  ASSUME NEW s, Kept(s), status \in Reports
  PROVE  Kept(Window(s)) /\ Kept(Rebase(s))
<1>0. s \in Parsers /\ Queue(s) /\ s.owed \subseteq s.esr /\ Measured(s) /\ s.mark \in Reports
  BY DEF Kept, Parsers
<1>1. Kept(Window(s))
  <2>1. CASE Behind(status.count, s.baseline)
    <3>1. status.boot # s.mark.boot
      BY <1>0, <2>1 DEF Measured, NotBefore, Reports
    <3> DEFINE t == [s EXCEPT !.baseline = Zero]
    <3>2. /\ t \in Parsers /\ t.errors = s.errors /\ t.raised = s.raised /\ t.read = s.read
          /\ t.mark = s.mark /\ t.owed = s.owed /\ t.esr = s.esr /\ t.baseline = Zero
      <4>1. Zero \in Counts
        BY DEF Zero, Counts
      <4> QED
        BY <1>0, <4>1 DEF Parsers
    <3> HIDE DEF t
    <3>3. Kept(t)
      BY <1>0, <3>1, <3>2, SameQueue DEF Kept, Measured
    <3> QED
      BY <2>1, <3>3 DEF Window, t
  <2>2. CASE ~Behind(status.count, s.baseline)
    BY <2>2 DEF Window
  <2> QED
    BY <2>1, <2>2
<1>2. Kept(Rebase(s))
  <2> DEFINE t == Rebase(s)
  <2>1. /\ t \in Parsers /\ t.errors = s.errors /\ t.raised = s.raised /\ t.read = s.read
        /\ t.mark = status /\ t.baseline = status.count /\ t.owed = s.owed /\ t.esr = s.esr
    BY <1>0 DEF Parsers, Rebase, Reports
  <2> HIDE DEF t
  <2>2. NotBefore(status, status)
    BY CountsAhead DEF NotBefore, Reports
  <2>3. Kept(t)
    BY <1>0, <2>1, <2>2, SameQueue DEF Kept, Measured
  <2> QED
    BY <2>3 DEF t
<1> QED
  BY <1>1, <1>2

-----------------------------------------------------------------------------
(* Checks of the parameters: those that fail do so with an error that the  *)
(* register has a bit for.                                                 *)
Checked(check) == check.error \in Errors \cup {"none"}

LEMMA ChecksFail ==
  ASSUME NEW ps, NEW i, NEW n, NEW lo, NEW hi, NEW def
  PROVE  /\ Checked(Expect(ps, n)) /\ Checked(Integer(ps, i, lo, hi, def))
         /\ Checked(Boolean(ps, i)) /\ Checked(Choice(ps, i)) /\ Checked(Decibels(ps, i, def))
         /\ \A v : Checked(v) => Checked(First(v, Expect(ps, n)))
<1>1. \A v : Value(v).error = "none"
  BY DEF Value
<1>2. \A e : Error(e).error = e
  BY DEF Error
<1>3. \A v : Checked(Value(v))
  BY <1>1 DEF Checked
<1>4. \A e \in Errors : Checked(Error(e))
  BY <1>2 DEF Checked
<1>5. /\ Checked(Error("MissingParameter")) /\ Checked(Error("ParameterNotAllowed"))
      /\ Checked(Error("DataOutOfRange")) /\ Checked(Error("DataType"))
      /\ Checked(Error("IllegalParameterValue"))
  BY <1>4 DEF Errors
<1>6. Checked(Expect(ps, n))
  BY <1>3, <1>5 DEF Expect
<1>7. \A l, h, d : Checked(Integer(ps, i, l, h, d))
  BY <1>3, <1>5 DEF Integer
<1>8. Checked(Boolean(ps, i)) /\ Checked(Choice(ps, i))
  BY <1>3, <1>5 DEF Boolean, Choice
<1> QED
  BY <1>6, <1>7, <1>8 DEF First, Decibels

-----------------------------------------------------------------------------
(* The payload while a line runs. *)
LEMMA GoodFail ==
  ASSUME NEW x, Good(x), NEW e \in Errors
  PROVE  Good(Fail(x, e))
<1> DEFINE s == PushError(x.scpi, e)
<1>1. Kept(s) /\ s \in Parsers
  BY KeptPush DEF Good, Kept
<1>2. Fail(x, e) = [x EXCEPT !.scpi = s]
  BY DEF Fail, Good
<1> HIDE DEF s
<1> QED
  BY <1>1, <1>2 DEF Good

LEMMA GoodChecks ==
  ASSUME NEW x, Good(x), NEW check, Checked(check)
  PROVE  Good(Note(x, check))
BY GoodFail DEF Note, Failed, Checked

LEMMA GoodManager ==
  ASSUME NEW x, Good(x), NEW m
  PROVE  Good([x EXCEPT !.mgr = m])
BY DEF Good

LEMMA GoodParser ==
  ASSUME NEW x, Good(x), NEW s, Kept(s)
  PROVE  /\ Good([x EXCEPT !.scpi = s])
         /\ \A m : Good([x EXCEPT !.mgr = m, !.scpi = s])
         /\ \A a : Good([x EXCEPT !.scpi = s, !.answers = a])
BY DEF Good, Kept

LEMMA GoodSet ==
  ASSUME NEW x, Good(x), NEW check, Checked(check), NEW m
  PROVE  Good(Sent(x)) /\ Good(Set(x, check, m))
<1>1. "Execution" \in Errors
  BY DEF Errors
<1>2. \A y : Good(y) => Good(Sent(y))
  BY <1>1, GoodFail DEF Sent
<1> QED
  BY <1>2, GoodFail, GoodManager DEF Set, Failed, Checked

LEMMA GoodRestart ==
  ASSUME NEW x, Good(x), NEW outcome \in RestartOutcomes, status \in Reports
  PROVE  Good(RestartModem(x, outcome))
<1>1. "Execution" \in Errors /\ "HardwareMissing" \in Errors
  BY DEF Errors
<1>2. CASE outcome = "new"
  <2> DEFINE c == [up |-> TRUE, boot |-> x.core.boot + 1, count |-> Zero]
             m == [x.mgr EXCEPT !.acm = [Widest EXCEPT !.on = x.mgr.acm.on]]
  <2>1. RestartModem(x, outcome) = [x EXCEPT !.mgr = m, !.core = c]
    BY <1>2 DEF RestartModem, Good
  <2>2. x.core \in Cores /\ x.core.boot \in Nat /\ status.boot \in Nat
    BY DEF Good, Cores, Reports
  <2>3. c \in Cores
    BY <2>2 DEF Cores, Counts, Zero
  <2>4. NotBefore(c, status)
    BY <2>2 DEF NotBefore, Good
  <2> HIDE DEF c, m
  <2> QED
    BY <2>1, <2>3, <2>4 DEF Good
<1>3. CASE outcome = "stopped"
  <2> DEFINE c == [x.core EXCEPT !.up = FALSE]
             y == [x EXCEPT !.core = c]
  <2>1. c \in Cores /\ c.boot = x.core.boot /\ c.count = x.core.count
    BY DEF Good, Cores
  <2>2. NotBefore(c, status)
    BY <2>1 DEF Good, NotBefore
  <2>3. RestartModem(x, outcome) = Fail(y, "Execution")
    BY <1>3 DEF RestartModem, Good
  <2> HIDE DEF c
  <2>4. Good(y)
    BY <2>1, <2>2 DEF Good
  <2> HIDE DEF y
  <2> QED
    BY <1>1, <2>3, <2>4, GoodFail
<1>4. CASE outcome \in {"refused", "missing"}
  BY <1>1, <1>4, GoodFail DEF RestartModem
<1> QED
  BY <1>2, <1>3, <1>4 DEF RestartOutcomes

-----------------------------------------------------------------------------
(* The handlers. *)
LEMMA MinExists ==
  ASSUME NEW S \in SUBSET Nat, S # {}
  PROVE  Min(S) \in S
<1> DEFINE R == OpToRel(<, Nat)
<1>1. PICK m \in S : \A y \in S : ~(<<y, m>> \in R)
  <2> HIDE DEF R
  <2> QED
    BY NatLessThanWellFounded, WFMin DEF R
<1>2. ASSUME NEW y \in S PROVE m <= y
  <2>1. y \in Nat /\ m \in Nat
    BY <1>1
  <2>2. ~(y < m)
    BY <1>1, <2>1 DEF OpToRel
  <2> HIDE DEF R
  <2> QED
    BY <2>1, <2>2
<1> QED
  BY <1>2 DEF Min

Parameters == Seq([word : STRING, num : Int])

LEMMA GoodLimits ==
  ASSUME NEW x, Good(x), NEW ps
  PROVE  Good(Limits(x, ps))
<1> DEFINE lo == Integer(ps, 1, 0, Top, 0)
           hi == Integer(ps, 2, 0, Top, Top)
           m == [x.mgr EXCEPT !.acm.lo = lo.value, !.acm.hi = hi.value]
<1>1. Checked(lo) /\ Checked(hi) /\ Checked(Expect(ps, 2))
  BY ChecksFail
<1>2. Limits(x, ps) \in {Note(Note(x, lo), hi), Fail(x, "SettingsConflict"), Set(x, Expect(ps, 2), m)}
  BY DEF Limits
<1> HIDE DEF lo, hi, m
<1>3. "SettingsConflict" \in Errors
  BY DEF Errors
<1> QED
  BY <1>1, <1>2, <1>3, GoodChecks, GoodFail, GoodSet

LEMMA GoodStartPass ==
  ASSUME NEW x, Good(x), NEW ps \in Parameters
  PROVE  Good(StartPass(x, ps))
<1> DEFINE numbers == [i \in DOMAIN ps |-> Decibels(ps, i, 1)]
           failed == {i \in DOMAIN ps : Failed(numbers[i])}
           m == [x.mgr EXCEPT !.pass = TRUE]
<1>1. \A i \in DOMAIN ps : Checked(numbers[i])
  BY ChecksFail
<1>2. failed # {} => numbers[Min(failed)].error \in Errors
  <2>1. failed \in SUBSET Nat
    BY DEF Parameters
  <2> SUFFICES ASSUME failed # {} PROVE numbers[Min(failed)].error \in Errors
    OBVIOUS
  <2>2. Min(failed) \in failed
    <3> HIDE DEF failed
    <3> QED
      BY <2>1, MinExists
  <2> HIDE DEF numbers
  <2> QED
    BY <1>1, <2>2 DEF Failed, Checked
<1>3. Checked(Expect(ps, 3))
  BY ChecksFail
<1>4. StartPass(x, ps) = IF Len(ps) > 3 THEN Note(x, Expect(ps, 3))
                         ELSE IF failed # {} THEN Fail(x, numbers[Min(failed)].error)
                         ELSE [x EXCEPT !.mgr = m]
  BY DEF StartPass, Good
<1> HIDE DEF numbers, failed, m
<1>5. Good(Note(x, Expect(ps, 3))) /\ Good([x EXCEPT !.mgr = m])
  BY <1>3, GoodChecks, GoodManager
<1>6. failed # {} => Good(Fail(x, numbers[Min(failed)].error))
  BY <1>2, GoodFail
<1> QED
  BY <1>4, <1>5, <1>6

Setters ==
  {"*CLS", "*RST", "*ESE", "*SRE", "*OPC", "*WAI", "MOD:MODC", "MOD:ACM", "MOD:ACM:LIM",
   "MOD:ACM:MARG", "MOD:ACM:HYST", "MOD:LOOP", "MOD:REST", "CHAN:ESN0", "CHAN:NOIS", "CHAN:GAIN",
   "CHAN:CLE", "PASS:STAR", "PASS:STOP", "MEAS:RES"}

LEMMA GoodDo ==
  ASSUME NEW x, Good(x), status \in Reports, NEW ps \in Parameters,
         NEW outcome \in RestartOutcomes, NEW name \in Setters
  PROVE  Good(Do(name, ps, x, outcome))
<1> DEFINE y == Do(name, ps, x, outcome)
<1>1. \A v, m : Checked(v) => Good(Set(x, First(v, Expect(ps, 1)), m))
  BY ChecksFail, GoodSet
<1>2. \A z : Good(z) => Good(Plain(x, ps, z))
  BY ChecksFail, GoodChecks DEF Plain
<1>3. /\ \A i, lo, hi, def : Checked(Integer(ps, i, lo, hi, def))
      /\ \A i, def : Checked(Decibels(ps, i, def))
      /\ Checked(Boolean(ps, 1)) /\ Checked(Choice(ps, 1))
  BY ChecksFail
<1>4. Kept(x.scpi) /\ \A s : Kept(s) => Good([x EXCEPT !.scpi = s])
  BY GoodParser DEF Good
<1>5. CASE name \in {"MOD:MODC", "MOD:ACM", "MOD:ACM:MARG", "MOD:ACM:HYST", "MOD:LOOP", "CHAN:ESN0",
                     "CHAN:NOIS", "CHAN:GAIN"}
  <2>1. \E v, m : Checked(v) /\ y = Set(x, First(v, Expect(ps, 1)), m)
    BY <1>3, <1>5 DEF Do
  <2> HIDE DEF y
  <2> QED
    BY <1>1, <2>1 DEF y
<1>6. CASE name \in {"*CLS", "*RST", "MEAS:RES", "CHAN:CLE", "PASS:STOP", "MOD:REST"}
  <2> DEFINE z == CASE name = "*CLS" -> [x EXCEPT !.scpi = Clear(x.scpi)]
                    [] name = "*RST" -> [x EXCEPT !.mgr = ResetManager(x.mgr), !.scpi = Rebase(x.scpi)]
                    [] name = "MEAS:RES" -> [x EXCEPT !.scpi = Rebase(x.scpi)]
                    [] name = "CHAN:CLE" -> Sent([x EXCEPT !.mgr = SetChannel(x.mgr, Clean)])
                    [] name = "PASS:STOP" -> [x EXCEPT !.mgr = [x.mgr EXCEPT !.pass = FALSE]]
                    [] name = "MOD:REST" -> RestartModem(x, outcome)
  <2>1. y = Plain(x, ps, z)
    BY <1>6 DEF Do, Good
  <2>2. Kept(Clear(x.scpi)) /\ Kept(Rebase(x.scpi))
    BY <1>4, KeptPops, KeptWindow
  <2>3. Good(z)
    BY <1>6, <2>2, GoodParser, GoodManager, GoodSet, GoodRestart, ChecksFail
  <2> HIDE DEF y, z
  <2> QED
    BY <1>2, <2>1, <2>3 DEF y
<1>7. CASE name \in {"*ESE", "*SRE"}
  <2> DEFINE v == Integer(ps, 1, 0, 1, None)
             check == First(v, Expect(ps, 1))
             enabled == IF v.value = 1 THEN Bits ELSE {}
  <2>1. Checked(check)
    BY <1>3, ChecksFail
  <2>2. enabled \in SUBSET Bits
    OBVIOUS
  <2>3. y \in {Note(x, check), [x EXCEPT !.scpi = [x.scpi EXCEPT !.ese = enabled]],
               [x EXCEPT !.scpi = [x.scpi EXCEPT !.sre = enabled]]}
    BY <1>7 DEF Do, Good
  <2> HIDE DEF y, check, enabled
  <2>4. Kept([x.scpi EXCEPT !.ese = enabled]) /\ Kept([x.scpi EXCEPT !.sre = enabled])
    BY <1>4, <2>2, KeptBits
  <2> QED
    BY <1>4, <2>1, <2>3, <2>4, GoodChecks DEF y
<1>8. CASE name = "*OPC"
  <2>1. y = [x EXCEPT !.scpi = [x.scpi EXCEPT !.esr = x.scpi.esr \cup {"OPC"}]]
    BY <1>8 DEF Do, Good
  <2>2. Kept([x.scpi EXCEPT !.esr = x.scpi.esr \cup {"OPC"}])
    BY <1>4, KeptBits
  <2> HIDE DEF y
  <2> QED
    BY <1>4, <2>1, <2>2 DEF y
<1>9. CASE name \in {"*WAI", "MOD:ACM:LIM", "PASS:STAR"}
  <2>1. y \in {x, Limits(x, ps), StartPass(x, ps)}
    BY <1>9 DEF Do
  <2> HIDE DEF y
  <2> QED
    BY <2>1, GoodLimits, GoodStartPass DEF y
<1> QED
  BY <1>5, <1>6, <1>7, <1>8, <1>9 DEF Setters

LEMMA GoodAnswer ==
  ASSUME NEW x, Good(x), status \in Reports, NEW name
  PROVE  Good(Answer(name, x))
<1> DEFINE s == x.scpi
<1>1. Kept(s) /\ Kept([s EXCEPT !.esr = {}, !.owed = {}]) /\ Kept(PopError(s)) /\ Kept(PopAll(s))
      /\ Kept(Window(s))
  BY KeptBits, KeptPops, KeptWindow DEF Good
<1>2. PICK t, a : Kept(t) /\ Answer(name, x) = [x EXCEPT !.scpi = t, !.answers = a]
  <2> HIDE DEF s
  <2>1. \A a : [x EXCEPT !.answers = Append(@, a)] = [x EXCEPT !.answers = Append(x.answers, a)]
    BY DEF Good
  <2> QED
    BY <1>1 DEF Answer, Good, s
<1>3. Good([x EXCEPT !.scpi = t, !.answers = a])
  BY <1>2, GoodParser
<1> QED
  BY <1>2, <1>3, Zenon

-----------------------------------------------------------------------------
(* A command that is found is one of the list, of the form that was asked. *)
LEMMA FoundCommands ==
  ASSUME NEW header
  PROVE  Find(header, FALSE) \in Setters \cup {None}
<1>1. \A c \in Commands : c.query = FALSE => c.name \in Setters
  BY DEF Commands, Command, Setters
<1> DEFINE found == {c \in Commands : c.query = FALSE /\ header \in c.headers}
<1>2. Find(header, FALSE) = IF found = {} THEN None ELSE (CHOOSE c \in found : TRUE).name
  BY DEF Find
<1>3. found # {} => (CHOOSE c \in found : TRUE) \in found
  OBVIOUS
<1> QED
  BY <1>1, <1>2, <1>3

LEMMA NamesResolved ==
  ASSUME NEW u, u.query = FALSE, NEW path
  PROVE  Resolve(u, path).name \in Setters \cup {"malformed", None}
<1>1. \A h : Find(h, u.query) \in Setters \cup {None}
  BY FoundCommands
<1> QED
  BY <1>1 DEF Resolve

(* A unit of a line, as the parser and its handlers find it. *)
IsCall(c) ==
  /\ c.unit.query \in BOOLEAN /\ c.unit.params \in Parameters
  /\ c.unit.query = FALSE => c.name \in Setters \cup {"malformed", None}

LEMMA GoodExecuteOne ==
  ASSUME NEW x, Good(x), status \in Reports, NEW c, IsCall(c), NEW outcome \in RestartOutcomes
  PROVE  Good(ExecuteOne(x, c, outcome))
<1>1. "Syntax" \in Errors /\ "UndefinedHeader" \in Errors
  BY DEF Errors
<1>2. Good(Fail(x, "Syntax")) /\ Good(Fail(x, "UndefinedHeader"))
  BY <1>1, GoodFail
<1>3. Good(Answer(c.name, x))
  BY GoodAnswer
<1>4. c.unit.query = FALSE /\ c.name \notin {"malformed", None} => Good(Do(c.name, c.unit.params, x, outcome))
  BY GoodDo DEF IsCall
<1> QED
  BY <1>2, <1>3, <1>4 DEF ExecuteOne, IsCall

(* The units of a line are calls. *)
LEMMA LineCalls ==
  ASSUME NEW units \in Seq(Units)
  PROVE  /\ Len(Calls(units)) = Len(units) /\ Len(units) \in Nat
         /\ \A n \in 1 .. Len(units) : IsCall(Calls(units)[n])
<1>1. PICK path : Calls(units) =
        [n \in 1 .. Len(units) |-> [unit |-> units[n], name |-> Resolve(units[n], path[n - 1]).name]]
  BY DEF Calls
<1>2. ASSUME NEW n \in 1 .. Len(units)
      PROVE  IsCall(Calls(units)[n])
  <2>1. units[n] \in Units
    BY <1>2
  <2>2. units[n].query \in BOOLEAN /\ units[n].params \in Parameters
    BY <2>1 DEF Units, Parameters
  <2>3. Calls(units)[n] = [unit |-> units[n], name |-> Resolve(units[n], path[n - 1]).name]
    BY <1>1
  <2>4. units[n].query = FALSE => Calls(units)[n].name \in Setters \cup {"malformed", None}
    <3> DEFINE u == units[n]
               before == path[n - 1]
    <3>1. u.query = FALSE => Resolve(u, before).name \in Setters \cup {"malformed", None}
      <4> HIDE DEF u, before
      <4> QED
        BY NamesResolved
    <3>2. Calls(units)[n].name = Resolve(u, before).name
      BY <2>3
    <3> QED
      BY <3>1, <3>2
  <2>5. Calls(units)[n].unit = units[n]
    BY <2>3
  <2> QED
    BY <2>2, <2>4, <2>5 DEF IsCall
<1>3. Len(Calls(units)) = Len(units) /\ Len(units) \in Nat
  <2> DEFINE S == {Calls(units)[n] : n \in 1 .. Len(units)}
             k == Len(units)
  <2>0. k \in Nat /\ \A n \in 1 .. k : Calls(units)[n] \in S
    OBVIOUS
  <2> HIDE DEF S
  <2>1. k \in Nat /\ Calls(units) \in [1 .. k -> S]
    BY <1>1, <2>0
  <2> HIDE DEF k
  <2>2. Calls(units) \in Seq(S) /\ DOMAIN Calls(units) = 1 .. k
    BY <2>1
  <2>3. Len(Calls(units)) = k
    BY <2>1, <2>2
  <2> QED
    BY <2>1, <2>3 DEF k
<1> QED
  BY <1>2, <1>3

(* The function that runs the calls one after the other exists: its values *)
(* for more calls extend those for fewer.                                  *)
Runs(f, m, start, calls, outcome) ==
  f = [n \in 0 .. m |-> IF n = 0 THEN start ELSE ExecuteOne(f[n - 1], calls[n], outcome)]

LEMMA RunExists ==
  ASSUME NEW start, NEW calls, NEW outcome, NEW m \in Nat
  PROVE  \E f : Runs(f, m, start, calls, outcome)
<1> DEFINE Missing == {k \in Nat : ~\E f : Runs(f, k, start, calls, outcome)}
           R == OpToRel(<, Nat)
<1>1. SUFFICES ASSUME Missing # {} PROVE FALSE
  OBVIOUS
<1>2. PICK k \in Missing : \A y \in Missing : ~(<<y, k>> \in R)
  <2>1. Missing \subseteq Nat
    OBVIOUS
  <2> HIDE DEF R, Missing
  <2> QED
    BY <1>1, <2>1, NatLessThanWellFounded, WFMin DEF R
<1>3. k \in Nat /\ ~\E f : Runs(f, k, start, calls, outcome)
  BY <1>2
<1>4. CASE k = 0
  <2>1. Runs([n \in 0 .. 0 |-> start], 0, start, calls, outcome)
    BY DEF Runs
  <2> QED
    BY <1>3, <1>4, <2>1
<1>5. CASE k # 0
  <2>1. k - 1 \in Nat /\ k - 1 < k
    BY <1>3, <1>5
  <2>2. <<k - 1, k>> \in R
    BY <1>3, <2>1 DEF OpToRel
  <2>3. PICK f : Runs(f, k - 1, start, calls, outcome)
    BY <1>2, <2>1, <2>2
  <2> DEFINE g == [n \in 0 .. k |-> IF n = k THEN ExecuteOne(f[k - 1], calls[k], outcome) ELSE f[n]]
  <2>4. ASSUME NEW n \in 0 .. k
        PROVE  g[n] = IF n = 0 THEN start ELSE ExecuteOne(g[n - 1], calls[n], outcome)
    <3>1. CASE n = k
      BY <1>3, <1>5, <2>1, <3>1
    <3>2. CASE n # k
      <4>1. n \in 0 .. k - 1 /\ g[n] = f[n] /\ (n # 0 => g[n - 1] = f[n - 1])
        BY <1>3, <1>5, <3>2
      <4>2. f[n] = IF n = 0 THEN start ELSE ExecuteOne(f[n - 1], calls[n], outcome)
        BY <2>3, <4>1 DEF Runs
      <4> QED
        BY <4>1, <4>2
    <3> QED
      BY <3>1, <3>2
  <2>5. Runs(g, k, start, calls, outcome)
    BY <2>4 DEF Runs
  <2> QED
    BY <1>3, <2>5
<1> QED
  BY <1>4, <1>5

LEMMA GoodAfter ==
  ASSUME NEW start, Good(start), status \in Reports, NEW outcome \in RestartOutcomes,
         NEW calls, Len(calls) \in Nat, \A n \in 1 .. Len(calls) : IsCall(calls[n])
  PROVE  Good(After(start, calls, outcome))
<1> DEFINE N == Len(calls)
           x == CHOOSE f : Runs(f, N, start, calls, outcome)
           Wrong == {n \in 0 .. N : ~Good(x[n])}
           R == OpToRel(<, Nat)
<1>1. Runs(x, N, start, calls, outcome)
  BY RunExists
<1>2. After(start, calls, outcome) = x[N]
  BY DEF After, Runs
<1>3. Wrong = {}
  <2> SUFFICES ASSUME Wrong # {} PROVE FALSE
    OBVIOUS
  <2>1. PICK k \in Wrong : \A y \in Wrong : ~(<<y, k>> \in R)
    <3>1. Wrong \subseteq Nat
      OBVIOUS
    <3> HIDE DEF R, Wrong
    <3> QED
      BY <3>1, NatLessThanWellFounded, WFMin DEF R
  <2> HIDE DEF x
  <2>2. k \in 0 .. N /\ ~Good(x[k])
    BY <2>1
  <2>3. x[k] = IF k = 0 THEN start ELSE ExecuteOne(x[k - 1], calls[k], outcome)
    BY <1>1, <2>2 DEF Runs
  <2>4. k # 0 /\ k - 1 \in 0 .. N /\ k \in 1 .. N
    BY <2>2, <2>3
  <2>5. <<k - 1, k>> \in R
    BY <2>2, <2>4 DEF OpToRel
  <2>6. Good(x[k - 1])
    BY <2>1, <2>4, <2>5
  <2>7. Good(ExecuteOne(x[k - 1], calls[k], outcome))
    BY <2>4, <2>6, GoodExecuteOne
  <2> QED
    BY <2>2, <2>3, <2>4, <2>7
<1> QED
  BY <1>2, <1>3

(* A line that is executed. *)
LEMMA GoodExecute ==
  ASSUME Inv, NEW line \in Lines, NEW outcome \in RestartOutcomes
  PROVE  Good(Execute(line, outcome))
<1> DEFINE start == [mgr |-> mgr, scpi |-> scpi, core |-> core, answers |-> <<>>]
           calls == Calls(line.units)
<1>1. Good(start)
  BY DEF Inv, TypeOK, Good, Kept
<1>2. "Command" \in Errors
  BY DEF Errors
<1>3. status \in Reports
  BY DEF Inv, TypeOK
<1>4. line.units \in Seq(Units)
  BY LinesAssumption
<1>5. Len(calls) \in Nat /\ \A n \in 1 .. Len(calls) : IsCall(calls[n])
  <2> DEFINE units == line.units
  <2>1. units \in Seq(Units)
    BY <1>4
  <2> HIDE DEF units
  <2>2. /\ Len(Calls(units)) = Len(units) /\ Len(units) \in Nat
        /\ \A n \in 1 .. Len(units) : IsCall(Calls(units)[n])
    BY <2>1, LineCalls
  <2> QED
    BY <2>2 DEF units
<1>6. Execute(line, outcome) = IF line.length = "over 4096" THEN Fail(start, "Command")
                               ELSE After(start, calls, outcome)
  BY DEF Execute
<1> HIDE DEF start, calls
<1>7. Good(Fail(start, "Command"))
  BY <1>1, <1>2, GoodFail
<1>8. Good(After(start, calls, outcome))
  BY <1>1, <1>3, <1>5, GoodAfter
<1> QED
  BY <1>6, <1>7, <1>8

-----------------------------------------------------------------------------
(* The connections. *)
Whole(k) ==
  \A i \in DOMAIN k.out : k.out[i] = "part" => i = Len(k.out) /\ k.state = "closed"

LEMMA ReplyWhole ==
  ASSUME NEW k \in Connections, Whole(k), k.state = "open", NEW answers, NEW r \in Reply(k, answers)
  PROVE  r \in Connections /\ Whole(r)
<1>1. k.out \in Seq({"answer", "part"})
  BY DEF Connections
<1>2. CASE r = k
  BY <1>2
<1>3. CASE r = [k EXCEPT !.out = Append(k.out, "answer")]
  <2> DEFINE o == Append(k.out, "answer")
  <2>1. /\ o \in Seq({"answer", "part"}) /\ DOMAIN o = 1 .. Len(k.out) + 1
        /\ o[Len(k.out) + 1] = "answer" /\ \A i \in 1 .. Len(k.out) : o[i] = k.out[i]
    BY <1>1
  <2>2. \A i \in DOMAIN o : o[i] # "part"
    BY <1>1, <2>1 DEF Whole
  <2> HIDE DEF o
  <2>3. r \in Connections /\ r.out = o
    BY <1>3, <2>1 DEF Connections, o
  <2> QED
    BY <2>2, <2>3 DEF Whole
<1>4. CASE r = [k EXCEPT !.state = "closed"]
  <2>1. r \in Connections /\ r.out = k.out /\ r.state = "closed"
    BY <1>4 DEF Connections
  <2> QED
    BY <2>1 DEF Whole
<1>5. CASE r = [k EXCEPT !.state = "closed", !.out = Append(k.out, "part")]
  <2> DEFINE o == Append(k.out, "part")
  <2>1. /\ o \in Seq({"answer", "part"}) /\ DOMAIN o = 1 .. Len(k.out) + 1
        /\ Len(o) = Len(k.out) + 1 /\ \A i \in 1 .. Len(k.out) : o[i] = k.out[i]
    BY <1>1
  <2>2. \A i \in DOMAIN o : o[i] = "part" => i = Len(o)
    BY <1>1, <2>1 DEF Whole
  <2> HIDE DEF o
  <2>3. r \in Connections /\ r.out = o /\ r.state = "closed"
    BY <1>5, <2>1 DEF Connections, o
  <2> QED
    BY <2>2, <2>3 DEF Whole
<1> QED
  BY <1>2, <1>3, <1>4, <1>5 DEF Reply, Connections

(* One connection changes. *)
LEMMA ConnectionsWhole ==
  ASSUME conn \in [Clients -> Connections], AnswersWhole, NEW c \in Clients,
         NEW r \in Connections, Whole(r), conn' = [conn EXCEPT ![c] = r]
  PROVE  conn' \in [Clients -> Connections] /\ AnswersWhole'
BY DEF AnswersWhole, Whole

LEMMA WholeConnection ==
  ASSUME conn \in [Clients -> Connections], AnswersWhole, NEW c \in Clients
  PROVE  conn[c] \in Connections /\ Whole(conn[c])
BY DEF AnswersWhole, Whole

-----------------------------------------------------------------------------
(* The order of the reports and of what Core 1 counts. *)
LEMMA NotBeforeTransitive ==
  ASSUME NEW a \in Reports, NEW b \in Reports, NEW c \in Cores, NotBefore(b, a), NotBefore(c, b)
  PROVE  NotBefore(c, a)
BY DEF Reports, Cores, Counts, NotBefore, Behind

LEMMA InvInit == Init => Inv
<1> SUFFICES ASSUME Init PROVE Inv
  OBVIOUS
<1>1. /\ status \in Reports /\ core \in Cores /\ Zero \in Counts
      /\ NotBefore(core, status) /\ NotBefore(status, status)
  BY DEF Init, Reports, Cores, Counts, Zero, NotBefore, Behind
<1>2. conn \in [Clients -> Connections] /\ AnswersWhole
  <2>1. [state |-> "none", out |-> <<>>] \in Connections
    BY DEF Connections
  <2> QED
    BY <2>1 DEF Init, AnswersWhole
<1>3. Kept(scpi)
  <2>1. scpi \in Parsers
    BY <1>1 DEF Init, Parsers
  <2>2. Queue(scpi)
    <3>1. DOMAIN Numbers(scpi) = {} /\ scpi.raised = 0 /\ scpi.read.nr = 0
      BY DEF Init, Numbers
    <3> QED
      BY <3>1 DEF Queue, Sorted, Unread
  <2>3. Measured(scpi) /\ scpi.owed \subseteq scpi.esr
    BY <1>1 DEF Init, Measured
  <2> QED
    BY <2>1, <2>2, <2>3 DEF Kept
<1> QED
  BY <1>1, <1>2, <1>3 DEF Inv, TypeOK

LEMMA ConnectKeeps ==
  ASSUME Inv, NEW c \in Clients, Connect(c) \/ ReadAnswer(c) \/ Disconnect(c)
  PROVE  Inv'
<1>1. conn[c] \in Connections /\ Whole(conn[c])
  BY WholeConnection DEF Inv, TypeOK
<1>2. PICK r : r \in Connections /\ Whole(r) /\ conn' = [conn EXCEPT ![c] = r]
  <2>1. CASE Connect(c)
    <3>1. PICK state \in {"open", "closed"} : conn' = [conn EXCEPT ![c] = [conn[c] EXCEPT !.state = state]]
      BY <2>1 DEF Connect
    <3> DEFINE r == [conn[c] EXCEPT !.state = state]
    <3>2. r \in Connections /\ r.out = conn[c].out /\ r.state = state /\ conn[c].state = "none"
      BY <1>1, <2>1 DEF Connections, Connect
    <3>3. Whole(r)
      BY <1>1, <3>2 DEF Whole
    <3> QED
      BY <3>1, <3>2, <3>3
  <2>2. CASE ReadAnswer(c)
    <3> DEFINE o == Tail(conn[c].out)
               r == [conn[c] EXCEPT !.out = o]
    <3>1. conn[c].out \in Seq({"answer", "part"}) /\ conn[c].out # <<>>
      BY <1>1, <2>2 DEF Connections, ReadAnswer
    <3>2. /\ o \in Seq({"answer", "part"}) /\ Len(o) = Len(conn[c].out) - 1
          /\ \A i \in 1 .. Len(o) : o[i] = conn[c].out[i + 1] /\ i + 1 \in DOMAIN conn[c].out
      BY <3>1
    <3>3. conn' = [conn EXCEPT ![c] = r]
      BY <2>2 DEF ReadAnswer
    <3> HIDE DEF o
    <3>4. r \in Connections /\ r.out = o /\ r.state = conn[c].state
      BY <1>1, <3>2 DEF Connections
    <3>5. Whole(r)
      BY <1>1, <3>1, <3>2, <3>4 DEF Whole
    <3> QED
      BY <3>3, <3>4, <3>5
  <2>3. CASE Disconnect(c)
    <3> DEFINE r == [state |-> "none", out |-> <<>>]
    <3>1. r \in Connections /\ Whole(r)
      BY DEF Connections, Whole
    <3> QED
      BY <2>3, <3>1 DEF Disconnect
  <2> QED
    BY <2>1, <2>2, <2>3
<1>3. conn' \in [Clients -> Connections] /\ AnswersWhole'
  BY <1>2, ConnectionsWhole DEF Inv, TypeOK
<1>4. UNCHANGED <<scpi, status, core>>
  BY DEF Connect, ReadAnswer, Disconnect
<1> QED
  BY <1>3, <1>4 DEF Inv, TypeOK, Kept, Measured

LEMMA ServeKeeps ==
  ASSUME Inv, NEW c \in Clients, NEW line \in Lines, Serve(c, line)
  PROVE  Inv'
<1>1. CASE line.length = "over 8192"
  BY <1>1 DEF Serve, Inv, TypeOK, Kept, Measured, AnswersWhole
<1>2. CASE line.length # "over 8192"
  <2>1. PICK outcome \in RestartOutcomes :
          /\ scpi' = Execute(line, outcome).scpi /\ core' = Execute(line, outcome).core
          /\ \E r \in Reply(conn[c], Execute(line, outcome).answers) : conn' = [conn EXCEPT ![c] = r]
    BY <1>2 DEF Serve, RestartOutcomes
  <2> DEFINE x == Execute(line, outcome)
  <2>2. Good(x)
    BY GoodExecute
  <2> HIDE DEF x
  <2>3. x.scpi \in Parsers /\ Kept(x.scpi) /\ x.core \in Cores /\ NotBefore(x.core, status)
    BY <2>2 DEF Good
  <2>4. scpi' = x.scpi /\ core' = x.core /\ status' = status
    BY <2>1 DEF Serve, x
  <2>5. conn' \in [Clients -> Connections] /\ AnswersWhole'
    <3>1. PICK r \in Reply(conn[c], x.answers) : conn' = [conn EXCEPT ![c] = r]
      BY <2>1 DEF x
    <3>2. conn[c] \in Connections /\ Whole(conn[c])
      BY WholeConnection DEF Inv, TypeOK
    <3>3. r \in Connections /\ Whole(r)
      BY <3>2, ReplyWhole DEF Serve
    <3> QED
      BY <3>1, <3>3, ConnectionsWhole DEF Inv, TypeOK
  <2> QED
    BY <2>3, <2>4, <2>5 DEF Inv, TypeOK, Kept, Measured
<1> QED
  BY <1>1, <1>2

LEMMA ReceiveKeeps ==
  ASSUME Inv, Receive
  PROVE  Inv'
<1>1. PICK f : /\ f \in {[ok |-> 1, crc |-> 0, bits |-> 1, wrong |-> 0],
                        [ok |-> 0, crc |-> 1, bits |-> 1, wrong |-> 1],
                        [ok |-> 0, crc |-> 1, bits |-> 0, wrong |-> 0]}
               /\ core' = [core EXCEPT !.count = [n \in DOMAIN f |-> core.count[n] + f[n]]]
  BY DEF Receive
<1> DEFINE k == [n \in DOMAIN f |-> core.count[n] + f[n]]
<1>2. core \in Cores /\ core.count \in Counts /\ status.count \in Counts
  BY DEF Inv, TypeOK, Cores, Reports
<1>3. f \in Counts /\ DOMAIN f = {"ok", "crc", "bits", "wrong"}
  BY <1>1 DEF Counts
<1>4. /\ k \in Counts /\ k.ok >= core.count.ok /\ k.crc >= core.count.crc
      /\ k.bits >= core.count.bits
  <2>1. /\ k = [ok |-> core.count.ok + f.ok, crc |-> core.count.crc + f.crc,
                bits |-> core.count.bits + f.bits, wrong |-> core.count.wrong + f.wrong]
    BY <1>3
  <2> HIDE DEF k
  <2> QED
    BY <1>2, <1>3, <2>1 DEF Counts
<1>5. core' = [core EXCEPT !.count = k]
  BY <1>1
<1> HIDE DEF k
<1>6. core' \in Cores /\ core'.boot = core.boot /\ core'.count = k
  BY <1>2, <1>4, <1>5 DEF Cores
<1>7. NotBefore(core', status)
  BY <1>2, <1>4, <1>6 DEF Inv, NotBefore, Behind, Counts
<1>8. UNCHANGED <<scpi, conn, status>>
  BY DEF Receive
<1> QED
  BY <1>6, <1>7, <1>8 DEF Inv, TypeOK, Kept, Measured, AnswersWhole

LEMMA StatusKeeps ==
  ASSUME Inv, OnStatus
  PROVE  Inv'
<1>1. /\ status' = [boot |-> core.boot, count |-> core.count] /\ UNCHANGED <<scpi, conn, core>>
  BY DEF OnStatus
<1>2. status \in Reports /\ core \in Cores /\ scpi.mark \in Reports
  BY DEF Inv, TypeOK, Kept, Parsers
<1>3. status' \in Reports /\ status'.boot = core.boot /\ status'.count = core.count
  BY <1>1, <1>2 DEF Reports, Cores
<1>4. NotBefore(core, status')
  BY <1>2, <1>3, CountsAhead DEF NotBefore, Cores
<1>5. NotBefore(status', scpi.mark)
  <2>1. NotBefore(core, scpi.mark)
    BY <1>2, NotBeforeTransitive DEF Inv, Kept, Measured
  <2> QED
    BY <1>3, <2>1 DEF NotBefore
<1>6. status'.boot = scpi.mark.boot => scpi.baseline = scpi.mark.count
  <2>1. status'.boot = scpi.mark.boot => status.boot = scpi.mark.boot
    BY <1>2, <1>3 DEF Inv, Kept, Measured, NotBefore, Reports, Cores
  <2> QED
    BY <2>1 DEF Inv, Kept, Measured
<1> QED
  BY <1>1, <1>3, <1>4, <1>5, <1>6 DEF Inv, TypeOK, Kept, Measured, AnswersWhole

LEMMA CoreKeeps ==
  ASSUME Inv, Crash \/ WatchdogRestart
  PROVE  Inv'
<1>1. core \in Cores /\ status \in Reports /\ Zero \in Counts
  BY DEF Inv, TypeOK, Counts, Zero
<1>2. core' \in Cores /\ NotBefore(core', status)
  <2>1. CASE Crash
    BY <1>1, <2>1 DEF Crash, Cores, Inv, NotBefore
  <2>2. CASE WatchdogRestart
    BY <1>1, <2>2 DEF WatchdogRestart, Cores, Reports, Inv, NotBefore
  <2> QED
    BY <2>1, <2>2
<1>3. UNCHANGED <<scpi, conn, status>>
  BY DEF Crash, WatchdogRestart
<1> QED
  BY <1>2, <1>3 DEF Inv, TypeOK, Kept, Measured, AnswersWhole

LEMMA InvNext == Inv /\ [Next]_vars => Inv'
<1> SUFFICES ASSUME Inv, [Next]_vars PROVE Inv'
  OBVIOUS
<1>1. CASE UNCHANGED vars
  BY <1>1 DEF vars, Inv, TypeOK, Kept, Measured, AnswersWhole
<1>2. ASSUME NEW c \in Clients, Connect(c) \/ ReadAnswer(c) \/ Disconnect(c) PROVE Inv'
  BY <1>2, ConnectKeeps
<1>3. ASSUME NEW c \in Clients, NEW line \in Lines, Serve(c, line) PROVE Inv'
  BY <1>3, ServeKeeps
<1>4. CASE Receive
  BY <1>4, ReceiveKeeps
<1>5. CASE OnStatus
  BY <1>5, StatusKeeps
<1>6. CASE Crash \/ WatchdogRestart
  BY <1>6, CoreKeeps
<1> QED
  BY <1>1, <1>2, <1>3, <1>4, <1>5, <1>6 DEF Next

LEMMA InvAlways == Spec => []Inv
BY InvInit, InvNext, PTL DEF Spec

(* An error is in the queue, or "Queue overflow" stands for it at its      *)
(* place, or it was before the last one that was read or cleared           *)
(* (Parser::PushError and PopError), for any size of the queue.            *)
THEOREM ErrorsAccountedAlways == Spec => []ErrorsAccounted
<1>1. Inv => ErrorsAccounted
  BY QueueAccounted DEF Inv, Kept, ErrorsAccounted
<1> QED
  BY <1>1, InvAlways, PTL

(* The event status register keeps the bit of every error since it was     *)
(* read or cleared, also of those the queue had no room for.               *)
THEOREM EventsKeptAlways == Spec => []EventsKept
<1>1. Inv => EventsKept
  BY DEF Inv, Kept, EventsKept
<1> QED
  BY <1>1, InvAlways, PTL

(* After a cut answer a client gets no other (TcpLineServer).              *)
THEOREM AnswersWholeAlways == Spec => []AnswersWhole
<1>1. Inv => AnswersWhole
  BY DEF Inv
<1> QED
  BY <1>1, InvAlways, PTL

(* The window of the measured rates is the one that was started last, as   *)
(* long as Core 1 has not been restarted (ScpiInstrument's baseline),      *)
(* whatever is asked in between and however late the reports arrive; after *)
(* a restart it is that one or all of the new instance.                    *)
THEOREM WindowKeptAlways == Spec => []WindowKept
<1>1. Inv => WindowKept
  BY DEF Inv, Kept, Measured, WindowKept
<1> QED
  BY <1>1, InvAlways, PTL

================================================================================
