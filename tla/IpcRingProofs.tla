---------------------------- MODULE IpcRingProofs ---------------------------
(***************************************************************************)
(* Proofs about IpcRing for every ring size, message set and interleaving: *)
(* the layout of the ring is invariant, no record is ever found malformed, *)
(* and the ring implements the FIFO queue of MsgQueue.                     *)
(***************************************************************************)
EXTENDS IpcRing, TLAPS

(* Facts about % and \div by a symbolic divisor, for wrapped indices.      *)

(* Division with remainder. *)
LEMMA DivMod ==
  ASSUME NEW a \in Nat, NEW s \in Nat, s > 0
  PROVE  /\ a % s \in 0 .. (s - 1)
         /\ a \div s \in Nat
         /\ a = s * (a \div s) + (a % s)
OBVIOUS

(* Quotient and remainder are unique. *)
LEMMA DivModUnique ==
  \A s, q, r, d, m \in Nat :
    s > 0 /\ r < s /\ m < s /\ s * d + m = s * q + r => d = q /\ m = r
<1> SUFFICES ASSUME NEW s \in Nat, NEW q \in Nat, NEW r \in Nat, NEW d \in Nat, NEW m \in Nat,
                    s > 0, r < s, m < s, s * d + m = s * q + r
             PROVE  d = q /\ m = r
  OBVIOUS
<1>1. CASE d < q
  <2>1. q - d \in Nat /\ q - d >= 1
    BY <1>1
  <2>2. s * (q - d) >= s
    BY <2>1
  <2>3. s * (q - d) = s * q - s * d
    OBVIOUS
  <2> QED
    BY <2>2, <2>3
<1>2. CASE d > q
  <2>1. d - q \in Nat /\ d - q >= 1
    BY <1>2
  <2>2. s * (d - q) >= s
    BY <2>1
  <2>3. s * (d - q) = s * d - s * q
    OBVIOUS
  <2> QED
    BY <2>2, <2>3
<1>3. CASE d = q
  BY <1>3
<1> QED
  BY <1>1, <1>2, <1>3

(* The remainder of a number given as quotient and remainder. *)
LEMMA ModOf ==
  ASSUME NEW s \in Nat, s > 0, NEW q \in Nat, NEW r \in Nat, r < s
  PROVE  (s * q + r) % s = r
<1> DEFINE a == s * q + r
           d == a \div s
           m == a % s
<1>1. s * q \in Nat
  OBVIOUS
<1>2. a \in Nat
  BY <1>1
<1>3. d \in Nat /\ m \in Nat /\ m < s /\ a = s * d + m
  <2> HIDE DEF a
  <2> QED
    BY <1>2, DivMod
<1>4. s * d + m = s * q + r
  BY <1>3
<1> HIDE DEF d, m
<1>5. m = r
  BY <1>3, <1>4, DivModUnique
<1> QED
  BY <1>5 DEF m

(* A step that stays below the divisor adds to the remainder. *)
LEMMA ModPlus ==
  ASSUME NEW s \in Nat, s > 0, NEW a \in Nat, NEW k \in Nat, (a % s) + k < s
  PROVE  (a + k) % s = (a % s) + k
<1>1. a % s \in 0 .. (s - 1) /\ a \div s \in Nat /\ a = s * (a \div s) + (a % s)
  BY DivMod
<1> DEFINE q == a \div s
           r == (a % s) + k
<1>2. q \in Nat /\ r \in Nat /\ r < s /\ a + k = s * q + r
  BY <1>1
<1> HIDE DEF q, r
<1>3. (s * q + r) % s = r
  BY <1>2, ModOf
<1> QED
  BY <1>2, <1>3 DEF r

(* The next multiple of the divisor. *)
LEMMA ModNext ==
  ASSUME NEW s \in Nat, s > 0, NEW a \in Nat
  PROVE  (a + (s - (a % s))) % s = 0
<1>1. a % s \in 0 .. (s - 1) /\ a \div s \in Nat /\ a = s * (a \div s) + (a % s)
  BY DivMod
<1> DEFINE q == a \div s
           r == a % s
<1>2. q \in Nat /\ a + (s - r) = s * q + s
  BY <1>1
<1> HIDE DEF q
<1>3. q + 1 \in Nat /\ s * (q + 1) = s * q + s
  BY <1>2
<1> DEFINE p == q + 1
<1>4. p \in Nat /\ a + (s - r) = s * p + 0
  BY <1>2, <1>3
<1> HIDE DEF p, r
<1>5. (s * p + 0) % s = 0
  BY <1>4, ModOf
<1> QED
  BY <1>4, <1>5 DEF r

(* Two numbers less than the divisor apart have different remainders. *)
LEMMA ModDistinct ==
  ASSUME NEW s \in Nat, s > 0, NEW a \in Nat, NEW b \in Nat, a < b, b - a < s
  PROVE  a % s # b % s
<1> SUFFICES ASSUME a % s = b % s PROVE FALSE
  OBVIOUS
<1> DEFINE q == a \div s
           r == a % s
           d == b \div s
<1>1. q \in Nat /\ r \in Nat /\ a = s * q + r
  BY DivMod
<1>2. d \in Nat /\ b = s * d + r
  BY DivMod
<1> HIDE DEF q, r, d
<1>3. s * d - s * q = b - a
  BY <1>1, <1>2
<1>4. s * (d - q) = s * d - s * q
  BY <1>1, <1>2
<1>5. CASE d <= q
  <2>1. q - d \in Nat /\ s * (q - d) >= 0 /\ s * (q - d) = s * q - s * d
    BY <1>1, <1>2, <1>5
  <2> QED
    BY <2>1, <1>1, <1>2, <1>3
<1>6. CASE d > q
  <2>1. d - q >= 1 /\ d - q \in Nat
    BY <1>1, <1>2, <1>6
  <2>2. s * (d - q) >= s
    BY <2>1
  <2> QED
    BY <2>2, <1>3, <1>4
<1> QED
  BY <1>1, <1>2, <1>5, <1>6

(* Reducing first by a multiple of the divisor changes nothing. *)
LEMMA ModMod ==
  ASSUME NEW s \in Nat, s > 0, NEW n \in Nat, n > 0, n % s = 0, NEW a \in Nat
  PROVE  (a % n) % s = a % s
<1> DEFINE q == a \div n
           r == a % n
           k == n \div s
           d == (a % n) \div s
           e == (a % n) % s
<1>1. q \in Nat /\ r \in Nat /\ a = n * q + r
  BY DivMod
<1>2. k \in Nat /\ n = s * k
  <2>1. k \in Nat /\ n = s * k + (n % s)
    BY DivMod
  <2> QED
    BY <2>1
<1>3. d \in Nat /\ e \in Nat /\ e < s /\ r = s * d + e
  <2> r \in Nat
    BY <1>1
  <2> HIDE DEF r
  <2>1. r % s \in 0 .. (s - 1) /\ r \div s \in Nat /\ r = s * (r \div s) + (r % s)
    BY DivMod
  <2> QED
    BY <2>1 DEF r
<1> HIDE DEF q, r, k, d, e
<1>4. k * q \in Nat
  BY <1>1, <1>2
<1>5. n * q = s * (k * q)
  BY <1>1, <1>2
<1> DEFINE p == k * q
<1>6. p \in Nat /\ a = s * p + s * d + e
  BY <1>1, <1>3, <1>4, <1>5
<1> HIDE DEF p
<1>7. p + d \in Nat /\ s * (p + d) = s * p + s * d
  BY <1>3, <1>6
<1> DEFINE t == p + d
<1>8. t \in Nat /\ a = s * t + e
  BY <1>6, <1>7, <1>3
<1> HIDE DEF t
<1>9. (s * t + e) % s = e
  BY <1>3, <1>8, ModOf
<1> QED
  BY <1>8, <1>9 DEF e

(* Adding to a reduced index and reducing again. *)
LEMMA ModAdd ==
  ASSUME NEW n \in Nat, n > 0, NEW a \in Nat, NEW k \in Nat
  PROVE  ((a % n) + k) % n = (a + k) % n
<1> DEFINE q == a \div n
           r == a % n
           c == r + k
           d == c \div n
           e == c % n
<1>1. q \in Nat /\ r \in Nat /\ a = n * q + r
  BY DivMod
<1> HIDE DEF q, r
<1>2. c \in Nat /\ c = r + k
  BY <1>1
<1> HIDE DEF c
<1>3. d \in Nat /\ e \in Nat /\ e < n /\ c = n * d + e
  <2> c \in Nat
    BY <1>2
  <2>1. c % n \in 0 .. (n - 1) /\ c \div n \in Nat /\ c = n * (c \div n) + (c % n)
    BY DivMod
  <2> QED
    BY <2>1
<1> HIDE DEF d, e
<1>4. q + d \in Nat /\ n * (q + d) = n * q + n * d
  BY <1>1, <1>3
<1> DEFINE t == q + d
<1>5. t \in Nat /\ a + k = n * t + e
  BY <1>1, <1>2, <1>3, <1>4
<1> HIDE DEF t
<1>6. (n * t + e) % n = e
  BY <1>3, <1>5, ModOf
<1> QED
  BY <1>5, <1>6 DEF e, c, r

(* The difference of two reduced indices that are less than a wrap apart. *)
LEMMA ModDiff ==
  ASSUME NEW n \in Nat, n > 0, NEW a \in Nat, NEW b \in Nat, a <= b, b - a < n
  PROVE  ((b % n) - (a % n)) % n = b - a
<1> DEFINE q == a \div n
           r == a % n
           d == b \div n
           e == b % n
<1>1. q \in Nat /\ r \in Nat /\ r < n /\ a = n * q + r
  BY DivMod
<1>2. d \in Nat /\ e \in Nat /\ e < n /\ b = n * d + e
  BY DivMod
<1> HIDE DEF q, r, d, e
<1>3. n * (d - q) = n * d - n * q
  BY <1>1, <1>2
<1>4. n * (d - q) = (b - a) - (e - r)
  BY <1>1, <1>2, <1>3
<1>5. CASE d - q <= -1
  <2>1. q - d \in Nat /\ q - d >= 1 /\ n * (q - d) = n * q - n * d
    BY <1>1, <1>2, <1>5
  <2>2. n * (q - d) >= n
    BY <2>1
  <2> QED
    BY <2>1, <2>2, <1>1, <1>2, <1>4, <1>3
<1>6. CASE d - q >= 2
  <2>1. (d - q) - 2 \in Nat /\ n * ((d - q) - 2) >= 0
    BY <1>1, <1>2, <1>6
  <2>2. n * ((d - q) - 2) = n * (d - q) - 2 * n
    BY <1>1, <1>2
  <2> QED
    BY <2>1, <2>2, <1>1, <1>2, <1>4
<1>7. CASE d - q = 0
  <2>1. n * 0 = 0
    OBVIOUS
  <2>2. e - r = b - a
    BY <1>7, <1>4, <2>1, <1>1, <1>2
  <2>3. (b - a) \in Nat /\ (b - a) < n
    OBVIOUS
  <2>4. (b - a) % n = b - a
    BY <2>3
  <2> QED
    BY <2>2, <2>4 DEF e, r
<1>8. CASE d - q = 1
  <2>1. n * 1 = n
    OBVIOUS
  <2>2. e - r = (b - a) - n
    BY <1>8, <1>4, <2>1, <1>1, <1>2
  <2>3. ((b - a) - n) % n = b - a
    OBVIOUS
  <2> QED
    BY <2>2, <2>3 DEF e, r
<1> QED
  BY <1>5, <1>6, <1>7, <1>8, <1>1, <1>2

-----------------------------------------------------------------------------
(* The arithmetic of the constants. *)
LEMMA Constants ==
  /\ Size \in Nat /\ Size > 0
  /\ IndexMod \in Nat /\ IndexMod > 0 /\ IndexMod > Size /\ IndexMod % Size = 0
  /\ MaxPayload \in Nat /\ MaxSends \in Nat /\ MaxSends \div Half < Half
  /\ Size >= 2 * RecordWords(MaxPayload)
BY RingAssumption

(* The data area is not empty. *)
LEMMA SizeType == Size \in Nat /\ Size > 0
BY RingAssumption

(* Half is a number; its value does not matter. *)
LEMMA HalfType == Half \in Nat /\ Half > 0
BY DEF Half

(* A record has its two header words and a natural number of others. *)
LEMMA RecordSize ==
  ASSUME NEW n \in Nat
  PROVE  /\ PayloadWords(n) \in Nat
         /\ RecordWords(n) \in Nat /\ RecordWords(n) >= 2
         /\ RecordWords(n) = 2 + PayloadWords(n)
BY DEF RecordWords, PayloadWords, HdrWords

(* A longer payload takes no fewer words. *)
LEMMA RecordSizeMonotonic ==
  ASSUME NEW n \in Nat, NEW p \in Nat, n <= p
  PROVE  RecordWords(n) <= RecordWords(p)
BY DEF RecordWords, PayloadWords, HdrWords

(* What Messages holds. *)
LEMMA MessageTypes ==
  ASSUME NEW m \in Messages
  PROVE  /\ m.type \in 0 .. Half - 1
         /\ m.len \in Nat /\ m.len \in 0 .. Half - 1
         /\ PayloadWords(m.len) \in Nat
         /\ m.body \in [1 .. PayloadWords(m.len) -> Word]
         /\ RecordWords(m.len) \in Nat /\ RecordWords(m.len) >= 2
         /\ RecordWords(m.len) = 2 + PayloadWords(m.len)
<1>1. /\ m.type \in 0 .. Half - 1 /\ m.len \in 0 .. Half - 1
      /\ m.body \in Seq(Word) /\ Len(m.body) = PayloadWords(m.len)
  BY RingAssumption DEF Message
<1>2. m.len \in Nat
  BY <1>1, HalfType
<1>3. m.body \in [1 .. PayloadWords(m.len) -> Word]
  BY <1>1
<1> QED
  BY <1>1, <1>2, <1>3, RecordSize

(* The halves of a sequence number are halves. *)
LEMMA SeqHalves ==
  ASSUME NEW s \in 0 .. MaxSends - 1
  PROVE  /\ s % Half \in 0 .. Half - 1 /\ s \div Half \in 0 .. Half - 1
         /\ (s % Half) + Half * (s \div Half) = s
<1>1. MaxSends \in Nat /\ s \in Nat /\ s < MaxSends /\ MaxSends \div Half < Half
  BY Constants
<1> DEFINE d == s \div Half
           r == s % Half
           q == MaxSends \div Half
           t == MaxSends % Half
<1>2. r \in 0 .. Half - 1 /\ d \in Nat /\ s = Half * d + r
  BY <1>1, HalfType, DivMod
<1>3. t \in 0 .. Half - 1 /\ q \in Nat /\ MaxSends = Half * q + t /\ q < Half
  BY <1>1, HalfType, DivMod
<1> HIDE DEF d, r, q, t
<1>4. d <= q
  <2> SUFFICES ASSUME d > q PROVE FALSE
    BY <1>2, <1>3
  <2>1. d - q \in Nat /\ d - q >= 1
    BY <1>2, <1>3
  <2>2. Half * (d - q) >= Half
    BY <2>1, HalfType
  <2>3. Half * (d - q) = Half * d - Half * q
    BY <1>2, <1>3, HalfType
  <2> QED
    BY <1>1, <1>2, <1>3, <2>2, <2>3, HalfType
<1>5. d \in 0 .. Half - 1 /\ r + Half * d = s
  BY <1>2, <1>3, <1>4, HalfType
<1> QED
  BY <1>2, <1>5 DEF d, r

(* The words of a record are words. *)
LEMMA RecordWordType ==
  ASSUME NEW m \in Messages, NEW s \in 0 .. MaxSends - 1,
         NEW k \in 1 .. RecordWords(m.len)
  PROVE  RecordWord(m, s, k) \in Word
<1>1. CASE k = 1
  BY <1>1, MessageTypes DEF RecordWord, Word
<1>2. CASE k = 2
  BY <1>2, SeqHalves DEF RecordWord, Word
<1>3. CASE k > 2
  <2>1. k - 2 \in 1 .. PayloadWords(m.len)
    BY <1>3, MessageTypes
  <2>2. RecordWord(m, s, k) = m.body[k - 2]
    BY <1>3, MessageTypes DEF RecordWord, HdrWords
  <2> QED
    BY <2>1, <2>2, MessageTypes
<1> QED
  BY <1>1, <1>2, <1>3, MessageTypes

(* Loading the words of a record gives back its message and number. *)
LEMMA DecodeRecord ==
  ASSUME NEW m \in Messages, NEW s \in 0 .. MaxSends - 1, NEW buf \in Seq(Word),
         Len(buf) = RecordWords(m.len),
         \A k \in 1 .. Len(buf) : buf[k] = RecordWord(m, s, k)
  PROVE  Decode(buf) = [seq |-> s, msg |-> m]
<1>1. buf[1] = <<m.len, m.type>>
  BY MessageTypes DEF RecordWord
<1>2. buf[2] = <<s % Half, s \div Half>>
  BY MessageTypes DEF RecordWord
<1>3. buf[2][1] + Half * buf[2][2] = s
  BY <1>2, SeqHalves
<1>4. [k \in 1 .. PayloadWords(m.len) |-> buf[k + HdrWords]] = m.body
  <2>1. \A k \in 1 .. PayloadWords(m.len) : buf[k + HdrWords] = m.body[k]
    <3> SUFFICES ASSUME NEW k \in 1 .. PayloadWords(m.len)
                 PROVE  buf[k + HdrWords] = m.body[k]
      OBVIOUS
    <3>1. k + 2 \in 1 .. Len(buf) /\ k + 2 > 2
      BY MessageTypes
    <3>2. RecordWord(m, s, k + 2) = m.body[(k + 2) - 2]
      BY <3>1 DEF RecordWord, HdrWords
    <3> QED
      BY <3>1, <3>2, MessageTypes DEF HdrWords
  <2> QED
    BY <2>1, MessageTypes
<1>5. m = [type |-> m.type, len |-> m.len, body |-> m.body]
  BY RingAssumption DEF Message
<1> DEFINE body == [k \in 1 .. PayloadWords(m.len) |-> buf[k + HdrWords]]
<1>6. /\ buf[1][2] = m.type /\ buf[1][1] = m.len
      /\ [k \in 1 .. PayloadWords(buf[1][1]) |-> buf[k + HdrWords]] = body
  BY <1>1
<1> HIDE DEF body
<1>7. Decode(buf) = [seq |-> s, msg |-> [type |-> m.type, len |-> m.len, body |-> body]]
  BY <1>3, <1>6 DEF Decode
<1> QED
  BY <1>4, <1>5, <1>7 DEF body

-----------------------------------------------------------------------------
(* Offsets are places of the data area. *)
LEMMA OffsetType ==
  ASSUME NEW a \in Nat
  PROVE  /\ Offset(a) \in 0 .. Size - 1
         /\ ToEnd(a) \in 1 .. Size
         /\ ToEnd(a) = Size - Offset(a)
<1>1. a % Size \in 0 .. Size - 1
  BY Constants, DivMod
<1> QED
  BY <1>1, Constants DEF Offset, ToEnd

(* Consecutive positions have consecutive offsets short of the end. *)
LEMMA OffsetPlus ==
  ASSUME NEW a \in Nat, NEW k \in Nat, Offset(a) + k < Size
  PROVE  Offset(a + k) = Offset(a) + k
BY Constants, ModPlus DEF Offset

(* Stepping over the rest of the area leads to its start. *)
LEMMA OffsetNext ==
  ASSUME NEW a \in Nat
  PROVE  Offset(a + ToEnd(a)) = 0
BY Constants, ModNext DEF Offset, ToEnd

(* Positions less than the size apart are different places. *)
LEMMA OffsetDistinct ==
  ASSUME NEW a \in Nat, NEW b \in Nat, a < b, b - a < Size
  PROVE  Offset(a) # Offset(b)
BY Constants, ModDistinct DEF Offset

(* Wrapped indices stand for the positions they are reduced from. *)
LEMMA IndexOf ==
  ASSUME NEW a \in Nat
  PROVE  /\ a % IndexMod \in 0 .. IndexMod - 1
         /\ Offset(a % IndexMod) = Offset(a)
         /\ ToEnd(a % IndexMod) = ToEnd(a)
         /\ \A r : Padding(a % IndexMod, r) = Padding(a, r)
         /\ \A k \in Nat : Advance(a % IndexMod, k) = (a + k) % IndexMod
<1>1. a % IndexMod \in 0 .. IndexMod - 1
  BY Constants, DivMod
<1>2. (a % IndexMod) % Size = a % Size
  BY Constants, ModMod
<1>3. \A k \in Nat : ((a % IndexMod) + k) % IndexMod = (a + k) % IndexMod
  BY Constants, ModAdd
<1> QED
  BY <1>1, <1>2, <1>3 DEF Offset, ToEnd, Padding, Advance

(* The difference of two wrapped indices is the distance of what they stand for. *)
LEMMA UsedOf ==
  ASSUME NEW a \in Nat, NEW b \in Nat, a <= b, b - a <= Size
  PROVE  Used(b % IndexMod, a % IndexMod) = b - a
<1>1. b - a < IndexMod
  BY Constants
<1>2. ((b % IndexMod) - (a % IndexMod)) % IndexMod = b - a
  BY <1>1, Constants, ModDiff
<1> QED
  BY <1>2 DEF Used

(* A record behind its padding never straddles the end of the area. *)
LEMMA PaddingType ==
  ASSUME NEW a \in Nat, NEW r \in Nat, r <= Size
  PROVE  /\ Padding(a, r) \in Nat
         /\ Padding(a, r) = 0 => Offset(a) + r <= Size
         /\ Padding(a, r) # 0 => Padding(a, r) = ToEnd(a) /\ Offset(a + Padding(a, r)) = 0
         /\ Offset(a + Padding(a, r)) + r <= Size
<1>1. CASE r > ToEnd(a)
  BY <1>1, OffsetType, OffsetNext, Constants DEF Padding
<1>2. CASE ~(r > ToEnd(a))
  BY <1>2, OffsetType, Constants DEF Padding
<1> QED
  BY <1>1, <1>2

(* Every queued message fits the ring. *)
LEMMA ValidSize ==
  ASSUME NEW m \in Messages, Valid(m)
  PROVE  /\ RecordWords(m.len) \in Nat /\ RecordWords(m.len) >= 2
         /\ RecordWords(m.len) <= Size
<1>1. RecordWords(m.len) <= RecordWords(MaxPayload)
  BY MessageTypes, Constants, RecordSizeMonotonic DEF Valid
<1>2. RecordWords(MaxPayload) \in Nat
  BY Constants, RecordSize
<1> QED
  BY <1>1, <1>2, MessageTypes, Constants

-----------------------------------------------------------------------------
(* What the invariant says of the indices the two sides compute with. *)
LEMMA Indices ==
  ASSUME IndInv
  PROVE  /\ written \in Nat /\ consumed \in Nat
         /\ consumed <= written /\ written - consumed <= Size
         /\ Offset(head) = Offset(written) /\ ToEnd(head) = ToEnd(written)
         /\ Offset(tail) = Offset(consumed) /\ ToEnd(tail) = ToEnd(consumed)
         /\ Used(head, tail) = written - consumed
         /\ \A r : Padding(head, r) = Padding(written, r)
         /\ \A k \in Nat : Advance(head, k) = (written + k) % IndexMod
         /\ \A k \in Nat : Advance(tail, k) = (consumed + k) % IndexMod
<1>1. /\ written \in Nat /\ consumed \in Nat
      /\ consumed <= written /\ written - consumed <= Size
      /\ head = written % IndexMod /\ tail = consumed % IndexMod
  BY DEF IndInv, TypeOK, Layout
<1> QED
  BY <1>1, IndexOf, UsedOf

(* What it says of one queued record. *)
LEMMA Entries ==
  ASSUME IndInv, NEW i \in 1 .. Len(queue)
  PROVE  /\ queue[i] \in Entry
         /\ queue[i].pos \in Nat /\ queue[i].start \in Nat
         /\ queue[i].seq \in 0 .. MaxSends - 1
         /\ queue[i].msg \in Messages /\ Valid(queue[i].msg)
         /\ RecordWords(queue[i].msg.len) \in 2 .. Size
         /\ End(queue[i]) \in Nat
         /\ End(queue[i]) = queue[i].start + RecordWords(queue[i].msg.len)
         /\ consumed <= queue[i].start /\ queue[i].pos <= queue[i].start
         /\ End(queue[i]) <= written
         /\ Offset(queue[i].start) + RecordWords(queue[i].msg.len) <= Size
<1>1. queue[i] \in Entry
  BY DEF IndInv, TypeOK
<1>2. /\ queue[i].pos \in Nat /\ queue[i].start \in Nat
      /\ queue[i].seq \in 0 .. MaxSends - 1
      /\ queue[i].msg \in Messages /\ Valid(queue[i].msg)
  BY <1>1 DEF Entry
<1>3. RecordWords(queue[i].msg.len) \in 2 .. Size
  BY <1>2, ValidSize, Constants
<1>4. /\ consumed <= queue[i].start /\ queue[i].pos <= queue[i].start
      /\ End(queue[i]) <= written
      /\ Offset(queue[i].start) + RecordWords(queue[i].msg.len) <= Size
  BY DEF IndInv, Layout, Ordered
<1>5. End(queue[i]) \in Nat /\ End(queue[i]) = queue[i].start + RecordWords(queue[i].msg.len)
  BY <1>2, <1>3 DEF End
<1> QED
  BY <1>1, <1>2, <1>3, <1>4, <1>5

(* RecordsIntact of one entry, of the data area m. *)
Intact(e, m) ==
  /\ e.pos # e.start /\ consumed <= e.pos => m[Offset(e.pos)][2] = PadType
  /\ \A k \in 1 .. RecordWords(e.msg.len) :
       m[Offset(e.start) + k - 1] = RecordWord(e.msg, e.seq, k)

(* Storing a word in the free part of the data area disturbs no queued record. *)
LEMMA Undisturbed ==
  ASSUME IndInv, NEW p \in Nat, written <= p, p - consumed < Size, NEW w,
         NEW i \in 1 .. Len(queue),
         NEW mem2, mem2 = [mem EXCEPT ![Offset(p)] = w]
  PROVE  Intact(queue[i], mem2)
<1>1. mem \in [0 .. Size - 1 -> Word] /\ written \in Nat /\ consumed \in Nat
  BY DEF IndInv, TypeOK
<1>2. \A o \in 0 .. Size - 1 : o # Offset(p) => mem2[o] = mem[o]
  BY <1>1
<1>3. ASSUME queue[i].pos # queue[i].start, consumed <= queue[i].pos
      PROVE  mem2[Offset(queue[i].pos)][2] = PadType
  <2>1. queue[i].pos < p /\ p - queue[i].pos < Size
    <3> DEFINE po == queue[i].pos
               st == queue[i].start
               r == RecordWords(queue[i].msg.len)
    <3>1. po \in Nat /\ st \in Nat /\ r \in 2 .. Size /\ consumed <= po /\ po <= st
          /\ st + r <= written
      BY <1>3, Entries
    <3> HIDE DEF po, st, r
    <3>2. po < p /\ p - po < Size
      BY <1>1, <3>1, SizeType
    <3> QED
      BY <3>2 DEF po
  <2>2. Offset(queue[i].pos) # Offset(p)
    BY <2>1, Entries, OffsetDistinct
  <2>3. Offset(queue[i].pos) \in 0 .. Size - 1
    BY Entries, OffsetType
  <2>4. mem[Offset(queue[i].pos)][2] = PadType
    BY <1>3 DEF IndInv, RecordsIntact
  <2> QED
    BY <1>2, <2>2, <2>3, <2>4
<1>4. ASSUME NEW k \in 1 .. RecordWords(queue[i].msg.len)
      PROVE  mem2[Offset(queue[i].start) + k - 1]
               = RecordWord(queue[i].msg, queue[i].seq, k)
  <2> DEFINE q == queue[i].start + (k - 1)
  <2>1. q \in Nat /\ q < p /\ p - q < Size /\ k - 1 \in Nat
    <3> DEFINE st == queue[i].start
               r == RecordWords(queue[i].msg.len)
    <3>1. st \in Nat /\ r \in 2 .. Size /\ consumed <= st /\ st + r <= written
          /\ k \in Nat /\ 1 <= k /\ k <= r
      BY Entries
    <3> HIDE DEF st, r
    <3>2. st + (k - 1) \in Nat /\ st + (k - 1) < p /\ p - (st + (k - 1)) < Size
          /\ k - 1 \in Nat
      BY <1>1, <3>1, SizeType
    <3> QED
      BY <3>2 DEF st
  <2>2. Offset(queue[i].start) \in 0 .. Size - 1
    BY Entries, OffsetType
  <2>3. Offset(queue[i].start) + (k - 1) < Size
    <3> DEFINE o == Offset(queue[i].start)
               r == RecordWords(queue[i].msg.len)
    <3>1. o + r <= Size /\ r \in 2 .. Size /\ k \in 1 .. r
      BY Entries
    <3>2. o \in 0 .. Size - 1 /\ Size \in Nat
      BY <2>2, SizeType
    <3> HIDE DEF o, r
    <3>3. o + (k - 1) < Size
      BY <3>1, <3>2
    <3> QED
      BY <3>3 DEF o
  <2>4. Offset(q) = Offset(queue[i].start) + (k - 1)
    BY <2>1, <2>3, Entries, OffsetPlus
  <2> HIDE DEF q
  <2>5. Offset(q) # Offset(p) /\ Offset(q) \in 0 .. Size - 1
    BY <2>1, OffsetDistinct, OffsetType
  <2>6. Offset(q) = Offset(queue[i].start) + k - 1
    BY <2>2, <2>4
  <2>7. mem[Offset(q)] = RecordWord(queue[i].msg, queue[i].seq, k)
    BY <2>6 DEF IndInv, RecordsIntact
  <2> QED
    BY <1>2, <2>5, <2>6, <2>7
<1> QED
  BY <1>3, <1>4 DEF Intact

-----------------------------------------------------------------------------
(* Steps that leave the shared memory alone keep what is said of it. *)
LEMMA FrameRing ==
  ASSUME IndInv, UNCHANGED <<shared, history>>
  PROVE  (Layout /\ RecordsIntact /\ Ordered)'
BY DEF IndInv, Layout, RecordsIntact, Ordered, shared, history, End

(* Steps that leave the producer and its room alone keep what is said of it. *)
LEMMA FrameWriting ==
  ASSUME IndInv, UNCHANGED <<head, mem, producer, written, consumed>>
  PROVE  Writing'
BY DEF IndInv, Writing, producer

(* Steps that leave the consumer and its record alone keep what is said of it. *)
LEMMA FrameReading ==
  ASSUME IndInv, UNCHANGED <<tail, cpc, chead, cbuf, consumed, queue>>
  PROVE  Reading'
BY DEF IndInv, Reading, End

(* The ring as it is laid out satisfies the invariant. *)
LEMMA InitInd == Init => IndInv
<1> SUFFICES ASSUME Init PROVE IndInv
  OBVIOUS
<1>1. TypeOK
  <2>1. PICK w \in Stale : mem = [o \in 0 .. Size - 1 |-> w]
    BY DEF Init
  <2>2. w \in Word
    BY RingAssumption
  <2>3. mem \in [0 .. Size - 1 -> Word]
    BY <2>1, <2>2
  <2>4. 0 \in 0 .. IndexMod - 1 /\ 0 \in 0 .. MaxSends /\ 0 \in 0 .. MaxLayouts
        /\ 0 \in 0 .. Half - 1
    BY Constants, HalfType, RingAssumption
  <2> QED
    BY <2>3, <2>4 DEF Init, TypeOK
<1>2. 0 % IndexMod = 0
  BY Constants
<1>3. Layout
  BY <1>2, SizeType DEF Init, Layout
<1>4. RecordsIntact /\ NeverCorrupt /\ Ordered /\ Writing /\ Reading
  BY DEF Init, RecordsIntact, NeverCorrupt, Ordered, Writing, Reading
<1> QED
  BY <1>1, <1>3, <1>4 DEF IndInv

(* Starting a write: the room was checked against the tail of the moment. *)
LEMMA WriteStartInd ==
  ASSUME IndInv, NEW m \in Messages, WriteStart(m)
  PROVE  IndInv'
<1> DEFINE r == RecordWords(m.len)
           pad == Padding(head, r)
<1>1. r \in Nat /\ r >= 2 /\ r <= Size
  BY ValidSize DEF WriteStart
<1>2. pad \in Nat /\ pad = Padding(written, r)
  BY <1>1, Indices, PaddingType
<1>3. pad + r <= Size - (written - consumed)
  BY Indices DEF WriteStart, Fits
<1>4. UNCHANGED <<shared, seq, consumer, history>> /\ pmsg' = m /\ pcount' = 0
      /\ ppc' = (IF pad = 0 THEN "store" ELSE "pad") /\ ppos' = Advance(head, pad)
      /\ seq < MaxSends /\ Valid(m)
  BY DEF WriteStart
<1>5. Advance(head, pad) \in 0 .. IndexMod - 1
  <2>1. Advance(head, pad) = (written + pad) % IndexMod /\ written + pad \in Nat
    BY <1>2, Indices
  <2> QED
    BY <2>1, IndexOf
<1> HIDE DEF pad
<1>6. TypeOK'
  BY <1>4, <1>5 DEF IndInv, TypeOK, shared, consumer, history, Valid
<1>7. (Layout /\ RecordsIntact /\ Ordered)'
  BY <1>4, FrameRing
<1>8. NeverCorrupt' /\ Reading'
  BY <1>4, FrameReading DEF IndInv, NeverCorrupt, shared, consumer, history
<1>9. Writing'
  <2>1. head' = head /\ written' = written /\ consumed' = consumed /\ pmsg'.len = m.len
    BY <1>4 DEF shared, history
  <2>2. Padding(head', RecordWords(pmsg'.len)) = pad /\ RecordWords(pmsg'.len) = r
    BY <2>1 DEF pad
  <2>3. written + pad + r - consumed <= Size
    BY <1>1, <1>2, <1>3, Indices, SizeType
  <2>4. ppc' = "pad" => pad > 0
    BY <1>2, <1>4
  <2>5. ppc' = "store" => pad = 0
    BY <1>4
  <2> HIDE DEF r
  <2>6. ppos' = Advance(head', pad)
    BY <1>4, <2>1
  <2>7. \A k \in 1 .. pcount' : FALSE
    BY <1>4
  <2> QED
    BY <1>1, <1>2, <1>4, <2>1, <2>2, <2>3, <2>4, <2>5, <2>6, <2>7 DEF Writing
<1> QED
  BY <1>6, <1>7, <1>8, <1>9 DEF IndInv

(* The record being written and where it goes. *)
LEMMA WritingFacts ==
  ASSUME IndInv, ppc # "idle"
  PROVE  LET r == RecordWords(pmsg.len)
             pad == Padding(written, r)
         IN /\ pmsg \in Messages /\ Valid(pmsg) /\ seq \in 0 .. MaxSends - 1
            /\ r \in Nat /\ r >= 2 /\ r <= Size /\ pad \in Nat
            /\ Padding(head, r) = pad
            /\ written + pad + r - consumed <= Size
            /\ pcount \in Nat /\ pcount <= r
            /\ ppos = (written + pad) % IndexMod
            /\ Offset(ppos) = Offset(written + pad)
            /\ Offset(written + pad) \in Nat /\ Offset(written + pad) + r <= Size
            /\ ppc = "pad" => pad > 0 /\ pcount = 0
            /\ ppc = "store" /\ pad > 0 => mem[Offset(head)][2] = PadType
            /\ \A k \in 1 .. pcount : mem[Offset(ppos) + k - 1] = RecordWord(pmsg, seq, k)
<1> DEFINE r == RecordWords(pmsg.len)
           pad == Padding(written, r)
<1>1. pmsg \in Messages /\ Valid(pmsg) /\ seq \in 0 .. MaxSends - 1 /\ pcount \in Nat
  BY Constants DEF IndInv, TypeOK
<1>2. r \in Nat /\ r >= 2 /\ r <= Size
  BY <1>1, ValidSize
<1>3. Padding(head, r) = pad /\ pad \in Nat /\ Offset(written + pad) + r <= Size
  BY <1>2, Indices, PaddingType
<1>4. /\ written + Padding(head, r) + r - consumed <= Size
      /\ ppos = Advance(head, Padding(head, r))
      /\ pcount <= r
      /\ ppc = "pad" => pcount = 0 /\ Padding(head, r) > 0
      /\ ppc = "store" /\ Padding(head, r) > 0 => mem[Offset(head)][2] = PadType
      /\ \A k \in 1 .. pcount : mem[Offset(ppos) + k - 1] = RecordWord(pmsg, seq, k)
  BY DEF IndInv, Writing
<1> HIDE DEF r, pad
<1>5. ppos = (written + pad) % IndexMod
  BY <1>3, <1>4, Indices
<1>6. Offset(ppos) = Offset(written + pad) /\ Offset(written + pad) \in Nat
  BY <1>3, <1>5, Indices, IndexOf, OffsetType
<1> QED
  BY <1>1, <1>2, <1>3, <1>4, <1>5, <1>6 DEF r, pad

(* A word stored in the free part keeps the queued records as they are. *)
LEMMA StoreFrame ==
  ASSUME IndInv, NEW p \in Nat, written <= p, p - consumed < Size, NEW w,
         mem' = [mem EXCEPT ![Offset(p)] = w],
         UNCHANGED <<head, tail, history>>
  PROVE  (Layout /\ RecordsIntact /\ Ordered)'
<1>1. UNCHANGED <<head, tail, written, consumed, queue>>
  BY DEF history
<1>2. Layout' /\ Ordered'
  BY <1>1 DEF IndInv, Layout, Ordered, End
<1>3. RecordsIntact'
  <2>1. ASSUME NEW i \in 1 .. Len(queue) PROVE Intact(queue[i], mem')
    BY Undisturbed
  <2> QED
    BY <1>1, <2>1 DEF RecordsIntact, Intact
<1> QED
  BY <1>2, <1>3

(* Marking the padding. *)
LEMMA WritePadInd ==
  ASSUME IndInv, WritePad
  PROVE  IndInv'
<1> DEFINE r == RecordWords(pmsg.len)
           pad == Padding(written, r)
<1>1. /\ ppc = "pad" /\ ppc' = "store" /\ mem' = [mem EXCEPT ![Offset(head)] = <<0, PadType>>]
      /\ UNCHANGED <<head, tail, seq, pmsg, ppos, pcount, consumer, history>>
  BY DEF WritePad
<1>2. /\ r \in Nat /\ r >= 2 /\ r <= Size /\ pad \in Nat /\ pad > 0
      /\ Padding(head, r) = pad /\ pcount = 0
      /\ written + pad + r - consumed <= Size
  BY <1>1, WritingFacts
<1>3. Offset(head) = Offset(written) /\ Offset(written) \in 0 .. Size - 1
      /\ written \in Nat /\ consumed \in Nat /\ consumed <= written
  BY Indices, OffsetType
<1>4. mem \in [0 .. Size - 1 -> Word] /\ <<0, PadType>> \in Word
  <2>1. mem \in [0 .. Size - 1 -> Word]
    BY DEF IndInv, TypeOK
  <2>2. <<0, PadType>> \in Word
    BY HalfType DEF Word, PadType
  <2> QED
    BY <2>1, <2>2
<1> HIDE DEF r, pad
<1>5. TypeOK'
  <2>1. mem' \in [0 .. Size - 1 -> Word]
    BY <1>1, <1>3, <1>4
  <2> QED
    BY <1>1, <2>1 DEF IndInv, TypeOK, consumer, history
<1>6. (Layout /\ RecordsIntact /\ Ordered)'
  <2>1. written - consumed < Size
    BY <1>2, <1>3, SizeType
  <2> DEFINE w == <<0, PadType>>
  <2>2. mem' = [mem EXCEPT ![Offset(written)] = w] /\ written <= written
    BY <1>1, <1>3
  <2> HIDE DEF w
  <2> QED
    BY <1>1, <1>3, <2>1, <2>2, StoreFrame
<1>7. NeverCorrupt' /\ Reading'
  BY <1>1, FrameReading DEF IndInv, NeverCorrupt, consumer, history
<1>8. Writing'
  <2>1. mem'[Offset(head)][2] = PadType
    BY <1>1, <1>3, <1>4
  <2>2. \A k \in 1 .. pcount : FALSE
    BY <1>2
  <2> QED
    BY <1>1, <1>2, <2>1, <2>2 DEF IndInv, Writing, history, r
<1> QED
  BY <1>5, <1>6, <1>7, <1>8 DEF IndInv

(* Storing one word of the record. *)
LEMMA StoreWordInd ==
  ASSUME IndInv, StoreWord
  PROVE  IndInv'
<1> DEFINE r == RecordWords(pmsg.len)
           pad == Padding(written, r)
           p == (written + pad) + pcount
           w == RecordWord(pmsg, seq, pcount + 1)
<1>1. /\ ppc = "store" /\ pcount < r /\ pcount' = pcount + 1
      /\ mem' = [mem EXCEPT ![Offset(ppos) + pcount] = w]
      /\ UNCHANGED <<head, tail, seq, ppc, pmsg, ppos, consumer, history>>
  BY DEF StoreWord
<1>2. /\ pmsg \in Messages /\ seq \in 0 .. MaxSends - 1
      /\ r \in Nat /\ r >= 2 /\ r <= Size /\ pad \in Nat /\ pcount \in Nat
      /\ Padding(head, r) = pad
      /\ written + pad + r - consumed <= Size
      /\ Offset(ppos) = Offset(written + pad)
      /\ Offset(written + pad) \in Nat /\ Offset(written + pad) + r <= Size
      /\ pad > 0 => mem[Offset(head)][2] = PadType
      /\ \A k \in 1 .. pcount : mem[Offset(ppos) + k - 1] = RecordWord(pmsg, seq, k)
  BY <1>1, WritingFacts
<1>3. /\ written \in Nat /\ consumed \in Nat /\ consumed <= written
      /\ Offset(head) = Offset(written) /\ mem \in [0 .. Size - 1 -> Word]
  BY Indices DEF IndInv, TypeOK
<1>4. w \in Word
  <2>1. pcount + 1 \in 1 .. r
    BY <1>1, <1>2
  <2> QED
    BY <1>2, <2>1, RecordWordType
<1> HIDE DEF r, pad, w
<1>5. p \in Nat /\ written <= p /\ p - consumed < Size /\ written + pad \in Nat
  BY <1>1, <1>2, <1>3, SizeType
<1>6. Offset(p) = Offset(ppos) + pcount /\ Offset(p) \in 0 .. Size - 1
  <2>1. Offset(written + pad) + pcount < Size
    BY <1>1, <1>2, SizeType
  <2>2. Offset(p) = Offset(written + pad) + pcount
    BY <1>2, <1>5, <2>1, OffsetPlus
  <2> QED
    BY <1>2, <1>5, <2>2, OffsetType
<1> HIDE DEF p
<1>7. TypeOK'
  <2>1. mem' \in [0 .. Size - 1 -> Word]
    BY <1>1, <1>3, <1>4, <1>6
  <2> QED
    BY <1>1, <1>2, <2>1 DEF IndInv, TypeOK, consumer, history
<1>8. (Layout /\ RecordsIntact /\ Ordered)'
  BY <1>1, <1>5, <1>6, StoreFrame
<1>9. NeverCorrupt' /\ Reading'
  BY <1>1, FrameReading DEF IndInv, NeverCorrupt, consumer, history
<1>10. Writing'
  <2>1. pcount' <= r
    BY <1>1, <1>2
  <2>2. pad > 0 => mem'[Offset(head)][2] = PadType
    <3> SUFFICES ASSUME pad > 0 PROVE mem'[Offset(head)][2] = PadType
      OBVIOUS
    <3>1. written < p /\ p - written < Size
      BY <1>1, <1>2, <1>3, SizeType DEF p
    <3>2. Offset(written) # Offset(p) /\ Offset(written) \in 0 .. Size - 1
      BY <1>3, <1>5, <3>1, OffsetDistinct, OffsetType
    <3> QED
      BY <1>1, <1>2, <1>3, <1>6, <3>2
  <2>3. ASSUME NEW k \in 1 .. pcount'
        PROVE  mem'[Offset(ppos) + k - 1] = RecordWord(pmsg, seq, k)
    <3>1. Offset(ppos) + k - 1 \in 0 .. Size - 1
      BY <1>1, <1>2, SizeType
    <3>2. CASE k = pcount + 1
      BY <1>1, <1>2, <1>3, <3>1, <3>2 DEF w
    <3>3. CASE k \in 1 .. pcount
      <4>1. Offset(ppos) + k - 1 # Offset(ppos) + pcount
        BY <1>2, <3>3
      <4> QED
        BY <1>1, <1>2, <1>3, <3>1, <3>3, <4>1
    <3> QED
      BY <1>1, <1>2, <3>2, <3>3
  <2> QED
    BY <1>1, <1>2, <2>1, <2>2, <2>3 DEF IndInv, Writing, history, r
<1> QED
  BY <1>7, <1>8, <1>9, <1>10 DEF IndInv

(* Publishing appends the record behind the others. *)
LEMMA WritePublishInd ==
  ASSUME IndInv, WritePublish
  PROVE  /\ IndInv'
         /\ queue' = Append(queue, [pos |-> written,
                                    start |-> written + Padding(written, RecordWords(pmsg.len)),
                                    seq |-> seq, msg |-> pmsg])
<1> DEFINE r == RecordWords(pmsg.len)
           pad == Padding(written, r)
           start == written + pad
           e == [pos |-> written, start |-> start, seq |-> seq, msg |-> pmsg]
           n == Len(queue)
<1>1. /\ ppc = "store" /\ pcount = r /\ head' = Advance(ppos, pcount) /\ seq' = seq + 1
      /\ ppc' = "idle" /\ pmsg' = NoMessage /\ ppos' = 0 /\ pcount' = 0
      /\ UNCHANGED <<tail, mem, consumer, consumed, layouts>>
  BY DEF WritePublish
<1>2. /\ pmsg \in Messages /\ Valid(pmsg) /\ seq \in 0 .. MaxSends - 1
      /\ r \in Nat /\ r >= 2 /\ r <= Size /\ pad \in Nat
      /\ Padding(head, r) = pad
      /\ start + r - consumed <= Size
      /\ ppos = start % IndexMod
      /\ Offset(ppos) = Offset(start) /\ Offset(start) + r <= Size
      /\ pad > 0 => mem[Offset(head)][2] = PadType
      /\ \A k \in 1 .. r : mem[Offset(ppos) + k - 1] = RecordWord(pmsg, seq, k)
  BY <1>1, WritingFacts
<1>3. /\ written \in Nat /\ consumed \in Nat /\ consumed <= written
      /\ Offset(head) = Offset(written)
  BY Indices
<1>4. start \in Nat /\ written <= start /\ (start = written => pad = 0)
      /\ (start # written => pad > 0)
  BY <1>2, <1>3
<1>5. queue' = Append(queue, e) /\ written' = start + r
  BY <1>1, <1>2 DEF WritePublish
<1>6. e \in Entry /\ End(e) = start + r /\ e.pos = written /\ e.start = start
      /\ e.seq = seq /\ e.msg = pmsg
  BY <1>2, <1>3, <1>4 DEF Entry, End
<1> HIDE DEF e
<1>7. queue \in Seq(Entry) /\ n \in Nat
  BY DEF IndInv, TypeOK
<1>8. /\ queue' \in Seq(Entry) /\ Len(queue') = n + 1 /\ queue' # <<>>
      /\ queue'[n + 1] = e /\ \A i \in 1 .. n : queue'[i] = queue[i]
  BY <1>5, <1>6, <1>7
<1>9. \A i \in 1 .. Len(queue') : i \in 1 .. n \/ i = n + 1
  BY <1>7, <1>8
<1> HIDE DEF r, pad, start, n
<1>10. head' = written' % IndexMod /\ head' \in 0 .. IndexMod - 1 /\ written' \in Nat
  <2>1. head' = (start + r) % IndexMod
    BY <1>1, <1>2, <1>4, IndexOf
  <2> QED
    BY <1>2, <1>4, <1>5, <2>1, IndexOf
<1>11. TypeOK'
  <2>1. seq' \in 0 .. MaxSends /\ 0 \in 0 .. IndexMod - 1
    BY <1>1, <1>2, Constants
  <2> QED
    BY <1>1, <1>2, <1>8, <1>10, <2>1 DEF IndInv, TypeOK, consumer
<1>12. ASSUME NEW i \in 1 .. n
       PROVE  /\ queue[i].pos \in Nat /\ queue[i].start \in Nat
              /\ queue[i].pos <= queue[i].start /\ consumed <= queue[i].start
              /\ End(queue[i]) \in Nat /\ End(queue[i]) <= written
  BY <1>7, Entries DEF n
<1>13. Layout'
  <2>1. consumed' <= written' /\ written' - consumed' <= Size /\ tail' = consumed' % IndexMod
    BY <1>1, <1>2, <1>3, <1>4, <1>5 DEF IndInv, Layout
  <2>2. consumed' \in {queue'[1].pos, queue'[1].start}
    <3>1. CASE n = 0
      <4>1. consumed = written
        BY <1>7, <3>1 DEF IndInv, Layout, n
      <4> QED
        BY <1>1, <1>6, <1>8, <3>1, <4>1
    <3>2. CASE n > 0
      <4>1. queue # <<>> /\ 1 \in 1 .. n
        BY <1>7, <3>2 DEF n
      <4> QED
        BY <1>1, <1>8, <4>1 DEF IndInv, Layout
    <3> QED
      BY <1>7, <3>1, <3>2
  <2>3. End(queue'[Len(queue')]) = written'
    BY <1>5, <1>6, <1>8
  <2>4. ASSUME NEW i \in 1 .. n
        PROVE  /\ queue[i].start = queue[i].pos
                      + Padding(queue[i].pos, RecordWords(queue[i].msg.len))
               /\ Offset(queue[i].start) + RecordWords(queue[i].msg.len) <= Size
               /\ i < n => queue[i + 1].pos = End(queue[i])
               /\ i = n => End(queue[i]) = written
    <3>1. queue # <<>> /\ i \in 1 .. Len(queue)
      BY <1>7, <2>4 DEF n
    <3> QED
      BY <3>1 DEF IndInv, Layout, n
  <2>5. ASSUME NEW i \in 1 .. Len(queue')
        PROVE  /\ queue'[i].start = queue'[i].pos
                      + Padding(queue'[i].pos, RecordWords(queue'[i].msg.len))
               /\ Offset(queue'[i].start) + RecordWords(queue'[i].msg.len) <= Size
               /\ i < Len(queue') => queue'[i + 1].pos = End(queue'[i])
    <3>1. CASE i \in 1 .. n
      <4>1. queue'[i] = queue[i] /\ (i < n => i + 1 \in 1 .. n /\ queue'[i + 1] = queue[i + 1])
        BY <1>7, <1>8, <3>1
      <4>2. i = n => queue'[i + 1].pos = written
        BY <1>6, <1>8
      <4>3. i < n \/ i = n
        BY <1>7, <3>1
      <4> QED
        BY <2>4, <3>1, <4>1, <4>2, <4>3
    <3>2. CASE i = n + 1
      BY <1>2, <1>6, <1>7, <1>8, <3>2 DEF start, pad, r
    <3> QED
      BY <1>9, <3>1, <3>2
  <2> QED
    BY <1>8, <1>10, <2>1, <2>2, <2>3, <2>5 DEF Layout, End
<1>14. RecordsIntact'
  <2>1. ASSUME NEW i \in 1 .. Len(queue')
        PROVE  /\ queue'[i].pos # queue'[i].start /\ consumed <= queue'[i].pos =>
                    mem[Offset(queue'[i].pos)][2] = PadType
               /\ \A k \in 1 .. RecordWords(queue'[i].msg.len) :
                    mem[Offset(queue'[i].start) + k - 1]
                      = RecordWord(queue'[i].msg, queue'[i].seq, k)
    <3>1. CASE i \in 1 .. n
      BY <1>8, <3>1 DEF IndInv, RecordsIntact, n
    <3>2. CASE i = n + 1
      BY <1>2, <1>3, <1>4, <1>6, <1>8, <3>2 DEF r
    <3> QED
      BY <1>9, <3>1, <3>2
  <2> QED
    BY <1>1, <2>1 DEF RecordsIntact
<1>15. Ordered'
  <2>1. ASSUME NEW i \in 1 .. Len(queue')
        PROVE  /\ consumed <= queue'[i].start /\ queue'[i].pos <= queue'[i].start
               /\ End(queue'[i]) <= written'
               /\ \A j \in 1 .. Len(queue') : i < j => End(queue'[i]) <= queue'[j].pos
    <3>1. CASE i \in 1 .. n
      <4>1. queue'[i] = queue[i] /\ End(queue[i]) <= written'
        <5>1. written <= written' /\ written' \in Nat
          BY <1>2, <1>3, <1>4, <1>5
        <5>2. End(queue[i]) \in Nat /\ End(queue[i]) <= written
          BY <1>12, <3>1
        <5>3. End(queue[i]) <= written'
          <6> DEFINE ee == End(queue[i])
          <6>1. ee \in Nat /\ ee <= written
            BY <5>2
          <6> HIDE DEF ee
          <6>2. ee <= written'
            BY <1>3, <5>1, <6>1
          <6> QED
            BY <6>2 DEF ee
        <5> QED
          BY <1>8, <3>1, <5>3
      <4>2. ASSUME NEW j \in 1 .. Len(queue'), i < j
            PROVE  End(queue'[i]) <= queue'[j].pos
        <5>1. CASE j \in 1 .. n
          BY <1>8, <3>1, <4>2, <5>1 DEF IndInv, Ordered, n
        <5>2. CASE j = n + 1
          BY <1>6, <1>8, <1>12, <3>1, <5>2
        <5> QED
          BY <1>9, <5>1, <5>2
      <4> QED
        BY <1>12, <3>1, <4>1, <4>2
    <3>2. CASE i = n + 1
      <4>1. \A j \in 1 .. Len(queue') : ~(i < j)
        BY <1>7, <1>8, <3>2
      <4> QED
        BY <1>2, <1>3, <1>4, <1>5, <1>6, <1>8, <3>2, <4>1
    <3> QED
      BY <1>9, <3>1, <3>2
  <2> QED
    BY <1>1, <2>1 DEF Ordered, End
<1>16. Reading'
  <2>1. queue # <<>> => queue'[1] = queue[1]
    <3>1. queue # <<>> => 1 \in 1 .. n
      BY <1>7 DEF n
    <3> QED
      BY <1>8, <3>1
  <2> QED
    BY <1>1, <1>8, <2>1 DEF IndInv, Reading, consumer, End
<1>17. NeverCorrupt' /\ Writing'
  BY <1>1 DEF IndInv, NeverCorrupt, Writing, consumer
<1> QED
  BY <1>5, <1>11, <1>13, <1>14, <1>15, <1>16, <1>17 DEF IndInv, e, start, pad, r

-----------------------------------------------------------------------------
(* A step of the consumer frees room and so keeps what is being written.   *)
LEMMA ReleaseWriting ==
  ASSUME IndInv, UNCHANGED <<head, mem, producer, written>>,
         consumed' \in Nat, consumed <= consumed'
  PROVE  Writing'
<1> SUFFICES ASSUME ppc' # "idle" PROVE Writing'
  BY DEF Writing
<1>1. UNCHANGED <<head, mem, seq, ppc, pmsg, ppos, pcount, written>> /\ ppc # "idle"
  BY DEF producer
<1> DEFINE r == RecordWords(pmsg.len)
           pad == Padding(head, r)
<1>2. r \in Nat /\ pad \in Nat /\ written + pad + r - consumed <= Size
  BY <1>1, WritingFacts
<1>3. consumed \in Nat /\ written \in Nat
  BY Indices
<1>4. written + pad + r - consumed' <= Size
  <2> DEFINE c == consumed'
  <2>1. c \in Nat /\ consumed <= c
    OBVIOUS
  <2> HIDE DEF r, pad, c
  <2>2. written + pad + r - c <= Size
    BY <1>2, <1>3, <2>1, SizeType
  <2> QED
    BY <2>2 DEF c
<1> QED
  BY <1>1, <1>4 DEF IndInv, Writing

(* What the consumer may rely on of the oldest record.                     *)
LEMMA Oldest ==
  ASSUME IndInv, queue # <<>>
  PROVE  LET e == queue[1]
             r == RecordWords(e.msg.len)
         IN /\ 1 \in 1 .. Len(queue)
            /\ e.pos \in Nat /\ e.start \in Nat /\ e.seq \in 0 .. MaxSends - 1
            /\ e.msg \in Messages /\ Valid(e.msg)
            /\ r \in Nat /\ r >= 2
            /\ End(e) = e.start + r /\ End(e) <= written
            /\ consumed \in {e.pos, e.start}
            /\ e.start = e.pos + Padding(e.pos, r) /\ e.pos <= e.start
            /\ e.pos # e.start => e.start = e.pos + ToEnd(e.pos)
            /\ Offset(e.start) + r <= Size
            /\ consumed = e.pos /\ e.pos # e.start =>
                 mem[Offset(consumed)][2] = PadType
            /\ \A k \in 1 .. r :
                 mem[Offset(e.start) + k - 1] = RecordWord(e.msg, e.seq, k)
<1>1. 1 \in 1 .. Len(queue)
  BY DEF IndInv, TypeOK
<1> DEFINE e == queue[1]
           r == RecordWords(e.msg.len)
<1>2. /\ e.pos \in Nat /\ e.start \in Nat /\ e.seq \in 0 .. MaxSends - 1
      /\ e.msg \in Messages /\ Valid(e.msg) /\ r \in 2 .. Size
      /\ End(e) = e.start + r /\ End(e) <= written /\ e.pos <= e.start
  BY <1>1, Entries
<1>3. /\ consumed \in {e.pos, e.start}
      /\ e.start = e.pos + Padding(e.pos, r)
      /\ Offset(e.start) + r <= Size
  BY <1>1 DEF IndInv, Layout
<1>4. /\ e.pos # e.start /\ consumed <= e.pos => mem[Offset(e.pos)][2] = PadType
      /\ \A k \in 1 .. r : mem[Offset(e.start) + k - 1] = RecordWord(e.msg, e.seq, k)
  BY <1>1 DEF IndInv, RecordsIntact
<1>5. r \in Nat /\ r >= 2 /\ r <= Size
  BY <1>2, SizeType
<1> HIDE DEF e, r
<1>6. e.pos # e.start => Padding(e.pos, r) = ToEnd(e.pos)
  <2>1. Padding(e.pos, r) # ToEnd(e.pos) => Padding(e.pos, r) = 0
    BY DEF Padding
  <2>2. Padding(e.pos, r) = 0 => e.start = e.pos
    BY <1>2, <1>3
  <2> QED
    BY <2>1, <2>2
<1>7. consumed = e.pos => consumed <= e.pos
  BY <1>2
<1> QED
  BY <1>1, <1>2, <1>3, <1>4, <1>5, <1>6, <1>7 DEF e, r

(* At the start of the oldest record there is no padding to step over, and *)
(* before it there is.                                                     *)
LEMMA AtPaddingMeans ==
  ASSUME IndInv, queue # <<>>
  PROVE  /\ AtPadding => consumed = queue[1].pos /\ queue[1].pos # queue[1].start
         /\ ~AtPadding => /\ consumed = queue[1].start
                          /\ mem[Offset(tail)] = <<queue[1].msg.len, queue[1].msg.type>>
<1> DEFINE e == queue[1]
           r == RecordWords(e.msg.len)
<1>1. /\ e.start \in Nat /\ r \in Nat /\ r >= 2 /\ consumed \in {e.pos, e.start}
      /\ Offset(e.start) + r <= Size
      /\ consumed = e.pos /\ e.pos # e.start => mem[Offset(consumed)][2] = PadType
      /\ \A k \in 1 .. r : mem[Offset(e.start) + k - 1] = RecordWord(e.msg, e.seq, k)
      /\ e.msg \in Messages /\ Valid(e.msg)
  BY Oldest
<1>2. Offset(tail) = Offset(consumed) /\ ToEnd(tail) = ToEnd(consumed)
  BY Indices
<1> HIDE DEF r
<1>3. /\ Offset(e.start) \in 0 .. Size - 1 /\ ToEnd(e.start) \in 1 .. Size
      /\ ToEnd(e.start) = Size - Offset(e.start)
  BY <1>1, OffsetType
<1>4. mem[Offset(e.start)] = <<e.msg.len, e.msg.type>>
  <2>1. 1 \in 1 .. r /\ Offset(e.start) + 1 - 1 = Offset(e.start)
    BY <1>1, <1>3, SizeType
  <2>2. mem[Offset(e.start)] = RecordWord(e.msg, e.seq, 1)
    BY <1>1, <2>1
  <2> QED
    BY <2>2 DEF RecordWord
<1>5. ToEnd(e.start) >= 2
  <2> DEFINE o == Offset(e.start)
             t == ToEnd(e.start)
  <2>1. o \in 0 .. Size - 1 /\ t = Size - o /\ o + r <= Size
    BY <1>1, <1>3
  <2> HIDE DEF o, t
  <2>2. t >= 2
    BY <1>1, <2>1, SizeType
  <2> QED
    BY <2>2 DEF t
<1>6. ASSUME consumed = e.start PROVE ~AtPadding
  <2>1. ~(ToEnd(tail) < HdrWords)
    BY <1>2, <1>3, <1>5, <1>6, SizeType DEF HdrWords
  <2>2. mem[Offset(tail)][2] # PadType
    BY <1>1, <1>2, <1>4, <1>6 DEF Valid
  <2> QED
    BY <2>1, <2>2 DEF AtPadding
<1>7. ASSUME consumed # e.start PROVE AtPadding
  BY <1>1, <1>2, <1>7 DEF AtPadding
<1> HIDE DEF e
<1>8. AtPadding => consumed = e.pos /\ e.pos # e.start
  BY <1>1, <1>6
<1>9. ~AtPadding => consumed = e.start /\ mem[Offset(tail)] = <<e.msg.len, e.msg.type>>
  BY <1>2, <1>4, <1>7
<1> QED
  BY <1>8, <1>9 DEF e

(* Entering satlink_ring_read. *)
LEMMA ReadCallInd ==
  ASSUME IndInv, NEW cap \in Caps, ReadCall(cap)
  PROVE  IndInv'
<1>1. /\ cpc' = "begin" /\ ccap' = cap /\ cresult' = "none"
      /\ UNCHANGED <<shared, producer, chead, cbuf, out, history>>
  BY DEF ReadCall
<1>2. cap \in 0 .. Half - 1
  BY RingAssumption
<1>3. TypeOK'
  BY <1>1, <1>2 DEF IndInv, TypeOK, shared, producer, history, Valid
<1>4. (Layout /\ RecordsIntact /\ Ordered)'
  BY <1>1, FrameRing
<1>5. Writing'
  BY <1>1, FrameWriting DEF shared, history
<1>6. NeverCorrupt' /\ Reading'
  BY <1>1 DEF NeverCorrupt, Reading
<1> QED
  BY <1>3, <1>4, <1>5, <1>6 DEF IndInv

(* Returning from satlink_ring_read without taking a record. *)
LEMMA ReturnInd ==
  ASSUME IndInv, NEW result \in {"EMPTY", "TOO_BIG"}, ReadReturn(result),
         UNCHANGED <<shared, producer, out, history>>
  PROVE  IndInv'
<1>1. cpc' = "idle" /\ cresult' = result /\ ccap' = 0 /\ chead' = 0 /\ cbuf' = <<>>
  BY DEF ReadReturn
<1>2. 0 \in 0 .. Half - 1 /\ 0 \in 0 .. IndexMod - 1 /\ <<>> \in Seq(Word)
  BY HalfType, Constants
<1>3. TypeOK'
  BY <1>1, <1>2 DEF IndInv, TypeOK, shared, producer, history, Valid
<1>4. (Layout /\ RecordsIntact /\ Ordered)'
  BY FrameRing
<1>5. Writing'
  BY FrameWriting DEF shared, history
<1>6. NeverCorrupt' /\ Reading'
  BY <1>1 DEF NeverCorrupt, Reading
<1> QED
  BY <1>3, <1>4, <1>5, <1>6 DEF IndInv

(* Loading the indices: they are never further apart than the ring. *)
LEMMA ReadIndicesInd ==
  ASSUME IndInv, ReadIndices
  PROVE  IndInv'
<1>1. UNCHANGED <<shared, producer, out, history>>
  BY DEF ReadIndices
<1>2. /\ written \in Nat /\ consumed \in Nat /\ consumed <= written
      /\ Used(head, tail) = written - consumed /\ written - consumed <= Size
  BY Indices
<1>3. CASE head = tail /\ ReadReturn("EMPTY")
  BY <1>1, <1>3, ReturnInd
<1>4. CASE Used(head, tail) > Size /\ ReadReturn("CORRUPT")
  BY <1>2, <1>4, SizeType
<1>5. CASE /\ head # tail /\ Used(head, tail) <= Size
           /\ cpc' = "peek" /\ chead' = head
           /\ UNCHANGED <<ccap, cbuf, cresult>>
  <2>1. TypeOK'
    BY <1>1, <1>5 DEF IndInv, TypeOK, shared, producer, history, Valid
  <2>2. (Layout /\ RecordsIntact /\ Ordered)'
    BY <1>1, FrameRing
  <2>3. Writing'
    BY <1>1, FrameWriting DEF shared, history
  <2>4. queue # <<>>
    BY <1>5 DEF IndInv, Layout
  <2>5. Used(chead', tail') >= End(queue[1]) - consumed
    <3> DEFINE en == End(queue[1])
    <3>1. en \in Nat /\ en <= written
      BY <2>4, Oldest
    <3> HIDE DEF en
    <3>2. written - consumed >= en - consumed
      BY <1>2, <3>1
    <3> QED
      BY <1>1, <1>2, <1>5, <3>2 DEF shared, en
  <2>6. NeverCorrupt' /\ Reading'
    BY <1>1, <1>5, <2>4, <2>5 DEF IndInv, NeverCorrupt, Reading, history, End
  <2> QED
    BY <2>1, <2>2, <2>3, <2>6 DEF IndInv
<1> QED
  BY <1>3, <1>4, <1>5 DEF ReadIndices

(* Stepping over the padding reaches the oldest record. *)
LEMMA SkipPaddingInd ==
  ASSUME IndInv, SkipPadding
  PROVE  IndInv'
<1> DEFINE e == queue[1]
<1>1. /\ cpc = "peek" /\ AtPadding /\ tail' = Advance(tail, ToEnd(tail))
      /\ consumed' = consumed + ToEnd(tail) /\ cpc' = "begin" /\ chead' = 0
      /\ UNCHANGED <<head, mem, producer, ccap, cbuf, cresult, out, written, layouts, queue>>
  BY DEF SkipPadding
<1>2. queue # <<>>
  BY <1>1 DEF IndInv, Reading
<1>3. /\ consumed = e.pos /\ e.pos # e.start /\ e.start = e.pos + ToEnd(e.pos)
      /\ e.start \in Nat /\ e.pos \in Nat /\ e.pos <= e.start
      /\ End(e) \in Nat /\ End(e) <= written /\ e.start <= End(e)
      /\ 1 \in 1 .. Len(queue)
  <2>1. consumed = e.pos /\ e.pos # e.start
    BY <1>1, <1>2, AtPaddingMeans
  <2>2. RecordWords(e.msg.len) \in Nat
    BY <1>2, Oldest
  <2>3. End(e) = e.start + RecordWords(e.msg.len) /\ e.start \in Nat
    BY <1>2, Oldest
  <2> DEFINE w == RecordWords(e.msg.len)
             st == e.start
  <2>4. st + w \in Nat /\ st <= st + w
    <3>1. w \in Nat /\ st \in Nat
      BY <2>2, <2>3
    <3> HIDE DEF w, st
    <3> QED
      BY <3>1
  <2> QED
    BY <1>2, <2>1, <2>3, <2>4, Oldest
<1>4. ToEnd(tail) = ToEnd(consumed) /\ ToEnd(consumed) \in Nat
      /\ \A k \in Nat : Advance(tail, k) = (consumed + k) % IndexMod
  BY Indices, OffsetType, SizeType
<1>5. consumed' = e.start /\ tail' = consumed' % IndexMod /\ consumed' \in Nat
      /\ consumed <= consumed'
  BY <1>1, <1>3, <1>4
<1>6. tail' \in 0 .. IndexMod - 1 /\ 0 \in 0 .. IndexMod - 1
  BY <1>5, IndexOf, Constants
<1>7. consumed' <= written' /\ written' - consumed' <= Size
  <2> DEFINE c == consumed'
             st == e.start
             en == End(e)
  <2>1. /\ written \in Nat /\ consumed \in Nat /\ written - consumed <= Size
        /\ c \in Nat /\ consumed <= c /\ c = st /\ st <= en /\ en <= written
        /\ en \in Nat
    BY <1>3, <1>5, Indices
  <2> HIDE DEF c, st, en
  <2>2. c <= written /\ written - c <= Size
    BY <2>1, SizeType
  <2> QED
    BY <1>1, <2>2 DEF c
<1>8. TypeOK'
  BY <1>1, <1>5, <1>6 DEF IndInv, TypeOK, producer, Valid
<1>9. Layout'
  BY <1>1, <1>2, <1>5, <1>7 DEF IndInv, Layout, End
<1>10. RecordsIntact'
  <2>1. ASSUME NEW i \in 1 .. Len(queue), consumed' <= queue[i].pos
        PROVE  consumed <= queue[i].pos
    <3> DEFINE q == queue[i].pos
               c == consumed'
    <3>1. q \in Nat /\ c \in Nat /\ consumed \in Nat /\ consumed <= c /\ c <= q
      BY <1>5, <2>1, Entries, Indices
    <3> HIDE DEF q, c
    <3>2. consumed <= q
      BY <3>1
    <3> QED
      BY <3>2 DEF q
  <2> QED
    BY <1>1, <2>1 DEF IndInv, RecordsIntact
<1>11. Ordered'
  <2>1. ASSUME NEW i \in 1 .. Len(queue)
        PROVE  e.start <= queue[i].start
    <3>1. CASE i = 1
      BY <1>3, <3>1
    <3>2. CASE i # 1
      <4>1. 1 < i
        BY <2>1, <3>2
      <4>2. End(e) <= queue[i].pos /\ queue[i].pos <= queue[i].start
            /\ queue[i].pos \in Nat /\ queue[i].start \in Nat
        BY <1>3, <4>1, Entries DEF IndInv, Ordered
      <4> DEFINE a == e.start
                 b == End(e)
                 c == queue[i].pos
                 d == queue[i].start
      <4>3. a \in Nat /\ b \in Nat /\ c \in Nat /\ d \in Nat /\ a <= b /\ b <= c /\ c <= d
        BY <1>3, <4>2
      <4> HIDE DEF a, b, c, d
      <4>4. a <= d
        BY <4>3
      <4> QED
        BY <4>4 DEF a, d
    <3> QED
      BY <3>1, <3>2
  <2> QED
    BY <1>1, <1>5, <2>1 DEF IndInv, Ordered, End
<1>12. Writing'
  BY <1>1, <1>5, ReleaseWriting
<1>13. NeverCorrupt' /\ Reading'
  BY <1>1 DEF IndInv, NeverCorrupt, Reading
<1> QED
  BY <1>8, <1>9, <1>10, <1>11, <1>12, <1>13 DEF IndInv

(* The header the consumer finds is the oldest record's: never malformed. *)
LEMMA ReadHeaderInd ==
  ASSUME IndInv, ReadHeader
  PROVE  IndInv'
<1> DEFINE e == queue[1]
           n == mem[Offset(tail)][1]
           r == RecordWords(n)
<1>1. cpc = "peek" /\ ~AtPadding /\ UNCHANGED <<shared, producer, out, history>>
  BY DEF ReadHeader
<1>2. queue # <<>> /\ Used(chead, tail) >= End(e) - consumed
  BY <1>1 DEF IndInv, Reading
<1>3. /\ consumed = e.start /\ mem[Offset(tail)] = <<e.msg.len, e.msg.type>>
      /\ n = e.msg.len
  BY <1>1, <1>2, AtPaddingMeans
<1>4. /\ e.msg \in Messages /\ Valid(e.msg) /\ e.seq \in 0 .. MaxSends - 1
      /\ r \in Nat /\ r >= 2 /\ e.start \in Nat
      /\ End(e) = e.start + r /\ Offset(e.start) + r <= Size
      /\ 1 \in 1 .. Len(queue)
  BY <1>2, <1>3, Oldest
<1>5. mem[Offset(tail)] = RecordWord(e.msg, e.seq, 1) /\ mem[Offset(tail)] \in Word
  <2>1. 1 \in 1 .. r /\ mem[Offset(tail)] = RecordWord(e.msg, e.seq, 1)
    BY <1>3, <1>4 DEF RecordWord
  <2> QED
    BY <1>3, <1>4, <2>1, RecordWordType
<1>6. ~Malformed(n)
  <2>1. ~(n > MaxPayload)
    <3>1. n \in Nat /\ n <= MaxPayload /\ MaxPayload \in Nat
      BY <1>3, <1>4, MessageTypes, Constants DEF Valid
    <3> HIDE DEF n
    <3> QED
      BY <3>1
  <2>2. ToEnd(tail) = Size - Offset(e.start) /\ Offset(e.start) \in 0 .. Size - 1
    BY <1>3, <1>4, Indices, OffsetType
  <2> DEFINE o == Offset(e.start)
             st == e.start
             t == ToEnd(tail)
             u == Used(chead, tail)
             en == End(e)
  <2>3. /\ o \in 0 .. Size - 1 /\ t = Size - o /\ o + r <= Size /\ r \in Nat
        /\ st \in Nat /\ en = st + r /\ u >= en - st
    BY <1>2, <1>3, <1>4, <2>2
  <2>4. u \in Nat
    <3>1. chead \in Nat /\ tail \in Nat
      BY Constants DEF IndInv, TypeOK
    <3>2. chead - tail \in Int
      BY <3>1
    <3> QED
      BY <3>2, Constants, DivMod DEF Used
  <2> HIDE DEF o, st, t, u, en, r
  <2>5. ~(r > t) /\ ~(r > u)
    BY <2>3, <2>4, SizeType
  <2> QED
    BY <2>1, <2>5 DEF Malformed, r, t, u
<1>7. CASE n > ccap /\ ReadReturn("TOO_BIG")
  BY <1>1, <1>7, ReturnInd
<1>8. CASE cpc' = "copy" /\ cbuf' = <<mem[Offset(tail)]>> /\ UNCHANGED <<ccap, chead, cresult>>
  <2>1. cbuf' \in Seq(Word) /\ cbuf' # <<>> /\ Len(cbuf') = 1
        /\ cbuf'[1] = RecordWord(e.msg, e.seq, 1)
    BY <1>5, <1>8
  <2>2. TypeOK'
    BY <1>1, <1>8, <2>1 DEF IndInv, TypeOK, shared, producer, history, Valid
  <2>3. (Layout /\ RecordsIntact /\ Ordered)'
    BY <1>1, FrameRing
  <2>4. Writing'
    BY <1>1, FrameWriting DEF shared, history
  <2>5. queue' = queue /\ consumed' = consumed
    BY <1>1 DEF history
  <2>6. Reading'
    <3>1. Len(cbuf') <= RecordWords(e.msg.len)
      BY <1>3, <1>4, <2>1
    <3>2. \A k \in 1 .. Len(cbuf') : cbuf'[k] = RecordWord(e.msg, e.seq, k)
      BY <2>1
    <3> HIDE DEF n, r
    <3> QED
      BY <1>2, <1>3, <1>8, <2>5, <3>1, <3>2 DEF Reading
  <2>7. NeverCorrupt'
    BY <1>8 DEF IndInv, NeverCorrupt
  <2> QED
    BY <2>2, <2>3, <2>4, <2>6, <2>7 DEF IndInv
<1> QED
  BY <1>6, <1>7, <1>8 DEF ReadHeader

(* What the consumer has loaded of the oldest record. *)
LEMMA CopyFacts ==
  ASSUME IndInv, cpc = "copy"
  PROVE  LET e == queue[1]
             r == RecordWords(e.msg.len)
         IN /\ queue # <<>> /\ consumed = e.start
            /\ cbuf \in Seq(Word) /\ cbuf # <<>>
            /\ RecordWords(cbuf[1][1]) = r
            /\ Len(cbuf) <= r
            /\ \A k \in 1 .. Len(cbuf) : cbuf[k] = RecordWord(e.msg, e.seq, k)
<1>1. /\ queue # <<>> /\ consumed = queue[1].start
      /\ Len(cbuf) <= RecordWords(queue[1].msg.len)
      /\ \A k \in 1 .. Len(cbuf) :
           cbuf[k] = RecordWord(queue[1].msg, queue[1].seq, k)
      /\ cbuf \in Seq(Word) /\ cbuf # <<>>
  BY DEF IndInv, Reading, TypeOK
<1>2. 1 \in 1 .. Len(cbuf)
  BY <1>1
<1>3. cbuf[1] = <<queue[1].msg.len, queue[1].msg.type>>
  BY <1>1, <1>2 DEF RecordWord
<1> QED
  BY <1>1, <1>3

(* Loading one word. *)
LEMMA LoadWordInd ==
  ASSUME IndInv, LoadWord
  PROVE  IndInv'
<1> DEFINE e == queue[1]
           r == RecordWords(e.msg.len)
           n == Len(cbuf)
<1>1. /\ cpc = "copy" /\ n < RecordWords(cbuf[1][1])
      /\ cbuf' = Append(cbuf, mem[Offset(tail) + n])
      /\ UNCHANGED <<shared, producer, cpc, ccap, chead, cresult, out, history>>
  BY DEF LoadWord
<1>2. /\ queue # <<>> /\ consumed = e.start /\ cbuf \in Seq(Word) /\ n \in Nat
      /\ n < r /\ \A k \in 1 .. n : cbuf[k] = RecordWord(e.msg, e.seq, k)
  BY <1>1, CopyFacts
<1>3. /\ r \in Nat /\ e.start \in Nat /\ e.msg \in Messages /\ e.seq \in 0 .. MaxSends - 1
      /\ \A k \in 1 .. r : mem[Offset(e.start) + k - 1] = RecordWord(e.msg, e.seq, k)
  BY <1>2, Oldest
<1>4. Offset(tail) = Offset(e.start) /\ Offset(e.start) \in 0 .. Size - 1
  BY <1>2, <1>3, Indices, OffsetType
<1> HIDE DEF r, n
<1>5. mem[Offset(tail) + n] = RecordWord(e.msg, e.seq, n + 1)
  <2>1. n + 1 \in 1 .. r /\ Offset(e.start) + (n + 1) - 1 = Offset(e.start) + n
    BY <1>2, <1>3, <1>4, SizeType
  <2> QED
    BY <1>3, <1>4, <2>1
<1>6. RecordWord(e.msg, e.seq, n + 1) \in Word
  <2>1. n + 1 \in 1 .. r
    BY <1>2, <1>3
  <2> QED
    BY <1>3, <2>1, RecordWordType DEF r
<1>7. /\ cbuf' \in Seq(Word) /\ cbuf' # <<>> /\ Len(cbuf') = n + 1 /\ n + 1 <= r
      /\ \A k \in 1 .. Len(cbuf') : cbuf'[k] = RecordWord(e.msg, e.seq, k)
  <2> DEFINE w == RecordWord(e.msg, e.seq, n + 1)
  <2>1. w \in Word /\ cbuf' = Append(cbuf, w)
    BY <1>1, <1>5, <1>6
  <2> HIDE DEF w
  <2>2. cbuf' \in Seq(Word) /\ cbuf' # <<>> /\ Len(cbuf') = n + 1 /\ cbuf'[n + 1] = w
        /\ \A k \in 1 .. n : cbuf'[k] = cbuf[k]
    BY <1>2, <2>1 DEF n
  <2>3. \A k \in 1 .. n + 1 : k \in 1 .. n \/ k = n + 1
    BY <1>2
  <2>4. n + 1 <= r
    BY <1>2, <1>3
  <2> QED
    BY <1>2, <2>2, <2>3, <2>4 DEF w
<1>8. TypeOK'
  BY <1>1, <1>7 DEF IndInv, TypeOK, shared, producer, history, Valid
<1>9. (Layout /\ RecordsIntact /\ Ordered)'
  BY <1>1, FrameRing
<1>10. Writing'
  BY <1>1, FrameWriting DEF shared, history
<1>11. queue' = queue /\ consumed' = consumed
  BY <1>1 DEF history
<1>12. NeverCorrupt' /\ Reading'
  BY <1>1, <1>2, <1>7, <1>11 DEF IndInv, NeverCorrupt, Reading, r
<1> QED
  BY <1>8, <1>9, <1>10, <1>12 DEF IndInv

(* Releasing a record leaves the others as they were. *)
LEMMA ReadPublishInd ==
  ASSUME IndInv, ReadPublish
  PROVE  /\ IndInv'
         /\ queue # <<>> /\ queue' = Tail(queue)
         /\ out' = [seq |-> queue[1].seq, msg |-> queue[1].msg]
<1> DEFINE e == queue[1]
           r == RecordWords(e.msg.len)
           n == Len(queue)
<1>1. /\ cpc = "copy" /\ Len(cbuf) = RecordWords(cbuf[1][1])
      /\ tail' = Advance(tail, Len(cbuf)) /\ out' = Decode(cbuf)
      /\ ReadReturn("OK") /\ consumed' = consumed + Len(cbuf)
      /\ queue' = (IF queue = <<>> THEN queue ELSE Tail(queue))
      /\ UNCHANGED <<head, mem, producer, written, layouts>>
  BY DEF ReadPublish
<1>2. /\ queue # <<>> /\ consumed = e.start /\ cbuf \in Seq(Word) /\ Len(cbuf) = r
      /\ \A k \in 1 .. Len(cbuf) : cbuf[k] = RecordWord(e.msg, e.seq, k)
  BY <1>1, CopyFacts
<1>3. /\ r \in Nat /\ r >= 2 /\ e.start \in Nat /\ e.msg \in Messages
      /\ e.seq \in 0 .. MaxSends - 1 /\ End(e) = e.start + r /\ End(e) <= written
      /\ 1 \in 1 .. n
  BY <1>2, Oldest
<1>4. out' = [seq |-> e.seq, msg |-> e.msg]
  BY <1>1, <1>2, <1>3, DecodeRecord
<1>5. queue \in Seq(Entry) /\ n \in Nat /\ n >= 1
  BY <1>2, <1>3 DEF IndInv, TypeOK
<1>6. /\ queue' = Tail(queue) /\ queue' \in Seq(Entry) /\ Len(queue') = n - 1
      /\ \A i \in 1 .. n - 1 : queue'[i] = queue[i + 1]
  BY <1>1, <1>2, <1>5
<1> HIDE DEF r
<1>7. consumed' = End(e) /\ consumed' \in Nat /\ consumed <= consumed'
  BY <1>1, <1>2, <1>3
<1>8. tail' = consumed' % IndexMod /\ tail' \in 0 .. IndexMod - 1
  <2>1. tail' = (consumed + r) % IndexMod
    BY <1>1, <1>2, <1>3, Indices
  <2> QED
    BY <1>1, <1>2, <1>7, <2>1, IndexOf
<1>9. cpc' = "idle" /\ cresult' = "OK" /\ ccap' = 0 /\ chead' = 0 /\ cbuf' = <<>>
  BY <1>1 DEF ReadReturn
<1>10. TypeOK'
  <2>1. 0 \in 0 .. Half - 1 /\ 0 \in 0 .. IndexMod - 1 /\ <<>> \in Seq(Word)
    BY HalfType, Constants
  <2> QED
    BY <1>1, <1>6, <1>7, <1>8, <1>9, <2>1 DEF IndInv, TypeOK, producer, Valid
<1>11. consumed' <= written' /\ written' - consumed' <= Size
  <2> DEFINE c == consumed'
             en == End(e)
  <2>1. /\ written \in Nat /\ consumed \in Nat /\ written - consumed <= Size
        /\ c \in Nat /\ consumed <= c /\ c = en /\ en <= written
    BY <1>3, <1>7, Indices
  <2> HIDE DEF c, en
  <2>2. c <= written /\ written - c <= Size
    BY <2>1, SizeType
  <2> QED
    BY <1>1, <2>2 DEF c
<1>12. \A i \in 1 .. Len(queue') : i + 1 \in 1 .. n /\ queue'[i] = queue[i + 1]
  BY <1>5, <1>6
<1>13. Layout'
  <2>1. queue' = <<>> => consumed' = written'
    <3>1. n = 1 => End(e) = written
      BY <1>2 DEF IndInv, Layout
    <3>2. queue' = <<>> => n = 1
      <4>1. ASSUME queue' = <<>> PROVE Len(queue') = 0
        BY <4>1
      <4>2. Len(queue') = 0 => n = 1
        <5> HIDE DEF n
        <5> QED
          BY <1>5, <1>6
      <4> QED
        BY <4>1, <4>2
    <3> QED
      BY <1>1, <1>7, <3>1, <3>2
  <2>2. ASSUME queue' # <<>>
        PROVE  consumed' \in {queue'[1].pos, queue'[1].start}
               /\ End(queue'[Len(queue')]) = written'
    <3>1. Len(queue') >= 1 /\ n >= 2
      BY <1>5, <1>6, <2>2
    <3>2. queue'[1] = queue[2] /\ queue'[Len(queue')] = queue[n]
      BY <1>5, <1>6, <1>12, <3>1
    <3>3. queue[2].pos = End(e)
      <4>1. 1 < Len(queue) /\ queue[1 + 1].pos = End(queue[1])
        BY <1>3, <1>5, <3>1 DEF IndInv, Layout
      <4> QED
        BY <4>1
    <3>4. End(queue[n]) = written
      BY <1>2 DEF IndInv, Layout
    <3> QED
      BY <1>1, <1>7, <3>2, <3>3, <3>4
  <2>3. ASSUME NEW i \in 1 .. Len(queue')
        PROVE  /\ queue'[i].start = queue'[i].pos
                      + Padding(queue'[i].pos, RecordWords(queue'[i].msg.len))
               /\ Offset(queue'[i].start) + RecordWords(queue'[i].msg.len) <= Size
               /\ i < Len(queue') => queue'[i + 1].pos = End(queue'[i])
    <3>1. i + 1 \in 1 .. n /\ queue'[i] = queue[i + 1]
      BY <1>12, <2>3
    <3>2. i < Len(queue') => i + 1 < n /\ queue'[i + 1] = queue[(i + 1) + 1]
      <4>1. i < Len(queue') => i + 1 \in 1 .. Len(queue')
        BY <1>5, <1>6, <2>3
      <4> QED
        BY <1>5, <1>6, <1>12, <2>3, <4>1
    <3> QED
      BY <3>1, <3>2 DEF IndInv, Layout
  <2> QED
    BY <1>1, <1>8, <1>11, <2>1, <2>2, <2>3 DEF IndInv, Layout, End
<1>14. RecordsIntact'
  <2>1. ASSUME NEW i \in 1 .. Len(queue'), consumed' <= queue'[i].pos
        PROVE  consumed <= queue[i + 1].pos
    <3> DEFINE q == queue[i + 1].pos
               c == consumed'
    <3>1. q \in Nat /\ c \in Nat /\ consumed \in Nat /\ consumed <= c /\ c <= q
      BY <1>7, <1>12, <2>1, Entries, Indices
    <3> HIDE DEF q, c
    <3>2. consumed <= q
      BY <3>1
    <3> QED
      BY <3>2 DEF q
  <2>2. ASSUME NEW i \in 1 .. Len(queue')
        PROVE  /\ queue'[i].pos # queue'[i].start /\ consumed' <= queue'[i].pos =>
                    mem[Offset(queue'[i].pos)][2] = PadType
               /\ \A k \in 1 .. RecordWords(queue'[i].msg.len) :
                    mem[Offset(queue'[i].start) + k - 1]
                      = RecordWord(queue'[i].msg, queue'[i].seq, k)
    BY <1>12, <2>1 DEF IndInv, RecordsIntact
  <2> QED
    BY <1>1, <2>2 DEF RecordsIntact
<1>15. Ordered'
  <2>1. ASSUME NEW i \in 1 .. Len(queue')
        PROVE  /\ consumed' <= queue'[i].start /\ queue'[i].pos <= queue'[i].start
               /\ End(queue'[i]) <= written
               /\ \A j \in 1 .. Len(queue') : i < j => End(queue'[i]) <= queue'[j].pos
    <3>1. i + 1 \in 1 .. n /\ queue'[i] = queue[i + 1] /\ 1 < i + 1
      BY <1>12, <2>1
    <3>2. consumed' <= queue[i + 1].start
      <4>1. End(e) <= queue[i + 1].pos
        BY <1>3, <3>1 DEF IndInv, Ordered
      <4> DEFINE a == consumed'
                 b == queue[i + 1].pos
                 c == queue[i + 1].start
      <4>2. a \in Nat /\ b \in Nat /\ c \in Nat /\ a <= b /\ b <= c
        BY <1>7, <3>1, <4>1, Entries
      <4> HIDE DEF a, b, c
      <4>3. a <= c
        BY <4>2
      <4> QED
        BY <4>3 DEF a, c
    <3>3. ASSUME NEW j \in 1 .. Len(queue'), i < j
          PROVE  End(queue'[i]) <= queue'[j].pos
      <4>1. j + 1 \in 1 .. n /\ queue'[j] = queue[j + 1] /\ i + 1 < j + 1
        BY <1>12, <3>3
      <4> QED
        BY <3>1, <4>1 DEF IndInv, Ordered
    <3> QED
      BY <3>1, <3>2, <3>3, Entries
  <2> QED
    BY <1>1, <2>1 DEF Ordered, End
<1>16. Writing'
  BY <1>1, <1>7, ReleaseWriting
<1>17. NeverCorrupt' /\ Reading'
  BY <1>9 DEF NeverCorrupt, Reading
<1> QED
  BY <1>2, <1>4, <1>6, <1>10, <1>13, <1>14, <1>15, <1>16, <1>17 DEF IndInv

(* Laying the ring out again. *)
LEMMA ReinitInd ==
  ASSUME IndInv, Reinit
  PROVE  IndInv'
<1>1. /\ head' = 0 /\ tail' = 0 /\ seq' = 0 /\ ppc' = "idle" /\ ppos' = 0 /\ pcount' = 0
      /\ cpc' = "idle" /\ ccap' = 0 /\ chead' = 0 /\ cbuf' = <<>> /\ cresult' = "none"
      /\ written' = 0 /\ consumed' = 0 /\ queue' = <<>> /\ mem' = mem
      /\ layouts < MaxLayouts /\ layouts' = layouts + 1
  BY DEF Reinit
<1>2. 0 \in 0 .. IndexMod - 1 /\ 0 \in 0 .. MaxSends /\ 0 \in 0 .. Half - 1
      /\ MaxLayouts \in Nat
  BY Constants, HalfType, RingAssumption
<1>3. layouts' \in 0 .. MaxLayouts
  BY <1>1, <1>2 DEF IndInv, TypeOK
<1>4. TypeOK'
  BY <1>1, <1>2, <1>3 DEF IndInv, TypeOK
<1>5. 0 % IndexMod = 0
  BY Constants
<1>6. Layout'
  BY <1>1, <1>5, SizeType DEF Layout
<1>7. (RecordsIntact /\ NeverCorrupt /\ Ordered /\ Writing /\ Reading)'
  BY <1>1 DEF RecordsIntact, NeverCorrupt, Ordered, Writing, Reading
<1> QED
  BY <1>4, <1>6, <1>7 DEF IndInv

-----------------------------------------------------------------------------
(* A step that changes nothing. *)
LEMMA FrameAll == ASSUME IndInv, UNCHANGED vars PROVE IndInv'
<1>1. (Layout /\ RecordsIntact /\ Ordered)'
  BY FrameRing DEF vars
<1>2. Writing' /\ Reading'
  BY FrameWriting, FrameReading DEF vars, shared, consumer, history
<1>3. TypeOK' /\ NeverCorrupt'
  BY DEF IndInv, TypeOK, NeverCorrupt, Valid, vars, shared, producer, consumer, history
<1> QED
  BY <1>1, <1>2, <1>3 DEF IndInv

(* Every step of either core, and of a new layout, keeps the invariant.    *)
LEMMA NextInd ==
  ASSUME IndInv, [Next]_vars
  PROVE  IndInv'
<1>1. CASE Produce
  <2>1. CASE \E m \in Messages : WriteStart(m)
    BY <2>1, WriteStartInd
  <2>2. CASE UNCHANGED vars
    BY <2>2, FrameAll
  <2>3. CASE WritePad \/ StoreWord \/ WritePublish
    BY <2>3, WritePadInd, StoreWordInd, WritePublishInd
  <2> QED
    BY <1>1, <2>1, <2>2, <2>3 DEF Produce, WriteRefused
<1>2. CASE Consume
  BY <1>2, ReadCallInd, ReadIndicesInd, SkipPaddingInd, ReadHeaderInd, LoadWordInd,
     ReadPublishInd DEF Consume
<1>3. CASE Reinit
  BY <1>3, ReinitInd
<1>4. CASE UNCHANGED vars
  BY <1>4, FrameAll
<1> QED
  BY <1>1, <1>2, <1>3, <1>4 DEF Next

(* The inductive invariant holds of every state reached, for every size of *)
(* the ring and every interleaving of the two cores.                       *)
THEOREM Inductive == Spec => []IndInv
<1>1. Init => IndInv
  BY InitInd
<1>2. IndInv /\ [Next]_vars => IndInv'
  BY NextInd
<1> QED
  BY <1>1, <1>2, PTL DEF Spec

(* The variables keep their types. *)
THEOREM TypeCorrect == Spec => []TypeOK
<1>1. IndInv => TypeOK
  BY DEF IndInv
<1> QED
  BY <1>1, Inductive, PTL

(* Queued records tile the unread part of the data area and none straddles *)
(* its end: the producer never overwrites a record not yet released.       *)
THEOREM LayoutCorrect == Spec => []Layout
<1>1. IndInv => Layout
  BY DEF IndInv
<1> QED
  BY <1>1, Inductive, PTL

(* Every queued word stays as written until the consumer releases it. *)
THEOREM RecordsStayIntact == Spec => []RecordsIntact
<1>1. IndInv => RecordsIntact
  BY DEF IndInv
<1> QED
  BY <1>1, Inductive, PTL

(* satlink_ring_read never returns CORRUPT on a ring only satlink_ring_write *)
(* and satlink_ring_read have touched.                                       *)
THEOREM ReaderNeverCorrupt == Spec => []NeverCorrupt
<1>1. IndInv => NeverCorrupt
  BY DEF IndInv
<1> QED
  BY <1>1, Inductive, PTL

(* Bytes in use are a message to read: padding is only ever published with *)
(* the record behind it.                                                   *)
THEOREM ReadableWhenUsed == Spec => []UsedMeansReadable
<1>1. ASSUME IndInv PROVE UsedMeansReadable
  <2>1. queue = <<>> => head = tail
    BY <1>1 DEF IndInv, Layout
  <2>2. ASSUME queue # <<>> PROVE head # tail
    <3> DEFINE e == queue[1]
               r == RecordWords(e.msg.len)
               st == e.start
               en == End(e)
    <3>1. /\ r \in Nat /\ r >= 2 /\ st \in Nat /\ en = st + r /\ en <= written
          /\ consumed <= st
      BY <1>1, <2>2, Oldest, Entries
    <3>2. /\ written \in Nat /\ consumed \in Nat
          /\ Used(head, tail) = written - consumed
      BY <1>1, Indices
    <3> HIDE DEF e, r, st, en
    <3>3. written - consumed # 0
      BY <3>1, <3>2
    <3>4. head \in Nat /\ IndexMod \in Nat /\ IndexMod > 0
      BY <1>1, Constants DEF IndInv, TypeOK
    <3>5. Used(head, head) = 0
      BY <3>4 DEF Used
    <3> QED
      BY <3>2, <3>3, <3>5
  <2> QED
    BY <2>1, <2>2 DEF UsedMeansReadable
<1> QED
  BY <1>1, Inductive, PTL

(* A ring with nothing queued takes any message of a legal size: half the  *)
(* data area holds the largest record, so its padding and it fit together. *)
THEOREM EmptyAlwaysAccepts == Spec => []EmptyRingAccepts
<1>1. ASSUME IndInv PROVE EmptyRingAccepts
  <2> SUFFICES ASSUME head = tail, NEW m \in Messages, Valid(m) PROVE Fits(m)
    BY DEF EmptyRingAccepts
  <2> DEFINE r == RecordWords(m.len)
             pad == Padding(head, r)
  <2>1. r \in Nat /\ r >= 2 /\ Size >= 2 * r
    <3>1. r <= RecordWords(MaxPayload)
      BY MessageTypes, Constants, RecordSizeMonotonic DEF Valid
    <3>2. RecordWords(MaxPayload) \in Nat /\ Size >= 2 * RecordWords(MaxPayload)
      BY Constants, RecordSize
    <3>3. r \in Nat /\ r >= 2
      BY MessageTypes
    <3> DEFINE p == RecordWords(MaxPayload)
    <3> HIDE DEF r, p
    <3>4. p \in Nat /\ Size >= 2 * p /\ r <= p
      BY <3>1, <3>2 DEF p
    <3> QED
      BY <3>3, <3>4, SizeType
  <2>2. head \in Nat /\ IndexMod \in Nat /\ IndexMod > 0
    BY <1>1, Constants DEF IndInv, TypeOK
  <2>3. Used(head, tail) = 0
    BY <2>2 DEF Used
  <2>4. ToEnd(head) \in 1 .. Size
    BY <2>2, OffsetType
  <2>5. pad + r <= Size
    <3>1. pad = 0 \/ (pad = ToEnd(head) /\ r > ToEnd(head))
      BY DEF Padding
    <3> DEFINE t == ToEnd(head)
    <3> HIDE DEF r, t, pad
    <3>2. t \in 1 .. Size /\ (pad = 0 \/ (pad = t /\ r > t))
      BY <2>4, <3>1 DEF t
    <3> QED
      BY <2>1, <3>2, SizeType
  <2> HIDE DEF pad, r
  <2>6. pad + r <= Size - Used(head, tail)
    BY <2>3, <2>5, SizeType
  <2> QED
    BY <2>6 DEF Fits, pad, r
<1> QED
  BY <1>1, Inductive, PTL

-----------------------------------------------------------------------------
(* The queue of MsgQueue: the entries without their places. *)
AbsQueue == [i \in 1 .. Len(queue) |-> [seq |-> queue[i].seq, msg |-> queue[i].msg]]

(* Appending a record appends its message. *)
LEMMA AbsAppend ==
  ASSUME queue \in Seq(Entry), NEW e \in Entry, queue' = Append(queue, e)
  PROVE  AbsQueue' = Append(AbsQueue, [seq |-> e.seq, msg |-> e.msg])
<1> DEFINE n == Len(queue)
           F(x) == [seq |-> x.seq, msg |-> x.msg]
<1>1. /\ n \in Nat /\ Len(queue') = n + 1 /\ queue'[n + 1] = e
      /\ \A i \in 1 .. n : queue'[i] = queue[i]
  OBVIOUS
<1>2. AbsQueue = [i \in 1 .. n |-> F(queue[i])]
      /\ AbsQueue' = [i \in 1 .. n + 1 |-> F(queue'[i])]
  BY <1>1 DEF AbsQueue
<1> DEFINE a == [i \in 1 .. n |-> F(queue[i])]
           b == [i \in 1 .. n + 1 |-> F(queue'[i])]
           R == {F(x) : x \in Entry}
<1>3. a \in Seq(R) /\ Len(a) = n /\ F(e) \in R
  <2>1. \A i \in 1 .. n : F(queue[i]) \in R
    <3> SUFFICES ASSUME NEW i \in 1 .. n PROVE F(queue[i]) \in R
      OBVIOUS
    <3>1. queue[i] \in Entry
      OBVIOUS
    <3> QED
      BY <3>1
  <2> HIDE DEF F, R, n
  <2>2. a \in [1 .. n -> R]
    BY <2>1
  <2>3. F(e) \in R
    BY DEF R
  <2> QED
    BY <1>1, <2>2, <2>3
<1>4. /\ DOMAIN b = 1 .. n + 1 /\ b[n + 1] = F(e)
      /\ \A i \in 1 .. n : b[i] = a[i]
  <2> HIDE DEF F, n
  <2>1. n + 1 \in 1 .. n + 1 /\ \A i \in 1 .. n : i \in 1 .. n + 1
    BY <1>1
  <2> QED
    BY <1>1, <2>1
<1>5. Append(a, F(e)) \in [1 .. n + 1 -> R]
      /\ Append(a, F(e))[n + 1] = F(e)
      /\ \A i \in 1 .. n : Append(a, F(e))[i] = a[i]
  <2> DEFINE c == Append(a, F(e))
  <2> HIDE DEF a, F, R, n
  <2>1. c \in Seq(R) /\ Len(c) = n + 1 /\ c[n + 1] = F(e) /\ \A i \in 1 .. n : c[i] = a[i]
    BY <1>1, <1>3
  <2> HIDE DEF c
  <2>2. c \in [1 .. n + 1 -> R]
    BY <1>1, <2>1
  <2> QED
    BY <2>1, <2>2 DEF c
<1>6. \A i \in 1 .. n + 1 : i \in 1 .. n \/ i = n + 1
  BY <1>1
<1> HIDE DEF F, R, n
<1>7. b \in [1 .. n + 1 -> {b[i] : i \in 1 .. n + 1}]
  OBVIOUS
<1> HIDE DEF a, b
<1>8. \A i \in 1 .. n + 1 : b[i] = Append(a, F(e))[i]
  BY <1>4, <1>5, <1>6
<1>9. b = [i \in 1 .. n + 1 |-> b[i]]
  BY <1>7
<1>10. Append(a, F(e)) = [i \in 1 .. n + 1 |-> Append(a, F(e))[i]]
  BY <1>5
<1> QED
  BY <1>2, <1>8, <1>9, <1>10 DEF a, b, F

(* Releasing the oldest record removes the oldest message. *)
LEMMA AbsTail ==
  ASSUME queue \in Seq(Entry), queue # <<>>, queue' = Tail(queue)
  PROVE  /\ AbsQueue' = Tail(AbsQueue) /\ AbsQueue # <<>>
         /\ Head(AbsQueue) = [seq |-> queue[1].seq, msg |-> queue[1].msg]
<1> DEFINE n == Len(queue)
           F(x) == [seq |-> x.seq, msg |-> x.msg]
<1>1. /\ n \in Nat /\ n >= 1 /\ Len(queue') = n - 1
      /\ \A i \in 1 .. n - 1 : queue'[i] = queue[i + 1]
  OBVIOUS
<1> DEFINE a == [i \in 1 .. n |-> F(queue[i])]
           b == [i \in 1 .. n - 1 |-> F(queue'[i])]
           R == {F(x) : x \in Entry}
<1>2. AbsQueue = a /\ AbsQueue' = b
  BY <1>1 DEF AbsQueue
<1>3. a \in Seq(R) /\ Len(a) = n /\ a # <<>>
  <2>1. \A i \in 1 .. n : F(queue[i]) \in R
    <3> SUFFICES ASSUME NEW i \in 1 .. n PROVE F(queue[i]) \in R
      OBVIOUS
    <3>1. queue[i] \in Entry
      OBVIOUS
    <3> QED
      BY <3>1
  <2> HIDE DEF F, R, n
  <2>2. a \in [1 .. n -> R]
    BY <2>1
  <2> QED
    BY <1>1, <2>2
<1>4. \A i \in 1 .. n - 1 : i + 1 \in 1 .. n
  BY <1>1
<1>5. \A i \in 1 .. n - 1 : b[i] = a[i + 1]
  <2> HIDE DEF F, n
  <2> QED
    BY <1>1, <1>4
<1>6. Tail(a) \in [1 .. n - 1 -> R] /\ \A i \in 1 .. n - 1 : Tail(a)[i] = a[i + 1]
  <2> DEFINE c == Tail(a)
  <2> HIDE DEF a, F, R, n
  <2>1. c \in Seq(R) /\ Len(c) = n - 1 /\ \A i \in 1 .. n - 1 : c[i] = a[i + 1]
    BY <1>1, <1>3
  <2> HIDE DEF c
  <2>2. c \in [1 .. n - 1 -> R]
    BY <1>1, <2>1
  <2> QED
    BY <2>1, <2>2 DEF c
<1>7. Head(a) = F(queue[1])
  <2>1. 1 \in 1 .. n
    BY <1>1
  <2> HIDE DEF F, n
  <2>2. a[1] = F(queue[1])
    BY <2>1
  <2> QED
    BY <1>3, <2>2
<1> HIDE DEF F, R, n
<1>8. b = [i \in 1 .. n - 1 |-> b[i]]
  OBVIOUS
<1> HIDE DEF a, b
<1>9. Tail(a) = [i \in 1 .. n - 1 |-> Tail(a)[i]]
  BY <1>6
<1> QED
  BY <1>2, <1>3, <1>5, <1>6, <1>7, <1>8, <1>9 DEF F

(* The ring implements the FIFO queue: what satlink_ring_read returns is   *)
(* what satlink_ring_write was given, whole, once and in order.            *)
THEOREM ImplementsQueue == Spec => QueueSpec
<1>1. Init => Queue!Init
  BY DEF Init, Queue!Init, NoMessage, Queue!NoMessage
<1>2. ASSUME IndInv, [Next]_vars
      PROVE  [Queue!Next]_(Queue!vars)
  <2>1. queue \in Seq(Entry)
    BY <1>2 DEF IndInv, TypeOK
  <2>2. ASSUME UNCHANGED <<seq, queue, out>> PROVE UNCHANGED Queue!vars
    BY <2>2 DEF Queue!vars
  <2>3. CASE WritePublish
    <3> DEFINE e == [pos |-> written,
                     start |-> written + Padding(written, RecordWords(pmsg.len)),
                     seq |-> seq, msg |-> pmsg]
    <3>1. queue' = Append(queue, e)
      BY <1>2, <2>3, WritePublishInd
    <3>2. /\ pmsg \in Messages /\ Valid(pmsg) /\ seq \in 0 .. MaxSends - 1
          /\ written \in Nat /\ written + Padding(written, RecordWords(pmsg.len)) \in Nat
      <4>1. ppc = "store"
        BY <2>3 DEF WritePublish
      <4> DEFINE pad == Padding(written, RecordWords(pmsg.len))
      <4>2. pmsg \in Messages /\ Valid(pmsg) /\ seq \in 0 .. MaxSends - 1 /\ pad \in Nat
        BY <1>2, <4>1, WritingFacts
      <4>3. written \in Nat
        BY <1>2, Indices
      <4> HIDE DEF pad
      <4>4. written + pad \in Nat
        BY <4>2, <4>3
      <4> QED
        BY <4>2, <4>3, <4>4 DEF pad
    <3>3. e \in Entry /\ e.seq = seq /\ e.msg = pmsg
      BY <3>2 DEF Entry
    <3> HIDE DEF e
    <3>4. AbsQueue' = Append(AbsQueue, [seq |-> seq, msg |-> pmsg])
      BY <2>1, <3>1, <3>3, AbsAppend
    <3>5. seq' = seq + 1 /\ out' = out
      BY <2>3 DEF WritePublish, consumer
    <3>6. pmsg \in {m \in Messages : Valid(m)}
      BY <3>2
    <3>7. PICK m \in {m \in Messages : Valid(m)} : m = pmsg
      BY <3>6
    <3>8. Queue!Send(m)
      BY <3>4, <3>5, <3>7 DEF Queue!Send, AbsQueue
    <3>9. Queue!Next
      BY <3>7, <3>8 DEF Queue!Next
    <3> QED
      BY <3>9
  <2>4. CASE ReadPublish
    <3>1. /\ queue # <<>> /\ queue' = Tail(queue)
          /\ out' = [seq |-> queue[1].seq, msg |-> queue[1].msg]
      BY <1>2, <2>4, ReadPublishInd
    <3>2. AbsQueue' = Tail(AbsQueue) /\ AbsQueue # <<>> /\ Head(AbsQueue) = out'
      BY <2>1, <3>1, AbsTail
    <3>3. seq' = seq
      BY <2>4 DEF ReadPublish, producer
    <3>4. Queue!Receive
      BY <3>2, <3>3 DEF Queue!Receive, AbsQueue
    <3> QED
      BY <3>4 DEF Queue!Next
  <2>5. CASE Reinit
    <3>1. queue' = <<>> /\ seq' = 0 /\ out' = out
      BY <2>5 DEF Reinit
    <3>2. Queue!Clear
      BY <3>1 DEF Queue!Clear
    <3> QED
      BY <3>2 DEF Queue!Next
  <2>6. CASE \E m \in Messages : WriteRefused(m) \/ WriteStart(m)
    BY <2>2, <2>6 DEF WriteRefused, WriteStart, vars, producer, consumer, history
  <2>7. CASE WritePad \/ StoreWord
    BY <2>2, <2>7 DEF WritePad, StoreWord, consumer, history
  <2>8. CASE \E cap \in Caps : ReadCall(cap)
    BY <2>2, <2>8 DEF ReadCall, producer, history
  <2>9. CASE ReadIndices \/ SkipPadding \/ ReadHeader \/ LoadWord
    BY <2>2, <2>9 DEF ReadIndices, SkipPadding, ReadHeader, LoadWord, producer, history
  <2>10. CASE UNCHANGED vars
    BY <2>2, <2>10 DEF vars, producer, consumer, history
  <2> QED
    BY <1>2, <2>3, <2>4, <2>5, <2>6, <2>7, <2>8, <2>9, <2>10
       DEF Next, Produce, Consume
<1> QED
  BY <1>1, <1>2, Inductive, PTL DEF Spec, QueueSpec, Queue!Spec
=============================================================================
