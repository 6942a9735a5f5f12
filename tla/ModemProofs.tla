----------------------------- MODULE ModemProofs -----------------------------
(***************************************************************************)
(* What the modem of Core 1 promises.  Its sample path, for any number of  *)
(* buffers and any failures: task and DMA engine never share a buffer, and *)
(* the streams of both directions stay in order.  Its ACM controller, for  *)
(* every table of thresholds, margin, hysteresis and hold count.  And what *)
(* the payload manager makes of the modem's STATUS: it feeds no frame on   *)
(* the lock of a link that is gone.                                        *)
(***************************************************************************)
EXTENDS Core1, Downlink, WellFoundedInduction, TLAPS

-----------------------------------------------------------------------------
(* The ACM controller.                                                     *)

(* The controller keeps to its bounds. *)
InBounds(a) == a \in Controller /\ a.min <= a.current /\ a.current <= a.max

-----------------------------------------------------------------------------
(* A set of numbers with an upper bound has a largest member. *)
LEMMA MaxExists ==
  ASSUME NEW S \in SUBSET Nat, S # {}, NEW n \in Nat, \A x \in S : x <= n
  PROVE  Max(S) \in S /\ \A y \in S : y <= Max(S)
<1> DEFINE T == {n - x : x \in S}
           R == OpToRel(<, Nat)
<1>1. T \subseteq Nat /\ T # {}
  OBVIOUS
<1>2. PICK t \in T : \A y \in T : ~(<<y, t>> \in R)
  <2> HIDE DEF T
  <2> QED
    BY <1>1, NatLessThanWellFounded, WFMin
<1>3. PICK x \in S : t = n - x
  BY <1>2
<1>4. \A y \in S : x >= y
  <2> SUFFICES ASSUME NEW y \in S PROVE x >= y
    OBVIOUS
  <2>1. n - y \in T /\ n - y \in Nat /\ t \in Nat
    BY <1>1, <1>2
  <2>2. ~(<<n - y, t>> \in R)
    BY <1>2, <2>1
  <2>3. ~(n - y < t)
    BY <2>1, <2>2 DEF OpToRel
  <2> QED
    BY <1>3, <2>3
<1>5. \E m \in S : \A y \in S : m >= y
  BY <1>4
<1> QED
  BY <1>5 DEF Max

(* The MODCODs between two of them are MODCODs, numbered from 0.           *)
LEMMA ModcodsAreNumbers ==
  \A m \in Modcods : m \in Nat /\ \A n \in 0 .. m : n \in Modcods
BY AcmAssumption

LEMMA Fields ==
  ASSUME NEW a, InBounds(a)
  PROVE  /\ a.current \in Modcods /\ a.min \in Modcods /\ a.max \in Modcods
         /\ a.current \in Nat /\ a.min \in Nat /\ a.max \in Nat /\ a.good \in Nat
         /\ a.min <= a.current /\ a.current <= a.max
         /\ \A m \in a.min .. a.max : m \in Modcods
<1>1. a.current \in Modcods /\ a.min \in Modcods /\ a.max \in Modcods /\ a.good \in 0 .. UpHold
  BY DEF InBounds, Controller
<1>2. a.current \in Nat /\ a.min \in Nat /\ a.max \in Nat /\ a.good \in Nat
  BY <1>1, ModcodsAreNumbers, AcmAssumption
<1>3. a.min <= a.current /\ a.current <= a.max
  BY DEF InBounds
<1>4. \A m \in a.min .. a.max : m \in 0 .. a.max
  BY <1>2
<1> QED
  BY <1>1, <1>2, <1>3, <1>4, ModcodsAreNumbers

(* satlink_acm_target returns the most efficient MODCOD within the bounds  *)
(* that the measurement carries, and the lower bound when it carries none. *)
THEOREM TargetIsBest ==
  ASSUME NEW a, InBounds(a), NEW e \in Int
  PROVE  /\ Target(a, e) \in a.min .. a.max
         /\ Target(a, e) = a.min \/ Supported(Target(a, e), e)
         /\ \A m \in a.min .. a.max : Supported(m, e) => m <= Target(a, e)
<1> DEFINE S == {a.min} \cup {m \in a.min .. a.max : Supported(m, e)}
<1>1. a.min \in Nat /\ a.max \in Nat /\ a.min <= a.max
  BY Fields
<1>2. S \in SUBSET Nat /\ S # {} /\ \A x \in S : x <= a.max
  BY <1>1
<1>3. Max(S) \in S /\ \A y \in S : y <= Max(S)
  <2> HIDE DEF S
  <2> QED
    BY <1>1, <1>2, MaxExists
<1>4. Target(a, e) = Max(S)
  BY DEF Target
<1> QED
  BY <1>1, <1>3, <1>4

(* The four ways an update can go. *)
LEMMA UpdateCases ==
  ASSUME NEW a, InBounds(a), NEW e \in Int, NEW locked \in BOOLEAN
  PROVE  \/ ~locked /\ Update(a, e, locked) = Jump(a, a.min)
         \/ /\ locked /\ ~Supported(a.current, e)
            /\ Update(a, e, locked) =
                 Jump(a, IF Target(a, e) < a.current THEN Target(a, e) ELSE a.current)
         \/ /\ locked /\ Supported(a.current, e)
            /\ \/ Update(a, e, locked) = a
               \/ Update(a, e, locked) = [a EXCEPT !.good = 0]
               \/ /\ a.good + 1 < UpHold
                  /\ Update(a, e, locked) = [a EXCEPT !.good = @ + 1]
         \/ /\ locked /\ Supported(a.current, e) /\ a.current # a.max
            /\ Threshold[a.current + 1] + Margin + Hysteresis <= e
            /\ a.good + 1 >= UpHold
            /\ Update(a, e, locked) = Jump(a, a.current + 1)
<1>1. CASE ~locked
  BY <1>1 DEF Update
<1>2. CASE locked /\ ~Supported(a.current, e)
  BY <1>2 DEF Update
<1>3. CASE locked /\ Supported(a.current, e) /\ a.current = a.max
  BY <1>3 DEF Update
<1>4. CASE locked /\ Supported(a.current, e) /\ a.current # a.max
  <2> DEFINE next == Threshold[a.current + 1] + Margin + Hysteresis
  <2>1. a.current + 1 \in Modcods
    BY <1>4, Fields
  <2>2. next \in Int
    BY <2>1, AcmAssumption
  <2>3. a.good \in Nat
    BY Fields
  <2>4. Update(a, e, locked) =
          IF next > e THEN [a EXCEPT !.good = 0]
          ELSE IF a.good + 1 >= UpHold THEN Jump(a, a.current + 1)
          ELSE [a EXCEPT !.good = @ + 1]
    BY <1>4 DEF Update
  <2>5. CASE next > e
    BY <1>4, <2>4, <2>5
  <2>6. CASE ~(next > e) /\ a.good + 1 >= UpHold
    <3>1. next <= e
      BY <2>2, <2>6
    <3>2. Update(a, e, locked) = Jump(a, a.current + 1)
      BY <2>4, <2>6
    <3> QED
      BY <1>4, <2>6, <3>1, <3>2
  <2>7. CASE ~(next > e) /\ ~(a.good + 1 >= UpHold)
    <3>1. a.good + 1 < UpHold
      BY <2>3, <2>7, AcmAssumption
    <3>2. Update(a, e, locked) = [a EXCEPT !.good = @ + 1]
      BY <2>4, <2>7
    <3> QED
      BY <1>4, <3>1, <3>2
  <2> QED
    BY <2>5, <2>6, <2>7
<1> QED
  BY <1>1, <1>2, <1>3, <1>4

(* An update never leaves the bounds, which it does not change.            *)
THEOREM UpdateInBounds ==
  ASSUME NEW a, InBounds(a), NEW e \in Int, NEW locked \in BOOLEAN
  PROVE  /\ InBounds(Update(a, e, locked))
         /\ Update(a, e, locked).min = a.min /\ Update(a, e, locked).max = a.max
<1> DEFINE b == Update(a, e, locked)
           Kept(c) == InBounds(c) /\ c.min = a.min /\ c.max = a.max
<1>1. ASSUME NEW m \in a.min .. a.max
      PROVE  Kept(Jump(a, m))
  <2>1. m \in Modcods /\ a.min <= m /\ m <= a.max /\ 0 \in 0 .. UpHold
    BY Fields, AcmAssumption
  <2> QED
    BY <2>1 DEF Jump, InBounds, Controller
<1>2. ASSUME NEW g \in 0 .. UpHold
      PROVE  Kept([a EXCEPT !.good = g])
  BY DEF InBounds, Controller
<1>3. a.min \in a.min .. a.max /\ a.current \in a.min .. a.max /\ Target(a, e) \in a.min .. a.max
  BY Fields, TargetIsBest
<1>4. a.current # a.max => a.current + 1 \in a.min .. a.max
  BY Fields
<1>5. Kept(a)
  OBVIOUS
<1>6. 0 \in 0 .. UpHold /\ (a.good + 1 < UpHold => a.good + 1 \in 0 .. UpHold)
  BY Fields, AcmAssumption
<1> HIDE DEF Kept
<1>7. Kept(b)
  <2> HIDE DEF b
  <2>1. \/ \E m \in a.min .. a.max : b = Jump(a, m)
        \/ b = a
        \/ \E g \in 0 .. UpHold : b = [a EXCEPT !.good = g]
    BY UpdateCases, <1>3, <1>4, <1>6 DEF b
  <2> QED
    BY <1>1, <1>2, <1>5, <2>1
<1> QED
  BY <1>7 DEF Kept

-----------------------------------------------------------------------------
(* A measurement that carries a MODCOD carries every more robust one.      *)
LEMMA RobustIsCarried ==
  ASSUME NEW m \in Modcods, NEW n \in Modcods, m <= n, NEW e \in Int, Supported(n, e)
  PROVE  Supported(m, e)
<1>1. m \in Nat /\ n \in Nat /\ Threshold[m] \in Int /\ Threshold[n] \in Int
  BY AcmAssumption
<1>2. Threshold[m] <= Threshold[n]
  BY <1>1, AcmAssumption
<1> QED
  BY <1>1, <1>2, AcmAssumption DEF Supported

(* Jumping to a MODCOD. *)
LEMMA JumpsTo ==
  ASSUME NEW a, InBounds(a), NEW m
  PROVE  Jump(a, m).current = m
BY DEF Jump, InBounds, Controller

(* Without lock the next frame is sent with the most robust MODCOD allowed.*)
(* With it, with one that the last measurement carries, if there is one:   *)
(* the choice falls as far as it must, at once, and no further.            *)
THEOREM UpdateIsCarried ==
  ASSUME NEW a, InBounds(a), NEW e \in Int, NEW locked \in BOOLEAN
  PROVE  LET m == Update(a, e, locked).current
         IN  /\ ~locked => m = a.min
             /\ locked => m = a.min \/ Supported(m, e)
             /\ locked => \A n \in m + 1 .. a.current : ~Supported(n, e)
<1> DEFINE b == Update(a, e, locked)
           low == Target(a, e)
<1>1. /\ a.current \in Modcods /\ \A n \in a.min .. a.max : n \in Modcods
      /\ a.min \in Nat /\ a.max \in Nat /\ a.current \in Nat
      /\ a.min <= a.current /\ a.current <= a.max
  BY Fields
<1>2. /\ low \in a.min .. a.max
      /\ low = a.min \/ Supported(low, e)
      /\ \A m \in a.min .. a.max : Supported(m, e) => m <= low
  BY TargetIsBest
<1>3. CASE ~locked /\ b = Jump(a, a.min)
  BY <1>3, JumpsTo
<1>4. CASE /\ locked /\ ~Supported(a.current, e)
           /\ b = Jump(a, IF low < a.current THEN low ELSE a.current)
  <2>1. low \in Modcods
    BY <1>1, <1>2
  <2>2. CASE low < a.current
    <3>1. b.current = low
      BY <1>4, <2>2, JumpsTo
    <3>2. \A n \in low + 1 .. a.current : n \in a.min .. a.max /\ ~(n <= low)
      BY <1>1, <1>2
    <3> QED
      BY <1>2, <1>4, <3>1, <3>2
  <2>3. CASE ~(low < a.current)
    <3>1. b.current = a.current
      BY <1>4, <2>3, JumpsTo
    <3>2. a.current <= low
      BY <1>1, <1>2, <2>3
    <3>3. ~Supported(low, e)
      BY <1>1, <1>4, <2>1, <3>2, RobustIsCarried
    <3>4. a.current = a.min
      BY <1>1, <1>2, <3>2, <3>3
    <3>5. \A n \in a.current + 1 .. a.current : FALSE
      BY <1>1
    <3> QED
      BY <1>4, <3>1, <3>4, <3>5
  <2> QED
    BY <2>2, <2>3
<1>5. CASE locked /\ Supported(a.current, e) /\ b.current = a.current
  <2>1. \A n \in a.current + 1 .. a.current : FALSE
    BY <1>1
  <2> QED
    BY <1>5, <2>1
<1>6. CASE /\ locked /\ a.current # a.max /\ b = Jump(a, a.current + 1)
           /\ Threshold[a.current + 1] + Margin + Hysteresis <= e
  <2>1. b.current = a.current + 1 /\ a.current + 1 \in Modcods
    <3>1. a.current + 1 \in a.min .. a.max
      BY <1>1, <1>6
    <3> QED
      BY <1>1, <1>6, <3>1, JumpsTo
  <2>2. Supported(a.current + 1, e)
    <3>1. Threshold[a.current + 1] \in Int
      BY <2>1, AcmAssumption
    <3> QED
      BY <1>6, <3>1, AcmAssumption DEF Supported
  <2>3. \A n \in a.current + 2 .. a.current : FALSE
    BY <1>1
  <2>4. a.current + 1 + 1 = a.current + 2
    BY <1>1
  <2> QED
    BY <1>6, <2>1, <2>2, <2>3, <2>4
<1> QED
  <2>1. \A g : [a EXCEPT !.good = g].current = a.current
    BY DEF InBounds, Controller
  <2> QED
    BY <1>3, <1>4, <1>5, <1>6, <2>1, UpdateCases

(* A climb is one step, to a MODCOD that the measurement carries with the  *)
(* hysteresis to spare, and only at the end of up_hold good frames; losing *)
(* or gaining a step starts the count again.                               *)
THEOREM UpdateClimbsByOne ==
  ASSUME NEW a, InBounds(a), NEW e \in Int, NEW locked \in BOOLEAN,
         Update(a, e, locked).current > a.current
  PROVE  /\ Update(a, e, locked) = Jump(a, a.current + 1)
         /\ locked /\ a.good + 1 >= UpHold
         /\ Threshold[a.current + 1] + Margin + Hysteresis <= e
<1> DEFINE b == Update(a, e, locked)
<1>1. a.current \in Nat /\ a.min \in Nat /\ a.min <= a.current
  BY Fields
<1>2. b # Jump(a, a.min)
  BY <1>1, JumpsTo
<1>3. b # Jump(a, IF Target(a, e) < a.current THEN Target(a, e) ELSE a.current)
  <2>1. Target(a, e) \in Nat
    BY <1>1, TargetIsBest, Fields
  <2>2. CASE Target(a, e) < a.current
    BY <1>1, <2>1, <2>2, JumpsTo
  <2>3. CASE ~(Target(a, e) < a.current)
    BY <1>1, <2>3, JumpsTo
  <2> QED
    BY <2>2, <2>3
<1>4. \A g : b # [a EXCEPT !.good = g]
  BY <1>1 DEF InBounds, Controller
<1>5. b # a
  BY <1>1
<1> QED
  BY <1>2, <1>3, <1>4, <1>5, UpdateCases

(* satlink_acm_configure: bounds that config_valid accepts are bounds the  *)
(* controller is within at once, and every valid pair can be configured.   *)
THEOREM ConfigureInBounds ==
  ASSUME NEW a, InBounds(a), NEW lo, NEW hi, ValidBounds(lo, hi)
  PROVE  InBounds(ConfigureAcm(a, lo, hi)) /\ InBounds(InitController(lo, hi))
<1>1. lo \in Modcods /\ hi \in Modcods /\ lo <= hi /\ lo \in Nat /\ hi \in Nat /\ 0 \in 0 .. UpHold
  BY ModcodsAreNumbers, AcmAssumption DEF ValidBounds
<1>2. InBounds(InitController(lo, hi))
  BY <1>1 DEF InitController, InBounds, Controller
<1>3. InBounds(ConfigureAcm(a, lo, hi))
  <2> DEFINE c == IF a.current < lo THEN lo ELSE IF a.current > hi THEN hi ELSE a.current
  <2>1. c \in Modcods /\ lo <= c /\ c <= hi
    BY <1>1, Fields
  <2>2. ConfigureAcm(a, lo, hi) = [current |-> c, good |-> 0, min |-> lo, max |-> hi]
    BY DEF ConfigureAcm
  <2> HIDE DEF c
  <2> QED
    BY <1>1, <2>1, <2>2 DEF InBounds, Controller
<1> QED
  BY <1>2, <1>3

-----------------------------------------------------------------------------
(* Positions in a ring: remainders by the number of buffers.               *)

LEMMA Remainder ==
  ASSUME NEW s \in Nat, s > 0, NEW q \in Nat, NEW r \in Nat, r < s
  PROVE  (s * q + r) % s = r
<1> DEFINE a == s * q + r
           d == a \div s
           m == a % s
<1>1. s * q \in Nat /\ a \in Nat
  OBVIOUS
<1>2. d \in Nat /\ m \in Nat /\ m < s /\ a = s * d + m
  <2> HIDE DEF a
  <2> QED
    BY <1>1
<1>3. s * d + m = s * q + r
  BY <1>2
<1> HIDE DEF a, d, m
<1>4. s * (q - d) = s * q - s * d /\ s * (d - q) = s * d - s * q
  BY <1>2
<1>5. ~(q - d >= 1)
  <2> SUFFICES ASSUME q - d >= 1 PROVE FALSE
    OBVIOUS
  <2>1. s * (q - d) >= s
    BY <1>2
  <2> QED
    BY <2>1, <1>2, <1>3, <1>4
<1>6. ~(d - q >= 1)
  <2> SUFFICES ASSUME d - q >= 1 PROVE FALSE
    OBVIOUS
  <2>1. s * (d - q) >= s
    BY <1>2
  <2> QED
    BY <2>1, <1>2, <1>3, <1>4
<1>7. d = q
  BY <1>2, <1>5, <1>6
<1>8. m = r
  BY <1>2, <1>3, <1>7
<1> QED
  BY <1>8 DEF a, m

LEMMA RemainderNext ==
  ASSUME NEW s \in Nat, s > 0, NEW a \in Nat
  PROVE  ((a % s) + 1) % s = (a + 1) % s
<1> DEFINE q == a \div s
           r == a % s
<1>1. q \in Nat /\ r \in Nat /\ r < s /\ a = s * q + r
  OBVIOUS
<1> HIDE DEF q, r
<1>2. CASE r + 1 < s
  <2>1. (s * q + (r + 1)) % s = r + 1 /\ (s * 0 + (r + 1)) % s = r + 1
    BY <1>1, <1>2, Remainder
  <2>2. a + 1 = s * q + (r + 1) /\ r + 1 = s * 0 + (r + 1)
    BY <1>1
  <2> QED
    BY <2>1, <2>2 DEF r
<1>3. CASE r + 1 = s
  <2> DEFINE p == q + 1
  <2>1. p \in Nat /\ s * p = s * q + s
    BY <1>1
  <2> HIDE DEF p
  <2>2. (s * p + 0) % s = 0 /\ (s * 1 + 0) % s = 0
    BY <2>1, Remainder
  <2>3. a + 1 = s * p + 0 /\ r + 1 = s * 1 + 0
    BY <1>1, <1>3, <2>1
  <2> QED
    BY <2>2, <2>3 DEF r
<1> QED
  BY <1>1, <1>2, <1>3

LEMMA RemainderWraps ==
  ASSUME NEW s \in Nat, s > 0, NEW a \in Nat
  PROVE  (a + s) % s = a % s
<1> DEFINE q == a \div s
           r == a % s
           p == q + 1
<1>1. q \in Nat /\ r \in Nat /\ r < s /\ a = s * q + r
  OBVIOUS
<1> HIDE DEF q, r
<1>2. p \in Nat /\ s * p = s * q + s
  BY <1>1
<1> HIDE DEF p
<1>3. a + s = s * p + r
  BY <1>1, <1>2
<1>4. (s * p + r) % s = r
  BY <1>1, <1>2, Remainder
<1> QED
  BY <1>3, <1>4 DEF r

LEMMA RemaindersDiffer ==
  ASSUME NEW s \in Nat, s > 0, NEW a \in Nat, NEW b \in Nat, a < b, b < a + s
  PROVE  a % s # b % s
<1> DEFINE q == a \div s
           r == a % s
           d == b \div s
           m == b % s
<1>1. q \in Nat /\ r \in Nat /\ a = s * q + r /\ d \in Nat /\ m \in Nat /\ b = s * d + m
  OBVIOUS
<1> HIDE DEF q, r, d, m
<1> SUFFICES ASSUME r = m PROVE FALSE
  BY DEF r, m
<1>2. s * (d - q) = s * d - s * q
  BY <1>1
<1>3. s * (d - q) > 0 /\ s * (d - q) < s
  BY <1>1, <1>2
<1>4. CASE d - q >= 1
  <2>1. s * (d - q) >= s
    BY <1>1, <1>4
  <2> QED
    BY <1>1, <1>3, <2>1
<1>5. CASE d - q <= 0
  <2>1. s * (q - d) >= 0 /\ s * (q - d) = s * q - s * d
    BY <1>1, <1>5
  <2> QED
    BY <1>1, <1>2, <1>3, <2>1
<1> QED
  BY <1>1, <1>4, <1>5

-----------------------------------------------------------------------------
(* The sample path.  The buffers of a stream are counted: f is the number  *)
(* the engine has completed, u the number the task has used.               *)

(* The number that the k-th buffer of a stream has. *)
Stamp(k) == IF k <= 0 THEN NoSamples ELSE ((k - 1) % Stamps) + 1

(* The engine c is in buffer f; those from u on wait for the task. *)
Cycle(c, r, f, u) ==
  /\ u <= f /\ f <= u + Bufs
  /\ c.pos = f % Bufs
  /\ r.done = {a % Bufs : a \in u .. f - 1}
  /\ c.busy => f < u + Bufs

(* The task has buffer u, or gives back the one before. *)
Turn(d, f, u) ==
  /\ task.at # "down" =>
       u % Bufs = IF At("requeue", d) THEN After(ring[d].next) ELSE ring[d].next
  /\ At("hold", d) => u < f

(* What is in the buffers. *)
Sending(data, sent, made, f, u) ==
  /\ \A a \in f .. u + Bufs - 1 : data[a % Bufs] = Stamp(a - Bufs + 1)
  /\ sent = Stamp(f - Bufs) /\ made = Stamp(u)

Receiving(data, read, heard, f, u) ==
  /\ \A a \in u .. f - 1 : data[a % Bufs] = Stamp(a + 1)
  /\ read = Stamp(f) /\ heard = Stamp(u)

Contents(d, f, u) ==
  IF d = "tx" THEN Sending(ring["tx"].data, stream.sent, stream.made, f, u)
              ELSE Receiving(ring["rx"].data, stream.read, stream.heard, f, u)

InStep(d) ==
  \E f, u \in Nat : Cycle(dma[d], ring[d], f, u) /\ Turn(d, f, u) /\ Contents(d, f, u)

Forms ==
  /\ task = [at |-> task.at, dir |-> task.dir, paced |-> task.paced] /\ task.dir \in Dir
  /\ app = [loopback |-> app.loopback, hw |-> app.hw, present |-> app.present]
  /\ app.hw \in BOOLEAN
  /\ stream = [made |-> stream.made, sent |-> stream.sent, read |-> stream.read,
               heard |-> stream.heard]
  /\ DOMAIN dma = Dir /\ DOMAIN ring = Dir
  /\ \A d \in Dir :
       /\ dma[d] = [run |-> dma[d].run, idle |-> dma[d].idle, busy |-> dma[d].busy,
                    pos |-> dma[d].pos, tail |-> dma[d].tail]
       /\ ring[d] = [done |-> ring[d].done, data |-> ring[d].data, next |-> ring[d].next]
       /\ DOMAIN ring[d].data = Slot

(* The DMA is off exactly when the task believes so. *)
Powered ==
  /\ app.hw => app.present
  /\ ~app.hw => dma = Reset
  /\ task.at \in {"peek", "hold", "requeue"} => app.hw

SamplePath == Forms /\ Powered /\ (app.hw => \A d \in Dir : InStep(d))

-----------------------------------------------------------------------------
LEMMA Sizes == Bufs \in Nat /\ Bufs > 1 /\ Stamps \in Nat /\ Stamps > 1
BY Core1Assumption

LEMMA Numbers ==
  \A s \in Nat \ {0} : \A a \in Nat :
    /\ a % s \in 0 .. s - 1
    /\ ((a % s) + 1) % s = (a + 1) % s
    /\ (a + s) % s = a % s
    /\ \A b \in Nat : a < b /\ b < a + s => a % s # b % s
<1> SUFFICES ASSUME NEW s \in Nat \ {0}, NEW a \in Nat
             PROVE  /\ a % s \in 0 .. s - 1
                    /\ ((a % s) + 1) % s = (a + 1) % s
                    /\ (a + s) % s = a % s
                    /\ \A b \in Nat : a < b /\ b < a + s => a % s # b % s
  OBVIOUS
<1>0. s \in Nat /\ s > 0
  OBVIOUS
<1>1. a % s \in 0 .. s - 1
  BY <1>0
<1>2. ((a % s) + 1) % s = (a + 1) % s
  BY <1>0, RemainderNext
<1>3. (a + s) % s = a % s
  BY <1>0, RemainderWraps
<1>4. ASSUME NEW b \in Nat, a < b, b < a + s PROVE a % s # b % s
  BY <1>0, <1>4, RemaindersDiffer
<1> QED
  BY <1>1, <1>2, <1>3, <1>4

LEMMA Slots ==
  ASSUME NEW a \in Nat
  PROVE  /\ a % Bufs \in Slot
         /\ After(a % Bufs) = (a + 1) % Bufs
         /\ (a + Bufs) % Bufs = a % Bufs
         /\ \A b \in Nat : a < b /\ b < a + Bufs => a % Bufs # b % Bufs
<1>1. Bufs \in Nat \ {0}
  BY Sizes
<1> QED
  BY <1>1, Numbers DEF Slot, After

LEMMA StampNext ==
  ASSUME NEW k \in Nat PROVE Following(Stamp(k)) = Stamp(k + 1)
<1>1. CASE k = 0
  BY <1>1, Sizes DEF Following, Stamp, NoSamples
<1>2. CASE k > 0
  <2> DEFINE j == k - 1
  <2>1. j \in Nat /\ j + 1 = k
    BY <1>2
  <2> HIDE DEF j
  <2>2. ((j % Stamps) + 1) % Stamps = (j + 1) % Stamps
    <3>1. Stamps \in Nat \ {0}
      BY Sizes
    <3> QED
      BY <2>1, <3>1, Numbers
  <2>3. Stamp(k) = (j % Stamps) + 1 /\ Stamp(k + 1) = (k % Stamps) + 1
    BY <1>2, <2>1 DEF Stamp, j
  <2> QED
    BY <2>1, <2>2, <2>3 DEF Following
<1> QED
  BY <1>1, <1>2

LEMMA StampInOrder ==
  ASSUME NEW k \in Int PROVE InOrder(Stamp(k), Stamp(k + 1))
<1>1. CASE k >= 0
  BY <1>1, StampNext DEF InOrder
<1>2. CASE k < 0
  BY <1>2 DEF InOrder, Stamp
<1> QED
  BY <1>1, <1>2

(* The engine completes a buffer. *)
LEMMA CycleFinish ==
  ASSUME NEW f \in Nat, NEW u \in Nat, NEW c, NEW r, Cycle(c, r, f, u), c.busy,
         NEW e, NEW q, e.pos = After(c.pos), ~e.busy, q.done = r.done \cup {c.pos}
  PROVE  Cycle(e, q, f + 1, u) /\ f < u + Bufs
<1>1. /\ u <= f /\ f < u + Bufs /\ c.pos = f % Bufs
      /\ r.done = {a % Bufs : a \in u .. f - 1}
  BY DEF Cycle
<1>2. e.pos = (f + 1) % Bufs
  BY <1>1, Slots
<1>3. q.done = {a % Bufs : a \in u .. (f + 1) - 1}
  <2>1. u .. (f + 1) - 1 = (u .. f - 1) \cup {f}
    BY <1>1
  <2> QED
    BY <1>1, <2>1
<1>4. u <= f + 1 /\ f + 1 <= u + Bufs
  BY <1>1, Sizes
<1> QED
  BY <1>1, <1>2, <1>3, <1>4 DEF Cycle

(* The task makes a descriptor ready. *)
LEMMA CycleUse ==
  ASSUME NEW f \in Nat, NEW u \in Nat, NEW c, NEW r, Cycle(c, r, f, u), u < f,
         NEW q, q.done = r.done \ {u % Bufs}
  PROVE  Cycle(c, q, f, u + 1)
<1>1. /\ f <= u + Bufs /\ c.pos = f % Bufs /\ (c.busy => f < u + Bufs)
      /\ r.done = {a % Bufs : a \in u .. f - 1}
  BY DEF Cycle
<1>2. \A a \in u + 1 .. f - 1 : a % Bufs # u % Bufs
  <2> SUFFICES ASSUME NEW a \in u + 1 .. f - 1 PROVE a % Bufs # u % Bufs
    OBVIOUS
  <2>1. a \in Nat /\ u < a /\ a < u + Bufs
    BY <1>1, Sizes
  <2> QED
    BY <2>1, Slots
<1>3. u .. f - 1 = {u} \cup (u + 1 .. f - 1)
  OBVIOUS
<1>4. q.done = {a % Bufs : a \in u + 1 .. f - 1}
  BY <1>1, <1>2, <1>3
<1>5. u + 1 <= f /\ f <= (u + 1) + Bufs /\ (c.busy => f < (u + 1) + Bufs)
  BY <1>1, Sizes
<1> QED
  BY <1>1, <1>4, <1>5 DEF Cycle

-----------------------------------------------------------------------------
(* What a step leaves alone.                                               *)

(* A channel whose position, descriptors and contents stay keeps its       *)
(* place; the task may take the next buffer when one is complete.          *)
LEMMA Undisturbed ==
  ASSUME NEW d \in Dir, InStep(d),
         dma'[d].pos = dma[d].pos, dma'[d].busy => dma[d].busy, ring'[d] = ring[d],
         d = "tx" => stream'.made = stream.made /\ stream'.sent = stream.sent,
         d = "rx" => stream'.read = stream.read /\ stream'.heard = stream.heard,
         task'.at # "down" => task.at # "down" /\ (At("requeue", d)' <=> At("requeue", d)),
         At("hold", d)' => At("hold", d) \/ ring[d].done # {}
  PROVE  InStep(d)'
<1>1. PICK f \in Nat, u \in Nat :
        Cycle(dma[d], ring[d], f, u) /\ Turn(d, f, u) /\ Contents(d, f, u)
  BY DEF InStep
<1>2. Cycle(dma'[d], ring'[d], f, u)
  BY <1>1 DEF Cycle
<1>3. Turn(d, f, u)'
  <2>1. ring[d].done # {} => u < f
    BY <1>1 DEF Cycle
  <2> QED
    BY <1>1, <2>1 DEF Turn
<1>4. Contents(d, f, u)'
  BY <1>1 DEF Contents, Sending, Receiving, Dir
<1> QED
  BY <1>2, <1>3, <1>4 DEF InStep

(* A buffer that is not complete may be taken by the engine.               *)
LEMMA RoomAhead ==
  ASSUME NEW f \in Nat, NEW u \in Nat, NEW c, NEW r, Cycle(c, r, f, u), c.pos \notin r.done
  PROVE  f < u + Bufs
<1> SUFFICES ASSUME f = u + Bufs PROVE FALSE
  BY Sizes DEF Cycle
<1>1. c.pos = (u + Bufs) % Bufs /\ r.done = {a % Bufs : a \in u .. f - 1}
  BY DEF Cycle
<1>2. (u + Bufs) % Bufs = u % Bufs
  BY Slots
<1>3. u \in u .. f - 1
  BY Sizes
<1> QED
  BY <1>1, <1>2, <1>3

(* The number of the buffer is the one of its place.                       *)
LEMMA AtNext ==
  ASSUME NEW d \in Dir, NEW f \in Nat, NEW u \in Nat, Turn(d, f, u), At("hold", d)
  PROVE  ring[d].next = u % Bufs /\ u < f
BY DEF Turn, At

-----------------------------------------------------------------------------
LEMMA InitSamplePath == SampleInit => SamplePath
<1> SUFFICES ASSUME SampleInit PROVE SamplePath
  OBVIOUS
<1>1. \A d \in Dir : dma[d] = Halted /\ ring[d] = InitRing
  BY DEF SampleInit, Reset
<1>2. \A d \in Dir :
        /\ dma[d] = [run |-> dma[d].run, idle |-> dma[d].idle, busy |-> dma[d].busy,
                     pos |-> dma[d].pos, tail |-> dma[d].tail]
        /\ ring[d] = [done |-> ring[d].done, data |-> ring[d].data, next |-> ring[d].next]
        /\ DOMAIN ring[d].data = Slot
  BY <1>1 DEF Halted, InitRing
<1>3. DOMAIN dma = Dir /\ DOMAIN ring = Dir
  BY DEF SampleInit, Reset
<1>4. PICK present \in BOOLEAN :
        app = [loopback |-> IF present THEN "analog" ELSE "software", hw |-> FALSE,
               present |-> present]
  BY DEF SampleInit
<1>5. Forms
  BY <1>2, <1>3, <1>4 DEF SampleInit, Forms, NewStream, Dir
<1> QED
  BY <1>5 DEF SampleInit, SamplePath, Powered

LEMMA FetchKeeps ==
  ASSUME SamplePath, NEW d \in Dir, Fetch(d) PROVE SamplePath'
<1>1. Forms'
  BY DEF SamplePath, Forms, Fetch
<1>2. app.hw
  BY DEF SamplePath, Powered, Fetch, Transfer, Reset, Halted
<1>3. Powered'
  BY <1>2 DEF SamplePath, Powered, Fetch
<1>4. ASSUME NEW e \in Dir PROVE InStep(e)'
  <2>0. InStep(e) /\ DOMAIN dma = Dir
    BY <1>2 DEF SamplePath, Forms
  <2>1. CASE e # d \/ dma[d].pos \in ring[d].done
    <3>1. dma'[e].pos = dma[e].pos /\ (dma'[e].busy => dma[e].busy)
      BY <2>0, <2>1 DEF Fetch
    <3> QED
      BY <2>0, <3>1, Undisturbed DEF Fetch, At
  <2>2. CASE e = d /\ dma[d].pos \notin ring[d].done
    <3>1. PICK f \in Nat, u \in Nat :
            Cycle(dma[e], ring[e], f, u) /\ Turn(e, f, u) /\ Contents(e, f, u)
      BY <2>0 DEF InStep
    <3>2. f < u + Bufs
      BY <2>2, <3>1, RoomAhead
    <3>3. dma'[e].pos = dma[e].pos
      BY <2>0, <2>2 DEF Fetch
    <3>4. Cycle(dma'[e], ring'[e], f, u)
      BY <3>1, <3>2, <3>3 DEF Cycle, Fetch
    <3>5. Turn(e, f, u)' /\ Contents(e, f, u)'
      BY <3>1 DEF Turn, At, Contents, Sending, Receiving, Fetch
    <3> QED
      BY <3>4, <3>5 DEF InStep
  <2> QED
    BY <2>1, <2>2
<1> QED
  BY <1>1, <1>3, <1>4 DEF SamplePath

LEMMA FailKeeps ==
  ASSUME SamplePath, NEW d \in Dir, Fail(d) PROVE SamplePath'
<1>1. Forms'
  BY DEF SamplePath, Forms, Fail
<1>2. app.hw
  BY DEF SamplePath, Powered, Fail, Reset, Halted
<1>3. Powered'
  BY <1>2 DEF SamplePath, Powered, Fail
<1>4. ASSUME NEW e \in Dir PROVE InStep(e)'
  <2>1. InStep(e) /\ DOMAIN dma = Dir
    BY <1>2 DEF SamplePath, Forms
  <2>2. dma'[e].pos = dma[e].pos /\ (dma'[e].busy => dma[e].busy)
    BY <2>1 DEF Fail
  <2> QED
    BY <2>1, <2>2, Undisturbed DEF Fail, At
<1> QED
  BY <1>1, <1>3, <1>4 DEF SamplePath

(* The steps of the task, of Linux and of the core that leave the channels *)
(* and the buffers alone.                                                  *)
LEMMA QuietKeeps ==
  ASSUME SamplePath, UNCHANGED <<dma, ring, stream>>,
         app' = [loopback |-> app'.loopback, hw |-> app.hw, present |-> app.present],
         task' = [at |-> task'.at, dir |-> task'.dir, paced |-> task'.paced],
         task'.dir \in Dir,
         task'.at \in {"peek", "hold", "requeue"} => app.hw,
         \A d \in Dir :
           /\ task'.at # "down" => task.at # "down" /\ (At("requeue", d)' <=> At("requeue", d))
           /\ At("hold", d)' => At("hold", d) \/ ring[d].done # {}
  PROVE  SamplePath'
<1>1. Forms'
  BY DEF SamplePath, Forms
<1>2. Powered'
  BY DEF SamplePath, Powered
<1>3. app'.hw => \A d \in Dir : InStep(d)'
  BY Undisturbed DEF SamplePath
<1> QED
  BY <1>1, <1>2, <1>3 DEF SamplePath

LEMMA DrainIpcKeeps == ASSUME SamplePath, DrainIpc PROVE SamplePath'
<1>1. task' = [at |-> "apply", dir |-> "tx", paced |-> task'.paced] /\ task.at = "wait"
  BY DEF DrainIpc, Go
<1>2. app' = [loopback |-> app'.loopback, hw |-> app.hw, present |-> app.present]
  BY DEF DrainIpc, SamplePath, Forms
<1> QED
  BY <1>1, <1>2, QuietKeeps DEF DrainIpc, At, Dir

LEMMA ConfigureKeeps == ASSUME SamplePath, NEW l \in Loops, Configure(l) PROVE SamplePath'
BY QuietKeeps DEF Configure, SamplePath, Forms, Powered, At

LEMMA StopKeeps == ASSUME SamplePath, Stop PROVE SamplePath'
<1>1. task' = [at |-> "down", dir |-> "tx", paced |-> task'.paced]
  BY DEF Stop, Go
<1> QED
  BY <1>1, QuietKeeps DEF Stop, SamplePath, Forms, At, Dir

LEMMA PeekKeeps == ASSUME SamplePath, NEW d \in Dir, Peek(d) PROVE SamplePath'
<1>1. app.hw /\ task.at = "peek" /\ task.dir = d
  BY DEF SamplePath, Powered, Peek, At
<1>2. \/ Go("hold", d) /\ ring[d].done # {}
      \/ Go("peek", "rx") \/ Go("wait", "tx")
  BY DEF Peek, PeekDone
<1>3. /\ task' = [at |-> task'.at, dir |-> task'.dir, paced |-> task'.paced]
      /\ task'.dir \in Dir /\ task'.at \in {"hold", "peek", "wait"}
      /\ task'.at = "hold" => task'.dir = d /\ ring[d].done # {}
  BY <1>2 DEF Go, Dir
<1> QED
  BY <1>1, <1>3, QuietKeeps DEF Peek, SamplePath, Forms, At

LEMMA BootKeeps == ASSUME SamplePath, Boot PROVE SamplePath'
<1>1. task' = [at |-> "wait", dir |-> "tx", paced |-> task'.paced]
  BY DEF Boot, Go
<1>2. app' = [loopback |-> app'.loopback, hw |-> FALSE, present |-> app.present]
  BY DEF Boot, SamplePath, Forms
<1>3. dma' = Reset
  BY DEF Boot, SamplePath, Powered
<1>4. \A d \in Dir : dma'[d] = Halted /\ DOMAIN dma' = Dir
  BY <1>3 DEF Reset
<1>5. \A d \in Dir :
        dma'[d] = [run |-> dma'[d].run, idle |-> dma'[d].idle, busy |-> dma'[d].busy,
                   pos |-> dma'[d].pos, tail |-> dma'[d].tail]
  BY <1>4 DEF Halted
<1>6. Forms'
  BY <1>1, <1>2, <1>4, <1>5 DEF Boot, SamplePath, Forms, Dir
<1> QED
  BY <1>1, <1>2, <1>3, <1>6 DEF SamplePath, Powered

(* The rings begin with all descriptors with the engine, at the first.     *)
LEMMA StartInStep ==
  ASSUME NEW d \in Dir, dma'[d] = Started(Halted), ring'[d] = InitRing, stream' = NewStream,
         ~At("hold", d)', ~At("requeue", d)'
  PROVE  InStep(d)'
<1>1. dma'[d].pos = 0 /\ ~dma'[d].busy
  BY DEF Started, Halted
<1>2. ring'[d].done = {} /\ ring'[d].next = 0 /\ \A i \in Slot : ring'[d].data[i] = NoSamples
  BY DEF InitRing
<1>3. 0 % Bufs = 0 /\ 0 .. 0 - 1 = {}
  BY Sizes
<1>4. Cycle(dma'[d], ring'[d], 0, 0)
  BY <1>1, <1>2, <1>3, Sizes DEF Cycle
<1>5. Turn(d, 0, 0)'
  BY <1>2, <1>3 DEF Turn
<1>6. Stamp(0) = NoSamples /\ Stamp(0 - Bufs) = NoSamples
  BY Sizes DEF Stamp
<1>7. \A a \in 0 .. 0 + Bufs - 1 :
        ring'[d].data[a % Bufs] = NoSamples /\ Stamp(a - Bufs + 1) = NoSamples
  <2> SUFFICES ASSUME NEW a \in 0 .. 0 + Bufs - 1
               PROVE  ring'[d].data[a % Bufs] = NoSamples /\ Stamp(a - Bufs + 1) = NoSamples
    OBVIOUS
  <2>1. a \in Nat /\ a - Bufs + 1 <= 0
    BY Sizes
  <2>2. a % Bufs \in Slot
    BY <2>1, Slots
  <2> QED
    BY <1>2, <2>1, <2>2 DEF Stamp
<1>8. Contents(d, 0, 0)'
  BY <1>3, <1>6, <1>7 DEF Contents, Sending, Receiving, NewStream, Dir
<1> QED
  BY <1>4, <1>5, <1>8 DEF InStep

LEMMA ApplyModeKeeps == ASSUME SamplePath, ApplyMode PROVE SamplePath'
<1>1. app' = [loopback |-> app.loopback, hw |-> WantHw, present |-> app.present]
  BY DEF ApplyMode, SamplePath, Forms
<1>2. task.at = "apply" /\ (WantHw => app.present) /\ WantHw \in BOOLEAN
  BY DEF ApplyMode, WantHw, SamplePath, Forms
<1>3. CASE WantHw /\ app.hw
  <2>1. task' = [at |-> "peek", dir |-> "tx", paced |-> task'.paced]
    BY <1>3 DEF ApplyMode, Go
  <2>2. UNCHANGED <<dma, ring, stream>>
    BY <1>3 DEF ApplyMode
  <2>3. app' = [loopback |-> app'.loopback, hw |-> app.hw, present |-> app.present]
    BY <1>1, <1>2, <1>3 DEF SamplePath, Forms
  <2> QED
    BY <1>2, <1>3, <2>1, <2>2, <2>3, QuietKeeps DEF At, Dir
<1>4. CASE WantHw /\ ~app.hw
  <2>1. task' = [at |-> "peek", dir |-> "tx", paced |-> task'.paced]
    BY <1>4 DEF ApplyMode, Go
  <2>2. dma = Reset /\ PayloadStart
    BY <1>4 DEF ApplyMode, SamplePath, Powered
  <2>3. \A d \in Dir : dma'[d] = Started(Halted) /\ ring'[d] = InitRing
    BY <2>2 DEF PayloadStart, Reset
  <2> DEFINE c == Started(Halted)
             r == InitRing
  <2>7. c = [run |-> c.run, idle |-> c.idle, busy |-> c.busy, pos |-> c.pos, tail |-> c.tail]
    <3>1. /\ DOMAIN c = {"run", "idle", "busy", "pos", "tail"}
          /\ c = [x \in DOMAIN c |-> c[x]]
      BY DEF Started, Halted
    <3> HIDE DEF c
    <3> QED
      BY <3>1
  <2>8. r = [done |-> r.done, data |-> r.data, next |-> r.next] /\ DOMAIN r.data = Slot
    BY DEF InitRing
  <2> HIDE DEF c, r
  <2>4. \A d \in Dir :
          /\ dma'[d] = [run |-> dma'[d].run, idle |-> dma'[d].idle, busy |-> dma'[d].busy,
                        pos |-> dma'[d].pos, tail |-> dma'[d].tail]
          /\ ring'[d] = [done |-> ring'[d].done, data |-> ring'[d].data,
                         next |-> ring'[d].next]
          /\ DOMAIN ring'[d].data = Slot
    BY <2>3, <2>7, <2>8 DEF c, r
  <2>5. Forms'
    BY <1>1, <1>2, <2>1, <2>2, <2>4 DEF PayloadStart, Forms, NewStream, Dir
  <2>6. \A d \in Dir : InStep(d)'
    BY <2>1, <2>2, <2>3, StartInStep DEF PayloadStart, At
  <2> QED
    BY <1>1, <1>2, <1>4, <2>5, <2>6 DEF SamplePath, Powered
<1>5. CASE ~WantHw
  <2>1. task' = [at |-> "wait", dir |-> "tx", paced |-> task'.paced]
    BY <1>5 DEF ApplyMode, Go
  <2>2. dma' = Reset
    BY <1>5 DEF ApplyMode, PayloadStop, SamplePath, Powered
  <2>3. DOMAIN dma' = Dir /\ \A d \in Dir : dma'[d] = Halted
    BY <2>2 DEF Reset
  <2>4. \A d \in Dir :
          dma'[d] = [run |-> dma'[d].run, idle |-> dma'[d].idle, busy |-> dma'[d].busy,
                     pos |-> dma'[d].pos, tail |-> dma'[d].tail]
    BY <2>3 DEF Halted
  <2>5. Forms'
    BY <1>1, <1>2, <1>5, <2>1, <2>3, <2>4 DEF ApplyMode, SamplePath, Forms, Dir
  <2> QED
    BY <1>1, <1>5, <2>1, <2>2, <2>5 DEF SamplePath, Powered
<1> QED
  BY <1>3, <1>4, <1>5

(* What a step changes in the record of a channel and of a ring.           *)
LEMMA FinishForms ==
  ASSUME SamplePath, NEW d \in Dir, Finish(d)
  PROVE  /\ Forms'
         /\ \A e \in Dir \ {d} : dma'[e] = dma[e] /\ ring'[e] = ring[e]
         /\ dma'[d].pos = After(dma[d].pos) /\ ~dma'[d].busy
         /\ ring'[d].done = ring[d].done \cup {dma[d].pos} /\ ring'[d].next = ring[d].next
         /\ task'.at = task.at /\ task'.dir = task.dir
<1> DEFINE i == dma[d].pos
           c == [dma[d] EXCEPT !.busy = FALSE, !.pos = After(i), !.idle = (i = dma[d].tail)]
           r == IF d = "tx" THEN [ring[d] EXCEPT !.done = @ \cup {i}]
                            ELSE [ring[d] EXCEPT !.done = @ \cup {i},
                                                 !.data[i] = stream'.read]
<1>1. dma' = [dma EXCEPT ![d] = c] /\ ring' = [ring EXCEPT ![d] = r]
  BY DEF Finish
<1>2. /\ c = [run |-> c.run, idle |-> c.idle, busy |-> c.busy, pos |-> c.pos, tail |-> c.tail]
      /\ c.pos = After(i) /\ c.busy = FALSE
  <2>1. dma[d] = [run |-> dma[d].run, idle |-> dma[d].idle, busy |-> dma[d].busy,
                  pos |-> dma[d].pos, tail |-> dma[d].tail]
    BY DEF SamplePath, Forms
  <2> DEFINE at == After(i)
             last == (i = dma[d].tail)
             no == FALSE
             o == [dma[d] EXCEPT !.busy = no]
             p == [o EXCEPT !.pos = at]
  <2>3. c = [p EXCEPT !.idle = last]
    BY DEF c
  <2> HIDE DEF at, last, no, c
  <2>4. o = [run |-> dma[d].run, idle |-> dma[d].idle, busy |-> no, pos |-> dma[d].pos,
             tail |-> dma[d].tail]
    BY <2>1
  <2> HIDE DEF o
  <2>5. p = [run |-> dma[d].run, idle |-> dma[d].idle, busy |-> no, pos |-> at,
             tail |-> dma[d].tail]
    BY <2>4
  <2> HIDE DEF p
  <2>2. c = [run |-> dma[d].run, idle |-> last, busy |-> no, pos |-> at,
             tail |-> dma[d].tail]
    BY <2>3, <2>5
  <2> QED
    BY <2>2 DEF at, no
<1>3. /\ r = [done |-> r.done, data |-> r.data, next |-> r.next]
      /\ DOMAIN r.data = Slot /\ r.done = ring[d].done \cup {i} /\ r.next = ring[d].next
  <2>1. /\ ring[d] = [done |-> ring[d].done, data |-> ring[d].data, next |-> ring[d].next]
        /\ DOMAIN ring[d].data = Slot
    BY DEF SamplePath, Forms
  <2> DEFINE o == [ring[d] EXCEPT !.done = @ \cup {i}]
  <2>2. o = [done |-> ring[d].done \cup {i}, data |-> ring[d].data, next |-> ring[d].next]
    BY <2>1
  <2>3. r = IF d = "tx" THEN o ELSE [o EXCEPT !.data[i] = stream'.read]
    BY <2>1
  <2> HIDE DEF r, o
  <2> QED
    BY <2>1, <2>2, <2>3
<1>4. /\ task' = [at |-> task.at, dir |-> task.dir, paced |-> task'.paced]
      /\ stream' = [made |-> stream'.made, sent |-> stream'.sent, read |-> stream'.read,
                    heard |-> stream'.heard]
  BY DEF Finish, SamplePath, Forms
<1> HIDE DEF c, r
<1>5. /\ dma'[d] = c /\ ring'[d] = r /\ DOMAIN dma' = Dir /\ DOMAIN ring' = Dir
      /\ \A e \in Dir \ {d} : dma'[e] = dma[e] /\ ring'[e] = ring[e]
  BY <1>1 DEF SamplePath, Forms
<1>6. Forms'
  <2>1. \A e \in Dir :
          /\ dma'[e] = [run |-> dma'[e].run, idle |-> dma'[e].idle, busy |-> dma'[e].busy,
                        pos |-> dma'[e].pos, tail |-> dma'[e].tail]
          /\ ring'[e] = [done |-> ring'[e].done, data |-> ring'[e].data,
                         next |-> ring'[e].next]
          /\ DOMAIN ring'[e].data = Slot
    <3> SUFFICES ASSUME NEW e \in Dir
                 PROVE  /\ dma'[e] = [run |-> dma'[e].run, idle |-> dma'[e].idle,
                                      busy |-> dma'[e].busy, pos |-> dma'[e].pos,
                                      tail |-> dma'[e].tail]
                        /\ ring'[e] = [done |-> ring'[e].done, data |-> ring'[e].data,
                                       next |-> ring'[e].next]
                        /\ DOMAIN ring'[e].data = Slot
      OBVIOUS
    <3>1. CASE e = d
      BY <1>2, <1>3, <1>5, <3>1
    <3>2. CASE e # d
      BY <1>5, <3>2 DEF SamplePath, Forms
    <3> QED
      BY <3>1, <3>2
  <2> QED
    BY <1>4, <1>5, <2>1 DEF Finish, SamplePath, Forms
<1> QED
  BY <1>2, <1>3, <1>4, <1>5, <1>6

LEMMA FinishKeeps ==
  ASSUME SamplePath, NEW d \in Dir, Finish(d)
  PROVE  SamplePath' /\ InOrder(stream.sent, stream'.sent) /\ stream'.heard = stream.heard
<1>1. app.hw
  BY DEF SamplePath, Powered, Finish, Reset, Halted
<1>2. Forms' /\ Powered'
  BY <1>1, FinishForms DEF SamplePath, Powered, Finish
<1>3. PICK f \in Nat, u \in Nat :
        Cycle(dma[d], ring[d], f, u) /\ Turn(d, f, u) /\ Contents(d, f, u)
  BY <1>1 DEF SamplePath, InStep
<1>4. Cycle(dma'[d], ring'[d], f + 1, u) /\ f < u + Bufs /\ u <= f
  <2>1. Cycle(dma[d], ring[d], f, u) /\ dma[d].busy
    BY <1>3 DEF Finish
  <2>2. /\ dma'[d].pos = After(dma[d].pos) /\ ~dma'[d].busy
        /\ ring'[d].done = ring[d].done \cup {dma[d].pos}
    BY FinishForms
  <2>3. Cycle(dma'[d], ring'[d], f + 1, u) /\ f < u + Bufs
    BY <2>1, <2>2, CycleFinish
  <2> QED
    BY <2>1, <2>3 DEF Cycle
<1>5. Turn(d, f + 1, u)'
  BY <1>3, FinishForms DEF Turn, At
<1>6. dma[d].pos = f % Bufs /\ f % Bufs \in Slot
  BY <1>3, Slots DEF Cycle
<1>7. /\ Contents(d, f + 1, u)'
      /\ InOrder(stream.sent, stream'.sent) /\ stream'.heard = stream.heard
  <2>1. CASE d = "tx"
    <3>1. /\ stream' = [stream EXCEPT !.sent = ring["tx"].data[f % Bufs]]
          /\ ring'["tx"].data = ring["tx"].data
      BY <1>6, <2>1 DEF Finish, SamplePath, Forms, Dir
    <3>2. ring["tx"].data[f % Bufs] = Stamp(f - Bufs + 1) /\ stream.sent = Stamp(f - Bufs)
      BY <1>3, <1>4, <2>1, Sizes DEF Contents, Sending
    <3>3. stream'.sent = Stamp((f + 1) - Bufs)
      BY <3>1, <3>2, Sizes DEF SamplePath, Forms
    <3>4. Sending(ring'["tx"].data, stream'.sent, stream'.made, f + 1, u)
      BY <1>3, <2>1, <3>1, <3>3 DEF Contents, Sending, SamplePath, Forms
    <3>5. Contents(d, f + 1, u)'
      BY <2>1, <3>4 DEF Contents
    <3>6. InOrder(stream.sent, stream'.sent)
      <4>1. f - Bufs \in Int /\ (f + 1) - Bufs = (f - Bufs) + 1
        BY Sizes
      <4> QED
        BY <3>2, <3>3, <4>1, StampInOrder
    <3> QED
      BY <3>1, <3>5, <3>6 DEF SamplePath, Forms
  <2>2. CASE d = "rx"
    <3>1. /\ stream' = [stream EXCEPT !.read = Following(@)]
          /\ ring'["rx"].data = [ring["rx"].data EXCEPT ![f % Bufs] = stream'.read]
      BY <1>6, <2>2 DEF Finish, SamplePath, Forms, Dir
    <3>2. stream'.read = Stamp(f + 1)
      BY <1>3, <2>2, <3>1, StampNext DEF Contents, Receiving, SamplePath, Forms, Dir
    <3>3. \A a \in u .. (f + 1) - 1 : ring'["rx"].data[a % Bufs] = Stamp(a + 1)
      <4> SUFFICES ASSUME NEW a \in u .. (f + 1) - 1
                   PROVE  ring'["rx"].data[a % Bufs] = Stamp(a + 1)
        OBVIOUS
      <4>1. CASE a = f
        BY <1>6, <2>2, <3>1, <3>2, <4>1 DEF SamplePath, Forms
      <4>2. CASE a # f
        <5>1. a \in Nat /\ a \in u .. f - 1 /\ a < f /\ f < a + Bufs
          BY <1>4, <4>2, Sizes
        <5>2. a % Bufs # f % Bufs /\ a % Bufs \in Slot
          BY <5>1, Slots
        <5> QED
          BY <1>3, <2>2, <3>1, <5>1, <5>2 DEF Contents, Receiving, SamplePath, Forms, Dir
      <4> QED
        BY <4>1, <4>2
    <3>4. Contents(d, f + 1, u)'
      BY <1>3, <2>2, <3>1, <3>2, <3>3 DEF Contents, Receiving, SamplePath, Forms
    <3> QED
      BY <3>1, <3>4 DEF InOrder, SamplePath, Forms
  <2> QED
    BY <2>1, <2>2 DEF Dir
<1>8. InStep(d)'
  BY <1>4, <1>5, <1>7, f + 1 \in Nat DEF InStep
<1>9. ASSUME NEW e \in Dir \ {d} PROVE InStep(e)'
  <2>1. InStep(e) /\ dma'[e] = dma[e] /\ ring'[e] = ring[e]
    BY <1>1, FinishForms DEF SamplePath
  <2>2. /\ e = "tx" => stream'.made = stream.made /\ stream'.sent = stream.sent
        /\ e = "rx" => stream'.read = stream.read /\ stream'.heard = stream.heard
    BY DEF Finish, SamplePath, Forms, Dir
  <2>3. (At("requeue", e)' <=> At("requeue", e)) /\ (At("hold", e)' <=> At("hold", e))
    BY FinishForms DEF At
  <2> QED
    BY <2>1, <2>2, <2>3, Undisturbed, FinishForms
<1> QED
  BY <1>2, <1>7, <1>8, <1>9 DEF SamplePath

LEMMA UseForms ==
  ASSUME SamplePath, NEW d \in Dir, Use(d)
  PROVE  /\ Forms'
         /\ \A e \in Dir \ {d} : ring'[e] = ring[e]
         /\ ring'[d].done = ring[d].done \ {ring[d].next} /\ ring'[d].next = ring[d].next
         /\ task'.at = "requeue" /\ task'.dir = d
<1> DEFINE i == ring[d].next
           r == IF d = "tx" THEN [ring[d] EXCEPT !.data[i] = stream'.made, !.done = @ \ {i}]
                            ELSE [ring[d] EXCEPT !.done = @ \ {i}]
<1>1. ring' = [ring EXCEPT ![d] = r]
  BY DEF Use
<1>2. /\ r = [done |-> r.done, data |-> r.data, next |-> r.next]
      /\ DOMAIN r.data = Slot /\ r.done = ring[d].done \ {i} /\ r.next = ring[d].next
  <2>1. /\ ring[d] = [done |-> ring[d].done, data |-> ring[d].data, next |-> ring[d].next]
        /\ DOMAIN ring[d].data = Slot
    BY DEF SamplePath, Forms
  <2> DEFINE o == IF d = "tx" THEN [ring[d] EXCEPT !.data[i] = stream'.made] ELSE ring[d]
  <2>2. o = [done |-> ring[d].done, data |-> o.data, next |-> ring[d].next]
        /\ DOMAIN o.data = Slot
    BY <2>1
  <2>3. r = [o EXCEPT !.done = @ \ {i}]
    BY <2>1
  <2> HIDE DEF r, o
  <2> QED
    BY <2>1, <2>2, <2>3
<1>3. /\ task' = [at |-> "requeue", dir |-> d, paced |-> task'.paced]
      /\ stream' = [made |-> stream'.made, sent |-> stream'.sent, read |-> stream'.read,
                    heard |-> stream'.heard]
  BY DEF Use, Go, SamplePath, Forms
<1> HIDE DEF r
<1>4. /\ ring'[d] = r /\ DOMAIN ring' = Dir /\ \A e \in Dir \ {d} : ring'[e] = ring[e]
  BY <1>1 DEF SamplePath, Forms
<1>5. \A e \in Dir :
        /\ ring'[e] = [done |-> ring'[e].done, data |-> ring'[e].data, next |-> ring'[e].next]
        /\ DOMAIN ring'[e].data = Slot
  <2> SUFFICES ASSUME NEW e \in Dir
               PROVE  /\ ring'[e] = [done |-> ring'[e].done, data |-> ring'[e].data,
                                     next |-> ring'[e].next]
                      /\ DOMAIN ring'[e].data = Slot
    OBVIOUS
  <2>1. CASE e = d
    BY <1>2, <1>4, <2>1
  <2>2. CASE e # d
    BY <1>4, <2>2 DEF SamplePath, Forms
  <2> QED
    BY <2>1, <2>2
<1>6. Forms'
  BY <1>3, <1>4, <1>5 DEF Use, SamplePath, Forms
<1> QED
  BY <1>2, <1>3, <1>4, <1>6

LEMMA UseKeeps ==
  ASSUME SamplePath, NEW d \in Dir, Use(d)
  PROVE  SamplePath' /\ stream'.sent = stream.sent /\ InOrder(stream.heard, stream'.heard)
<1>1. app.hw /\ task.at = "hold" /\ task.dir = d
  BY DEF SamplePath, Powered, Use, At
<1>2. Forms' /\ Powered'
  BY <1>1, UseForms DEF SamplePath, Powered, Use
<1>3. PICK f \in Nat, u \in Nat :
        Cycle(dma[d], ring[d], f, u) /\ Turn(d, f, u) /\ Contents(d, f, u)
  BY <1>1 DEF SamplePath, InStep
<1>4. ring[d].next = u % Bufs /\ u < f /\ f <= u + Bufs
  <2>1. At("hold", d)
    BY DEF Use
  <2> QED
    BY <1>3, <2>1, AtNext DEF Cycle
<1>5. Cycle(dma[d], ring'[d], f, u + 1)
  <2>1. Cycle(dma[d], ring[d], f, u)
    BY <1>3
  <2>2. ring'[d].done = ring[d].done \ {u % Bufs}
    BY <1>4, UseForms
  <2> QED
    BY <1>4, <2>1, <2>2, CycleUse
<1>6. Turn(d, f, u + 1)'
  <2>1. After(u % Bufs) = (u + 1) % Bufs
    BY Slots
  <2> QED
    BY <1>4, <2>1, UseForms DEF Turn, At
<1>7. u % Bufs \in Slot
  BY Slots
<1>8. Contents(d, f, u + 1)' /\ InOrder(stream.heard, stream'.heard)
      /\ stream'.sent = stream.sent
  <2>1. CASE d = "tx"
    <3>1. /\ stream' = [stream EXCEPT !.made = Following(@)]
          /\ ring'["tx"].data = [ring["tx"].data EXCEPT ![u % Bufs] = stream'.made]
      BY <1>4, <1>7, <2>1 DEF Use, SamplePath, Forms, Dir
    <3>2. stream'.made = Stamp(u + 1)
      BY <1>3, <2>1, <3>1, StampNext DEF Contents, Sending, SamplePath, Forms
    <3>3. \A a \in f .. (u + 1) + Bufs - 1 : ring'["tx"].data[a % Bufs] = Stamp(a - Bufs + 1)
      <4> SUFFICES ASSUME NEW a \in f .. (u + 1) + Bufs - 1
                   PROVE  ring'["tx"].data[a % Bufs] = Stamp(a - Bufs + 1)
        OBVIOUS
      <4>1. CASE a = u + Bufs
        <5>1. (u + Bufs) % Bufs = u % Bufs
          BY Slots
        <5>2. a % Bufs = u % Bufs /\ a - Bufs + 1 = u + 1
          BY <4>1, <5>1, Sizes
        <5> QED
          BY <1>7, <2>1, <3>1, <3>2, <5>2 DEF SamplePath, Forms
      <4>2. CASE a # u + Bufs
        <5>1. a \in Nat /\ a \in f .. u + Bufs - 1 /\ u < a /\ a < u + Bufs
          BY <1>4, <4>2, Sizes
        <5>2. a % Bufs # u % Bufs /\ a % Bufs \in Slot
          BY <5>1, Slots
        <5> QED
          BY <1>3, <2>1, <3>1, <5>1, <5>2 DEF Contents, Sending, SamplePath, Forms
      <4> QED
        BY <4>1, <4>2
    <3>4. Contents(d, f, u + 1)'
      BY <1>3, <2>1, <3>1, <3>2, <3>3 DEF Contents, Sending, SamplePath, Forms
    <3> QED
      BY <3>1, <3>4 DEF InOrder, SamplePath, Forms
  <2>2. CASE d = "rx"
    <3>1. /\ stream' = [stream EXCEPT !.heard = ring["rx"].data[u % Bufs]]
          /\ ring'["rx"].data = ring["rx"].data
      BY <1>4, <2>2 DEF Use, SamplePath, Forms, Dir
    <3>2. ring["rx"].data[u % Bufs] = Stamp(u + 1) /\ stream.heard = Stamp(u)
      BY <1>3, <1>4, <2>2 DEF Contents, Receiving, Dir
    <3>3. stream'.heard = Stamp(u + 1)
      BY <3>1, <3>2 DEF SamplePath, Forms
    <3>4. Contents(d, f, u + 1)'
      BY <1>3, <2>2, <3>1, <3>3 DEF Contents, Receiving, SamplePath, Forms, Dir
    <3> QED
      BY <3>1, <3>2, <3>3, <3>4, StampInOrder DEF SamplePath, Forms
  <2> QED
    BY <2>1, <2>2 DEF Dir
<1>9. InStep(d)'
  BY <1>5, <1>6, <1>8, u + 1 \in Nat DEF InStep, Use
<1>10. ASSUME NEW e \in Dir \ {d} PROVE InStep(e)'
  <2>1. InStep(e) /\ dma'[e] = dma[e] /\ ring'[e] = ring[e]
    BY <1>1, UseForms DEF SamplePath, Use
  <2>2. /\ e = "tx" => stream'.made = stream.made /\ stream'.sent = stream.sent
        /\ e = "rx" => stream'.read = stream.read /\ stream'.heard = stream.heard
    BY DEF Use, SamplePath, Forms, Dir
  <2>3. ~At("requeue", e)' /\ ~At("requeue", e) /\ ~At("hold", e)' /\ task.at # "down"
    BY <1>1, UseForms DEF At
  <2> QED
    BY <2>1, <2>2, <2>3, Undisturbed
<1> QED
  BY <1>2, <1>8, <1>9, <1>10 DEF SamplePath

LEMMA RequeueKeeps == ASSUME SamplePath, NEW d \in Dir, Requeue(d) PROVE SamplePath'
<1> DEFINE c == Moved(dma[d], ring[d].next)
           r == [ring[d] EXCEPT !.next = After(@)]
<1>1. dma' = [dma EXCEPT ![d] = c] /\ ring' = [ring EXCEPT ![d] = r]
  BY DEF Requeue
<1>2. app.hw /\ task.at = "requeue" /\ task.dir = d
  BY DEF SamplePath, Powered, Requeue, At
<1>3. /\ c = [run |-> c.run, idle |-> c.idle, busy |-> c.busy, pos |-> c.pos, tail |-> c.tail]
      /\ c.pos = dma[d].pos /\ c.busy = dma[d].busy
  <2> DEFINE no == FALSE
             o == [dma[d] EXCEPT !.tail = ring[d].next]
  <2>1. /\ dma[d] = [run |-> dma[d].run, idle |-> dma[d].idle, busy |-> dma[d].busy,
                     pos |-> dma[d].pos, tail |-> dma[d].tail]
    BY DEF SamplePath, Forms
  <2>2. c = IF dma[d].run THEN [o EXCEPT !.idle = no] ELSE dma[d]
    BY DEF Moved
  <2> HIDE DEF c, no
  <2>3. o = [run |-> dma[d].run, idle |-> dma[d].idle, busy |-> dma[d].busy,
             pos |-> dma[d].pos, tail |-> o.tail]
    BY <2>1
  <2> HIDE DEF o
  <2> QED
    BY <2>1, <2>2, <2>3
<1>4. /\ r = [done |-> r.done, data |-> r.data, next |-> r.next]
      /\ DOMAIN r.data = Slot /\ r.data = ring[d].data /\ r.done = ring[d].done
      /\ r.next = After(ring[d].next)
  BY DEF SamplePath, Forms
<1>5. task' = [at |-> "peek", dir |-> d, paced |-> task'.paced]
  BY DEF Requeue, Go
<1> HIDE DEF c, r
<1>6. /\ dma'[d] = c /\ ring'[d] = r /\ DOMAIN dma' = Dir /\ DOMAIN ring' = Dir
      /\ \A e \in Dir \ {d} : dma'[e] = dma[e] /\ ring'[e] = ring[e]
  BY <1>1 DEF SamplePath, Forms
<1>7. \A e \in Dir :
        /\ dma'[e] = [run |-> dma'[e].run, idle |-> dma'[e].idle, busy |-> dma'[e].busy,
                      pos |-> dma'[e].pos, tail |-> dma'[e].tail]
        /\ ring'[e] = [done |-> ring'[e].done, data |-> ring'[e].data, next |-> ring'[e].next]
        /\ DOMAIN ring'[e].data = Slot
  <2> SUFFICES ASSUME NEW e \in Dir
               PROVE  /\ dma'[e] = [run |-> dma'[e].run, idle |-> dma'[e].idle,
                                    busy |-> dma'[e].busy, pos |-> dma'[e].pos,
                                    tail |-> dma'[e].tail]
                      /\ ring'[e] = [done |-> ring'[e].done, data |-> ring'[e].data,
                                     next |-> ring'[e].next]
                      /\ DOMAIN ring'[e].data = Slot
    OBVIOUS
  <2>1. CASE e = d
    BY <1>3, <1>4, <1>6, <2>1
  <2>2. CASE e # d
    BY <1>6, <2>2 DEF SamplePath, Forms
  <2> QED
    BY <2>1, <2>2
<1>8. Forms' /\ Powered'
  BY <1>2, <1>5, <1>6, <1>7 DEF Requeue, SamplePath, Forms, Powered
<1>9. InStep(d)'
  <2>1. PICK f \in Nat, u \in Nat :
          Cycle(dma[d], ring[d], f, u) /\ Turn(d, f, u) /\ Contents(d, f, u)
    BY <1>2 DEF SamplePath, InStep
  <2>2. Cycle(dma'[d], ring'[d], f, u)
    BY <1>3, <1>4, <1>6, <2>1 DEF Cycle
  <2>3. Turn(d, f, u)'
    BY <1>2, <1>4, <1>5, <1>6, <2>1 DEF Turn, At
  <2>4. Contents(d, f, u)'
    BY <1>4, <1>6, <2>1 DEF Contents, Sending, Receiving, Requeue, Dir
  <2> QED
    BY <2>2, <2>3, <2>4 DEF InStep
<1>10. ASSUME NEW e \in Dir \ {d} PROVE InStep(e)'
  <2>1. InStep(e) /\ dma'[e] = dma[e] /\ ring'[e] = ring[e] /\ UNCHANGED stream
    BY <1>2, <1>6 DEF SamplePath, Requeue
  <2>2. ~At("requeue", e)' /\ ~At("requeue", e) /\ ~At("hold", e)' /\ task.at # "down"
    BY <1>2, <1>5 DEF At
  <2> QED
    BY <2>1, <2>2, Undisturbed
<1> QED
  BY <1>8, <1>9, <1>10 DEF SamplePath

-----------------------------------------------------------------------------
LEMMA SamplePathKept ==
  ASSUME SamplePath, [SampleNext]_sampleVars
  PROVE  SamplePath' /\ (stream' # stream /\ stream' # NewStream =>
                           /\ InOrder(stream.sent, stream'.sent)
                           /\ InOrder(stream.heard, stream'.heard))
<1> DEFINE Ordered == /\ InOrder(stream.sent, stream'.sent)
                      /\ InOrder(stream.heard, stream'.heard)
<1> SUFFICES SamplePath' /\ (stream' = stream \/ stream' = NewStream \/ Ordered)
  OBVIOUS
<1>1. CASE DrainIpc
  BY <1>1, DrainIpcKeeps DEF DrainIpc
<1>2. CASE ApplyMode
  BY <1>2, ApplyModeKeeps DEF ApplyMode, PayloadStart
<1>3. ASSUME NEW d \in Dir, Peek(d) PROVE SamplePath' /\ stream' = stream
  BY <1>3, PeekKeeps DEF Peek
<1>4. ASSUME NEW d \in Dir, Use(d) PROVE SamplePath' /\ Ordered
  BY <1>4, UseKeeps DEF InOrder
<1>5. ASSUME NEW d \in Dir, Requeue(d) PROVE SamplePath' /\ stream' = stream
  BY <1>5, RequeueKeeps DEF Requeue
<1>6. ASSUME NEW d \in Dir, Fetch(d) PROVE SamplePath' /\ stream' = stream
  BY <1>6, FetchKeeps DEF Fetch
<1>7. ASSUME NEW d \in Dir, Finish(d) PROVE SamplePath' /\ Ordered
  BY <1>7, FinishKeeps DEF InOrder
<1>8. ASSUME NEW d \in Dir, Fail(d) PROVE SamplePath' /\ stream' = stream
  BY <1>8, FailKeeps DEF Fail
<1>9. ASSUME NEW l \in Loops, Configure(l) PROVE SamplePath' /\ stream' = stream
  BY <1>9, ConfigureKeeps DEF Configure
<1>10. CASE Stop
  BY <1>10, StopKeeps DEF Stop
<1>11. CASE Boot
  BY <1>11, BootKeeps DEF Boot
<1>12. CASE UNCHANGED sampleVars
  BY <1>12 DEF sampleVars, SamplePath, Forms, Powered, InStep, Cycle, Turn, Contents, At,
               Sending, Receiving
<1> QED
  BY <1>1, <1>2, <1>3, <1>4, <1>5, <1>6, <1>7, <1>8, <1>9, <1>10, <1>11, <1>12
     DEF SampleNext, ModemTask, Engine

LEMMA SamplePathAlways == SampleSpec => []SamplePath
<1>1. SamplePath /\ [SampleNext]_sampleVars => SamplePath'
  BY SamplePathKept
<1> QED
  BY <1>1, InitSamplePath, PTL DEF SampleSpec

(* While the task has a buffer the engine is in another one, whatever the  *)
(* number of buffers: a completed descriptor is at most Bufs - 1 behind    *)
(* the one at work.                                                        *)
THEOREM NoSharedBufferAlways == SampleSpec => []NoSharedBuffer
<1>1. SamplePath => NoSharedBuffer
  <2> SUFFICES ASSUME SamplePath, NEW d \in Dir, At("hold", d), dma[d].busy
               PROVE  dma[d].pos # ring[d].next
    BY DEF NoSharedBuffer
  <2>1. app.hw
    BY DEF SamplePath, Powered, At
  <2>2. PICK f \in Nat, u \in Nat : Cycle(dma[d], ring[d], f, u) /\ Turn(d, f, u)
    BY <2>1 DEF SamplePath, InStep
  <2>3. ring[d].next = u % Bufs /\ u < f /\ f < u + Bufs /\ dma[d].pos = f % Bufs
    BY <2>2, AtNext DEF Cycle
  <2> QED
    BY <2>3, Slots
<1> QED
  BY <1>1, SamplePathAlways, PTL

(* Every step that changes a stream without beginning a new one sends at   *)
(* most the next buffer that was made, and hands on at most the next one   *)
(* that was read.                                                          *)
THEOREM StreamsInOrderAlways == SampleSpec => StreamsInOrder
<1>1. SamplePath /\ [SampleNext]_sampleVars =>
        [stream' # NewStream =>
           /\ InOrder(stream.sent, stream'.sent)
           /\ InOrder(stream.heard, stream'.heard)]_stream
  BY SamplePathKept
<1> QED
  BY <1>1, SamplePathAlways, PTL DEF SampleSpec, StreamsInOrder

-----------------------------------------------------------------------------
(* The downlink: after a change of the channel the daemon holds frames     *)
(* back for kLinkSettle, so that the lock it goes by is one of the new     *)
(* link.  It works because a lock of the old link grows older while the    *)
(* hold runs down: HeardOld.                                               *)

(* Parts of a number of ticks. *)
Span(ticks) == Parts * ticks

(* What the assumptions say of the constants. *)
LEMMA LinkSizes ==
  /\ kLinkSettle \in Nat /\ StatusPeriod \in Nat /\ Parts \in Nat /\ LockTime \in Nat
  /\ kLinkSettle > 0 /\ StatusPeriod > 0 /\ Parts > 0 /\ LockTime > 0
  /\ Span(kLinkSettle - StatusPeriod) > LockTime
BY DownlinkAssumption, SettleAssumption DEF Span

(* A span grows with its ticks. *)
LEMMA Spans ==
  /\ Span(0) = 0
  /\ \A x \in Int : Span(x) \in Int /\ Span(x + 1) = Span(x) + Parts
  /\ \A x, y \in Int : x <= y => Span(x) <= Span(y)
<1>1. \A p \in Nat, x, y \in Int : x <= y => p * x <= p * y
  OBVIOUS
<1>2. \A p \in Nat, x \in Int : p * x \in Int /\ p * (x + 1) = p * x + p /\ p * 0 = 0
  OBVIOUS
<1> QED
  BY <1>1, <1>2, LinkSizes DEF Span

(* What stays what it is when a function of the modem changes a part of    *)
(* it: the provers see the fields of a record through its domain.          *)
ModemFields == {"core", "boot", "conf", "auto", "acm", "tx", "air", "todo", "depth",
                "overflow", "locked", "since", "esn0", "heard", "clock"}

(* Ticks of the hold that have passed; all of them when there is none. *)
Gone == kLinkSettle - mgr.hold
(* A lock of a link that is gone is as old as n parts. *)
Stale(m, n) == m.locked /\ m.heard # channel.link => m.since >= n
(* The receiver's lock lasts LockTime and no longer. *)
Lasting(m) ==
  DOMAIN m = ModemFields /\ m.since \in 0 .. LockTime /\ (m.locked => m.since < LockTime)
Kept(m, x) == x.core = m.core /\ x.boot = m.boot /\ x.clock = m.clock

(* One part without a good frame makes a lock one part older. *)
LEMMA SilenceKeeps ==
  ASSUME NEW m, Lasting(m)
  PROVE  /\ Lasting(Silence(m)) /\ Kept(m, Silence(m))
         /\ Silence(m).todo = m.todo /\ Silence(m).heard = m.heard
         /\ Silence(m).locked => m.locked /\ Silence(m).since = m.since + 1
<1> DEFINE since == Min({m.since + 1, LockTime})
           lock == m.locked /\ since < LockTime
<1>1. /\ m.since \in Nat /\ m.since <= LockTime /\ LockTime \in Nat
      /\ DOMAIN m = ModemFields
  BY LinkSizes DEF Lasting
<1>2. since = IF m.since + 1 < LockTime THEN m.since + 1 ELSE LockTime
  BY <1>1 DEF Min
<1>3. Silence(m) = [m EXCEPT !.since = since, !.locked = lock]
  BY DEF Silence
<1>4. PICK l : l = lock
  OBVIOUS
<1> HIDE DEF since, lock
<1>5. PICK x : x = [m EXCEPT !.since = since, !.locked = l]
  OBVIOUS
<1>6. /\ DOMAIN x = ModemFields /\ x.since = since /\ x.locked = l
      /\ x.core = m.core /\ x.boot = m.boot /\ x.clock = m.clock
      /\ x.todo = m.todo /\ x.heard = m.heard
  BY <1>1, <1>5 DEF ModemFields
<1>7. Silence(m) = x
  BY <1>3, <1>4, <1>5
<1>8. x.locked => m.locked /\ since < LockTime
  BY <1>4, <1>6 DEF lock
<1>9. since \in 0 .. LockTime /\ (since < LockTime => since = m.since + 1)
  BY <1>1, <1>2
<1> QED
  BY <1>6, <1>7, <1>8, <1>9 DEF Lasting, Kept

(* The end of a frame locks the receiver on its link or changes nothing of *)
(* the lock.                                                               *)
LEMMA HearKeeps ==
  ASSUME NEW m, Lasting(m), NEW c
  PROVE  /\ Lasting(Hear(m, c)) /\ Kept(m, Hear(m, c))
         /\ \/ Hear(m, c).heard = c.link /\ Hear(m, c).since = 0
            \/ /\ Hear(m, c).locked <=> m.locked
               /\ Hear(m, c).heard = m.heard /\ Hear(m, c).since = m.since
<1>1. DOMAIN m = ModemFields
  BY DEF Lasting
<1>2. CASE ~Found(c)
  BY <1>2 DEF Hear, Kept
<1>3. CASE Found(c) /\ ~Decodes(m, c)
  <2>1. PICK e, x : e = Smoothed(m, c.level) /\ x = [m EXCEPT !.esn0 = e]
    OBVIOUS
  <2>2. Hear(m, c) = x
    BY <1>3, <2>1 DEF Hear
  <2>3. /\ DOMAIN x = ModemFields /\ x.since = m.since /\ x.locked = m.locked
        /\ x.core = m.core /\ x.boot = m.boot /\ x.clock = m.clock /\ x.heard = m.heard
    BY <1>1, <2>1 DEF ModemFields
  <2> QED
    BY <2>2, <2>3 DEF Lasting, Kept
<1>4. CASE Found(c) /\ Decodes(m, c)
  <2>1. PICK yes, e : yes = TRUE /\ e = Smoothed(m, c.level)
    OBVIOUS
  <2>2. PICK x : x = [m EXCEPT !.esn0 = e, !.locked = yes, !.since = 0, !.heard = c.link]
    OBVIOUS
  <2>3. Hear(m, c) = x
    BY <1>4, <2>1, <2>2 DEF Hear
  <2>4. /\ DOMAIN x = ModemFields /\ x.since = 0 /\ x.heard = c.link
        /\ x.core = m.core /\ x.boot = m.boot /\ x.clock = m.clock
    BY <1>1, <2>2 DEF ModemFields
  <2>5. 0 \in 0 .. LockTime /\ 0 < LockTime
    BY LinkSizes
  <2> QED
    BY <2>3, <2>4, <2>5 DEF Lasting, Kept
<1> QED
  BY <1>2, <1>3, <1>4

(* The start of a frame changes nothing of the lock. *)
LEMMA NextFrameKeeps ==
  ASSUME NEW m, Lasting(m)
  PROVE  /\ Lasting(NextFrame(m)) /\ Kept(m, NextFrame(m))
         /\ NextFrame(m).locked <=> m.locked
         /\ NextFrame(m).heard = m.heard /\ NextFrame(m).since = m.since
<1> DEFINE acm == IF m.auto THEN Update(m.acm, m.esn0, m.locked) ELSE m.acm
           tx == IF m.auto THEN acm.current ELSE m.conf
           todo == FrameTime[tx]
           depth == IF m.depth > 0 THEN m.depth - 1 ELSE 0
<1>1. NextFrame(m) = [m EXCEPT !.acm = acm, !.tx = tx, !.air = tx, !.todo = todo,
                               !.depth = depth]
  BY DEF NextFrame
<1> HIDE DEF acm, tx, todo, depth
<1>2. PICK x : x = [m EXCEPT !.acm = acm, !.tx = tx, !.air = tx, !.todo = todo,
                             !.depth = depth]
  OBVIOUS
<1>3. /\ DOMAIN x = ModemFields /\ x.since = m.since /\ x.locked = m.locked
      /\ x.core = m.core /\ x.boot = m.boot /\ x.clock = m.clock /\ x.heard = m.heard
  BY <1>2 DEF ModemFields, Lasting
<1> QED
  BY <1>1, <1>2, <1>3 DEF Lasting, Kept

(* In one part, a lock comes from a frame that ends in it, or it is one    *)
(* part older.                                                             *)
LEMMA PartKeeps ==
  ASSUME NEW m, Lasting(m), NEW cs, NEW x \in Part(m, cs)
  PROVE  /\ Lasting(x) /\ Kept(m, x)
         /\ \/ ~(m.todo > 1) /\ \E c \in cs : x.heard = c.link
            \/ x.locked => m.locked /\ x.heard = m.heard /\ x.since = m.since + 1
<1> DEFINE s == Silence(m)
<1>1. /\ Lasting(s) /\ Kept(m, s) /\ s.todo = m.todo /\ s.heard = m.heard
      /\ s.locked => m.locked /\ s.since = m.since + 1
  BY SilenceKeeps
<1>2. CASE m.todo > 1
  <2>1. x = [s EXCEPT !.todo = s.todo - 1]
    BY <1>2 DEF Part
  <2> HIDE DEF s
  <2>2. PICK t : t = s.todo - 1
    OBVIOUS
  <2>3. /\ DOMAIN x = ModemFields /\ x.since = s.since /\ x.locked = s.locked
        /\ x.core = s.core /\ x.boot = s.boot /\ x.clock = s.clock /\ x.heard = s.heard
    BY <1>1, <2>1, <2>2 DEF ModemFields, Lasting
  <2> QED
    BY <1>1, <2>3 DEF Lasting, Kept
<1>3. CASE ~(m.todo > 1)
  <2>1. PICK c \in cs : x = NextFrame(Hear(s, c))
    BY <1>3 DEF Part
  <2> HIDE DEF s
  <2>2. /\ Lasting(Hear(s, c)) /\ Kept(s, Hear(s, c))
        /\ \/ Hear(s, c).heard = c.link /\ Hear(s, c).since = 0
           \/ /\ Hear(s, c).locked <=> s.locked
              /\ Hear(s, c).heard = s.heard /\ Hear(s, c).since = s.since
    BY <1>1, HearKeeps
  <2>3. /\ Lasting(x) /\ Kept(Hear(s, c), x)
        /\ x.locked <=> Hear(s, c).locked
        /\ x.heard = Hear(s, c).heard /\ x.since = Hear(s, c).since
    BY <2>1, <2>2, NextFrameKeeps
  <2> QED
    BY <1>1, <1>3, <2>2, <2>3 DEF Kept
<1> QED
  BY <1>2, <1>3

(* The recursion of Sent has a solution. *)
LEMMA SentDefined ==
  Sent = [n \in 0 .. Parts |->
            IF n = 0 THEN {modem}
            ELSE UNION {Part(m, IF n = 1 THEN {prev, channel} ELSE {channel}) :
                          m \in Sent[n - 1]}]
<1> DEFINE Later(n, S) == UNION {Part(m, IF n = 1 THEN {prev, channel} ELSE {channel}) : m \in S}
           Solves(f, k) == f = [n \in 0 .. k |-> IF n = 0 THEN {modem} ELSE Later(n, f[n - 1])]
           Bad == {k \in Nat : ~\E f : Solves(f, k)}
<1>1. Sent = CHOOSE f : Solves(f, Parts)
  BY DEF Sent
<1> HIDE DEF Later
<1>2. Bad = {}
  <2> DEFINE R == OpToRel(<, Nat)
  <2> SUFFICES ASSUME Bad # {} PROVE FALSE
    OBVIOUS
  <2>1. PICK k \in Bad : \A y \in Bad : ~(<<y, k>> \in R)
    <3> HIDE DEF Bad
    <3>1. Bad \subseteq Nat
      BY DEF Bad
    <3> QED
      BY <3>1, NatLessThanWellFounded, WFMin
  <2>2. k # 0
    <3> SUFFICES \E f : Solves(f, 0)
      OBVIOUS
    <3> DEFINE g == [n \in 0 .. 0 |-> {modem}]
    <3>1. Solves(g, 0)
      OBVIOUS
    <3> QED
      BY <3>1
  <2>3. k \in Nat /\ k - 1 \in Nat /\ <<k - 1, k>> \in R
    BY <2>2 DEF OpToRel
  <2>4. PICK f : Solves(f, k - 1)
    <3>1. k - 1 \notin Bad
      <4> HIDE DEF Bad
      <4> QED
        BY <2>1, <2>3
    <3> HIDE DEF Solves
    <3> QED
      BY <2>3, <3>1
  <2> DEFINE g == [n \in 0 .. k |-> IF n = k THEN Later(k, f[k - 1]) ELSE f[n]]
  <2>5. Solves(g, k)
    <3> SUFFICES ASSUME NEW n \in 0 .. k
                 PROVE  g[n] = IF n = 0 THEN {modem} ELSE Later(n, g[n - 1])
      OBVIOUS
    <3>1. CASE n = k
      BY <2>2, <3>1
    <3>2. CASE n # k
      <4>1. n \in 0 .. k - 1
        BY <3>2
      <4>2. f[n] = IF n = 0 THEN {modem} ELSE Later(n, f[n - 1])
        BY <2>4, <4>1
      <4>3. n # 0 => g[n - 1] = f[n - 1]
        BY <3>2
      <4> QED
        BY <3>2, <4>2, <4>3
    <3> QED
      BY <3>1, <3>2
  <2> QED
    BY <2>5
<1>3. Solves(Sent, Parts)
  <2>1. Parts \in Nat
    BY LinkSizes
  <2>2. \E f : Solves(f, Parts)
    BY <1>2, <2>1
  <2> QED
    BY <1>1, <2>2
<1> QED
  BY <1>3 DEF Later

(* The parts of a tick: n parts later what was not heard is older by n. *)
Silent(m, n) == Stale(m, Span(Gone) - 1 + n)

HeardOld ==
  modem.core = "up" =>
    /\ Silent(modem, 0)
    /\ prev.link # channel.link => mgr.hold = kLinkSettle \/ modem.todo > 1

(* A tick of the sample path, by induction over its parts. *)
LEMMA SentKeeps ==
  ASSUME Lasting(modem), modem.core = "up", HeardOld, mgr.hold \in 0 .. kLinkSettle
  PROVE  \A m \in Sent[Parts] : Lasting(m) /\ Kept(modem, m) /\ Silent(m, Parts)
<1> DEFINE Good(n, m) == /\ Lasting(m) /\ Kept(modem, m) /\ Silent(m, n)
                         /\ n = 0 => m = modem
           Bad == {n \in Nat : n <= Parts /\ ~\A m \in Sent[n] : Good(n, m)}
<1>1. ASSUME NEW n \in 0 .. Parts
      PROVE  Sent[n] = IF n = 0 THEN {modem}
                       ELSE UNION {Part(m, IF n = 1 THEN {prev, channel} ELSE {channel}) :
                                     m \in Sent[n - 1]}
  BY SentDefined
<1>2. \A m \in Sent[0] : Good(0, m)
  <2>1. 0 \in 0 .. Parts
    BY LinkSizes
  <2>2. Sent[0] = {modem}
    BY <1>1, <2>1
  <2>3. Kept(modem, modem) /\ Silent(modem, 0)
    BY DEF HeardOld, Kept
  <2> QED
    BY <2>2, <2>3
<1>3. ASSUME NEW n \in 1 .. Parts, \A m \in Sent[n - 1] : Good(n - 1, m), NEW x \in Sent[n]
      PROVE  Good(n, x)
  <2> DEFINE cs == IF n = 1 THEN {prev, channel} ELSE {channel}
  <2>1. PICK m \in Sent[n - 1] : x \in Part(m, cs)
    <3>1. n \in 0 .. Parts /\ n # 0
      BY LinkSizes
    <3>2. Sent[n] = UNION {Part(m, cs) : m \in Sent[n - 1]}
      BY <1>1, <3>1
    <3> HIDE DEF cs
    <3> QED
      BY <1>3, <3>2
  <2>2. Lasting(m) /\ Kept(modem, m) /\ Silent(m, n - 1) /\ (n = 1 => m = modem)
    BY <1>3
  <2>3. /\ Lasting(x) /\ Kept(m, x)
        /\ \/ ~(m.todo > 1) /\ \E c \in cs : x.heard = c.link
           \/ x.locked => m.locked /\ x.heard = m.heard /\ x.since = m.since + 1
    BY <2>1, <2>2, PartKeeps
  <2>4. Silent(x, n)
    <3> SUFFICES ASSUME x.locked, x.heard # channel.link PROVE x.since >= Span(Gone) - 1 + n
      BY DEF Silent, Stale
    <3>1. x.since \in Nat /\ m.since \in Nat /\ n \in Nat /\ Span(Gone) \in Int
      <4>1. Gone \in Int
        BY LinkSizes DEF Gone
      <4>2. x.since \in Nat /\ m.since \in Nat /\ n \in Nat
        BY <2>2, <2>3, LinkSizes DEF Lasting
      <4> QED
        BY <4>1, <4>2, Spans
    <3>2. CASE x.heard = m.heard /\ x.since = m.since + 1 /\ m.locked
      <4>1. m.since >= Span(Gone) - 1 + (n - 1)
        BY <2>2, <3>2 DEF Silent, Stale
      <4> QED
        BY <3>1, <3>2, <4>1
    <3>3. CASE ~(m.todo > 1) /\ \E c \in cs : x.heard = c.link
      <4>1. n = 1 /\ x.heard = prev.link /\ m = modem
        BY <2>2, <3>3
      <4>2. mgr.hold = kLinkSettle
        BY <3>3, <4>1 DEF HeardOld
      <4>3. Span(Gone) = 0
        BY <4>2, LinkSizes, Spans DEF Gone
      <4> QED
        BY <3>1, <4>1, <4>3
    <3> QED
      BY <2>3, <3>2, <3>3
  <2> QED
    BY <2>2, <2>3, <2>4 DEF Kept
<1> HIDE DEF Good
<1>4. Bad = {}
  <2> DEFINE R == OpToRel(<, Nat)
  <2> SUFFICES ASSUME Bad # {} PROVE FALSE
    OBVIOUS
  <2>1. PICK k \in Bad : \A y \in Bad : ~(<<y, k>> \in R)
    <3>1. Bad \subseteq Nat
      OBVIOUS
    <3> HIDE DEF Bad
    <3> QED
      BY <3>1, NatLessThanWellFounded, WFMin
  <2>2. k \in Nat /\ k <= Parts /\ k # 0
    BY <1>2
  <2>3. k - 1 \in Nat /\ k - 1 <= Parts /\ <<k - 1, k>> \in R
    BY <2>2, LinkSizes DEF OpToRel
  <2>4. \A m \in Sent[k - 1] : Good(k - 1, m)
    <3>1. k - 1 \notin Bad
      <4> HIDE DEF Bad
      <4> QED
        BY <2>1, <2>3
    <3> QED
      BY <2>3, <3>1
  <2>5. k \in 1 .. Parts
    BY <2>2, LinkSizes
  <2> QED
    BY <1>3, <2>4, <2>5
<1>5. \A m \in Sent[Parts] : Good(Parts, m)
  BY <1>4, LinkSizes
<1> QED
  BY <1>5 DEF Good

MgrFields == {"status", "estimate", "hold", "conf", "auto", "level"}

(* The numbers and records of the downlink. *)
LinkForms ==
  /\ DOMAIN mgr = MgrFields /\ mgr.hold \in 0 .. kLinkSettle
  /\ Lasting(modem) /\ modem.clock \in 1 .. StatusPeriod /\ modem.boot \in Nat
  /\ mgr.status.boot \in Nat /\ mgr.status.boot <= modem.boot
  /\ \A s \in report : s.boot \in Nat /\ s.boot <= modem.boot
  /\ DOMAIN turn = {"at", "stepped", "lag"}

(* A STATUS is made at the end of its period and read by the next loop of  *)
(* the daemon; two are never on the way.                                   *)
Clockwork ==
  /\ report # {} => ~due /\ ~(turn.at = "poll" /\ turn.stepped)
  /\ due => modem.core = "up"
  /\ due \/ report # {} => modem.core # "up" \/ modem.clock = StatusPeriod

(* A STATUS of this firmware instance whose lock is of a link that is      *)
(* gone.                                                                   *)
Wrong(s) == s.boot = modem.boot /\ s.locked /\ s.heard # channel.link

(* Such a STATUS is made only while the lock can last. *)
ReportOld == \A s \in report : Wrong(s) => Span(Gone) <= LockTime

(* Ticks since the STATUS the manager has, or the next one, was made. *)
Age == IF due \/ report # {} THEN StatusPeriod ELSE StatusPeriod - modem.clock

(* The STATUS the manager goes by was made while such a lock could last. *)
StatusOld == modem.core = "up" /\ Wrong(mgr.status) => Span(Gone - Age) <= LockTime

(* The inductive invariant. *)
Settled == LinkForms /\ Clockwork /\ HeardOld /\ ReportOld /\ StatusOld

(* The ages are numbers within the hold and the period. *)
LEMMA Ages ==
  ASSUME LinkForms
  PROVE  Gone \in 0 .. kLinkSettle /\ Age \in 0 .. StatusPeriod /\ Gone \in Int /\ Age \in Int
BY LinkSizes DEF LinkForms, Gone, Age

(* When the hold is over, every STATUS is younger than the lock could      *)
(* last: the last one was made less than a period ago.                     *)
LEMMA SettledIsSettled ==
  ASSUME Settled PROVE SettledLink
<1> SUFFICES ASSUME Feeding, mgr.status.heard # channel.link PROVE FALSE
  BY DEF SettledLink
<1>1. modem.core = "up" /\ Wrong(mgr.status) /\ mgr.hold = 0
  BY DEF Feeding, MayFeed, Wrong
<1>2. Span(Gone - Age) <= LockTime /\ Gone = kLinkSettle
  BY <1>1, LinkSizes DEF Settled, StatusOld, Gone
<1>3. Gone \in Int /\ Age \in Int /\ Age <= StatusPeriod
  BY Ages, LinkSizes DEF Settled
<1>4. kLinkSettle - StatusPeriod <= kLinkSettle - Age
  BY <1>3, LinkSizes
<1>5. Span(kLinkSettle - StatusPeriod) <= Span(kLinkSettle - Age)
  BY <1>3, <1>4, LinkSizes, Spans
<1>6. Span(kLinkSettle - Age) \in Int /\ Span(kLinkSettle - StatusPeriod) \in Int
  BY <1>3, LinkSizes, Spans
<1> QED
  BY <1>2, <1>5, <1>6, LinkSizes

(* An action that touches neither the link nor what is known of it. *)
LEMMA Undisturbing ==
  ASSUME Settled, DOMAIN mgr' = MgrFields, mgr'.hold = mgr.hold, mgr'.status = mgr.status,
         Lasting(modem'), modem'.boot = modem.boot, modem'.clock = modem.clock,
         modem'.core = "up" =>
           /\ modem.core = "up" /\ (modem'.locked <=> modem.locked) /\ modem'.heard = modem.heard
           /\ modem'.since = modem.since /\ modem'.todo = modem.todo,
         channel'.link = channel.link, prev' = prev, report' = report,
         \/ due' = due /\ modem'.core = modem.core
         \/ ~due' /\ modem'.core # "up",
         DOMAIN turn' = {"at", "stepped", "lag"},
         report # {} => ~(turn'.at = "poll" /\ turn'.stepped)
  PROVE  Settled'
<1>1. LinkForms'
  BY DEF Settled, LinkForms, Lasting
<1>2. Clockwork'
  BY DEF Settled, Clockwork
<1>3. Gone' = Gone
  BY DEF Gone
<1>4. HeardOld'
  BY <1>3 DEF Settled, HeardOld, Silent, Stale
<1>5. \A s : Wrong(s)' <=> Wrong(s)
  BY DEF Wrong
<1>6. ReportOld'
  BY <1>3, <1>5 DEF Settled, ReportOld
<1>7. modem'.core = "up" => Age' = Age
  BY DEF Age
<1>8. StatusOld'
  BY <1>3, <1>5, <1>7 DEF Settled, StatusOld
<1> QED
  BY <1>1, <1>2, <1>4, <1>6, <1>8 DEF Settled

(* A new link, and the hold begins. *)
LEMMA HoldBegins ==
  ASSUME Settled, LinkForms', Clockwork', mgr'.hold = kLinkSettle
  PROVE  Settled'
<1>1. Gone' = 0
  BY LinkSizes DEF Gone
<1>2. HeardOld'
  <2>1. modem'.since \in Nat
    BY LinkSizes DEF LinkForms, Lasting
  <2>2. Span(Gone') - 1 + 0 = -1
    BY <1>1, Spans
  <2>3. modem'.since >= Span(Gone') - 1 + 0
    BY <2>1, <2>2
  <2> QED
    BY <2>3 DEF HeardOld, Silent, Stale
<1>3. ReportOld'
  BY <1>1, LinkSizes, Spans DEF ReportOld
<1>4. StatusOld'
  <2>1. PICK a : a = Age'
    OBVIOUS
  <2>2. a \in 0 .. StatusPeriod
    BY <2>1, LinkSizes DEF Age, LinkForms
  <2>3. 0 - a \in Int /\ 0 - a <= 0
    BY <2>2, LinkSizes
  <2>4. Span(0 - a) <= Span(0) /\ Span(0 - a) \in Int
    BY <2>3, Spans
  <2> QED
    BY <1>1, <2>1, <2>4, LinkSizes, Spans DEF StatusOld
<1> QED
  BY <1>2, <1>3, <1>4 DEF Settled

(* What a new firmware instance starts with. *)
Begun(x, n) ==
  /\ Lasting(x) /\ x.boot = n /\ x.clock = StatusPeriod /\ ~x.locked
  /\ x.core = "up" /\ x.todo = FrameTime[Low]

(* So it is before and after it has been configured. *)
LEMMA FreshModem ==
  ASSUME NEW n
  PROVE  Begun(Fresh(n), n) /\ \A a, b : Begun([Fresh(n) EXCEPT !.conf = a, !.auto = b], n)
<1>1. PICK no : no = FALSE
  OBVIOUS
<1>2. PICK f : f = [core |-> "up", boot |-> n, conf |-> Low, auto |-> no,
                    acm |-> InitController(Low, High), tx |-> Low, air |-> Low, todo |-> FrameTime[Low],
                    depth |-> 0, overflow |-> no, locked |-> no, since |-> LockTime,
                    esn0 |-> Nothing, heard |-> 0, clock |-> StatusPeriod]
  OBVIOUS
<1>3. Fresh(n) = f
  BY <1>1, <1>2 DEF Fresh
<1>4. /\ DOMAIN f = ModemFields /\ f.since = LockTime /\ f.boot = n /\ f.clock = StatusPeriod
      /\ f.locked = no /\ f.core = "up" /\ f.todo = FrameTime[Low]
  BY <1>2 DEF ModemFields
<1>5. Begun(f, n)
  BY <1>1, <1>4, LinkSizes DEF Begun, Lasting
<1>6. ASSUME NEW a, NEW b PROVE Begun([f EXCEPT !.conf = a, !.auto = b], n)
  <2>1. PICK x : x = [f EXCEPT !.conf = a, !.auto = b]
    OBVIOUS
  <2>2. /\ DOMAIN x = ModemFields /\ x.since = LockTime /\ x.boot = n
        /\ x.clock = StatusPeriod /\ x.locked = no /\ x.core = "up"
        /\ x.todo = FrameTime[Low]
    BY <1>4, <2>1 DEF ModemFields
  <2>3. Begun(x, n)
    BY <1>1, <2>2, LinkSizes DEF Begun, Lasting
  <2> QED
    BY <2>1, <2>3
<1> QED
  BY <1>3, <1>5, <1>6

(* A new instance has heard nothing and was not heard of. *)
LEMMA NewInstance ==
  ASSUME Settled, UNCHANGED mgr, Begun(modem', modem.boot + 1), report' = {}, ~due',
         DOMAIN turn' = {"at", "stepped", "lag"}
  PROVE  Settled'
<1>1. LinkForms'
  BY LinkSizes DEF Settled, LinkForms, Begun
<1>2. Clockwork'
  BY DEF Clockwork, Begun
<1>3. HeardOld'
  BY SettleAssumption DEF HeardOld, Silent, Stale, Begun
<1>4. ReportOld'
  BY DEF ReportOld
<1>5. StatusOld'
  <2>1. mgr'.status.boot # modem'.boot
    BY DEF Settled, LinkForms, Begun
  <2> QED
    BY <2>1 DEF StatusOld, Wrong
<1> QED
  BY <1>1, <1>2, <1>3, <1>4, <1>5 DEF Settled

(* The daemon starts on a modem that has heard nothing. *)
LEMMA InitSettled == ASSUME Init PROVE Settled
<1>1. PICK m \in Modcods, a \in BOOLEAN, e \in Levels :
        /\ mgr = [status |-> NoStatus, estimate |-> 0, hold |-> 0, conf |-> m, auto |-> a,
                  level |-> e]
        /\ modem = [Fresh(1) EXCEPT !.conf = m, !.auto = a]
        /\ channel = [level |-> e, link |-> 1]
  BY DEF Init
<1>2. Begun(modem, 1)
  BY <1>1, FreshModem
<1>3. DOMAIN mgr = MgrFields /\ mgr.hold = 0 /\ mgr.status = NoStatus
  BY <1>1 DEF MgrFields
<1>4. NoStatus.boot = 0 /\ ~NoStatus.locked
  <2>1. PICK no : no = FALSE
    OBVIOUS
  <2>2. NoStatus = [locked |-> no, depth |-> 0, modcod |-> Low, heard |-> 0, boot |-> 0]
    BY <2>1 DEF NoStatus
  <2>3. NoStatus.boot = 0 /\ NoStatus.locked = no
    BY <2>2
  <2> QED
    BY <2>1, <2>3
<1>5. DOMAIN turn = {"at", "stepped", "lag"}
  <2>1. PICK no : no = FALSE
    OBVIOUS
  <2>2. turn = [at |-> "poll", stepped |-> no, lag |-> 0]
    BY <2>1 DEF Init
  <2> QED
    BY <2>2
<1>6. prev = channel /\ report = {} /\ due = FALSE
  BY DEF Init
<1>7. LinkForms
  BY <1>2, <1>3, <1>4, <1>5, <1>6, LinkSizes DEF LinkForms, Begun
<1>8. HeardOld /\ Clockwork /\ ReportOld
  BY <1>2, <1>6 DEF HeardOld, Clockwork, ReportOld, Silent, Stale, Begun
<1>9. StatusOld
  BY <1>3, <1>4 DEF StatusOld, Wrong
<1> QED
  BY <1>7, <1>8, <1>9 DEF Settled

(* Time makes a lock older by as much as it shortens the hold. *)
LEMMA TickSettled == ASSUME Settled, Tick PROVE Settled'
<1>1. /\ turn.at = "poll" /\ turn.stepped /\ ~due /\ report = {} /\ report' = report
      /\ prev' = channel /\ channel' = channel
      /\ mgr' = [mgr EXCEPT !.hold = IF mgr.hold > 0 THEN mgr.hold - 1 ELSE 0]
  BY DEF Tick, Settled, Clockwork
<1>2. /\ DOMAIN mgr' = MgrFields /\ mgr'.status = mgr.status /\ mgr'.hold \in 0 .. kLinkSettle
      /\ mgr'.hold = IF mgr.hold > 0 THEN mgr.hold - 1 ELSE 0
  BY <1>1, LinkSizes DEF Settled, LinkForms, MgrFields
<1>3. DOMAIN turn' = {"at", "stepped", "lag"}
  <2>1. PICK no : no = FALSE
    OBVIOUS
  <2>2. turn' = [at |-> "poll", stepped |-> no, lag |-> 1]
    BY <2>1 DEF Tick
  <2> QED
    BY <2>2
<1>4. CASE modem.core # "up"
  <2>1. modem' = modem /\ due' = due
    BY <1>4 DEF Tick
  <2> QED
    BY <1>1, <1>2, <1>3, <1>4, <2>1
       DEF Settled, LinkForms, Clockwork, HeardOld, ReportOld, StatusOld, Lasting
<1>5. CASE modem.core = "up"
  <2>1. PICK m \in Sent[Parts] :
          modem' = [m EXCEPT !.clock = IF m.clock = 1 THEN StatusPeriod ELSE m.clock - 1]
    BY <1>5 DEF Tick
  <2>2. Lasting(m) /\ Kept(modem, m) /\ Silent(m, Parts)
    BY <1>5, SentKeeps DEF Settled, LinkForms
  <2>3. PICK c : c = IF modem.clock = 1 THEN StatusPeriod ELSE modem.clock - 1
    OBVIOUS
  <2>4. modem' = [m EXCEPT !.clock = c]
    BY <2>1, <2>2, <2>3 DEF Kept
  <2>5. /\ Lasting(modem') /\ modem'.clock = c /\ modem'.boot = modem.boot
        /\ modem'.core = "up" /\ modem'.heard = m.heard /\ modem'.since = m.since
        /\ modem'.locked <=> m.locked
    BY <1>5, <2>2, <2>4 DEF Lasting, Kept, ModemFields
  <2>6. due' = (modem.clock = 1)
    BY <1>5 DEF Tick
  <2>7. c \in 1 .. StatusPeriod /\ (modem.clock = 1 => c = StatusPeriod)
    BY <2>3, LinkSizes DEF Settled, LinkForms
  <2>8. LinkForms' /\ Clockwork'
    BY <1>1, <1>2, <1>3, <2>5, <2>6, <2>7 DEF Settled, LinkForms, Clockwork
  <2>9. PICK g, h : g = Gone /\ h = Gone'
    OBVIOUS
  <2>10. /\ g \in 0 .. kLinkSettle /\ g \in Int /\ h \in Int
         /\ h = g + 1 \/ (h = g /\ g = kLinkSettle)
    BY <1>2, <2>9, LinkSizes DEF Settled, LinkForms, Gone
  <2>11. Span(g) \in Int /\ Span(h) \in Int /\ Span(h) <= Span(g) + Parts
    <3>1. Span(g) \in Int /\ Span(h) \in Int /\ Span(g + 1) = Span(g) + Parts
      BY <2>10, Spans
    <3> QED
      BY <2>10, <3>1, LinkSizes
  <2>12. HeardOld'
    <3> SUFFICES ASSUME modem'.locked, modem'.heard # channel'.link
                 PROVE  modem'.since >= Span(h) - 1 + 0
      BY <1>1, <2>9 DEF HeardOld, Silent, Stale
    <3>1. m.since >= Span(g) - 1 + Parts /\ m.since \in Nat
      BY <1>1, <2>2, <2>5, <2>9, LinkSizes DEF Silent, Stale, Lasting
    <3> QED
      BY <2>5, <2>11, <3>1, LinkSizes
  <2>13. ReportOld'
    BY <1>1 DEF ReportOld
  <2>14. StatusOld'
    <3> SUFFICES ASSUME Wrong(mgr.status)' PROVE Span(Gone' - Age') <= LockTime
      BY DEF StatusOld
    <3>1. Wrong(mgr.status)
      BY <1>1, <1>2, <2>5 DEF Wrong
    <3>2. PICK a, b : a = Age /\ b = Age'
      OBVIOUS
    <3>3. a \in Int /\ b = a + 1
      <4>1. a = StatusPeriod - modem.clock
        BY <1>1, <3>2 DEF Age
      <4>2. b = IF modem.clock = 1 THEN StatusPeriod ELSE StatusPeriod - c
        BY <1>1, <2>5, <2>6, <3>2 DEF Age
      <4> QED
        BY <2>3, <4>1, <4>2, LinkSizes DEF Settled, LinkForms
    <3>4. Span(g - a) <= LockTime
      BY <1>5, <2>9, <3>1, <3>2 DEF Settled, StatusOld
    <3>5. h - b \in Int /\ g - a \in Int /\ h - b <= g - a
      BY <2>10, <3>3
    <3>6. Span(h - b) <= Span(g - a) /\ Span(h - b) \in Int /\ Span(g - a) \in Int
      BY <3>5, Spans
    <3> QED
      BY <2>9, <3>2, <3>4, <3>6, LinkSizes
  <2> QED
    BY <2>8, <2>12, <2>13, <2>14 DEF Settled
<1> QED
  BY <1>4, <1>5

(* A STATUS with an old lock is made only while the lock lasts. *)
LEMMA ReportSettled == ASSUME Settled, Report PROVE Settled'
<1>1. /\ due /\ due' = FALSE /\ UNCHANGED <<mgr, modem, channel, prev>>
      /\ turn' = [turn EXCEPT !.stepped = FALSE]
  BY DEF Report
<1>2. PICK l : l = modem.locked
  OBVIOUS
<1>3. PICK s : s = [locked |-> l, depth |-> modem.depth, modcod |-> modem.tx,
                    heard |-> modem.heard, boot |-> modem.boot]
  OBVIOUS
<1>4. report' = {s}
  BY <1>2, <1>3 DEF Report
<1>5. s.boot = modem.boot /\ (s.locked <=> modem.locked) /\ s.heard = modem.heard
  BY <1>2, <1>3
<1>6. modem.core = "up" /\ modem.clock = StatusPeriod
  BY <1>1 DEF Settled, Clockwork
<1>7. DOMAIN turn' = {"at", "stepped", "lag"} /\ ~turn'.stepped
  <2>1. PICK no : no = FALSE
    OBVIOUS
  <2>2. turn' = [turn EXCEPT !.stepped = no]
    BY <1>1, <2>1
  <2>3. DOMAIN turn' = {"at", "stepped", "lag"} /\ turn'.stepped = no
    BY <2>2 DEF Settled, LinkForms
  <2> QED
    BY <2>1, <2>3
<1>8. LinkForms'
  BY <1>1, <1>4, <1>5, <1>7 DEF Settled, LinkForms
<1>9. Clockwork'
  BY <1>1, <1>6, <1>7 DEF Clockwork
<1>10. Gone' = Gone /\ Age' = Age
  BY <1>1, <1>4 DEF Gone, Age
<1>11. HeardOld' /\ StatusOld'
  BY <1>1, <1>10 DEF Settled, HeardOld, StatusOld, Silent, Stale, Wrong
<1>12. ReportOld'
  <2> SUFFICES ASSUME modem.locked, modem.heard # channel.link
               PROVE  Span(Gone) <= LockTime
    BY <1>1, <1>4, <1>5, <1>10 DEF ReportOld, Wrong
  <2>1. PICK g : g = Gone
    OBVIOUS
  <2>2. modem.since >= Span(g) - 1 + 0
    BY <1>6, <2>1 DEF Settled, HeardOld, Silent, Stale
  <2>3. modem.since \in Nat /\ modem.since < LockTime
    BY LinkSizes DEF Settled, LinkForms, Lasting
  <2>4. Span(g) \in Int
    BY <2>1, Ages, Spans DEF Settled
  <2> QED
    BY <2>1, <2>2, <2>3, <2>4, LinkSizes
<1> QED
  BY <1>8, <1>9, <1>11, <1>12 DEF Settled

(* Reading a STATUS, and the pass: at its end a new link and a new hold. *)
LEMMA PollSettled == ASSUME Settled, Poll PROVE Settled'
<1>1. turn.at = "poll" /\ turn' = [turn EXCEPT !.at = "feed"] /\ report' = {}
      /\ UNCHANGED <<modem, due, prev>> /\ UpdatePass
  BY DEF Poll
<1>2. DOMAIN turn' = {"at", "stepped", "lag"} /\ turn'.at = "feed"
  BY <1>1 DEF Settled, LinkForms
<1>3. /\ DOMAIN Noted = MgrFields /\ Noted.hold = mgr.hold
      /\ \/ report = {} /\ Noted.status = mgr.status
         \/ report # {} /\ Noted.status \in report
  <2>1. CASE report = {}
    BY <2>1 DEF Noted, Settled, LinkForms
  <2>2. CASE report # {}
    <3>1. PICK s \in report : s = CHOOSE x \in report : TRUE
      BY <2>2
    <3>2. PICK e : e = s.depth * Unit
      OBVIOUS
    <3>3. Noted = [mgr EXCEPT !.status = s, !.estimate = e]
      BY <2>2, <3>1, <3>2 DEF Noted
    <3> QED
      BY <2>2, <3>3 DEF Settled, LinkForms, MgrFields
  <2> QED
    BY <2>1, <2>2
<1>4. Noted.status.boot \in Nat /\ Noted.status.boot <= modem.boot
  BY <1>3 DEF Settled, LinkForms
<1>5. Clockwork'
  BY <1>1, <1>2 DEF Settled, Clockwork
<1>6. CASE mgr' = Noted /\ channel'.link = channel.link
  <2>1. LinkForms'
    BY <1>1, <1>2, <1>3, <1>4, <1>6 DEF Settled, LinkForms
  <2>2. Gone' = Gone
    BY <1>3, <1>6 DEF Gone
  <2>3. HeardOld' /\ ReportOld'
    BY <1>1, <1>3, <1>6, <2>2 DEF Settled, HeardOld, ReportOld, Silent, Stale
  <2>4. StatusOld'
    <3> SUFFICES ASSUME modem.core = "up", Wrong(Noted.status)
                 PROVE  Span(Gone - Age') <= LockTime
      BY <1>1, <1>6, <2>2 DEF StatusOld, Wrong
    <3>1. CASE report = {}
      <4>1. Age' = Age
        BY <1>1, <3>1 DEF Age
      <4> QED
        BY <1>3, <3>1, <4>1 DEF Settled, StatusOld
    <3>2. CASE report # {}
      <4>1. Age' = 0
        BY <1>1, <3>2, LinkSizes DEF Age, Settled, Clockwork
      <4>2. Span(Gone) <= LockTime
        BY <1>3, <3>2 DEF Settled, ReportOld
      <4>3. Gone - 0 = Gone
        BY Ages DEF Settled
      <4> QED
        BY <4>1, <4>2, <4>3
    <3> QED
      BY <3>1, <3>2
  <2> QED
    BY <1>5, <2>1, <2>3, <2>4 DEF Settled
<1>7. CASE mgr' = Hold(Noted)
  <2>1. DOMAIN mgr' = MgrFields /\ mgr'.hold = kLinkSettle /\ mgr'.status = Noted.status
    BY <1>3, <1>7 DEF Hold, MgrFields
  <2>2. LinkForms'
    BY <1>1, <1>2, <1>4, <2>1, LinkSizes DEF Settled, LinkForms
  <2> QED
    BY <1>5, <2>1, <2>2, HoldBegins
<1>8. CASE TrackPass
  <2>1. PICK e : Emulate(e, FALSE)
    BY <1>8 DEF TrackPass
  <2>2. channel'.link = channel.link
    BY <2>1 DEF Emulate
  <2> QED
    BY <1>6, <1>8, <2>2 DEF TrackPass
<1>9. CASE NoUpdate
  BY <1>6, <1>9 DEF NoUpdate
<1>10. CASE EndPass
  BY <1>7, <1>10 DEF EndPass
<1> QED
  BY <1>1, <1>8, <1>9, <1>10 DEF UpdatePass

(* Frames for the modem change only its queue. *)
LEMMA FeedModemSettled == ASSUME Settled, FeedModem PROVE Settled'
<1>1. /\ turn' = [at |-> "poll", stepped |-> report = {}, lag |-> 0]
      /\ UNCHANGED <<channel, report, due, prev>>
      /\ \/ mgr' = mgr
         \/ \E e : mgr' = [mgr EXCEPT !.estimate = e]
      /\ modem' = modem \/ \E n : Accept(n)
  <2>1. CASE ~MayFeed
    BY <2>1 DEF FeedModem
  <2>2. CASE MayFeed /\ modem.core = "offline"
    BY <2>2 DEF FeedModem
  <2>3. CASE MayFeed /\ modem.core # "offline"
    BY <2>3 DEF FeedModem
  <2> QED
    BY <2>1, <2>2, <2>3
<1>2. DOMAIN turn' = {"at", "stepped", "lag"} /\ (report # {} => ~turn'.stepped)
  <2>1. PICK b : b = (report = {})
    OBVIOUS
  <2>2. turn' = [at |-> "poll", stepped |-> b, lag |-> 0]
    BY <1>1, <2>1
  <2>3. DOMAIN turn' = {"at", "stepped", "lag"} /\ turn'.stepped = b
    BY <2>2
  <2> QED
    BY <2>1, <2>3
<1>3. DOMAIN mgr' = MgrFields /\ mgr'.hold = mgr.hold /\ mgr'.status = mgr.status
  BY <1>1 DEF Settled, LinkForms, MgrFields
<1>4. /\ Lasting(modem') /\ modem'.boot = modem.boot /\ modem'.clock = modem.clock
      /\ modem'.core = modem.core /\ (modem'.locked <=> modem.locked)
      /\ modem'.heard = modem.heard /\ modem'.since = modem.since /\ modem'.todo = modem.todo
  <2>1. CASE modem' = modem
    BY <2>1 DEF Settled, LinkForms, Lasting
  <2>2. ASSUME NEW n, Accept(n)
        PROVE  /\ Lasting(modem') /\ modem'.boot = modem.boot /\ modem'.clock = modem.clock
               /\ modem'.core = modem.core /\ (modem'.locked <=> modem.locked)
               /\ modem'.heard = modem.heard /\ modem'.since = modem.since
               /\ modem'.todo = modem.todo
    <3>1. PICK d, o : modem' = [modem EXCEPT !.depth = d, !.overflow = o]
      BY <2>2 DEF Accept
    <3>2. DOMAIN modem = ModemFields
      BY DEF Settled, LinkForms, Lasting
    <3>3. PICK x : x = [modem EXCEPT !.depth = d, !.overflow = o]
      OBVIOUS
    <3>4. /\ DOMAIN x = ModemFields /\ x.boot = modem.boot /\ x.clock = modem.clock
          /\ x.core = modem.core /\ x.locked = modem.locked
          /\ x.heard = modem.heard /\ x.since = modem.since /\ x.todo = modem.todo
      BY <3>2, <3>3 DEF ModemFields
    <3> QED
      BY <3>1, <3>3, <3>4 DEF Settled, LinkForms, Lasting
  <2> QED
    BY <1>1, <2>1, <2>2
<1> QED
  BY <1>1, <1>2, <1>3, <1>4, Undisturbing

(* A command leaves the tick as it is; the loop has not come around. *)
LEMMA CommandStarts ==
  ASSUME Settled, Commanded
  PROVE  /\ DOMAIN turn' = {"at", "stepped", "lag"} /\ ~turn'.stepped /\ prev' = prev
<1>1. PICK no : no = FALSE
  OBVIOUS
<1>2. turn' = [turn EXCEPT !.stepped = no] /\ prev' = prev
  BY <1>1 DEF Commanded
<1>3. DOMAIN turn' = {"at", "stepped", "lag"} /\ turn'.stepped = no
  BY <1>2 DEF Settled, LinkForms
<1> QED
  BY <1>1, <1>2, <1>3

(* A command that begins a hold, whatever link it makes. *)
LEMMA HeldCommand ==
  ASSUME Settled, Commanded, DOMAIN mgr' = MgrFields, mgr'.hold = kLinkSettle,
         mgr'.status = mgr.status, UNCHANGED <<report, due>>,
         Lasting(modem'), modem'.boot = modem.boot, modem'.clock = modem.clock,
         modem'.core = modem.core
  PROVE  Settled'
<1>1. LinkForms'
  BY CommandStarts, LinkSizes DEF Settled, LinkForms
<1>2. Clockwork'
  BY CommandStarts DEF Settled, Clockwork
<1> QED
  BY <1>1, <1>2, HoldBegins

(* What the hold changes of the manager. *)
LEMMA HoldFields ==
  ASSUME Settled
  PROVE  /\ DOMAIN Hold(mgr) = MgrFields /\ Hold(mgr).hold = kLinkSettle
         /\ Hold(mgr).status = mgr.status
BY DEF Hold, Settled, LinkForms, MgrFields

(* The commands that hold the downlink. *)
LEMMA CommandsSettled ==
  ASSUME Settled,
         StopPass \/ (\E e \in Levels : SetChannel(e)) \/ \E m \in Modcods : SetModcod(m)
  PROVE  Settled'
<1>1. CASE StopPass
  BY <1>1, HoldFields, HeldCommand DEF StopPass, Settled, LinkForms, Lasting
<1>2. ASSUME NEW e, SetChannel(e) PROVE Settled'
  <2>1. PICK h : h = Hold(mgr)
    OBVIOUS
  <2>2. mgr' = [h EXCEPT !.level = e]
    BY <1>2, <2>1 DEF SetChannel
  <2>3. DOMAIN mgr' = MgrFields /\ mgr'.hold = kLinkSettle /\ mgr'.status = mgr.status
    BY <2>1, <2>2, HoldFields DEF MgrFields
  <2> QED
    BY <1>2, <2>3, HeldCommand DEF SetChannel, Settled, LinkForms, Lasting
<1>3. ASSUME NEW m, SetModcod(m) PROVE Settled'
  <2>1. PICK h, no : h = Hold(mgr) /\ no = FALSE
    OBVIOUS
  <2>2. /\ mgr' = [h EXCEPT !.conf = m, !.auto = no]
        /\ modem' = IF modem.core = "up"
                      THEN [modem EXCEPT !.auto = no, !.tx = modem.conf, !.conf = m] ELSE modem
    BY <1>3, <2>1 DEF SetModcod
  <2>3. DOMAIN mgr' = MgrFields /\ mgr'.hold = kLinkSettle /\ mgr'.status = mgr.status
    BY <2>1, <2>2, HoldFields DEF MgrFields
  <2>4. PICK x : x = [modem EXCEPT !.auto = no, !.tx = modem.conf, !.conf = m]
    OBVIOUS
  <2>5. DOMAIN modem = ModemFields
    BY DEF Settled, LinkForms, Lasting
  <2>6. /\ DOMAIN x = ModemFields /\ x.boot = modem.boot /\ x.clock = modem.clock
        /\ x.core = modem.core /\ x.locked = modem.locked /\ x.since = modem.since
    BY <2>4, <2>5 DEF ModemFields
  <2>7. Lasting(modem) /\ Lasting(x)
    BY <2>6 DEF Settled, LinkForms, Lasting
  <2>8. modem' = modem \/ modem' = x
    BY <2>2, <2>4
  <2>9. /\ Lasting(modem') /\ modem'.boot = modem.boot /\ modem'.clock = modem.clock
        /\ modem'.core = modem.core
    <3>1. CASE modem' = modem
      BY <2>7, <3>1
    <3>2. CASE modem' = x
      BY <2>6, <2>7, <3>2
    <3> QED
      BY <2>8, <3>1, <3>2
  <2>10. Commanded /\ UNCHANGED <<report, due>>
    BY <1>3 DEF SetModcod
  <2> QED
    BY <2>3, <2>9, <2>10, HeldCommand
<1> QED
  BY <1>1, <1>2, <1>3

(* A pass starts on the link there was. *)
LEMMA StartPassSettled == ASSUME Settled, StartPass PROVE Settled'
<1>1. /\ UNCHANGED <<mgr, modem, report, due>> /\ Commanded /\ channel'.link = channel.link
  BY DEF StartPass, Emulate
<1> QED
  BY <1>1, CommandStarts, Undisturbing DEF Settled, LinkForms

(* The two ways to a new firmware instance. *)
LEMMA RestartsSettled ==
  ASSUME Settled, RestartModem \/ WatchdogRestart PROVE Settled'
<1>1. CASE RestartModem
  <2>1. modem' = [Fresh(modem.boot + 1) EXCEPT !.conf = mgr.conf, !.auto = mgr.auto]
    BY <1>1 DEF RestartModem
  <2>2. Begun(modem', modem.boot + 1)
    BY <2>1, FreshModem
  <2>3. UNCHANGED mgr /\ report' = {} /\ ~due' /\ Commanded
    BY <1>1 DEF RestartModem
  <2>4. DOMAIN turn' = {"at", "stepped", "lag"}
    BY <2>3, CommandStarts
  <2> QED
    BY <2>2, <2>3, <2>4, NewInstance
<1>2. CASE WatchdogRestart
  <2>1. modem' = Fresh(modem.boot + 1)
    BY <1>2 DEF WatchdogRestart
  <2>2. Begun(modem', modem.boot + 1)
    BY <2>1, FreshModem
  <2>3. UNCHANGED <<mgr, turn, due>> /\ report' = {} /\ modem.core # "up"
    BY <1>2 DEF WatchdogRestart
  <2>4. ~due' /\ DOMAIN turn' = {"at", "stepped", "lag"}
    BY <2>3 DEF Settled, Clockwork, LinkForms
  <2> QED
    BY <2>2, <2>3, <2>4, NewInstance
<1> QED
  BY <1>1, <1>2

(* Packets, a crash and its discovery. *)
LEMMA OthersSettled ==
  ASSUME Settled, Emit \/ Crash \/ Notice \/ UNCHANGED vars PROVE Settled'
<1>1. UNCHANGED <<mgr, channel, prev, report, turn>>
  BY DEF Emit, Crash, Notice, vars
<1>2. \/ UNCHANGED <<modem, due>>
      \/ /\ ~due' /\ modem'.core # "up" /\ Lasting(modem')
         /\ modem'.boot = modem.boot /\ modem'.clock = modem.clock
  <2>1. ASSUME NEW c, c # "up", modem' = [modem EXCEPT !.core = c]
        PROVE  /\ modem'.core # "up" /\ Lasting(modem')
               /\ modem'.boot = modem.boot /\ modem'.clock = modem.clock
    BY <2>1 DEF Settled, LinkForms, Lasting, ModemFields
  <2>2. CASE Crash
    BY <2>1, <2>2 DEF Crash
  <2>3. CASE Notice
    <3>1. modem' = [modem EXCEPT !.core = "offline"] /\ due' = due /\ modem.core # "up"
      BY <2>3 DEF Notice
    <3> QED
      BY <2>1, <3>1 DEF Settled, Clockwork
  <2>4. CASE Emit \/ UNCHANGED vars
    BY <2>4 DEF Emit, vars
  <2> QED
    BY <2>2, <2>3, <2>4
<1> QED
  BY <1>1, <1>2, Undisturbing DEF Settled, LinkForms, Clockwork

(* Outside a pass, what the daemon feeds to the modem it feeds on a lock   *)
(* of the link as it is now (FeedModem, HoldDownlink): for every hold that *)
(* outlasts a STATUS period and the receiver's lock, whatever commands,    *)
(* passes, restarts and crashes came before.                               *)
THEOREM SettledLinkAlways == Spec => []SettledLink
<1>1. Settled /\ [Next]_vars => Settled'
  BY TickSettled, ReportSettled, PollSettled, FeedModemSettled, CommandsSettled,
     StartPassSettled, RestartsSettled, OthersSettled
     DEF Next, Loop
<1> QED
  BY <1>1, InitSettled, SettledIsSettled, PTL DEF Spec

=============================================================================
