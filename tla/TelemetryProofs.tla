-------------------------- MODULE TelemetryProofs ---------------------------
(***************************************************************************)
(* Proofs about telemetry.  Its frames (TmFrame), for any channels, sizes, *)
(* counter width and number of frames on their way: packets of two         *)
(* channels are never interleaved, every lost frame is counted, and what   *)
(* is handed over is what was queued, whole and in order (PacketLink).     *)
(* Its reports (Ground), for any range of sequence counts and any          *)
(* commands: the stations tell the truth about their telecommands.  The    *)
(* numbers of docs/icd (Icd): what is read with a layout is what was       *)
(* written with it, and all of them arrive on all of their ways.           *)
(***************************************************************************)
EXTENDS TmFrame, Ground, SequenceTheorems, WellFoundedInduction, TLAPS

(* What the steps rely on of the shape of the variables. *)
Shape ==
  /\ tx = [c \in Channels |-> tx[c]] /\ rx = [c \in Channels |-> rx[c]]
  /\ gap \in [Channels -> 0 .. CountMod - 1]
  /\ \A c \in Channels :
       /\ tx[c] = [queue |-> tx[c].queue, partial |-> tx[c].partial,
                   count |-> tx[c].count]
       /\ tx[c].count \in 0 .. CountMod - 1
       /\ rx[c] = [buffer |-> rx[c].buffer, synced |-> rx[c].synced,
                   have_count |-> rx[c].have_count, expected |-> rx[c].expected]
       /\ rx[c].expected \in 0 .. CountMod - 1
  /\ \E S : air \in Seq(S)
  /\ \A i \in 1 .. Len(air) :
       air[i].vc \in Channels /\ air[i].count \in 0 .. CountMod - 1

IndInv == Shape /\ OneInProgress /\ CountersRunOn

LEMMA Width == CountMod \in Nat /\ CountMod > 1 /\ Channels \subseteq 0 .. 6
BY FrameAssumption

LEMMA NextCountType ==
  ASSUME NEW n \in Nat PROVE NextCount(n) \in 0 .. CountMod - 1
BY Width DEF NextCount

(* Counters wrap at most once. *)
LEMMA Wrapped ==
  ASSUME NEW n \in 0 .. 2 * CountMod - 1
  PROVE  n % CountMod = IF n < CountMod THEN n ELSE n - CountMod
<1>1. CASE n < CountMod
  BY <1>1, Width
<1>2. CASE n >= CountMod
  BY <1>2, Width
<1> QED
  BY <1>1, <1>2, Width

(* The lowest of some channels is one of them. *)
LEMMA LowestIn ==
  ASSUME NEW S \in SUBSET Channels, S # {} PROVE Lowest(S) \in S
<1>1. S \subseteq 0 .. 6
  BY Width
<1>2. \E c \in S : \A d \in S : c <= d
  <2>1. CASE 0 \in S
    BY <1>1, <2>1
  <2>2. CASE 0 \notin S /\ 1 \in S
    BY <1>1, <2>2
  <2>3. CASE S \cap {0, 1} = {} /\ 2 \in S
    BY <1>1, <2>3
  <2>4. CASE S \cap {0, 1, 2} = {} /\ 3 \in S
    BY <1>1, <2>4
  <2>5. CASE S \cap {0, 1, 2, 3} = {}
    <3>1. S \subseteq {4, 5, 6}
      BY <1>1, <2>5
    <3>2. CASE 4 \in S
      BY <3>1, <3>2
    <3>3. CASE 4 \notin S /\ 5 \in S
      BY <3>1, <3>3
    <3>4. CASE S = {6}
      BY <3>4
    <3> QED
      BY <3>1, <3>2, <3>3, <3>4
  <2> QED
    BY <2>1, <2>2, <2>3, <2>4, <2>5
<1> QED
  BY <1>2 DEF Lowest

(* The channel served has data, and one in the middle of a packet is       *)
(* passed over only for another in the middle of one.                      *)
LEMMA Served ==
  ASSUME HasData
  PROVE  /\ Serve \in Channels
         /\ (\E c \in Channels : tx[c].partial # <<>>) => tx[Serve].partial # <<>>
<1> DEFINE busy == {c \in Channels : tx[c].partial # <<>>}
           waiting == {c \in Channels : tx[c].queue # <<>>}
<1>1. CASE busy # {}
  <2>1. Serve = Lowest(busy)
    BY <1>1 DEF Serve
  <2>2. Lowest(busy) \in busy
    BY <1>1, LowestIn
  <2> QED
    BY <2>1, <2>2
<1>2. CASE busy = {}
  <2>1. Serve = Lowest(waiting)
    BY <1>2 DEF Serve
  <2>2. waiting # {}
    BY <1>2 DEF HasData
  <2>3. Lowest(waiting) \in waiting
    BY <2>2, LowestIn
  <2> QED
    BY <1>2, <2>1, <2>3
<1> QED
  BY <1>1, <1>2

-----------------------------------------------------------------------------
(* CountersRunOn of one channel c, over a sequence of n frames, up to the  *)
(* counter the multiplexer uses next.                                      *)
known(c) == rx[c].have_count
due(c) == (rx[c].expected + gap[c]) % CountMod

RunOn(c, n, frames, ahead, knows, first) ==
  LET none(from, to) == \A k \in from .. to : frames[k].vc # c
  IN  /\ none(1, n) => (knows => ahead = first)
      /\ \A i \in 1 .. n : frames[i].vc = c =>
           /\ none(1, i - 1) => (knows => frames[i].count = first)
           /\ none(i + 1, n) => ahead = NextCount(frames[i].count)
           /\ \A j \in i + 1 .. n :
                frames[j].vc = c /\ none(i + 1, j - 1) =>
                  frames[j].count = NextCount(frames[i].count)

LEMMA RunsOn ==
  CountersRunOn <=>
    \A c \in Channels : RunOn(c, Len(air), air, tx[c].count, known(c), due(c))
BY DEF CountersRunOn, RunOn, known, due

LEMMA InitInd == Init => IndInv
<1> SUFFICES ASSUME Init PROVE IndInv
  OBVIOUS
<1>1. air = <<>> /\ air \in Seq({}) /\ Len(air) = 0
  BY DEF Init
<1>2. Shape
  BY <1>1, Width DEF Init, Shape
<1>3. OneInProgress
  BY DEF Init, OneInProgress
<1>4. CountersRunOn
  BY <1>1 DEF Init, CountersRunOn
<1> QED
  BY <1>2, <1>3, <1>4 DEF IndInv

LEMMA EnqueueInd ==
  ASSUME IndInv, NEW c0 \in Channels, NEW p, Enqueue(c0, p)
  PROVE  IndInv'
<1>1. /\ tx' = [tx EXCEPT ![c0].queue = Append(@, p)]
      /\ air' = air /\ rx' = rx /\ gap' = gap
  BY DEF Enqueue
<1> DEFINE ch == tx[c0]
<1>2. \A c \in Channels :
        /\ tx'[c] = [queue |-> tx'[c].queue, partial |-> tx'[c].partial,
                     count |-> tx'[c].count]
        /\ tx'[c].count = tx[c].count /\ tx'[c].partial = tx[c].partial
  <2>1. ch = [queue |-> ch.queue, partial |-> ch.partial, count |-> ch.count]
    BY DEF IndInv, Shape
  <2>2. tx = [c \in Channels |-> tx[c]]
    BY DEF IndInv, Shape
  <2>3. tx'[c0] = [ch EXCEPT !.queue = Append(@, p)]
    BY <1>1, <2>2
  <2>4. tx'[c0] = [queue |-> Append(ch.queue, p), partial |-> ch.partial,
                   count |-> ch.count]
    BY <2>1, <2>3
  <2>5. \A c \in Channels \ {c0} : tx'[c] = tx[c]
    BY <1>1, <2>2
  <2>6. \A c \in Channels :
          tx[c] = [queue |-> tx[c].queue, partial |-> tx[c].partial,
                   count |-> tx[c].count]
    BY DEF IndInv, Shape
  <2> HIDE DEF ch
  <2>7. /\ tx'[c0] = [queue |-> tx'[c0].queue, partial |-> tx'[c0].partial,
                      count |-> tx'[c0].count]
        /\ tx'[c0].count = ch.count /\ tx'[c0].partial = ch.partial
    BY <2>4
  <2> QED
    BY <2>5, <2>6, <2>7 DEF ch
<1>3. tx' = [c \in Channels |-> tx'[c]]
  BY <1>1 DEF IndInv, Shape
<1>4. Shape'
  BY <1>1, <1>2, <1>3 DEF IndInv, Shape
<1>5. OneInProgress'
  BY <1>2 DEF IndInv, OneInProgress
<1>6. CountersRunOn'
  BY <1>1, <1>2 DEF IndInv, CountersRunOn
<1> QED
  BY <1>4, <1>5, <1>6 DEF IndInv

(* The counters still run on with one more frame. *)
LEMMA Extended ==
  ASSUME NEW n \in Nat, NEW s, NEW t, \A i \in 1 .. n : t[i] = s[i],
         NEW c, NEW ahead, NEW knows, NEW first,
         RunOn(c, n, s, ahead, knows, first)
  PROVE  /\ t[n + 1].vc # c => RunOn(c, n + 1, t, ahead, knows, first)
         /\ t[n + 1].vc = c /\ t[n + 1].count = ahead =>
              RunOn(c, n + 1, t, NextCount(ahead), knows, first)
<1> DEFINE in(i, j) == \A k \in i .. j : s[k].vc # c
           it(i, j) == \A k \in i .. j : t[k].vc # c
<1>1. ASSUME NEW i \in 1 .. n + 1, NEW j \in 0 .. n + 1, it(i, j)
      PROVE  /\ j <= n => in(i, j)
             /\ j = n + 1 => in(i, n) /\ t[n + 1].vc # c
  BY <1>1
<1>2. /\ in(1, n) => (knows => ahead = first)
      /\ \A i \in 1 .. n : s[i].vc = c =>
           /\ in(1, i - 1) => (knows => s[i].count = first)
           /\ in(i + 1, n) => ahead = NextCount(s[i].count)
           /\ \A j \in i + 1 .. n : s[j].vc = c /\ in(i + 1, j - 1) =>
                s[j].count = NextCount(s[i].count)
  BY DEF RunOn
<1>3. ASSUME NEW i \in 1 .. n, t[i].vc = c
      PROVE  /\ it(1, i - 1) => (knows => t[i].count = first)
             /\ it(i + 1, n) => ahead = NextCount(t[i].count)
             /\ \A j \in i + 1 .. n : t[j].vc = c /\ it(i + 1, j - 1) =>
                  t[j].count = NextCount(t[i].count)
  <2>1. t[i] = s[i] /\ i + 1 \in 1 .. n + 1 /\ i - 1 \in 0 .. n /\ 1 \in 1 .. n + 1
        /\ n \in 0 .. n + 1
    OBVIOUS
  <2>2. it(1, i - 1) => in(1, i - 1)
    BY <1>1, <2>1
  <2>3. it(i + 1, n) => in(i + 1, n)
    BY <1>1, <2>1
  <2>4. ASSUME NEW j \in i + 1 .. n, t[j].vc = c, it(i + 1, j - 1)
        PROVE  t[j].count = NextCount(t[i].count)
    <3>1. t[j] = s[j] /\ j - 1 \in 0 .. n
      OBVIOUS
    <3>2. in(i + 1, j - 1)
      BY <1>1, <2>1, <2>4, <3>1
    <3> HIDE DEF in, it
    <3> QED
      BY <1>2, <1>3, <2>1, <2>4, <3>1, <3>2
  <2> HIDE DEF in, it
  <2> QED
    BY <1>2, <1>3, <2>1, <2>2, <2>3, <2>4
<1>4. 1 \in 1 .. n + 1 /\ n \in 0 .. n + 1 /\ n + 1 \in 0 .. n + 1 /\ (n + 1) - 1 = n
  OBVIOUS
<1>5. /\ it(1, n) => (knows => ahead = first)
      /\ it(1, n + 1) => it(1, n)
  BY <1>1, <1>2, <1>4
<1>6. ASSUME NEW i \in 1 .. n
      PROVE  it(i + 1, n + 1) => it(i + 1, n) /\ t[n + 1].vc # c
  BY <1>6
<1>7. ASSUME t[n + 1].vc # c
      PROVE  RunOn(c, n + 1, t, ahead, knows, first)
  <2>1. \A i \in 1 .. n + 1 : t[i].vc = c => i \in 1 .. n
    BY <1>7
  <2> HIDE DEF in
  <2> QED
    BY <1>3, <1>5, <1>6, <1>7, <2>1 DEF RunOn
<1>8. ASSUME t[n + 1].vc = c, t[n + 1].count = ahead
      PROVE  RunOn(c, n + 1, t, NextCount(ahead), knows, first)
  <2>1. ~it(1, n + 1) /\ \A i \in 1 .. n : ~it(i + 1, n + 1)
    BY <1>8
  <2>2. \A j \in (n + 1) + 1 .. n + 1 : FALSE
    OBVIOUS
  <2>3. ASSUME NEW i \in 1 .. n + 1, t[i].vc = c
        PROVE  /\ it(1, i - 1) => (knows => t[i].count = first)
               /\ it(i + 1, n + 1) => NextCount(ahead) = NextCount(t[i].count)
               /\ \A j \in i + 1 .. n + 1 : t[j].vc = c /\ it(i + 1, j - 1) =>
                    t[j].count = NextCount(t[i].count)
    <3>1. CASE i = n + 1
      <4> HIDE DEF in, it
      <4> QED
        BY <1>4, <1>5, <1>8, <2>2, <3>1
    <3>2. CASE i \in 1 .. n
      <4>1. \A j \in i + 1 .. n + 1 : j \in i + 1 .. n \/ j = n + 1
        BY <3>2
      <4> HIDE DEF in, it
      <4> QED
        BY <1>3, <1>4, <1>8, <2>1, <2>3, <3>2, <4>1
    <3> QED
      BY <3>1, <3>2
  <2> HIDE DEF in
  <2> QED
    BY <2>1, <2>3 DEF RunOn
<1> QED
  BY <1>7, <1>8

LEMMA NextFrameInd ==
  ASSUME IndInv, NextFrame
  PROVE  IndInv'
<1> DEFINE c0 == Serve
           L == Len(air)
<1>1. c0 \in Channels /\ ((\E c \in Channels : tx[c].partial # <<>>) => tx[c0].partial # <<>>)
  BY Served DEF NextFrame
<1>2. PICK f, q, b :
        /\ f.vc = c0 /\ f.count = tx[c0].count
        /\ air' = Append(air, f)
        /\ tx' = [tx EXCEPT ![c0] =
                    [queue |-> q, partial |-> b, count |-> NextCount(tx[c0].count)]]
  <2> DEFINE k == Taken(tx[c0])
             s == Filled(Stream(tx[c0])[k])
             frame == [vc |-> c0, count |-> tx[c0].count,
                       fhp |-> FirstHeaderPointer(tx[c0]),
                       data |-> SubSeq(s, 1, kFrameDataSize)]
  <2>1. /\ air' = Append(air, frame)
        /\ tx' = [tx EXCEPT ![c0] =
                    [queue |-> SubSeq(tx[c0].queue, k + 1, Len(tx[c0].queue)),
                     partial |-> SubSeq(s, kFrameDataSize + 1, Len(s)),
                     count |-> NextCount(tx[c0].count)]]
    BY DEF NextFrame
  <2>2. frame.vc = c0 /\ frame.count = tx[c0].count
    OBVIOUS
  <2> HIDE DEF frame, s, k, c0
  <2> QED
    BY <2>1, <2>2
<1>3. rx' = rx /\ gap' = gap
  BY DEF NextFrame
<1>4. /\ L \in Nat /\ Len(air') = L + 1
      /\ \A i \in 1 .. L : air'[i] = air[i]
      /\ air'[L + 1] = f
      /\ \E S : air' \in Seq(S)
  <2>1. PICK S : air \in Seq(S)
    BY DEF IndInv, Shape
  <2>2. air \in Seq(S \cup {f}) /\ f \in S \cup {f}
    BY <2>1
  <2>3. air' \in Seq(S \cup {f}) /\ Len(air') = Len(air) + 1
        /\ \A i \in 1 .. Len(air) : air'[i] = air[i]
    BY <1>2, <2>2, AppendProperties
  <2>4. air'[Len(air) + 1] = f
    BY <1>2, <2>2, AppendProperties
  <2> QED
    BY <2>1, <2>3, <2>4
<1> HIDE DEF c0, L
<1>5. /\ tx'[c0].count = NextCount(tx[c0].count)
      /\ tx'[c0] = [queue |-> tx'[c0].queue, partial |-> tx'[c0].partial,
                    count |-> tx'[c0].count]
      /\ \A c \in Channels \ {c0} : tx'[c] = tx[c]
      /\ tx' = [c \in Channels |-> tx'[c]]
  BY <1>1, <1>2 DEF IndInv, Shape
<1>6. tx[c0].count \in 0 .. CountMod - 1 /\ NextCount(tx[c0].count) \in 0 .. CountMod - 1
  BY <1>1, NextCountType DEF IndInv, Shape
<1>7. Shape'
  <2>1. \A c \in Channels :
          /\ tx'[c] = [queue |-> tx'[c].queue, partial |-> tx'[c].partial,
                       count |-> tx'[c].count]
          /\ tx'[c].count \in 0 .. CountMod - 1
    BY <1>5, <1>6 DEF IndInv, Shape
  <2>2. \A i \in 1 .. Len(air') :
          air'[i].vc \in Channels /\ air'[i].count \in 0 .. CountMod - 1
    BY <1>1, <1>2, <1>4, <1>6 DEF IndInv, Shape, L
  <2> QED
    BY <1>3, <1>4, <1>5, <2>1, <2>2 DEF IndInv, Shape
<1>8. OneInProgress'
  BY <1>1, <1>5 DEF IndInv, OneInProgress
<1>9. CountersRunOn'
  <2> SUFFICES ASSUME NEW c \in Channels
               PROVE  RunOn(c, Len(air), air, tx[c].count, known(c), due(c))'
    BY DEF CountersRunOn, RunOn, known, due
  <2>1. RunOn(c, L, air, tx[c].count, known(c), due(c))
    BY RunsOn DEF IndInv, L
  <2>2. known(c)' = known(c) /\ due(c)' = due(c)
    BY <1>3 DEF known, due
  <2>3. CASE c # c0
    <3>1. tx'[c].count = tx[c].count
      BY <1>5, <2>3
    <3>2. RunOn(c, L + 1, air', tx[c].count, known(c), due(c))
      BY <1>2, <1>4, <2>1, <2>3, Extended
    <3> QED
      BY <1>4, <2>2, <3>1, <3>2
  <2>4. CASE c = c0
    <3>1. RunOn(c, L + 1, air', NextCount(tx[c].count), known(c), due(c))
      BY <1>2, <1>4, <2>1, <2>4, Extended
    <3> QED
      BY <1>4, <1>5, <2>2, <2>4, <3>1
  <2> QED
    BY <2>3, <2>4
<1> QED
  BY <1>7, <1>8, <1>9 DEF IndInv

-----------------------------------------------------------------------------
(* The same of the sequence without its first frame. *)
LEMMA Shifted ==
  ASSUME NEW n \in Nat, n >= 1, NEW s, NEW t,
         \A i \in 1 .. n - 1 : t[i] = s[i + 1],
         NEW c, NEW ahead, NEW knows, NEW first, NEW knows2,
         RunOn(c, n, s, ahead, knows, first)
  PROVE  /\ s[1].vc # c => RunOn(c, n - 1, t, ahead, knows, first)
         /\ s[1].vc = c => RunOn(c, n - 1, t, ahead, knows2, NextCount(s[1].count))
<1> DEFINE in(i, j) == \A k \in i .. j : s[k].vc # c
           it(i, j) == \A k \in i .. j : t[k].vc # c
<1>1. \A k \in 2 .. n : s[k] = t[k - 1] /\ k - 1 \in 1 .. n - 1
  OBVIOUS
<1>2. ASSUME NEW i \in 1 .. n, NEW j \in 0 .. n - 1, it(i, j)
      PROVE  in(i + 1, j + 1)
  BY <1>1, <1>2
<1>3. /\ in(1, n) => (knows => ahead = first)
      /\ \A i \in 1 .. n : s[i].vc = c =>
           /\ in(1, i - 1) => (knows => s[i].count = first)
           /\ in(i + 1, n) => ahead = NextCount(s[i].count)
           /\ \A j \in i + 1 .. n : s[j].vc = c /\ in(i + 1, j - 1) =>
                s[j].count = NextCount(s[i].count)
  BY DEF RunOn
<1>4. ASSUME NEW i \in 1 .. n - 1, t[i].vc = c
      PROVE  /\ it(i + 1, n - 1) => ahead = NextCount(t[i].count)
             /\ \A j \in i + 1 .. n - 1 : t[j].vc = c /\ it(i + 1, j - 1) =>
                  t[j].count = NextCount(t[i].count)
  <2>1. i + 1 \in 1 .. n /\ t[i] = s[i + 1] /\ i + 1 \in Nat
    OBVIOUS
  <2>2. it(i + 1, n - 1) => in((i + 1) + 1, n)
    <3>1. (n - 1) + 1 = n /\ n - 1 \in 0 .. n - 1
      OBVIOUS
    <3> HIDE DEF in, it
    <3> QED
      BY <1>2, <2>1, <3>1
  <2>3. ASSUME NEW j \in i + 1 .. n - 1, t[j].vc = c, it(i + 1, j - 1)
        PROVE  t[j].count = NextCount(t[i].count)
    <3>1. /\ j - 1 \in 0 .. n - 1 /\ (j - 1) + 1 = (j + 1) - 1
          /\ j + 1 \in (i + 1) + 1 .. n /\ t[j] = s[j + 1]
      OBVIOUS
    <3> HIDE DEF in, it
    <3>2. in((i + 1) + 1, (j + 1) - 1)
      BY <1>2, <2>1, <2>3, <3>1
    <3> QED
      BY <1>3, <1>4, <2>1, <2>3, <3>1, <3>2
  <2> HIDE DEF in, it
  <2> QED
    BY <1>3, <1>4, <2>1, <2>2, <2>3
<1>5. ASSUME NEW i \in 1 .. n - 1, t[i].vc = c, it(1, i - 1)
      PROVE  in(2, (i + 1) - 1)
  <2>1. 1 \in 1 .. n /\ i - 1 \in 0 .. n - 1 /\ (i - 1) + 1 = (i + 1) - 1 /\ 1 + 1 = 2
    OBVIOUS
  <2> HIDE DEF in, it
  <2>2. in(1 + 1, (i - 1) + 1)
    BY <1>2, <1>5, <2>1
  <2> QED
    BY <2>1, <2>2
<1>6. it(1, n - 1) => in(2, n)
  BY <1>2
<1>7. ASSUME s[1].vc # c
      PROVE  RunOn(c, n - 1, t, ahead, knows, first)
  <2>1. \A j \in 1 .. n : in(2, j) => in(1, j)
    BY <1>7
  <2>2. it(1, n - 1) => (knows => ahead = first)
    BY <1>3, <1>6, <2>1
  <2>3. ASSUME NEW i \in 1 .. n - 1, t[i].vc = c, it(1, i - 1)
        PROVE  knows => t[i].count = first
    <3>1. (i + 1) - 1 \in 1 .. n /\ i + 1 \in 1 .. n /\ t[i] = s[i + 1]
      OBVIOUS
    <3> HIDE DEF in, it
    <3> QED
      BY <1>3, <1>5, <2>1, <2>3, <3>1
  <2> HIDE DEF in
  <2> QED
    BY <1>4, <2>2, <2>3 DEF RunOn
<1>8. ASSUME s[1].vc = c
      PROVE  RunOn(c, n - 1, t, ahead, knows2, NextCount(s[1].count))
  <2>1. it(1, n - 1) => ahead = NextCount(s[1].count)
    BY <1>3, <1>6, <1>8
  <2>2. ASSUME NEW i \in 1 .. n - 1, t[i].vc = c, it(1, i - 1)
        PROVE  t[i].count = NextCount(s[1].count)
    <3>1. i + 1 \in 1 + 1 .. n /\ 1 \in 1 .. n /\ t[i] = s[i + 1] /\ 1 + 1 = 2
      OBVIOUS
    <3> HIDE DEF in, it
    <3> QED
      BY <1>3, <1>5, <1>8, <2>2, <3>1
  <2> HIDE DEF in
  <2> QED
    BY <1>4, <2>1, <2>2 DEF RunOn
<1> QED
  BY <1>7, <1>8

(* The oldest frame leaves, and what the receiver expects next on its      *)
(* channel is the frame after it.                                          *)
LEMMA Leaves ==
  ASSUME IndInv, air # <<>>, NEW h, h = air[1],
         air' = Tail(air), tx' = tx,
         rx' = [c \in Channels |-> rx'[c]],
         gap' \in [Channels -> 0 .. CountMod - 1],
         \A c \in Channels :
           /\ rx'[c] = [buffer |-> rx'[c].buffer, synced |-> rx'[c].synced,
                        have_count |-> rx'[c].have_count, expected |-> rx'[c].expected]
           /\ rx'[c].expected \in 0 .. CountMod - 1,
         \A c \in Channels \ {h.vc} : rx'[c] = rx[c] /\ gap'[c] = gap[c],
         known(h.vc)' => due(h.vc)' = NextCount(h.count)
  PROVE  IndInv'
<1>1. PICK S : air \in Seq(S)
  BY DEF IndInv, Shape
<1> DEFINE L == Len(air)
<1>2. /\ L \in Nat /\ L >= 1 /\ Len(air') = L - 1 /\ air' \in Seq(S)
      /\ \A i \in 1 .. L - 1 : air'[i] = air[i + 1]
  BY <1>1, HeadTailProperties
<1>3. Shape'
  BY <1>2 DEF IndInv, Shape
<1>4. OneInProgress'
  BY DEF IndInv, OneInProgress
<1>5. CountersRunOn'
  <2> SUFFICES ASSUME NEW c \in Channels
               PROVE  RunOn(c, Len(air), air, tx[c].count, known(c), due(c))'
    BY DEF CountersRunOn, RunOn, known, due
  <2>1. RunOn(c, L, air, tx[c].count, known(c), due(c))
    BY RunsOn DEF IndInv
  <2>2. /\ air[1].vc # c => RunOn(c, L - 1, air', tx[c].count, known(c), due(c))
        /\ air[1].vc = c =>
             RunOn(c, L - 1, air', tx[c].count, known(c)', NextCount(air[1].count))
    <3> HIDE DEF L
    <3> QED
      BY <1>2, <2>1, Shifted
  <2>3. CASE c # h.vc
    <3>1. known(c)' = known(c) /\ due(c)' = due(c)
      BY <2>3 DEF known, due
    <3> QED
      BY <1>2, <2>2, <2>3, <3>1
  <2>4. CASE c = h.vc
    <3>1. known(c)' => due(c)' = NextCount(h.count)
      BY <2>4
    <3>2. RunOn(c, L - 1, air', tx[c].count, known(c)', due(c)')
      BY <2>2, <2>4, <3>1 DEF RunOn
    <3> QED
      BY <1>2, <3>2
  <2> QED
    BY <2>3, <2>4
<1> QED
  BY <1>3, <1>4, <1>5 DEF IndInv

(* The frame at the head is the one due on its channel. *)
LEMMA HeadIsDue ==
  ASSUME IndInv, air # <<>>
  PROVE  /\ Head(air) = air[1] /\ air[1].vc \in Channels
         /\ air[1].count \in 0 .. CountMod - 1
         /\ known(air[1].vc) => air[1].count = due(air[1].vc)
<1>1. PICK S : air \in Seq(S)
  BY DEF IndInv, Shape
<1>2. Head(air) = air[1] /\ Len(air) \in Nat /\ 1 \in 1 .. Len(air)
  BY <1>1
<1>3. air[1].vc \in Channels /\ air[1].count \in 0 .. CountMod - 1
  BY <1>2 DEF IndInv, Shape
<1>4. RunOn(air[1].vc, Len(air), air, tx[air[1].vc].count, known(air[1].vc), due(air[1].vc))
  BY <1>3, RunsOn DEF IndInv
<1>5. known(air[1].vc) => air[1].count = due(air[1].vc)
  BY <1>2, <1>4 DEF RunOn
<1> QED
  BY <1>2, <1>3, <1>5

LEMMA LoseInd ==
  ASSUME IndInv, Lose
  PROVE  IndInv'
<1> SUFFICES ASSUME NEW f, f = air[1], NEW c, c = f.vc
             PROVE  IndInv'
  OBVIOUS
<1>1. /\ air # <<>> /\ air' = Tail(air) /\ tx' = tx /\ rx' = rx
      /\ Head(air) = f /\ c \in Channels /\ f.count \in 0 .. CountMod - 1
      /\ known(c) => f.count = due(c)
  BY HeadIsDue DEF Lose
<1>2. gap[c] < CountMod - 1 /\ gap' = [gap EXCEPT ![c] = @ + 1]
  BY <1>1 DEF Lose
<1>3. gap \in [Channels -> 0 .. CountMod - 1] /\ rx[c].expected \in 0 .. CountMod - 1
  BY <1>1 DEF IndInv, Shape
<1>4. /\ gap' \in [Channels -> 0 .. CountMod - 1] /\ gap'[c] = gap[c] + 1
      /\ \A d \in Channels \ {c} : gap'[d] = gap[d]
  BY <1>1, <1>2, <1>3, Width
<1>5. known(c)' => due(c)' = NextCount(f.count)
  <2> SUFFICES ASSUME known(c) PROVE due(c)' = NextCount(f.count)
    BY <1>1 DEF known
  <2> SUFFICES ASSUME NEW e, e = rx[c].expected, NEW g, g = gap[c]
               PROVE  due(c)' = NextCount(f.count)
    OBVIOUS
  <2>1. e \in Nat /\ g \in Nat /\ e + g \in Nat /\ e + (g + 1) = (e + g) + 1
    BY <1>1, <1>3, Width
  <2>2. f.count = (e + g) % CountMod
    BY <1>1 DEF due
  <2>3. due(c)' = (e + (g + 1)) % CountMod
    BY <1>1, <1>4 DEF due
  <2>4. (((e + g) % CountMod) + 1) % CountMod = ((e + g) + 1) % CountMod
    <3>1. e + g \in 0 .. 2 * CountMod - 2
      BY <1>1, <1>2, <1>3, Width
    <3> SUFFICES ASSUME NEW a \in 0 .. 2 * CountMod - 2, a = e + g
                 PROVE  ((a % CountMod) + 1) % CountMod = (a + 1) % CountMod
      BY <3>1
    <3>2. /\ a % CountMod = IF a < CountMod THEN a ELSE a - CountMod
          /\ (a % CountMod) + 1 \in 0 .. 2 * CountMod - 1 /\ a + 1 \in 0 .. 2 * CountMod - 1
      BY Width, Wrapped
    <3> DEFINE b == (a % CountMod) + 1
    <3>3. b \in 0 .. 2 * CountMod - 1 /\ a + 1 \in 0 .. 2 * CountMod - 1
      BY <3>2
    <3> HIDE DEF b
    <3>4. b % CountMod = IF b < CountMod THEN b ELSE b - CountMod
      BY <3>3, Wrapped
    <3>5. (a + 1) % CountMod = IF a + 1 < CountMod THEN a + 1 ELSE a + 1 - CountMod
      <4> DEFINE d == a + 1
      <4> d \in 0 .. 2 * CountMod - 1
        BY <3>3
      <4> HIDE DEF d
      <4>1. d % CountMod = IF d < CountMod THEN d ELSE d - CountMod
        BY Wrapped
      <4> QED
        BY <4>1, Width DEF d
    <3>6. b = (IF a < CountMod THEN a ELSE a - CountMod) + 1
      BY <3>2 DEF b
    <3>7. b % CountMod = (a + 1) % CountMod
      BY <3>4, <3>5, <3>6, Width
    <3> QED
      BY <3>7 DEF b
  <2> QED
    BY <2>1, <2>2, <2>3, <2>4 DEF NextCount
<1>6. rx = [d \in Channels |-> rx[d]]
      /\ \A d \in Channels :
           /\ rx[d] = [buffer |-> rx[d].buffer, synced |-> rx[d].synced,
                       have_count |-> rx[d].have_count, expected |-> rx[d].expected]
           /\ rx[d].expected \in 0 .. CountMod - 1
  BY DEF IndInv, Shape
<1> QED
  BY <1>1, <1>4, <1>5, <1>6, Leaves

LEMMA ReceiveInd ==
  ASSUME IndInv, Receive
  PROVE  /\ IndInv'
         /\ LET c == Head(air).vc
            IN  out'.lost = IF rx[c].have_count THEN gap[c] ELSE 0
<1> SUFFICES ASSUME NEW f, f = air[1], NEW c, c = f.vc
             PROVE  IndInv' /\ out'.lost = IF rx[c].have_count THEN gap[c] ELSE 0
  BY HeadIsDue DEF Receive
<1>1. /\ air # <<>> /\ air' = Tail(air) /\ tx' = tx
      /\ Head(air) = f /\ c \in Channels /\ f.count \in 0 .. CountMod - 1
      /\ known(c) => f.count = due(c)
  BY HeadIsDue DEF Receive
<1>2. /\ rx = [d \in Channels |-> rx[d]] /\ gap \in [Channels -> 0 .. CountMod - 1]
      /\ \A d \in Channels :
           /\ rx[d] = [buffer |-> rx[d].buffer, synced |-> rx[d].synced,
                       have_count |-> rx[d].have_count, expected |-> rx[d].expected]
           /\ rx[d].expected \in 0 .. CountMod - 1
  <2>1. rx = [d \in Channels |-> rx[d]] /\ gap \in [Channels -> 0 .. CountMod - 1]
    BY DEF IndInv, Shape
  <2>2. \A d \in Channels :
          /\ rx[d] = [buffer |-> rx[d].buffer, synced |-> rx[d].synced,
                      have_count |-> rx[d].have_count, expected |-> rx[d].expected]
          /\ rx[d].expected \in 0 .. CountMod - 1
    BY DEF IndInv, Shape
  <2> QED
    BY <2>1, <2>2
<1>3. PICK b, y :
        /\ rx' = [rx EXCEPT ![c] = [buffer |-> b, synced |-> y, have_count |-> TRUE,
                                    expected |-> NextCount(f.count)]]
        /\ gap' = [gap EXCEPT ![c] = 0]
        /\ out'.lost = FramesLost(rx[c], f)
  BY <1>1, Zenon DEF Receive, Push
<1>4. NextCount(f.count) \in 0 .. CountMod - 1 /\ 0 \in 0 .. CountMod - 1
  <2>1. f.count \in Nat
    BY <1>1, Width
  <2> QED
    BY <2>1, NextCountType, Width
<1>5. /\ gap' \in [Channels -> 0 .. CountMod - 1] /\ gap'[c] = 0
      /\ \A d \in Channels \ {c} : rx'[d] = rx[d] /\ gap'[d] = gap[d]
      /\ rx'[c] = [buffer |-> b, synced |-> y, have_count |-> TRUE,
                   expected |-> NextCount(f.count)]
      /\ rx' = [d \in Channels |-> rx'[d]]
  BY <1>1, <1>2, <1>3, <1>4
<1>6. \A d \in Channels :
        /\ rx'[d] = [buffer |-> rx'[d].buffer, synced |-> rx'[d].synced,
                     have_count |-> rx'[d].have_count, expected |-> rx'[d].expected]
        /\ rx'[d].expected \in 0 .. CountMod - 1
  BY <1>2, <1>4, <1>5
<1>7. due(c)' = NextCount(f.count)
  <2>1. due(c)' = (NextCount(f.count) + 0) % CountMod
    BY <1>5 DEF due
  <2> QED
    BY <1>4, <2>1, Width
<1>8. IndInv'
  BY <1>1, <1>5, <1>6, <1>7, Leaves
<1>9. FramesLost(rx[c], f) = IF rx[c].have_count THEN gap[c] ELSE 0
  <2> SUFFICES ASSUME rx[c].have_count,
                      NEW e, e = rx[c].expected, NEW g, g = gap[c]
               PROVE  (f.count + CountMod - e) % CountMod = g
    BY DEF FramesLost
  <2>1. e \in 0 .. CountMod - 1 /\ g \in 0 .. CountMod - 1
    BY <1>1, <1>2
  <2>2. f.count = (e + g) % CountMod
    BY <1>1 DEF known, due
  <2>3. f.count = IF e + g < CountMod THEN e + g ELSE e + g - CountMod
    <3> DEFINE d == e + g
    <3> d \in 0 .. 2 * CountMod - 1
      BY <2>1, Width
    <3>1. f.count = d % CountMod
      BY <2>2
    <3> HIDE DEF d
    <3>2. f.count = IF d < CountMod THEN d ELSE d - CountMod
      BY <3>1, Wrapped
    <3> QED
      BY <3>2, <2>1, Width DEF d
  <2>4. f.count + CountMod - e = IF e + g < CountMod THEN g + CountMod ELSE g
    BY <2>1, <2>3, Width
  <2>5. \A n \in 0 .. 2 * CountMod - 1 :
          n % CountMod = IF n < CountMod THEN n ELSE n - CountMod
    BY Wrapped
  <2>6. g \in 0 .. 2 * CountMod - 1 /\ g + CountMod \in 0 .. 2 * CountMod - 1
    BY <2>1, Width
  <2>7. g % CountMod = g /\ (g + CountMod) % CountMod = g
    BY <2>1, <2>5, <2>6, Width
  <2> QED
    BY <2>4, <2>7
<1> QED
  BY <1>3, <1>8, <1>9

LEMMA NextInd ==
  ASSUME IndInv, [Next]_vars
  PROVE  IndInv'
<1>1. ASSUME NEW c \in Channels, NEW p \in Offers[c], Enqueue(c, p)
      PROVE  IndInv'
  BY <1>1, EnqueueInd
<1>2. CASE NextFrame
  BY <1>2, NextFrameInd
<1>3. CASE Lose
  BY <1>3, LoseInd
<1>4. CASE Receive
  BY <1>4, ReceiveInd
<1>5. CASE UNCHANGED vars
  <2>1. tx' = tx /\ air' = air /\ rx' = rx /\ gap' = gap
    BY <1>5 DEF vars
  <2> QED
    BY <2>1 DEF IndInv, Shape, OneInProgress, CountersRunOn
<1> QED
  BY <1>1, <1>2, <1>3, <1>4, <1>5 DEF Next

-----------------------------------------------------------------------------
(* The shape of the variables, the packet in progress and the counters are *)
(* invariant.                                                              *)
THEOREM Inductive == Spec => []IndInv
<1>1. Init => IndInv
  BY InitInd
<1>2. IndInv /\ [Next]_vars => IndInv'
  BY NextInd
<1> QED
  BY <1>1, <1>2, PTL DEF Spec

(* Whatever is queued on which channels, at most one of them is in the     *)
(* middle of a packet: frames never interleave two channels' packets.      *)
THEOREM NeverInterleaved == Spec => []OneInProgress
<1>1. IndInv => OneInProgress
  BY DEF IndInv
<1> QED
  BY <1>1, Inductive, PTL

(* For every counter width and every number of frames on their way the     *)
(* frames counted as lost are the frames lost since the last one received. *)
THEOREM EveryLossCounted == Spec => LossesCounted
<1>1. IndInv /\ [Next]_vars =>
        [Receive => LET c == Head(air).vc
                    IN  out'.lost = IF rx[c].have_count THEN gap[c] ELSE 0]_vars
  BY ReceiveInd
<1> QED
  BY <1>1, Inductive, PTL DEF Spec, LossesCounted

-----------------------------------------------------------------------------
(* The frames implement the link of PacketLink.                            *)

(* A set of numbers has a least one. *)
LEMMA Least ==
  ASSUME NEW S \in SUBSET Nat, S # {}
  PROVE  \E m \in S : \A x \in S : m <= x
<1> DEFINE R == OpToRel(<, Nat)
<1>1. PICK m \in S : \A x \in S : ~(<<x, m>> \in R)
  BY NatLessThanWellFounded, WFMin
<1>2. \A x \in S : m <= x
  <2> SUFFICES ASSUME NEW x \in S PROVE m <= x
    OBVIOUS
  <2>1. ~(x < m)
    BY <1>1 DEF OpToRel
  <2> QED
    BY <2>1
<1> QED
  BY <1>2

(* What the recursive function of Stream is at each point: the packet in   *)
(* progress, then one queued packet after the other.                       *)
LEMMA StreamDefined ==
  ASSUME NEW ch, Len(ch.queue) \in Nat
  PROVE  \A k \in 0 .. Len(ch.queue) :
           Stream(ch)[k] = IF k = 0 THEN ch.partial
                           ELSE Stream(ch)[k - 1] \o Bytes(ch.queue[k])
<1> DEFINE last == Len(ch.queue)
           Solves(f, n) == f = [k \in 0 .. n |-> IF k = 0 THEN ch.partial
                                                 ELSE f[k - 1] \o Bytes(ch.queue[k])]
           Bad == {n \in Nat : ~\E f : Solves(f, n)}
<1>1. Stream(ch) = CHOOSE f : Solves(f, last)
  BY DEF Stream
<1>2. Bad = {}
  <2> SUFFICES ASSUME Bad # {} PROVE FALSE
    OBVIOUS
  <2>1. PICK n \in Bad : \A y \in Bad : n <= y
    <3>1. Bad \subseteq Nat
      OBVIOUS
    <3> HIDE DEF Bad
    <3> QED
      BY <3>1, Least
  <2>2. n # 0
    <3> SUFFICES \E f : Solves(f, 0)
      OBVIOUS
    <3> DEFINE g == [k \in 0 .. 0 |-> ch.partial]
    <3>1. Solves(g, 0)
      OBVIOUS
    <3> QED
      BY <3>1
  <2>3. n - 1 \in Nat /\ n - 1 \notin Bad
    <3>1. n \in Nat
      OBVIOUS
    <3> HIDE DEF Bad
    <3> QED
      BY <2>1, <2>2, <3>1
  <2>4. PICK f : Solves(f, n - 1)
    BY <2>3
  <2> DEFINE g == [k \in 0 .. n |-> IF k = n THEN f[n - 1] \o Bytes(ch.queue[n]) ELSE f[k]]
  <2>5. Solves(g, n)
    <3> SUFFICES ASSUME NEW k \in 0 .. n
                 PROVE  g[k] = IF k = 0 THEN ch.partial
                               ELSE g[k - 1] \o Bytes(ch.queue[k])
      OBVIOUS
    <3>1. CASE k = n
      <4>1. n \in Nat
        OBVIOUS
      <4> HIDE DEF Bad
      <4>2. n \in 0 .. n /\ n - 1 \in 0 .. n /\ n - 1 # n
        BY <2>2, <4>1
      <4>3. g[n] = f[n - 1] \o Bytes(ch.queue[n]) /\ g[n - 1] = f[n - 1]
        BY <4>2
      <4> QED
        BY <2>2, <3>1, <4>3
    <3>2. CASE k # n
      <4>1. k \in 0 .. n - 1
        BY <3>2
      <4>2. f[k] = IF k = 0 THEN ch.partial ELSE f[k - 1] \o Bytes(ch.queue[k])
        BY <2>4, <4>1
      <4>3. k # 0 => g[k - 1] = f[k - 1]
        BY <3>2
      <4> QED
        BY <3>2, <4>2, <4>3
    <3> QED
      BY <3>1, <3>2
  <2> QED
    BY <2>5
<1>3. Solves(Stream(ch), last)
  <2>1. \E f : Solves(f, last)
    BY <1>2
  <2> HIDE DEF Solves
  <2> QED
    BY <1>1, <2>1
<1> QED
  BY <1>3

(* One turn of the loop of Extract, at a place of the buffer, from what f  *)
(* says of the places beyond it.                                           *)
Turn(buffer, f, at) ==
  LET header == at + kPrimaryHeaderSize <= Len(buffer)
      n == PacketSize(buffer[at + 1])
  IN  CASE header /\ n > kMaxPacket ->
             [synced |-> FALSE, packets |-> <<>>, buffer |-> <<>>]
        [] ~header \/ (n <= kMaxPacket /\ at + n > Len(buffer)) ->
             [synced |-> TRUE, packets |-> <<>>,
              buffer |-> SubSeq(buffer, at + 1, Len(buffer))]
        [] OTHER ->
             [f[at + n] EXCEPT !.packets =
                IF buffer[at + 1].id = Idle THEN @
                ELSE <<SubSeq(buffer, at + 1, at + n)>> \o @]

(* The recursive function of Extract is defined at every place: the places *)
(* a turn refers to are further on.                                        *)
LEMMA ExtractDefined ==
  ASSUME NEW buffer, Len(buffer) \in Nat,
         \A at \in 0 .. Len(buffer) - 1 : PacketSize(buffer[at + 1]) \in Nat \ {0}
  PROVE  \E f : /\ Extract(buffer) = f[0]
                /\ \A at \in 0 .. Len(buffer) : f[at] = Turn(buffer, f, at)
<1> DEFINE l == Len(buffer)
           Solves(f, k) == f = [at \in l - k .. l |-> Turn(buffer, f, at)]
           Bad == {k \in 0 .. l : ~\E f : Solves(f, k)}
<1>0. kPrimaryHeaderSize \in Nat \ {0} /\ kMaxPacket \in Nat
  BY FrameAssumption
<1>1. Extract(buffer) = (CHOOSE g : g = [at \in 0 .. l |-> Turn(buffer, g, at)])[0]
  BY DEF Extract, Turn
<1>2. ASSUME NEW f, NEW g, NEW at \in 0 .. l,
             \A x \in at + 1 .. l : f[x] = g[x]
      PROVE  Turn(buffer, f, at) = Turn(buffer, g, at)
  <2>1. CASE at + kPrimaryHeaderSize <= l /\ at + PacketSize(buffer[at + 1]) <= l
    <3>1. at + PacketSize(buffer[at + 1]) \in at + 1 .. l
      BY <1>0, <2>1
    <3>2. f[at + PacketSize(buffer[at + 1])] = g[at + PacketSize(buffer[at + 1])]
      BY <1>2, <3>1
    <3> QED
      BY <3>2 DEF Turn
  <2>2. CASE ~(at + kPrimaryHeaderSize <= l)
    BY <2>2 DEF Turn
  <2>3. CASE at + kPrimaryHeaderSize <= l /\ ~(at + PacketSize(buffer[at + 1]) <= l)
    <3>1. PacketSize(buffer[at + 1]) \in Nat
      BY <1>0, <2>3
    <3> QED
      BY <1>0, <2>3, <3>1 DEF Turn
  <2> QED
    BY <2>1, <2>2, <2>3
<1>3. Bad = {}
  <2> SUFFICES ASSUME Bad # {} PROVE FALSE
    OBVIOUS
  <2>1. PICK k \in Bad : \A y \in Bad : k <= y
    <3>1. Bad \subseteq Nat
      OBVIOUS
    <3> HIDE DEF Bad
    <3> QED
      BY <3>1, Least
  <2>2. k \in 0 .. l
    OBVIOUS
  <2>3. k # 0
    <3> SUFFICES \E f : Solves(f, 0)
      OBVIOUS
    <3> DEFINE g == [at \in l - 0 .. l |-> Turn(buffer, <<>>, at)]
    <3>1. Solves(g, 0)
      <4> SUFFICES ASSUME NEW at \in l - 0 .. l
                   PROVE  Turn(buffer, <<>>, at) = Turn(buffer, g, at)
        OBVIOUS
      <4>1. at \in 0 .. l /\ \A x \in at + 1 .. l : <<>>[x] = g[x]
        OBVIOUS
      <4> HIDE DEF g
      <4> QED
        BY <1>2, <4>1
    <3> QED
      BY <3>1
  <2>4. PICK f : Solves(f, k - 1)
    <3>1. k - 1 \in 0 .. l /\ k - 1 \notin Bad
      <4> HIDE DEF Bad
      <4> QED
        BY <2>1, <2>2, <2>3
    <3> HIDE DEF Solves
    <3> QED
      BY <3>1
  <2> DEFINE g == [at \in l - k .. l |-> IF at = l - k THEN Turn(buffer, f, at) ELSE f[at]]
  <2>5. Solves(g, k)
    <3> SUFFICES ASSUME NEW at \in l - k .. l PROVE g[at] = Turn(buffer, g, at)
      OBVIOUS
    <3>1. g[at] = Turn(buffer, f, at)
      <4>1. CASE at = l - k
        BY <4>1
      <4>2. CASE at # l - k
        <5>1. at \in l - (k - 1) .. l
          BY <2>2, <4>2
        <5> QED
          BY <2>4, <4>2, <5>1
      <4> QED
        BY <4>1, <4>2
    <3>2. at \in 0 .. l /\ \A x \in at + 1 .. l : f[x] = g[x]
      BY <2>2
    <3> HIDE DEF g
    <3> QED
      BY <1>2, <3>1, <3>2
  <2> QED
    BY <2>5
<1>4. \E f : Solves(f, l)
  <2>1. l \notin Bad /\ l \in 0 .. l
    BY <1>3
  <2> HIDE DEF Solves
  <2> QED
    BY <2>1
<1>5. PICK f : f = [at \in 0 .. l |-> Turn(buffer, f, at)]
  <2>1. l - l = 0
    OBVIOUS
  <2> QED
    BY <1>4, <2>1
<1>6. PICK g : /\ g = [at \in 0 .. l |-> Turn(buffer, g, at)]
               /\ Extract(buffer) = g[0]
  BY <1>1, <1>5
<1> QED
  BY <1>6

(* What the steps rely on of the sizes of frames and headers. *)
LEMMA FrameSizes ==
  /\ kPrimaryHeaderSize \in Nat /\ kPrimaryHeaderSize > 0
  /\ kFrameDataSize \in Nat /\ kFrameDataSize > 2 * kPrimaryHeaderSize
  /\ kFrameDataSize < 2046
  /\ kMaxPacket \in Nat /\ kMaxPacket >= kFrameDataSize + kPrimaryHeaderSize
BY FrameAssumption

-----------------------------------------------------------------------------
(* The stream of a channel                                                 *)
(* The argument of the refinement is about the stream of a channel: b[1],  *)
(* b[2], ... are all bytes the multiplexer sends or is going to send on    *)
(* it, of queued and of fill packets, in order.  The place j lies between  *)
(* b[j] and b[j + 1]; e is the place behind the last byte.                 *)

(* A packet starts at place j, or the stream ends there. *)
Edge(b, e, j) == j = e \/ b[j + 1].i = 1

(* The bytes from place j on are those of packet p. *)
Holds(b, j, p) == \A x \in 1 .. p.n : b[j + x] = Byte(p.id, p.n, x)

(* The packet whose header starts at place j. *)
PacketAt(b, j) == [id |-> b[j + 1].id, n |-> b[j + 1].n]

(* From place o on to e the stream is packets back to back: wherever a     *)
(* header starts a whole packet follows, and behind it the next packet or  *)
(* the end.  o may lie within a packet.                                    *)
Blocks(b, o, e) ==
  \A j \in o .. e - 1 : b[j + 1].i = 1 =>
    /\ b[j + 1].n \in Nat /\ b[j + 1].n > kPrimaryHeaderSize
    /\ j + b[j + 1].n <= e /\ Edge(b, e, j + b[j + 1].n)
    /\ Holds(b, j, PacketAt(b, j))

(* No packet has the name of one before it, fill packets aside. *)
Unlike(b, o, e) ==
  \A j, k \in o + 1 .. e :
    j < k /\ b[k].i = 1 /\ b[k].id # Idle => b[j].id # b[k].id

(* A packet that is to be handed over starts at place j: not a fill packet *)
(* and not too large.                                                      *)
Wanted(b, j) == b[j + 1].i = 1 /\ b[j + 1].id # Idle /\ b[j + 1].n <= kMaxPacket

(* The packets w are those that are wanted from place o on, in their       *)
(* order; pos says where each of them starts.                              *)
Places(w, b, o, e, pos) ==
  /\ w \in Seq(Packets) /\ pos \in [1 .. Len(w) -> Nat]
  /\ \A k \in 1 .. Len(w) :
       o <= pos[k] /\ pos[k] < e /\ Wanted(b, pos[k]) /\ w[k] = PacketAt(b, pos[k])
  /\ \A k, l \in 1 .. Len(w) : k < l => pos[k] < pos[l]
  /\ \A j \in o .. e - 1 : Wanted(b, j) => \E k \in 1 .. Len(w) : pos[k] = j

(* The stream with another packet behind place e. *)
More(b, e, p) == [j \in Nat |-> IF j <= e THEN b[j] ELSE Byte(p.id, p.n, j - e)]

(* The bytes of the stream with another packet. *)
LEMMA MoreBytes ==
  ASSUME NEW b, NEW e \in Nat, NEW p, p.n \in Nat
  PROVE  /\ \A j \in 0 .. e : More(b, e, p)[j] = b[j]
         /\ Holds(More(b, e, p), e, p)
         /\ \A j \in Nat : j > e => More(b, e, p)[j] = Byte(p.id, p.n, j - e)
BY DEF More, Holds

(* Packets are larger than their header, and none is a fill packet. *)
LEMMA PacketSizes ==
  ASSUME NEW p \in Packets
  PROVE  /\ p.n \in Nat /\ p.n > kPrimaryHeaderSize /\ p.n > 0
         /\ p = [id |-> p.id, n |-> p.n] /\ p.id # Idle
BY FrameAssumption

(* With another packet the stream is still packets back to back. *)
LEMMA BlocksMore ==
  ASSUME NEW b, NEW o \in Nat, NEW e \in Nat, o <= e, Blocks(b, o, e),
         NEW p, p.n \in Nat, p.n > kPrimaryHeaderSize
  PROVE  Blocks(More(b, e, p), o, e + p.n)
<1> DEFINE m == More(b, e, p)
<1>0. kPrimaryHeaderSize \in Nat
  BY FrameSizes
<1>1. /\ \A j \in 0 .. e : m[j] = b[j]
      /\ \A j \in Nat : j > e => m[j] = Byte(p.id, p.n, j - e)
  BY DEF More
<1> HIDE DEF m
<1> SUFFICES ASSUME NEW j \in o .. e + p.n - 1, m[j + 1].i = 1
             PROVE  /\ m[j + 1].n \in Nat /\ m[j + 1].n > kPrimaryHeaderSize
                    /\ j + m[j + 1].n <= e + p.n /\ Edge(m, e + p.n, j + m[j + 1].n)
                    /\ Holds(m, j, PacketAt(m, j))
  BY DEF Blocks, m
<1>2. CASE j < e
  <2>1. m[j + 1] = b[j + 1] /\ j \in o .. e - 1
    BY <1>1, <1>2
  <2>2. /\ b[j + 1].n \in Nat /\ b[j + 1].n > kPrimaryHeaderSize
        /\ j + b[j + 1].n <= e /\ Edge(b, e, j + b[j + 1].n)
        /\ Holds(b, j, PacketAt(b, j))
    BY <2>1 DEF Blocks
  <2>3. Edge(m, e + p.n, j + b[j + 1].n)
    <3>1. CASE j + b[j + 1].n = e
      <4>1. m[e + 1] = Byte(p.id, p.n, 1)
        <5>1. e + 1 \in Nat /\ e + 1 > e /\ e + 1 - e = 1
          OBVIOUS
        <5> QED
          BY <1>1, <5>1
      <4> QED
        BY <3>1, <4>1 DEF Edge, Byte
    <3>2. CASE j + b[j + 1].n < e
      <4>1. j + b[j + 1].n + 1 \in 0 .. e
        BY <2>2, <3>2
      <4> QED
        BY <1>1, <2>2, <3>2, <4>1 DEF Edge
    <3> QED
      BY <2>2, <3>1, <3>2
  <2>4. Holds(m, j, PacketAt(m, j))
    <3>1. PacketAt(m, j) = PacketAt(b, j) /\ PacketAt(b, j).n = b[j + 1].n
      BY <2>1 DEF PacketAt
    <3>2. \A x \in 1 .. b[j + 1].n : j + x \in 0 .. e
      BY <2>2
    <3> QED
      BY <1>1, <2>2, <3>1, <3>2 DEF Holds
  <2> QED
    BY <2>1, <2>2, <2>3, <2>4
<1>3. CASE j >= e
  <2>1. m[j + 1] = Byte(p.id, p.n, j + 1 - e)
    BY <1>1, <1>3
  <2>2. j = e /\ m[j + 1].n = p.n /\ m[j + 1].id = p.id
    BY <1>3, <2>1 DEF Byte
  <2>3. PacketAt(m, j).n = p.n /\ PacketAt(m, j).id = p.id
    BY <2>2 DEF PacketAt
  <2>4. Holds(m, j, PacketAt(m, j))
    <3> SUFFICES ASSUME NEW x \in 1 .. p.n PROVE m[j + x] = Byte(p.id, p.n, x)
      BY <2>3 DEF Holds
    <3>1. j + x \in Nat /\ j + x > e /\ j + x - e = x
      BY <2>2
    <3> QED
      BY <1>1, <3>1
  <2> QED
    BY <2>2, <2>4 DEF Edge
<1> QED
  BY <1>2, <1>3

(* With another packet of a new name the names still differ. *)
LEMMA UnlikeMore ==
  ASSUME NEW b, NEW o \in Nat, NEW e \in Nat, o <= e, Unlike(b, o, e), NEW p, p.n \in Nat,
         p.id = Idle \/ \A j \in o + 1 .. e : b[j].id # p.id
  PROVE  Unlike(More(b, e, p), o, e + p.n)
<1> DEFINE m == More(b, e, p)
<1>1. /\ \A j \in 0 .. e : m[j] = b[j]
      /\ \A j \in Nat : j > e => m[j] = Byte(p.id, p.n, j - e)
  BY DEF More
<1> HIDE DEF m
<1> SUFFICES ASSUME NEW j \in o + 1 .. e + p.n, NEW k \in o + 1 .. e + p.n,
                    j < k, m[k].i = 1, m[k].id # Idle
             PROVE  m[j].id # m[k].id
  BY DEF Unlike, m
<1>2. CASE k <= e
  <2>1. m[k] = b[k] /\ m[j] = b[j] /\ k \in o + 1 .. e /\ j \in o + 1 .. e
    BY <1>1, <1>2
  <2> QED
    BY <2>1 DEF Unlike
<1>3. CASE k > e
  <2>0. k \in Nat
    OBVIOUS
  <2>1. m[k].id = p.id /\ m[k].i = k - e
    <3>1. m[k] = Byte(p.id, p.n, k - e)
      BY <1>1, <1>3, <2>0
    <3> QED
      BY <3>1 DEF Byte
  <2>2. k = e + 1 /\ j \in o + 1 .. e /\ m[j] = b[j]
    BY <1>1, <1>3, <2>1
  <2> QED
    BY <2>1, <2>2
<1> QED
  BY <1>2, <1>3

(* What is wanted stays so with another packet p; at its own place it is   *)
(* wanted unless it is a fill packet or too large.                         *)
LEMMA WantedMore ==
  ASSUME NEW b, NEW e \in Nat, NEW p, p.n \in Nat, NEW j \in 0 .. e + p.n - 1
  PROVE  /\ j < e => /\ Wanted(More(b, e, p), j) <=> Wanted(b, j)
                     /\ PacketAt(More(b, e, p), j) = PacketAt(b, j)
         /\ j >= e /\ Wanted(More(b, e, p), j) =>
              j = e /\ p.id # Idle /\ p.n <= kMaxPacket
<1> DEFINE m == More(b, e, p)
<1>1. /\ \A x \in 0 .. e : m[x] = b[x]
      /\ \A x \in Nat : x > e => m[x] = Byte(p.id, p.n, x - e)
  BY DEF More
<1> HIDE DEF m
<1>2. CASE j < e
  <2>1. m[j + 1] = b[j + 1]
    BY <1>1, <1>2
  <2> QED
    BY <1>2, <2>1 DEF Wanted, PacketAt, m
<1>3. CASE j >= e
  <2>1. m[j + 1] = Byte(p.id, p.n, j + 1 - e)
    BY <1>1, <1>3
  <2> QED
    BY <1>3, <2>1 DEF Wanted, Byte, m
<1> QED
  BY <1>2, <1>3

(* Places from its parts. *)
LEMMA PlacesIntro ==
  ASSUME NEW w, NEW b, NEW o, NEW e, NEW pos,
         w \in Seq(Packets), pos \in [1 .. Len(w) -> Nat],
         \A k \in 1 .. Len(w) :
           o <= pos[k] /\ pos[k] < e /\ Wanted(b, pos[k]) /\ w[k] = PacketAt(b, pos[k]),
         \A k, l \in 1 .. Len(w) : k < l => pos[k] < pos[l],
         \A j \in o .. e - 1 : Wanted(b, j) => \E k \in 1 .. Len(w) : pos[k] = j
  PROVE  Places(w, b, o, e, pos)
BY DEF Places

(* A fill packet or one that is too large is not among those wanted. *)
LEMMA PlacesMoreFill ==
  ASSUME NEW w, NEW b, NEW o \in Nat, NEW e \in Nat, NEW pos, Places(w, b, o, e, pos),
         NEW p, p.n \in Nat, p.id = Idle \/ p.n > kMaxPacket, o <= e
  PROVE  Places(w, More(b, e, p), o, e + p.n, pos)
<1>1. kMaxPacket \in Nat /\ Len(w) \in Nat
  BY FrameSizes DEF Places
<1>2. \A k \in 1 .. Len(w) :
        /\ pos[k] \in Nat /\ o <= pos[k] /\ pos[k] < e + p.n
        /\ Wanted(More(b, e, p), pos[k]) /\ w[k] = PacketAt(More(b, e, p), pos[k])
  <2> SUFFICES ASSUME NEW k \in 1 .. Len(w)
               PROVE  /\ pos[k] \in Nat /\ o <= pos[k] /\ pos[k] < e + p.n
                      /\ Wanted(More(b, e, p), pos[k])
                      /\ w[k] = PacketAt(More(b, e, p), pos[k])
    OBVIOUS
  <2>1. /\ pos[k] \in Nat /\ o <= pos[k] /\ pos[k] < e
        /\ Wanted(b, pos[k]) /\ w[k] = PacketAt(b, pos[k])
    BY DEF Places
  <2>2. pos[k] \in 0 .. e + p.n - 1 /\ pos[k] < e + p.n
    BY <2>1
  <2> QED
    BY <2>1, <2>2, WantedMore
<1>3. \A j \in o .. e + p.n - 1 : Wanted(More(b, e, p), j) => \E k \in 1 .. Len(w) : pos[k] = j
  <2> SUFFICES ASSUME NEW j \in o .. e + p.n - 1, Wanted(More(b, e, p), j)
               PROVE  \E k \in 1 .. Len(w) : pos[k] = j
    OBVIOUS
  <2>1. j \in 0 .. e + p.n - 1
    OBVIOUS
  <2>2. j < e /\ Wanted(b, j)
    BY <1>1, <2>1, WantedMore
  <2> QED
    BY <2>2 DEF Places
<1> QED
  BY <1>2, <1>3 DEF Places

(* A packet that is not too large is the last of those wanted. *)
LEMMA PlacesMore ==
  ASSUME NEW w, NEW b, NEW o \in Nat, NEW e \in Nat, NEW pos, Places(w, b, o, e, pos),
         NEW p \in Packets, p.n <= kMaxPacket, o <= e
  PROVE  Places(Append(w, p), More(b, e, p), o, e + p.n,
                [k \in 1 .. Len(w) + 1 |-> IF k = Len(w) + 1 THEN e ELSE pos[k]])
<1> DEFINE pos2 == [k \in 1 .. Len(w) + 1 |-> IF k = Len(w) + 1 THEN e ELSE pos[k]]
           w2 == Append(w, p)
<1>0. p.n \in Nat /\ p.n > 0 /\ p = [id |-> p.id, n |-> p.n] /\ p.id # Idle
  BY PacketSizes
<1>1. /\ kMaxPacket \in Nat /\ Len(w) \in Nat /\ w \in Seq(Packets)
      /\ w2 \in Seq(Packets) /\ Len(w2) = Len(w) + 1 /\ w2[Len(w) + 1] = p
      /\ \A k \in 1 .. Len(w) : w2[k] = w[k]
  BY FrameSizes DEF Places
<1> HIDE DEF w2
<1>2. \A k \in 1 .. Len(w) : pos2[k] = pos[k] /\ pos[k] \in Nat /\ o <= pos[k] /\ pos[k] < e
  BY <1>1 DEF Places
<1>3. pos2[Len(w) + 1] = e /\ pos2 \in [1 .. Len(w2) -> Nat]
  <2>1. \A k \in 1 .. Len(w) + 1 : pos2[k] \in Nat
    <3> SUFFICES ASSUME NEW k \in 1 .. Len(w) + 1 PROVE pos2[k] \in Nat
      OBVIOUS
    <3>1. CASE k = Len(w) + 1
      BY <3>1
    <3>2. CASE k # Len(w) + 1
      <4>1. k \in 1 .. Len(w)
        BY <1>1, <3>2
      <4> QED
        BY <1>2, <4>1
    <3> QED
      BY <3>1, <3>2
  <2> QED
    BY <1>1, <2>1
<1> HIDE DEF pos2
<1>4. ASSUME NEW k \in 1 .. Len(w2)
      PROVE  /\ o <= pos2[k] /\ pos2[k] < e + p.n
             /\ Wanted(More(b, e, p), pos2[k]) /\ w2[k] = PacketAt(More(b, e, p), pos2[k])
  <2>1. CASE k = Len(w) + 1
    <3>1. More(b, e, p)[e + 1] = Byte(p.id, p.n, 1)
      <4>1. e + 1 \in Nat /\ e + 1 > e /\ e + 1 - e = 1
        OBVIOUS
      <4> QED
        BY <1>0, <4>1 DEF More
    <3> QED
      BY <1>0, <1>1, <1>3, <2>1, <3>1 DEF Wanted, PacketAt, Byte
  <2>2. CASE k # Len(w) + 1
    <3>1. k \in 1 .. Len(w)
      BY <1>1, <2>2
    <3>2. Wanted(b, pos[k]) /\ w[k] = PacketAt(b, pos[k])
      BY <3>1 DEF Places
    <3>3. pos[k] \in 0 .. e + p.n - 1 /\ pos[k] < e + p.n /\ pos[k] < e
      BY <1>0, <1>2, <3>1
    <3> QED
      BY <1>0, <1>1, <1>2, <3>1, <3>2, <3>3, WantedMore
  <2> QED
    BY <2>1, <2>2
<1>5. \A k, l \in 1 .. Len(w2) : k < l => pos2[k] < pos2[l]
  <2> SUFFICES ASSUME NEW k \in 1 .. Len(w2), NEW l \in 1 .. Len(w2), k < l
               PROVE  pos2[k] < pos2[l]
    OBVIOUS
  <2>1. k \in 1 .. Len(w)
    BY <1>1
  <2>2. CASE l = Len(w) + 1
    BY <1>2, <1>3, <2>1, <2>2
  <2>3. CASE l \in 1 .. Len(w)
    BY <1>2, <2>1, <2>3 DEF Places
  <2> QED
    BY <1>1, <2>2, <2>3
<1>6. ASSUME NEW j \in o .. e + p.n - 1, Wanted(More(b, e, p), j)
      PROVE  \E k \in 1 .. Len(w2) : pos2[k] = j
  <2>1. CASE j < e
    <3>1. Wanted(b, j) /\ j \in o .. e - 1
      BY <1>0, <1>6, <2>1, WantedMore
    <3>2. PICK k \in 1 .. Len(w) : pos[k] = j
      BY <3>1 DEF Places
    <3> QED
      BY <1>1, <1>2, <3>2
  <2>2. CASE j >= e
    <3>1. j = e
      BY <1>0, <1>6, <2>2, WantedMore
    <3> QED
      BY <1>1, <1>3, <3>1
  <2> QED
    BY <2>1, <2>2
<1>7. Places(w2, More(b, e, p), o, e + p.n, pos2)
  <2>1. w2 \in Seq(Packets) /\ pos2 \in [1 .. Len(w2) -> Nat]
    BY <1>1, <1>3
  <2> QED
    <3>1. \A j \in o .. (e + p.n) - 1 :
            Wanted(More(b, e, p), j) => \E k \in 1 .. Len(w2) : pos2[k] = j
      BY <1>0, <1>6
    <3> QED
      BY <1>4, <1>5, <2>1, <3>1, PlacesIntro
<1> QED
  BY <1>7 DEF pos2, w2

(* No packet starts in the bytes between two places. *)
Quiet(b, from, to) == \A j \in from + 1 .. to : b[j].i # 1

(* The bytes between two places. *)
Slice(b, from, to) == [x \in 1 .. to - from |-> b[from + x]]

(* Of the packets wanted the first n start before place a. *)
Before(w, pos, a, n) ==
  /\ n \in 0 .. Len(w)
  /\ \A k \in 1 .. Len(w) : k <= n <=> pos[k] < a

(* Within a packet no other starts. *)
LEMMA QuietPacket ==
  ASSUME NEW b, NEW o \in Nat, NEW e \in Nat, Blocks(b, o, e),
         NEW j \in o .. e - 1, b[j + 1].i = 1
  PROVE  Quiet(b, j + 1, j + b[j + 1].n)
<1>1. b[j + 1].n \in Nat /\ Holds(b, j, PacketAt(b, j))
  BY DEF Blocks
<1> SUFFICES ASSUME NEW k \in j + 1 + 1 .. j + b[j + 1].n PROVE b[k].i # 1
  BY DEF Quiet
<1>2. k - j \in 1 .. b[j + 1].n /\ j + (k - j) = k /\ k - j # 1
  BY <1>1
<1>3. b[k] = Byte(b[j + 1].id, b[j + 1].n, k - j)
  BY <1>1, <1>2 DEF Holds, PacketAt
<1> QED
  BY <1>2, <1>3 DEF Byte

(* What holds of the stream from o on holds from any later place. *)
LEMMA Onward ==
  ASSUME NEW b, NEW o \in Nat, NEW e \in Nat, NEW a \in Nat, o <= a
  PROVE  /\ Blocks(b, o, e) => Blocks(b, a, e)
         /\ Unlike(b, o, e) => Unlike(b, a, e)
<1>1. \A j \in a .. e - 1 : j \in o .. e - 1
  OBVIOUS
<1>2. \A j \in a + 1 .. e : j \in o + 1 .. e
  OBVIOUS
<1> QED
  BY <1>1, <1>2 DEF Blocks, Unlike

(* The packets wanted from a later place on are those left when the ones   *)
(* before it are dropped.                                                  *)
LEMMA PlacesOnward ==
  ASSUME NEW w, NEW b, NEW o \in Nat, NEW e \in Nat, NEW pos, Places(w, b, o, e, pos),
         NEW a \in Nat, o <= a, NEW n, Before(w, pos, a, n)
  PROVE  Places(SubSeq(w, n + 1, Len(w)), b, a, e,
                [k \in 1 .. Len(w) - n |-> pos[k + n]])
<1> DEFINE v == SubSeq(w, n + 1, Len(w))
           p2 == [k \in 1 .. Len(w) - n |-> pos[k + n]]
<1>1. Len(w) \in Nat /\ n \in 0 .. Len(w) /\ w \in Seq(Packets) /\ pos \in [1 .. Len(w) -> Nat]
  BY DEF Places, Before
<1>2. v \in Seq(Packets) /\ Len(v) = Len(w) - n /\ \A k \in 1 .. Len(w) - n : v[k] = w[k + n]
  BY <1>1
<1> HIDE DEF v
<1>3. \A k \in 1 .. Len(v) :
        k + n \in 1 .. Len(w) /\ k + n > n /\ p2[k] = pos[k + n] /\ v[k] = w[k + n]
  BY <1>1, <1>2
<1>4. p2 \in [1 .. Len(v) -> Nat]
  BY <1>1, <1>2, <1>3
<1> HIDE DEF p2
<1>5. ASSUME NEW k \in 1 .. Len(v)
      PROVE  a <= p2[k] /\ p2[k] < e /\ Wanted(b, p2[k]) /\ v[k] = PacketAt(b, p2[k])
  <2>1. /\ k + n \in 1 .. Len(w) /\ k + n > n /\ ~(k + n <= n)
        /\ p2[k] = pos[k + n] /\ v[k] = w[k + n]
    BY <1>1, <1>3
  <2>2. ~(pos[k + n] < a) /\ pos[k + n] \in Nat
    BY <1>1, <2>1 DEF Before
  <2>3. pos[k + n] < e /\ Wanted(b, pos[k + n]) /\ w[k + n] = PacketAt(b, pos[k + n])
    BY <2>1 DEF Places
  <2> QED
    BY <2>1, <2>2, <2>3
<1>6. ASSUME NEW k \in 1 .. Len(v), NEW l \in 1 .. Len(v), k < l PROVE p2[k] < p2[l]
  <2>1. k + n < l + n
    BY <1>1, <1>2, <1>6
  <2> QED
    BY <1>3, <2>1 DEF Places
<1>7. ASSUME NEW j \in a .. e - 1, Wanted(b, j) PROVE \E k \in 1 .. Len(v) : p2[k] = j
  <2>1. PICK l \in 1 .. Len(w) : pos[l] = j
    BY <1>7 DEF Places
  <2>2. ~(l <= n)
    BY <2>1 DEF Before
  <2>3. l - n \in 1 .. Len(v) /\ (l - n) + n = l
    BY <1>1, <1>2, <2>2
  <2> QED
    BY <1>3, <2>1, <2>3
<1>8. Places(v, b, a, e, p2)
  BY <1>2, <1>4, <1>5, <1>6, <1>7, PlacesIntro
<1> QED
  BY <1>8 DEF v, p2

(* Length and elements of a slice. *)
LEMMA Slices ==
  ASSUME NEW b, NEW o \in Nat, NEW e \in Nat, o <= e
  PROVE  /\ Slice(b, o, e) = [x \in 1 .. e - o |-> b[o + x]]
         /\ Len(Slice(b, o, e)) = e - o
         /\ \A k \in 1 .. e - o : Slice(b, o, e)[k] = b[o + k]
BY DEF Slice

(* A part of a slice is a slice. *)
LEMMA SubSlice ==
  ASSUME NEW b, NEW o \in Nat, NEW e \in Nat, o <= e,
         NEW k \in 0 .. e - o, NEW l \in 0 .. e - o, k <= l
  PROVE  SubSeq(Slice(b, o, e), k + 1, l) = Slice(b, o + k, o + l)
<1>1. /\ Slice(b, o, e) = [x \in 1 .. e - o |-> b[o + x]]
      /\ Len(Slice(b, o, e)) = e - o
      /\ \A x \in 1 .. e - o : Slice(b, o, e)[x] = b[o + x]
  BY Slices
<1>2. SubSeq(Slice(b, o, e), k + 1, l) = [x \in 1 .. l - k |-> Slice(b, o, e)[x + k]]
  BY <1>1
<1>3. \A x \in 1 .. l - k : Slice(b, o, e)[x + k] = b[(o + k) + x]
  <2>1. \A x \in 1 .. l - k : x + k \in 1 .. e - o /\ o + (x + k) = (o + k) + x
    OBVIOUS
  <2> QED
    BY <1>1, <2>1
<1>4. (o + l) - (o + k) = l - k
  OBVIOUS
<1> QED
  BY <1>2, <1>3, <1>4 DEF Slice

(* A function over 1 .. n as a sequence, with an element put before it. *)
LEMMA OneMore ==
  ASSUME NEW s, NEW n \in Nat, NEW g, g = [i \in 1 .. n |-> g[i]]
  PROVE  <<s>> \o g = [i \in 1 .. n + 1 |-> IF i = 1 THEN s ELSE g[i - 1]]
<1> DEFINE T == {s} \cup {g[i] : i \in 1 .. n}
<1>1. g \in Seq(T) /\ Len(g) = n /\ <<s>> \in Seq(T) /\ Len(<<s>>) = 1 /\ <<s>>[1] = s
  <2>1. g \in [1 .. n -> T]
    OBVIOUS
  <2> QED
    BY <2>1
<1> HIDE DEF T
<1>2. /\ Len(<<s>> \o g) = n + 1 /\ <<s>> \o g \in Seq(T)
      /\ \A i \in 1 .. n + 1 : (<<s>> \o g)[i] = IF i = 1 THEN s ELSE g[i - 1]
  <2>1. Len(<<s>> \o g) = n + 1 /\ <<s>> \o g \in Seq(T)
    BY <1>1
  <2>2. ASSUME NEW i \in 1 .. n + 1
        PROVE (<<s>> \o g)[i] = IF i = 1 THEN s ELSE g[i - 1]
    BY <1>1
  <2> QED
    BY <2>1, <2>2
<1>3. <<s>> \o g = [i \in 1 .. n + 1 |-> (<<s>> \o g)[i]]
  BY <1>2
<1> QED
  BY <1>2, <1>3

-----------------------------------------------------------------------------
(* What the demultiplexer finds                                            *)
(* Extract cuts the packets out of a slice of the stream that starts at an *)
(* edge.                                                                   *)

(* What Extract leaves of the bytes between s and r: the start of a packet *)
(* that is not all there and, as far as its header says, not too large.    *)
Left(b, e, s, r) ==
  /\ Edge(b, e, s)
  /\ s < r => /\ b[s + 1].n > r - s
              /\ r - s >= kPrimaryHeaderSize => b[s + 1].n <= kMaxPacket

(* found is what Extract makes of the stream between a and r, when the     *)
(* first m packets wanted start before a: the next ones, whole and in      *)
(* order, and either the rest of the bytes or, after a packet that is too  *)
(* large, nothing.                                                         *)
Finds(found, b, w, pos, a, e, r, m) ==
  \E n \in m .. Len(w) :
    /\ found = [synced |-> found.synced, packets |-> [i \in 1 .. n - m |-> Bytes(w[m + i])],
                buffer |-> found.buffer]
    /\ \/ /\ found.synced = TRUE
          /\ \E s \in a .. r : /\ Left(b, e, s, r) /\ Before(w, pos, s, n)
                               /\ found.buffer = Slice(b, s, r)
       \/ /\ found.synced = FALSE /\ found.buffer = <<>>
          /\ Before(w, pos, r, n)

(* Every packet that is too large for the demultiplexer ends behind r. *)
NoneTooLarge(b, o, r) ==
  \A j \in o .. r - 1 : b[j + 1].i = 1 /\ b[j + 1].n > kMaxPacket => j + b[j + 1].n > r

(* Behind the packet at place a the first m packets are passed, and that   *)
(* one if it is wanted.                                                    *)
LEMMA PastOne ==
  ASSUME NEW b, NEW e \in Nat, NEW w, NEW o \in Nat, NEW pos, Places(w, b, o, e, pos),
         Blocks(b, o, e), NEW a \in o .. e - 1, b[a + 1].i = 1,
         NEW m, Before(w, pos, a, m), NEW z \in a + 1 .. a + b[a + 1].n
  PROVE  Before(w, pos, z, IF Wanted(b, a) THEN m + 1 ELSE m)
<1>1. /\ Len(w) \in Nat /\ m \in 0 .. Len(w) /\ z \in Nat /\ a \in Nat
      /\ pos \in [1 .. Len(w) -> Nat] /\ b[a + 1].n \in Nat
  BY DEF Places, Before, Blocks
<1>2. Quiet(b, a + 1, a + b[a + 1].n)
  BY QuietPacket
<1>3. ASSUME NEW k \in 1 .. Len(w), pos[k] > a PROVE ~(pos[k] < z)
  <2> SUFFICES ASSUME pos[k] < z PROVE FALSE
    OBVIOUS
  <2>1. b[pos[k] + 1].i = 1 /\ pos[k] \in Nat
    BY <1>1 DEF Places, Wanted
  <2>2. pos[k] + 1 \in a + 1 + 1 .. a + b[a + 1].n
    <3>1. PICK x \in Nat : x = pos[k] /\ x > a /\ x < z
      BY <1>3, <2>1
    <3>2. PICK n \in Nat : n = b[a + 1].n
      BY <1>1
    <3>3. x + 1 \in a + 1 + 1 .. a + n
      <4>1. z \in Nat /\ a \in Nat /\ z <= a + n
        BY <1>1, <3>2
      <4> QED
        BY <3>1, <4>1
    <3> QED
      BY <3>1, <3>2, <3>3
  <2> QED
    BY <1>2, <2>1, <2>2 DEF Quiet
<1>4. CASE Wanted(b, a)
  <2>1. PICK l \in 1 .. Len(w) : pos[l] = a
    BY <1>4 DEF Places
  <2>2. ~(l <= m)
    BY <1>1, <2>1 DEF Before
  <2>3. l = m + 1
    <3> SUFFICES ASSUME m + 1 < l PROVE FALSE
      BY <1>1, <2>2
    <3>1. m + 1 \in 1 .. Len(w) /\ ~(m + 1 <= m)
      BY <1>1
    <3>2. pos[m + 1] < pos[l] /\ ~(pos[m + 1] < a)
      BY <3>1 DEF Places, Before
    <3> QED
      BY <2>1, <3>2
  <2>4. \A k \in 1 .. Len(w) : k <= m + 1 <=> pos[k] < z
    <3> SUFFICES ASSUME NEW k \in 1 .. Len(w) PROVE k <= m + 1 <=> pos[k] < z
      OBVIOUS
    <3>0. pos[k] \in Nat /\ pos[l] = a /\ a < z
      BY <1>1, <2>1
    <3>1. CASE k <= m
      <4>1. pos[k] < a
        BY <3>1 DEF Before
      <4> QED
        BY <1>1, <3>0, <3>1, <4>1
    <3>2. CASE k = m + 1
      BY <1>1, <2>3, <3>0, <3>2
    <3>3. CASE k > m + 1
      <4>1. l < k
        BY <2>3, <3>3
      <4>2. pos[l] < pos[k]
        BY <4>1 DEF Places
      <4>3. ~(pos[k] < z)
        BY <1>1, <1>3, <3>0, <4>2
      <4> QED
        BY <1>1, <3>3, <4>3
    <3> QED
      BY <1>1, <3>1, <3>2, <3>3
  <2> QED
    BY <1>1, <1>4, <2>3, <2>4 DEF Before
<1>5. CASE ~Wanted(b, a)
  <2>1. \A k \in 1 .. Len(w) : pos[k] # a
    BY <1>5 DEF Places
  <2>2. \A k \in 1 .. Len(w) : k <= m <=> pos[k] < z
    <3> SUFFICES ASSUME NEW k \in 1 .. Len(w) PROVE k <= m <=> pos[k] < z
      OBVIOUS
    <3>1. pos[k] \in Nat /\ pos[k] # a
      BY <1>1, <2>1
    <3>2. k <= m <=> pos[k] < a
      BY DEF Before
    <3>3. pos[k] > a => ~(pos[k] < z)
      BY <1>3
    <3> QED
      BY <1>1, <3>1, <3>2, <3>3
  <2> QED
    BY <1>1, <1>5, <2>2 DEF Before
<1> QED
  BY <1>4, <1>5

(* Finds from its parts. *)
LEMMA FindsIntro ==
  ASSUME NEW found, NEW b, NEW w, NEW pos, NEW a, NEW e, NEW r, NEW m,
         NEW n \in m .. Len(w), NEW packets, NEW synced, NEW buffer,
         found = [synced |-> synced, packets |-> packets, buffer |-> buffer],
         packets = [i \in 1 .. n - m |-> Bytes(w[m + i])],
         \/ /\ synced = TRUE
            /\ \E s \in a .. r : /\ Left(b, e, s, r) /\ Before(w, pos, s, n)
                                 /\ buffer = Slice(b, s, r)
         \/ /\ synced = FALSE /\ buffer = <<>>
            /\ Before(w, pos, r, n)
  PROVE  Finds(found, b, w, pos, a, e, r, m)
<1>1. found.synced = synced /\ found.packets = packets /\ found.buffer = buffer
  OBVIOUS
<1>2. found = [synced |-> found.synced, packets |-> [i \in 1 .. n - m |-> Bytes(w[m + i])],
                buffer |-> found.buffer]
  BY <1>1
<1> QED
  BY <1>1, <1>2 DEF Finds

(* f finds the packets from every edge beyond at on. *)
FindsBeyond(f, b, w, pos, o, e, r, at) ==
  \A x \in 0 .. r - o : x > at /\ Edge(b, e, o + x) =>
    \A k : Before(w, pos, o + x, k) => Finds(f[x], b, w, pos, o + x, e, r, k)

(* One turn of Extract finds the packets from its place on if the turns    *)
(* further on do.                                                          *)
LEMMA TurnFinds ==
  ASSUME NEW b, NEW o \in Nat, NEW r \in Nat, NEW e \in Nat, o <= r, r <= e,
         Blocks(b, o, e), NEW w, NEW pos, Places(w, b, o, e, pos), NoneTooLarge(b, o, r),
         NEW f, NEW at \in 0 .. r - o, NEW a \in Nat, a = o + at, Edge(b, e, a),
         NEW buffer, buffer = Slice(b, o, r),
         NEW m, Before(w, pos, a, m),
         FindsBeyond(f, b, w, pos, o, e, r, at)
  PROVE  Finds(Turn(buffer, f, at), b, w, pos, a, e, r, m)
<1> DEFINE turn == Turn(buffer, f, at)
<1>1. /\ Len(buffer) = r - o /\ \A k \in 1 .. r - o : buffer[k] = b[o + k]
      /\ SubSeq(buffer, at + 1, r - o) = Slice(b, a, r)
      /\ \A k \in at .. r - o : SubSeq(buffer, at + 1, k) = Slice(b, a, o + k)
  <2>1. /\ Len(Slice(b, o, r)) = r - o /\ \A k \in 1 .. r - o : Slice(b, o, r)[k] = b[o + k]
    <3>1. o \in Nat /\ r \in Nat /\ o <= r
      OBVIOUS
    <3>2. /\ Len(Slice(b, o, r)) = r - o
          /\ \A k \in 1 .. r - o : Slice(b, o, r)[k] = b[o + k]
      BY <3>1, Slices, Zenon
    <3> QED
      BY <3>2
  <2>2. ASSUME NEW k \in at .. r - o
        PROVE  SubSeq(Slice(b, o, r), at + 1, k) = Slice(b, a, o + k)
    <3>1. at \in 0 .. r - o /\ k \in 0 .. r - o /\ at <= k
      OBVIOUS
    <3>2. SubSeq(Slice(b, o, r), at + 1, k) = Slice(b, o + at, o + k)
      BY <3>1, SubSlice, Zenon
    <3> QED
      BY <3>2
  <2>3. r - o \in at .. r - o /\ o + (r - o) = r
    OBVIOUS
  <2> QED
    BY <2>1, <2>2, <2>3
<1>2. /\ kPrimaryHeaderSize \in Nat /\ kPrimaryHeaderSize > 0 /\ kMaxPacket \in Nat
      /\ Len(w) \in Nat /\ m \in 0 .. Len(w) /\ w \in Seq(Packets)
      /\ pos \in [1 .. Len(w) -> Nat]
  BY FrameSizes DEF Before, Places
<1>3. a \in Nat /\ a >= o /\ a <= r
  OBVIOUS
<1>4. ASSUME at < r - o
      PROVE  \E n \in Nat :
               /\ a \in o .. e - 1 /\ b[a + 1].i = 1 /\ b[a + 1].n = n /\ buffer[at + 1] = b[a + 1]
               /\ PacketSize(buffer[at + 1]) = n
               /\ n > kPrimaryHeaderSize /\ a + n <= e /\ Edge(b, e, a + n)
               /\ Holds(b, a, PacketAt(b, a))
  <2>1. a \in o .. e - 1 /\ a # e /\ at + 1 \in 1 .. r - o /\ o + (at + 1) = a + 1
    BY <1>4
  <2>2. b[a + 1].i = 1 /\ buffer[at + 1] = b[a + 1]
    <3>1. b[a + 1].i = 1
      BY <2>1 DEF Edge
    <3> QED
      BY <1>1, <2>1, <3>1
  <2>3. PacketSize(buffer[at + 1]) = b[a + 1].n
    BY <2>2 DEF PacketSize
  <2> QED
    BY <2>1, <2>2, <2>3 DEF Blocks
<1>5. <<>> = [i \in 1 .. m - m |-> Bytes(w[m + i])] /\ m \in m .. Len(w) /\ a \in a .. r
  BY <1>2, <1>3
<1>6. CASE ~(at + kPrimaryHeaderSize <= r - o)
  <2>1. turn = [synced |-> TRUE, packets |-> <<>>, buffer |-> Slice(b, a, r)]
    BY <1>1, <1>6 DEF Turn
  <2>2. Left(b, e, a, r)
    <3>1. a < r => b[a + 1].n > r - a
      <4> SUFFICES ASSUME a < r PROVE b[a + 1].n > r - a
        OBVIOUS
      <4>1. PICK n \in Nat : /\ b[a + 1].n = n /\ n > kPrimaryHeaderSize
        BY <1>4
      <4> QED
        BY <1>2, <1>6, <4>1
    <3> QED
      BY <1>2, <1>6, <3>1 DEF Left
  <2> HIDE DEF turn
  <2>3. Finds(turn, b, w, pos, a, e, r, m)
    BY <1>5, <2>1, <2>2, FindsIntro
  <2> QED
    BY <2>3 DEF turn
<1>7. CASE at + kPrimaryHeaderSize <= r - o
  <2>0. at < r - o
    BY <1>2, <1>7
  <2>1. PICK n \in Nat :
        /\ a \in o .. e - 1 /\ b[a + 1].i = 1 /\ b[a + 1].n = n /\ buffer[at + 1] = b[a + 1]
        /\ PacketSize(buffer[at + 1]) = n
        /\ n > kPrimaryHeaderSize /\ a + n <= e /\ Edge(b, e, a + n)
        /\ Holds(b, a, PacketAt(b, a))
    BY <1>4, <2>0
  <2>2. CASE n > kMaxPacket
    <3>1. turn = [synced |-> FALSE, packets |-> <<>>, buffer |-> <<>>]
      <4>1. at + kPrimaryHeaderSize <= Len(buffer) /\ PacketSize(buffer[at + 1]) > kMaxPacket
            /\ ~(PacketSize(buffer[at + 1]) <= kMaxPacket)
        <5>1. ~(PacketSize(buffer[at + 1]) <= kMaxPacket)
          BY <1>2, <2>1, <2>2
        <5>2. PacketSize(buffer[at + 1]) > kMaxPacket
          BY <1>2, <2>1, <2>2
        <5>3. at + kPrimaryHeaderSize <= Len(buffer)
          BY <1>1, <1>7
        <5> QED
          BY <5>1, <5>2, <5>3
      <4> QED
        BY <4>1 DEF Turn
    <3>2. ~Wanted(b, a)
      BY <1>2, <2>1, <2>2 DEF Wanted
    <3>3. r \in a + 1 .. a + n
      <4>1. a \in o .. r - 1
        BY <2>0
      <4>2. a + n > r
        BY <2>1, <2>2, <4>1 DEF NoneTooLarge
      <4> QED
        BY <1>3, <2>1, <4>1, <4>2
    <3>4. Before(w, pos, r, m)
      BY <2>1, <3>2, <3>3, PastOne
    <3> HIDE DEF turn
    <3>5. Finds(turn, b, w, pos, a, e, r, m)
      BY <1>5, <3>1, <3>4, FindsIntro
    <3> QED
      BY <3>5 DEF turn
  <2>3. CASE n <= kMaxPacket /\ at + n > r - o
    <3>1. turn = [synced |-> TRUE, packets |-> <<>>, buffer |-> Slice(b, a, r)]
      <4>1. ~(n > kMaxPacket)
        BY <1>2, <2>1, <2>3
      <4> QED
        BY <1>1, <1>7, <2>1, <2>3, <4>1 DEF Turn
    <3>2. Left(b, e, a, r)
      <4>1. n > r - a
        BY <2>1, <2>3
      <4> QED
        BY <2>1, <2>3, <4>1 DEF Left
    <3> HIDE DEF turn
    <3>3. Finds(turn, b, w, pos, a, e, r, m)
      BY <1>5, <3>1, <3>2, FindsIntro
    <3> QED
      BY <3>3 DEF turn
  <2>4. CASE n <= kMaxPacket /\ at + n <= r - o
    <3> DEFINE rest == f[at + n]
               k == IF Wanted(b, a) THEN m + 1 ELSE m
               whole == SubSeq(buffer, at + 1, at + n)
    <3>1. turn = [rest EXCEPT !.packets =
                    IF b[a + 1].id = Idle THEN @ ELSE <<whole>> \o @]
      <4>1. ~(n > kMaxPacket) /\ ~(at + n > r - o)
        <5>1. r - o \in Nat /\ at + n <= r - o
          BY <2>4
        <5> QED
          BY <1>2, <2>4, <5>1
      <4> QED
        BY <1>1, <1>7, <2>1, <4>1 DEF Turn
    <3>2. Wanted(b, a) <=> b[a + 1].id # Idle
      BY <2>1, <2>4 DEF Wanted
    <3>3. at + n \in at .. r - o /\ at + n \in 0 .. r - o /\ at + n > at /\ o + (at + n) = a + n
      <4>1. n > 0 /\ at \in Nat /\ at + n <= r - o
        BY <1>2, <2>1, <2>4
      <4> QED
        BY <4>1
    <3>4. Before(w, pos, a + n, k)
      <4>1. a + n \in a + 1 .. a + n
        BY <1>2, <1>3, <2>1
      <4> QED
        BY <2>1, <4>1, PastOne
    <3>5. Finds(rest, b, w, pos, a + n, e, r, k)
      BY <2>1, <3>3, <3>4 DEF FindsBeyond
    <3>6. whole = Bytes(PacketAt(b, a))
      <4>1. whole = Slice(b, a, a + n)
        BY <1>1, <3>3
      <4>2. (a + n) - a = n /\ PacketAt(b, a).n = n
        BY <2>1 DEF PacketAt
      <4>3. \A x \in 1 .. n : b[a + x] = Byte(PacketAt(b, a).id, PacketAt(b, a).n, x)
        BY <2>1, <4>2 DEF Holds
      <4>4. Slice(b, a, a + n) = [x \in 1 .. n |-> b[a + x]]
        BY <4>2 DEF Slice
      <4>5. Bytes(PacketAt(b, a)) = [x \in 1 .. n |-> Byte(PacketAt(b, a).id, PacketAt(b, a).n, x)]
        BY <4>2 DEF Bytes
      <4> QED
        BY <4>1, <4>3, <4>4, <4>5
    <3>7. Wanted(b, a) => m + 1 \in 1 .. Len(w) /\ w[m + 1] = PacketAt(b, a)
      <4> SUFFICES ASSUME Wanted(b, a) PROVE m + 1 \in 1 .. Len(w) /\ w[m + 1] = PacketAt(b, a)
        OBVIOUS
      <4>1. m + 1 \in 1 .. Len(w)
        BY <1>2, <3>4 DEF Before
      <4>2. pos[m + 1] \in Nat /\ o <= pos[m + 1] /\ ~(pos[m + 1] < a) /\ pos[m + 1] < a + n
            /\ Wanted(b, pos[m + 1]) /\ w[m + 1] = PacketAt(b, pos[m + 1])
        <5>1. m + 1 <= m + 1 /\ ~(m + 1 <= m)
          BY <1>2
        <5> QED
          BY <1>2, <3>4, <4>1, <5>1 DEF Before, Places
      <4>3. pos[m + 1] = a
        <5> SUFFICES ASSUME pos[m + 1] > a PROVE FALSE
          BY <1>3, <4>2
        <5>1. pos[m + 1] + 1 \in a + 1 + 1 .. a + n
          BY <1>3, <2>1, <4>2
        <5>2. Quiet(b, a + 1, a + n)
          BY <2>1, QuietPacket
        <5> QED
          BY <4>2, <5>1, <5>2 DEF Quiet, Wanted
      <4> QED
        BY <4>1, <4>2, <4>3
    <3> HIDE DEF turn, rest, whole
    <3>8. PICK l \in k .. Len(w) :
            /\ rest = [synced |-> rest.synced, packets |-> [i \in 1 .. l - k |-> Bytes(w[k + i])],
                       buffer |-> rest.buffer]
            /\ \/ /\ rest.synced = TRUE
                  /\ \E s \in a + n .. r : /\ Left(b, e, s, r) /\ Before(w, pos, s, l)
                                           /\ rest.buffer = Slice(b, s, r)
               \/ /\ rest.synced = FALSE /\ rest.buffer = <<>>
                  /\ Before(w, pos, r, l)
      BY <3>5 DEF Finds
    <3>9. k \in 0 .. Len(w) /\ k \in m .. m + 1 /\ l \in m .. Len(w)
      <4>1. m \in Nat /\ k \in m .. m + 1 /\ Len(w) \in Nat
        BY <1>2
      <4>2. k \in 0 .. Len(w) /\ l \in k .. Len(w)
        BY <3>4, <3>8 DEF Before
      <4> HIDE DEF k
      <4> QED
        BY <4>1, <4>2
    <3> DEFINE packets == [i \in 1 .. l - m |-> Bytes(w[m + i])]
               others == [i \in 1 .. l - k |-> Bytes(w[k + i])]
    <3>10. (IF b[a + 1].id = Idle THEN others ELSE <<whole>> \o others) = packets
      <4>1. CASE b[a + 1].id = Idle
        BY <3>2, <4>1
      <4>2. CASE b[a + 1].id # Idle
        <5>1. k = m + 1 /\ l - k \in Nat /\ (l - k) + 1 = l - m
          BY <1>2, <3>2, <3>9, <4>2
        <5>2. <<whole>> \o others =
                [i \in 1 .. (l - k) + 1 |-> IF i = 1 THEN whole ELSE others[i - 1]]
          <6>1. others = [i \in 1 .. l - k |-> others[i]]
            OBVIOUS
          <6>2. PICK z \in Nat : z = l - k
            BY <5>1
          <6>3. \A g : g = [i \in 1 .. z |-> g[i]] =>
                  <<whole>> \o g = [i \in 1 .. z + 1 |-> IF i = 1 THEN whole ELSE g[i - 1]]
            BY OneMore
          <6> HIDE DEF others, k
          <6>4. others = [i \in 1 .. z |-> others[i]]
            BY <6>1, <6>2
          <6>5. <<whole>> \o others = [i \in 1 .. z + 1 |-> IF i = 1 THEN whole ELSE others[i - 1]]
            BY <6>3, <6>4
          <6> QED
            BY <6>2, <6>5
        <5>3. ASSUME NEW i \in 1 .. l - m
              PROVE  (IF i = 1 THEN whole ELSE others[i - 1]) = Bytes(w[m + i])
          <6>1. CASE i = 1
            BY <3>2, <3>6, <3>7, <4>2, <6>1
          <6>2. CASE i # 1
            <7>1. i - 1 \in 1 .. l - k /\ k + (i - 1) = m + i
              BY <1>2, <3>9, <5>1, <6>2
            <7> QED
              BY <6>2, <7>1
          <6> QED
            BY <6>1, <6>2
        <5> HIDE DEF others
        <5> QED
          BY <4>2, <5>1, <5>2, <5>3
      <4> QED
        BY <4>1, <4>2
    <3> HIDE DEF k
    <3>11. turn = [synced |-> rest.synced, packets |-> packets, buffer |-> rest.buffer]
      <4>1. rest = [synced |-> rest.synced, packets |-> others, buffer |-> rest.buffer]
        BY <3>8
      <4>2. rest.packets = others
        BY <4>1
      <4>3. turn = [rest EXCEPT !.packets = packets]
        BY <3>1, <3>10, <4>2
      <4> HIDE DEF packets, others
      <4> QED
        BY <4>1, <4>3
    <3>12. \A s \in a + n .. r : s \in a .. r
      <4>1. a \in Nat /\ n \in Nat /\ r \in Nat
        BY <1>3
      <4> QED
        BY <4>1
    <3> HIDE DEF packets
    <3>13. \/ /\ rest.synced = TRUE
              /\ \E s \in a .. r : /\ Left(b, e, s, r) /\ Before(w, pos, s, l)
                                   /\ rest.buffer = Slice(b, s, r)
           \/ /\ rest.synced = FALSE /\ rest.buffer = <<>>
              /\ Before(w, pos, r, l)
      BY <3>8, <3>12
    <3>14. Finds(turn, b, w, pos, a, e, r, m)
      <4>1. packets = [i \in 1 .. l - m |-> Bytes(w[m + i])]
        BY DEF packets
      <4> QED
        BY <3>9, <3>11, <3>13, <4>1, FindsIntro
    <3> QED
      BY <3>14 DEF turn
  <2>5. n \in Nat
    BY <2>1
  <2> HIDE DEF turn
  <2> QED
    BY <1>2, <2>2, <2>3, <2>4, <2>5 DEF turn
<1> QED
  BY <1>2, <1>6, <1>7

(* Extract finds, in a slice that starts at an edge, the packets wanted in *)
(* it, and leaves what is not a whole packet: by descent over the places   *)
(* of the buffer.                                                          *)
LEMMA ExtractFinds ==
  ASSUME NEW b, NEW o \in Nat, NEW r \in Nat, NEW e \in Nat, o <= r, r <= e,
         Blocks(b, o, e), NEW w, NEW pos, Places(w, b, o, e, pos), NoneTooLarge(b, o, r),
         Edge(b, e, o)
  PROVE  Finds(Extract(Slice(b, o, r)), b, w, pos, o, e, r, 0)
<1> DEFINE buffer == Slice(b, o, r)
<1>1. Len(buffer) = r - o /\ \A k \in 1 .. r - o : buffer[k] = b[o + k]
  BY Slices
<1> HIDE DEF buffer
<1>2. \A at \in 0 .. Len(buffer) - 1 : PacketSize(buffer[at + 1]) \in Nat \ {0}
  <2> SUFFICES ASSUME NEW at \in 0 .. Len(buffer) - 1
               PROVE  PacketSize(buffer[at + 1]) \in Nat \ {0}
    OBVIOUS
  <2>1. /\ at + 1 \in 1 .. r - o /\ buffer[at + 1] = b[o + (at + 1)]
        /\ o + (at + 1) = (o + at) + 1 /\ o + at \in o .. e - 1
    BY <1>1
  <2>2. buffer[at + 1].i = 1 => buffer[at + 1].n \in Nat /\ buffer[at + 1].n > kPrimaryHeaderSize
    BY <2>1 DEF Blocks
  <2> QED
    BY <2>2, FrameSizes DEF PacketSize
<1>3. PICK f : /\ Extract(buffer) = f[0]
               /\ \A at \in 0 .. Len(buffer) : f[at] = Turn(buffer, f, at)
  <2>1. Len(buffer) \in Nat
    BY <1>1
  <2> QED
    BY <1>2, <2>1, ExtractDefined
<1> DEFINE Good(at) == Edge(b, e, o + at) =>
                         \A k : Before(w, pos, o + at, k) =>
                                  Finds(f[at], b, w, pos, o + at, e, r, k)
           Bad == {z \in 0 .. r - o : ~Good((r - o) - z)}
<1>4. Bad = {}
  <2> SUFFICES ASSUME Bad # {} PROVE FALSE
    OBVIOUS
  <2>1. PICK z \in Bad : \A y \in Bad : z <= y
    <3>1. Bad \subseteq Nat
      OBVIOUS
    <3> HIDE DEF Bad
    <3> QED
      BY <3>1, Least
  <2> DEFINE at == (r - o) - z
  <2>2. z \in 0 .. r - o /\ ~Good(at) /\ at \in 0 .. r - o
    OBVIOUS
  <2>3. \A x \in 0 .. r - o : x > at => Good(x)
    <3> SUFFICES ASSUME NEW x \in 0 .. r - o, x > at, ~Good(x) PROVE FALSE
      OBVIOUS
    <3>1. (r - o) - x \in 0 .. r - o /\ (r - o) - ((r - o) - x) = x
      OBVIOUS
    <3>2. (r - o) - x \in Bad
      <4> HIDE DEF Good
      <4> QED
        BY <3>1
    <3>3. (r - o) - x < z
      BY <2>2
    <3> HIDE DEF Bad, Good, at
    <3> QED
      BY <2>1, <2>2, <3>1, <3>2, <3>3
  <2> HIDE DEF at, Bad
  <2>4. PICK k : /\ Edge(b, e, o + at) /\ Before(w, pos, o + at, k)
                 /\ ~Finds(f[at], b, w, pos, o + at, e, r, k)
    BY <2>2
  <2>5. Finds(Turn(buffer, f, at), b, w, pos, o + at, e, r, k)
    <3>1. buffer = Slice(b, o, r)
      BY DEF buffer
    <3>2. FindsBeyond(f, b, w, pos, o, e, r, at)
      BY <2>3 DEF FindsBeyond
    <3> HIDE DEF Good
    <3> QED
      <4>1. o + at \in Nat
        BY <2>2
      <4> QED
        BY <2>2, <2>4, <3>1, <3>2, <4>1, TurnFinds, Zenon
  <2> QED
    BY <1>1, <1>3, <2>2, <2>4, <2>5
<1>5. Good(0)
  <2>1. r - o \in 0 .. r - o /\ (r - o) - (r - o) = 0
    OBVIOUS
  <2> HIDE DEF Good
  <2> QED
    BY <1>4, <2>1
<1>6. Before(w, pos, o, 0)
  <2>1. \A k \in 1 .. Len(w) : pos[k] \in Nat /\ o <= pos[k]
    BY DEF Places
  <2>2. Len(w) \in Nat
    BY DEF Places
  <2> QED
    BY <2>1, <2>2 DEF Before
<1>7. o + 0 = o
  OBVIOUS
<1> QED
  BY <1>3, <1>5, <1>6, <1>7 DEF buffer

-----------------------------------------------------------------------------
(* Frames on their way *)

(* Frame f has the bytes from place a on, and its pointer says where in    *)
(* them the first packet starts.                                           *)
Carries(f, b, a) ==
  /\ f.data = Slice(b, a, a + kFrameDataSize)
  /\ IF f.fhp = kFhpNoPacketStart THEN Quiet(b, a, a + kFrameDataSize)
     ELSE /\ f.fhp \in 0 .. kFrameDataSize - 1
          /\ Quiet(b, a, a + f.fhp) /\ b[a + f.fhp + 1].i = 1

(* The frames of channel c among fr carry the stream between r and t       *)
(* without a gap or an overlap; at says where each of them starts.         *)
Frames(c, fr, at, b, r, t) ==
  /\ at \in [1 .. Len(fr) -> Nat]
  /\ \A i \in 1 .. Len(fr) : fr[i].vc = c =>
       r <= at[i] /\ at[i] + kFrameDataSize <= t /\ Carries(fr[i], b, at[i])
  /\ \A i, j \in 1 .. Len(fr) : i < j /\ fr[i].vc = c /\ fr[j].vc = c =>
       at[i] + kFrameDataSize <= at[j]
  /\ \A x \in r + 1 .. t : \E i \in 1 .. Len(fr) :
       fr[i].vc = c /\ at[i] < x /\ x <= at[i] + kFrameDataSize

(* Frames from its parts. *)
LEMMA FramesIntro ==
  ASSUME NEW c, NEW fr, NEW at, NEW b, NEW r, NEW t,
         at \in [1 .. Len(fr) -> Nat],
         \A i \in 1 .. Len(fr) : fr[i].vc = c =>
           r <= at[i] /\ at[i] + kFrameDataSize <= t /\ Carries(fr[i], b, at[i]),
         \A i, j \in 1 .. Len(fr) : i < j /\ fr[i].vc = c /\ fr[j].vc = c =>
           at[i] + kFrameDataSize <= at[j],
         \A x \in r + 1 .. t : \E i \in 1 .. Len(fr) :
           fr[i].vc = c /\ at[i] < x /\ x <= at[i] + kFrameDataSize
  PROVE  Frames(c, fr, at, b, r, t)
BY DEF Frames

(* A frame depends only on the bytes it carries. *)
LEMMA CarriesSame ==
  ASSUME NEW f, NEW b, NEW d, NEW a \in Nat, Carries(f, b, a),
         \A j \in a + 1 .. a + kFrameDataSize : d[j] = b[j]
  PROVE  Carries(f, d, a)
<1>0. kFrameDataSize \in Nat
  BY FrameSizes
<1>1. Slice(d, a, a + kFrameDataSize) = Slice(b, a, a + kFrameDataSize)
  <2>1. \A x \in 1 .. (a + kFrameDataSize) - a : a + x \in a + 1 .. a + kFrameDataSize
    BY <1>0
  <2>2. \A x \in 1 .. (a + kFrameDataSize) - a : d[a + x] = b[a + x]
    BY <2>1
  <2> QED
    BY <2>2 DEF Slice
<1>2. CASE f.fhp = kFhpNoPacketStart
  <2>1. Quiet(b, a, a + kFrameDataSize)
    BY <1>2 DEF Carries
  <2>2. Quiet(d, a, a + kFrameDataSize)
    BY <2>1 DEF Quiet
  <2> QED
    BY <1>1, <1>2, <2>2 DEF Carries
<1>3. CASE f.fhp # kFhpNoPacketStart
  <2>1. /\ f.fhp \in 0 .. kFrameDataSize - 1
        /\ Quiet(b, a, a + f.fhp) /\ b[a + f.fhp + 1].i = 1
    BY <1>3 DEF Carries
  <2>2. \A j \in a + 1 .. a + f.fhp : j \in a + 1 .. a + kFrameDataSize
    BY <1>0, <2>1
  <2>3. Quiet(d, a, a + f.fhp)
    BY <2>1, <2>2 DEF Quiet
  <2>4. a + f.fhp + 1 \in a + 1 .. a + kFrameDataSize
    BY <1>0, <2>1
  <2> QED
    BY <1>1, <1>3, <2>1, <2>3, <2>4 DEF Carries
<1> QED
  BY <1>2, <1>3

(* The frames depend only on the bytes they carry. *)
LEMMA FramesSame ==
  ASSUME NEW c, NEW fr, NEW at, NEW b, NEW d, NEW r \in Nat, NEW t \in Nat,
         Frames(c, fr, at, b, r, t), \A j \in 0 .. t : d[j] = b[j]
  PROVE  Frames(c, fr, at, d, r, t)
<1>0. kFrameDataSize \in Nat
  BY FrameSizes
<1>1. ASSUME NEW i \in 1 .. Len(fr), fr[i].vc = c
      PROVE  r <= at[i] /\ at[i] + kFrameDataSize <= t /\ Carries(fr[i], d, at[i])
  <2>1. /\ at[i] \in Nat /\ r <= at[i] /\ at[i] + kFrameDataSize <= t
        /\ Carries(fr[i], b, at[i])
    BY <1>1 DEF Frames
  <2>2. \A j \in at[i] + 1 .. at[i] + kFrameDataSize : j \in 0 .. t
    BY <1>0, <2>1
  <2> QED
    BY <2>1, <2>2, CarriesSame
<1> QED
  BY <1>1 DEF Frames

(* Length and elements of a sequence with another element. *)
LEMMA Appended ==
  ASSUME NEW fr, NEW S, fr \in Seq(S), NEW f
  PROVE  /\ Len(fr) \in Nat /\ Len(Append(fr, f)) = Len(fr) + 1
         /\ \A i \in 1 .. Len(fr) : Append(fr, f)[i] = fr[i]
         /\ Append(fr, f)[Len(fr) + 1] = f
<1>1. fr \in Seq(S \cup {f})
  OBVIOUS
<1> QED
  BY <1>1

(* Another frame on its way: of another channel, or the bytes from t on of *)
(* this one.                                                               *)
LEMMA FramesAppend ==
  ASSUME NEW c, NEW fr, NEW S, fr \in Seq(S), NEW f, NEW at, NEW b,
         NEW r \in Nat, NEW t \in Nat, r <= t, Frames(c, fr, at, b, r, t)
  PROVE  /\ f.vc # c => \E at2 : Frames(c, Append(fr, f), at2, b, r, t)
         /\ f.vc = c /\ Carries(f, b, t) =>
              \E at2 : Frames(c, Append(fr, f), at2, b, r, t + kFrameDataSize)
<1> DEFINE n == Len(fr)
           g == Append(fr, f)
           at2 == [i \in 1 .. n + 1 |-> IF i = n + 1 THEN t ELSE at[i]]
<1>0. kFrameDataSize \in Nat
  BY FrameSizes
<1>1. /\ n \in Nat /\ Len(g) = n + 1 /\ g[n + 1] = f
      /\ \A i \in 1 .. n : g[i] = fr[i]
  BY Appended
<1>2. at \in [1 .. n -> Nat]
  BY DEF Frames
<1> HIDE DEF g, n
<1>3. at2 \in [1 .. Len(g) -> Nat] /\ at2[n + 1] = t /\ \A i \in 1 .. n : at2[i] = at[i]
  <2>1. \A i \in 1 .. n + 1 : i # n + 1 => i \in 1 .. n
    BY <1>1
  <2> QED
    BY <1>1, <1>2, <2>1
<1> HIDE DEF at2
<1>4. ASSUME NEW i \in 1 .. n, g[i].vc = c
      PROVE  /\ r <= at2[i] /\ at2[i] + kFrameDataSize <= t /\ Carries(g[i], b, at2[i])
             /\ at2[i] \in Nat
  BY <1>1, <1>2, <1>3, <1>4 DEF Frames, n
<1>5. \A i, j \in 1 .. n : i < j /\ g[i].vc = c /\ g[j].vc = c =>
        at2[i] + kFrameDataSize <= at2[j]
  BY <1>1, <1>3 DEF Frames, n
<1>6. ASSUME NEW x \in r + 1 .. t
      PROVE  \E i \in 1 .. n : g[i].vc = c /\ at2[i] < x /\ x <= at2[i] + kFrameDataSize
  <2>1. PICK i \in 1 .. n : fr[i].vc = c /\ at[i] < x /\ x <= at[i] + kFrameDataSize
    BY DEF Frames, n
  <2> QED
    BY <1>1, <1>3, <2>1
<1>7. \A i \in 1 .. Len(g) : i = n + 1 \/ i \in 1 .. n
  BY <1>1
<1>8. \A i \in 1 .. n : i \in 1 .. Len(g)
  BY <1>1
<1>9. ASSUME f.vc # c PROVE Frames(c, g, at2, b, r, t)
  <2>1. \A i \in 1 .. Len(g) : g[i].vc = c => i \in 1 .. n
    BY <1>1, <1>7, <1>9
  <2>2. \A i \in 1 .. Len(g) : g[i].vc = c =>
           r <= at2[i] /\ at2[i] + kFrameDataSize <= t /\ Carries(g[i], b, at2[i])
    BY <1>4, <2>1
  <2>3. \A i, j \in 1 .. Len(g) : i < j /\ g[i].vc = c /\ g[j].vc = c =>
           at2[i] + kFrameDataSize <= at2[j]
    BY <1>5, <2>1
  <2>4. \A x \in r + 1 .. t : \E i \in 1 .. Len(g) :
           g[i].vc = c /\ at2[i] < x /\ x <= at2[i] + kFrameDataSize
    BY <1>6, <1>8
  <2> QED
    BY <1>3, <2>2, <2>3, <2>4, FramesIntro
<1>10. ASSUME f.vc = c, Carries(f, b, t) PROVE Frames(c, g, at2, b, r, t + kFrameDataSize)
  <2>1. ASSUME NEW i \in 1 .. Len(g), g[i].vc = c
        PROVE  /\ r <= at2[i] /\ at2[i] + kFrameDataSize <= t + kFrameDataSize
               /\ Carries(g[i], b, at2[i])
    <3>1. CASE i = n + 1
      BY <1>0, <1>1, <1>3, <1>10, <3>1
    <3>2. CASE i \in 1 .. n
      BY <1>0, <1>4, <2>1, <3>2
    <3> QED
      BY <1>7, <3>1, <3>2
  <2>2. ASSUME NEW i \in 1 .. Len(g), NEW j \in 1 .. Len(g), i < j, g[i].vc = c, g[j].vc = c
        PROVE  at2[i] + kFrameDataSize <= at2[j]
    <3>1. i \in 1 .. n
      BY <1>1, <2>2
    <3>2. CASE j = n + 1
      BY <1>3, <1>4, <2>2, <3>1, <3>2
    <3>3. CASE j \in 1 .. n
      BY <1>5, <2>2, <3>1, <3>3
    <3> QED
      BY <1>7, <3>2, <3>3
  <2>3. ASSUME NEW x \in r + 1 .. t + kFrameDataSize
        PROVE  \E i \in 1 .. Len(g) : g[i].vc = c /\ at2[i] < x /\ x <= at2[i] + kFrameDataSize
    <3>1. CASE x <= t
      <4>1. x \in r + 1 .. t
        BY <3>1
      <4> QED
        BY <1>6, <1>8, <4>1
    <3>2. CASE x > t
      <4>1. n + 1 \in 1 .. Len(g) /\ g[n + 1].vc = c /\ at2[n + 1] = t
        BY <1>1, <1>3, <1>10
      <4> QED
        BY <3>2, <4>1
    <3> QED
      BY <3>1, <3>2
  <2> QED
    BY <1>3, <2>1, <2>2, <2>3, FramesIntro
<1> QED
  BY <1>9, <1>10 DEF g

(* Length and elements of the tail of a sequence. *)
LEMMA Tailed ==
  ASSUME NEW fr, NEW S, fr \in Seq(S), fr # <<>>
  PROVE  /\ Len(fr) \in Nat /\ Len(fr) >= 1 /\ Head(fr) = fr[1]
         /\ Tail(fr) \in Seq(S) /\ Len(Tail(fr)) = Len(fr) - 1
         /\ \A i \in 1 .. Len(fr) - 1 : Tail(fr)[i] = fr[i + 1]
OBVIOUS

(* The oldest frame leaves: one of another channel, or one that carries    *)
(* the bytes from r on.                                                    *)
LEMMA FramesTail ==
  ASSUME NEW c, NEW fr, NEW S, fr \in Seq(S), fr # <<>>, NEW at, NEW b,
         NEW r \in Nat, NEW t \in Nat, r <= t, Frames(c, fr, at, b, r, t)
  PROVE  /\ Head(fr).vc # c => \E at2 : Frames(c, Tail(fr), at2, b, r, t)
         /\ Head(fr).vc = c =>
              /\ Carries(Head(fr), b, r) /\ r + kFrameDataSize <= t
              /\ \E at2 : Frames(c, Tail(fr), at2, b, r + kFrameDataSize, t)
<1> DEFINE n == Len(fr)
           g == Tail(fr)
           at2 == [i \in 1 .. n - 1 |-> at[i + 1]]
<1>0. kFrameDataSize \in Nat /\ kFrameDataSize > 0
  BY FrameSizes
<1>1. /\ n \in Nat /\ n >= 1 /\ Head(fr) = fr[1] /\ Len(g) = n - 1
      /\ \A i \in 1 .. n - 1 : g[i] = fr[i + 1]
  BY Tailed
<1>2. at \in [1 .. n -> Nat]
  BY DEF Frames
<1>3. ASSUME NEW i \in 1 .. n, fr[i].vc = c
      PROVE  r <= at[i] /\ at[i] + kFrameDataSize <= t /\ Carries(fr[i], b, at[i])
  BY <1>3 DEF Frames
<1>4. ASSUME NEW i \in 1 .. n, NEW j \in 1 .. n, i < j, fr[i].vc = c, fr[j].vc = c
      PROVE  at[i] + kFrameDataSize <= at[j]
  BY <1>4 DEF Frames
<1>5. ASSUME NEW x \in r + 1 .. t
      PROVE  \E i \in 1 .. n : fr[i].vc = c /\ at[i] < x /\ x <= at[i] + kFrameDataSize
  BY DEF Frames
<1> HIDE DEF g, n
<1>6. /\ at2 \in [1 .. Len(g) -> Nat]
      /\ \A i \in 1 .. Len(g) : i + 1 \in 1 .. n /\ at2[i] = at[i + 1] /\ g[i] = fr[i + 1]
  <2>1. \A i \in 1 .. n - 1 : i + 1 \in 1 .. n
    BY <1>1
  <2> QED
    BY <1>1, <1>2, <2>1
<1> HIDE DEF at2
<1>7. ASSUME NEW i \in 1 .. Len(g), g[i].vc = c
      PROVE  r <= at2[i] /\ at2[i] + kFrameDataSize <= t /\ Carries(g[i], b, at2[i])
  BY <1>3, <1>6, <1>7
<1>8. ASSUME NEW i \in 1 .. Len(g), NEW j \in 1 .. Len(g), i < j, g[i].vc = c, g[j].vc = c
      PROVE  at2[i] + kFrameDataSize <= at2[j]
  <2>1. i + 1 < j + 1
    BY <1>8
  <2> QED
    BY <1>4, <1>6, <1>8, <2>1
<1>9. ASSUME NEW i \in 1 .. n, i # 1
      PROVE  i - 1 \in 1 .. Len(g) /\ at2[i - 1] = at[i] /\ g[i - 1] = fr[i]
  <2>1. i - 1 \in 1 .. Len(g) /\ (i - 1) + 1 = i
    BY <1>1, <1>9
  <2> QED
    BY <1>6, <2>1
<1>10. ASSUME fr[1].vc # c PROVE Frames(c, g, at2, b, r, t)
  <2>1. ASSUME NEW x \in r + 1 .. t
        PROVE  \E i \in 1 .. Len(g) : g[i].vc = c /\ at2[i] < x /\ x <= at2[i] + kFrameDataSize
    <3>1. PICK i \in 1 .. n : fr[i].vc = c /\ at[i] < x /\ x <= at[i] + kFrameDataSize
      BY <1>5
    <3> QED
      BY <1>9, <1>10, <3>1
  <2> QED
    BY <1>6, <1>7, <1>8, <2>1, FramesIntro
<1>11. ASSUME fr[1].vc = c
       PROVE  /\ Carries(fr[1], b, r) /\ r + kFrameDataSize <= t
              /\ Frames(c, g, at2, b, r + kFrameDataSize, t)
  <2>0. 1 \in 1 .. n
    BY <1>1
  <2>1. at[1] \in Nat /\ r <= at[1] /\ at[1] + kFrameDataSize <= t /\ Carries(fr[1], b, at[1])
    BY <1>2, <1>3, <1>11, <2>0
  <2>2. at[1] = r
    <3>1. r + 1 \in r + 1 .. t
      BY <1>0, <2>1
    <3>2. PICK i \in 1 .. n : fr[i].vc = c /\ at[i] < r + 1 /\ r + 1 <= at[i] + kFrameDataSize
      BY <1>5, <3>1
    <3>3. at[i] = r
      <4>1. at[i] \in Nat /\ r <= at[i]
        BY <1>2, <1>3, <3>2
      <4> QED
        BY <3>2, <4>1
    <3>4. i # 1 => at[1] + kFrameDataSize <= at[i]
      BY <1>1, <1>4, <1>11, <2>0, <3>2
    <3> QED
      BY <1>0, <2>1, <3>3, <3>4
  <2>3. \A i \in 1 .. Len(g) : g[i].vc = c => r + kFrameDataSize <= at2[i]
    <3> SUFFICES ASSUME NEW i \in 1 .. Len(g), g[i].vc = c PROVE r + kFrameDataSize <= at2[i]
      OBVIOUS
    <3>1. i + 1 \in 1 .. n /\ 1 < i + 1 /\ fr[i + 1].vc = c /\ at2[i] = at[i + 1]
      BY <1>6
    <3> QED
      BY <1>4, <1>11, <2>0, <2>2, <3>1
  <2>4. ASSUME NEW x \in r + kFrameDataSize + 1 .. t
        PROVE  \E i \in 1 .. Len(g) : g[i].vc = c /\ at2[i] < x /\ x <= at2[i] + kFrameDataSize
    <3>1. x \in r + 1 .. t /\ ~(x <= r + kFrameDataSize)
      BY <1>0
    <3>2. PICK i \in 1 .. n : fr[i].vc = c /\ at[i] < x /\ x <= at[i] + kFrameDataSize
      BY <1>5, <3>1
    <3>3. i # 1
      BY <2>2, <3>1, <3>2
    <3> QED
      BY <1>9, <3>2, <3>3
  <2>5. \A i \in 1 .. Len(g) : g[i].vc = c =>
          /\ r + kFrameDataSize <= at2[i] /\ at2[i] + kFrameDataSize <= t
          /\ Carries(g[i], b, at2[i])
    BY <1>7, <2>3
  <2>6. Frames(c, g, at2, b, r + kFrameDataSize, t)
    BY <1>6, <1>8, <2>4, <2>5, FramesIntro
  <2> QED
    BY <2>1, <2>2, <2>6
<1> QED
  BY <1>1, <1>10, <1>11 DEF g

-----------------------------------------------------------------------------
(* The multiplexer *)

(* The multiplexer of the channel has sent its stream up to t: next comes  *)
(* what is left of the packet in progress, then the packets of the queue,  *)
(* which start at the places q.                                            *)
Sending(ch, b, t, e, q) ==
  /\ ch.queue \in Seq(Packets) /\ Len(ch.partial) \in Nat
  /\ ch.partial = Slice(b, t, t + Len(ch.partial)) /\ Quiet(b, t, t + Len(ch.partial))
  /\ q \in [1 .. Len(ch.queue) + 1 -> Nat]
  /\ q[1] = t + Len(ch.partial) /\ q[Len(ch.queue) + 1] = e
  /\ \A k \in 1 .. Len(ch.queue) :
       q[k + 1] = q[k] + ch.queue[k].n /\ Holds(b, q[k], ch.queue[k])

(* Two adjacent slices make one. *)
LEMMA ConcatSlices ==
  ASSUME NEW b, NEW t \in Nat, NEW u \in Nat, NEW v \in Nat, t <= u, u <= v
  PROVE  Slice(b, t, u) \o Slice(b, u, v) = Slice(b, t, v)
<1> DEFINE S == {b[j] : j \in Nat}
           x == Slice(b, t, u)
           y == Slice(b, u, v)
           z == Slice(b, t, v)
<1>1. x \in Seq(S) /\ Len(x) = u - t /\ \A i \in 1 .. u - t : x[i] = b[t + i]
  <2>1. x \in [1 .. u - t -> S] /\ u - t \in Nat
    BY DEF Slice
  <2>2. x \in Seq(S)
    BY <2>1
  <2>3. Len(x) = u - t /\ \A i \in 1 .. u - t : x[i] = b[t + i]
    BY Slices
  <2> QED
    BY <2>2, <2>3
<1>2. y \in Seq(S) /\ Len(y) = v - u /\ \A i \in 1 .. v - u : y[i] = b[u + i]
  <2>1. y \in [1 .. v - u -> S] /\ v - u \in Nat
    BY DEF Slice
  <2>2. y \in Seq(S)
    BY <2>1
  <2>3. Len(y) = v - u /\ \A i \in 1 .. v - u : y[i] = b[u + i]
    BY Slices
  <2> QED
    BY <2>2, <2>3
<1>3. z = [i \in 1 .. v - t |-> b[t + i]]
  BY DEF Slice
<1> HIDE DEF x, y, z, S
<1>4. /\ x \o y \in Seq(S) /\ Len(x \o y) = (u - t) + (v - u)
      /\ \A i \in 1 .. (u - t) + (v - u) :
           (x \o y)[i] = IF i <= u - t THEN x[i] ELSE y[i - (u - t)]
  <2>1. /\ x \o y \in Seq(S) /\ Len(x \o y) = Len(x) + Len(y)
        /\ \A i \in 1 .. Len(x) + Len(y) :
             (x \o y)[i] = IF i <= Len(x) THEN x[i] ELSE y[i - Len(x)]
    BY <1>1, <1>2, ConcatProperties, Zenon
  <2> QED
    BY <1>1, <1>2, <2>1, Zenon
<1>5. ASSUME NEW i \in 1 .. v - t PROVE (x \o y)[i] = b[t + i]
  <2>1. CASE i <= u - t
    <3>1. (x \o y)[i] = x[i]
      BY <1>4, <2>1
    <3>2. i \in 1 .. u - t
      BY <2>1
    <3> QED
      BY <1>1, <3>1, <3>2
  <2>2. CASE ~(i <= u - t)
    <3>1. i - (u - t) \in 1 .. v - u /\ u + (i - (u - t)) = t + i
      BY <2>2
    <3>2. (x \o y)[i] = y[i - (u - t)]
      BY <1>4, <2>2
    <3> QED
      BY <1>2, <3>1, <3>2
  <2> QED
    BY <2>1, <2>2, Zenon
<1>6. (u - t) + (v - u) = v - t
  OBVIOUS
<1>7. x \o y = [i \in 1 .. v - t |-> (x \o y)[i]]
  <2> DEFINE g == x \o y
  <2>1. g \in Seq(S) /\ Len(g) = v - t
    BY <1>4, <1>6
  <2> HIDE DEF g
  <2>2. g = [i \in 1 .. Len(g) |-> g[i]]
    BY <2>1
  <2> QED
    BY <2>1, <2>2, Zenon DEF g
<1> QED
  BY <1>3, <1>5, <1>7 DEF x, y, z

(* The bytes of a packet are a slice of the stream that holds it. *)
LEMMA BytesSlice ==
  ASSUME NEW b, NEW u \in Nat, NEW p, p.n \in Nat, Holds(b, u, p)
  PROVE  Bytes(p) = Slice(b, u, u + p.n)
<1>1. (u + p.n) - u = p.n
  OBVIOUS
<1>2. \A x \in 1 .. p.n : b[u + x] = Byte(p.id, p.n, x)
  BY DEF Holds
<1>3. Bytes(p) = [x \in 1 .. p.n |-> Byte(p.id, p.n, x)]
  BY DEF Bytes
<1>4. Slice(b, u, u + p.n) = [x \in 1 .. p.n |-> b[u + x]]
  BY <1>1 DEF Slice
<1> QED
  BY <1>2, <1>3, <1>4

(* The places of the queued packets lie between the packet in progress and *)
(* the end of the stream.                                                  *)
LEMMA QueueGrows ==
  ASSUME NEW ch, NEW b, NEW t \in Nat, NEW e, NEW q, Sending(ch, b, t, e, q)
  PROVE  /\ e \in Nat /\ t + Len(ch.partial) <= e
         /\ \A k \in 1 .. Len(ch.queue) + 1 :
              q[k] \in Nat /\ t + Len(ch.partial) <= q[k] /\ q[k] <= e
<1> DEFINE n == Len(ch.queue)
<1>1. /\ n \in Nat /\ q \in [1 .. n + 1 -> Nat] /\ ch.queue \in Seq(Packets)
      /\ Len(ch.partial) \in Nat /\ q[1] = t + Len(ch.partial) /\ q[n + 1] = e
  BY DEF Sending
<1>2. ASSUME NEW k \in 1 .. n PROVE q[k] <= q[k + 1] /\ q[k] \in Nat /\ q[k + 1] \in Nat
  <2>1. ch.queue[k] \in Packets
    BY <1>1
  <2>2. ch.queue[k].n \in Nat
    BY <2>1, PacketSizes
  <2>3. k \in 1 .. n + 1 /\ k + 1 \in 1 .. n + 1
    BY <1>1
  <2>4. q[k + 1] = q[k] + ch.queue[k].n
    BY DEF Sending
  <2> HIDE DEF n
  <2> QED
    <3>1. PICK m \in Nat : m = ch.queue[k].n
      BY <2>2
    <3>2. q[k + 1] = q[k] + m
      BY <2>4, <3>1
    <3>3. q[k] \in Nat /\ q[k + 1] \in Nat
      BY <1>1, <2>3
    <3> QED
      BY <3>2, <3>3
<1> HIDE DEF n
<1>3. \A k \in 1 .. n + 1 : q[1] <= q[k]
  <2> DEFINE Bad == {k \in 1 .. n + 1 : ~(q[1] <= q[k])}
  <2> SUFFICES ASSUME Bad # {} PROVE FALSE
    OBVIOUS
  <2>1. PICK k \in Bad : \A y \in Bad : k <= y
    <3>1. Bad \subseteq Nat
      BY <1>1
    <3> HIDE DEF Bad
    <3> QED
      BY <3>1, Least
  <2>2. k \in 1 .. n + 1 /\ ~(q[1] <= q[k])
    OBVIOUS
  <2>3. k # 1
    BY <1>1, <2>2
  <2>4. k - 1 \in 1 .. n /\ k - 1 \in 1 .. n + 1 /\ (k - 1) + 1 = k /\ ~(k <= k - 1)
    BY <1>1, <2>2, <2>3
  <2>5. q[1] <= q[k - 1]
    <3> SUFFICES ASSUME ~(q[1] <= q[k - 1]) PROVE FALSE
      OBVIOUS
    <3>1. k - 1 \in Bad
      BY <2>4
    <3> HIDE DEF Bad
    <3> QED
      BY <2>1, <2>4, <3>1
  <2>6. q[k - 1] <= q[k] /\ q[k - 1] \in Nat /\ q[k] \in Nat
    BY <1>2, <2>4
  <2> QED
    BY <1>1, <2>2, <2>5, <2>6
<1>4. \A k \in 1 .. n + 1 : q[k] <= q[n + 1]
  <2> DEFINE Bad == {z \in 0 .. n : ~(q[(n + 1) - z] <= q[n + 1])}
  <2>1. Bad = {}
    <3> SUFFICES ASSUME Bad # {} PROVE FALSE
      OBVIOUS
    <3>1. PICK z \in Bad : \A y \in Bad : z <= y
      <4>1. Bad \subseteq Nat
        BY <1>1
      <4> HIDE DEF Bad
      <4> QED
        BY <4>1, Least
    <3>2. z \in 0 .. n /\ ~(q[(n + 1) - z] <= q[n + 1])
      OBVIOUS
    <3>3. z # 0
      <4> SUFFICES ASSUME z = 0 PROVE FALSE
        OBVIOUS
      <4>1. (n + 1) - z = n + 1 /\ n + 1 \in 1 .. n + 1
        BY <1>1
      <4> QED
        BY <1>1, <3>2, <4>1
    <3>4. z - 1 \in 0 .. n /\ (n + 1) - z \in 1 .. n /\ ((n + 1) - z) + 1 = (n + 1) - (z - 1)
          /\ ~(z <= z - 1)
      BY <1>1, <3>2, <3>3
    <3>5. q[(n + 1) - (z - 1)] <= q[n + 1]
      <4> SUFFICES ASSUME ~(q[(n + 1) - (z - 1)] <= q[n + 1]) PROVE FALSE
        OBVIOUS
      <4>1. z - 1 \in Bad
        BY <3>4
      <4> HIDE DEF Bad
      <4> QED
        BY <3>1, <3>4, <4>1
    <3>6. /\ q[(n + 1) - z] <= q[(n + 1) - (z - 1)]
          /\ q[(n + 1) - z] \in Nat /\ q[(n + 1) - (z - 1)] \in Nat
      BY <1>2, <3>4
    <3>7. q[n + 1] \in Nat
      BY <1>1
    <3> QED
      BY <3>2, <3>5, <3>6, <3>7
  <2> SUFFICES ASSUME NEW k \in 1 .. n + 1, ~(q[k] <= q[n + 1]) PROVE FALSE
    OBVIOUS
  <2>2. (n + 1) - k \in 0 .. n /\ (n + 1) - ((n + 1) - k) = k
    BY <1>1
  <2>3. (n + 1) - k \in Bad
    BY <2>2
  <2> HIDE DEF Bad
  <2> QED
    BY <2>1, <2>3
<1>5. 1 \in 1 .. n + 1 /\ n + 1 \in 1 .. n + 1
  BY <1>1
<1> QED
  BY <1>1, <1>3, <1>4, <1>5 DEF n

(* What the multiplexer takes from the queue is the stream from t on. *)
LEMMA StreamIs ==
  ASSUME NEW ch, NEW b, NEW t \in Nat, NEW e, NEW q, Sending(ch, b, t, e, q)
  PROVE  \A k \in 0 .. Len(ch.queue) : Stream(ch)[k] = Slice(b, t, q[k + 1])
<1> DEFINE n == Len(ch.queue)
           Bad == {k \in 0 .. n : Stream(ch)[k] # Slice(b, t, q[k + 1])}
<1>1. /\ n \in Nat /\ q \in [1 .. n + 1 -> Nat] /\ ch.queue \in Seq(Packets)
      /\ Len(ch.partial) \in Nat /\ q[1] = t + Len(ch.partial)
      /\ ch.partial = Slice(b, t, t + Len(ch.partial))
  BY DEF Sending
<1> HIDE DEF n
<1>2. Bad = {}
  <2> SUFFICES ASSUME Bad # {} PROVE FALSE
    OBVIOUS
  <2>1. PICK k \in Bad : \A y \in Bad : k <= y
    <3>1. Bad \subseteq Nat
      BY <1>1
    <3> HIDE DEF Bad
    <3> QED
      BY <3>1, Least
  <2>2. k \in 0 .. n /\ Stream(ch)[k] # Slice(b, t, q[k + 1])
    OBVIOUS
  <2>3. Stream(ch)[k] = IF k = 0 THEN ch.partial ELSE Stream(ch)[k - 1] \o Bytes(ch.queue[k])
    BY <1>1, <2>2, StreamDefined DEF n
  <2>4. CASE k = 0
    <3>1. q[k + 1] = t + Len(ch.partial)
      BY <1>1, <2>4
    <3> QED
      BY <1>1, <2>2, <2>3, <2>4, <3>1
  <2>5. CASE k # 0
    <3>1. k - 1 \in 0 .. n /\ (k - 1) + 1 = k /\ k \in 1 .. n /\ ~(k <= k - 1) /\ k \in 1 .. n + 1
          /\ k + 1 \in 1 .. n + 1
      BY <1>1, <2>2, <2>5
    <3>2. Stream(ch)[k - 1] = Slice(b, t, q[k])
      <4> SUFFICES ASSUME Stream(ch)[k - 1] # Slice(b, t, q[(k - 1) + 1]) PROVE FALSE
        BY <3>1
      <4>1. k - 1 \in Bad
        BY <3>1
      <4> HIDE DEF Bad
      <4> QED
        BY <2>1, <3>1, <4>1
    <3>3. ch.queue[k].n \in Nat
      <4>1. ch.queue[k] \in Packets
        BY <1>1, <3>1 DEF n
      <4> QED
        BY <4>1, PacketSizes
    <3>4. q[k + 1] = q[k] + ch.queue[k].n /\ Holds(b, q[k], ch.queue[k])
      BY <3>1 DEF Sending, n
    <3>5. q[k] \in Nat /\ q[k + 1] \in Nat /\ t <= q[k] /\ q[k] <= q[k + 1]
      <4>1. q[k] \in Nat /\ t + Len(ch.partial) <= q[k]
        BY <3>1, QueueGrows DEF n
      <4> QED
        <5>1. q[k + 1] \in Nat /\ t <= q[k]
          BY <1>1, <3>1, <4>1
        <5>2. q[k] <= q[k + 1]
          BY <3>3, <3>4, <4>1
        <5> QED
          BY <4>1, <5>1, <5>2
    <3>6. Bytes(ch.queue[k]) = Slice(b, q[k], q[k + 1])
      BY <3>3, <3>4, <3>5, BytesSlice
    <3>7. Slice(b, t, q[k]) \o Slice(b, q[k], q[k + 1]) = Slice(b, t, q[k + 1])
      BY <3>5, ConcatSlices
    <3> QED
      BY <2>2, <2>3, <2>5, <3>2, <3>6, <3>7
  <2> QED
    BY <2>4, <2>5
<1> QED
  BY <1>2 DEF n

(* Sending from its parts. *)
LEMMA SendingIntro ==
  ASSUME NEW ch, NEW b, NEW t, NEW e, NEW q, NEW n, NEW l,
         ch.queue \in Seq(Packets), n = Len(ch.queue), Len(ch.partial) = l, l \in Nat,
         ch.partial = Slice(b, t, t + l), Quiet(b, t, t + l),
         q \in [1 .. n + 1 -> Nat], q[1] = t + l, q[n + 1] = e,
         \A k \in 1 .. n : q[k + 1] = q[k] + ch.queue[k].n /\ Holds(b, q[k], ch.queue[k])
  PROVE  Sending(ch, b, t, e, q)
BY DEF Sending

(* Slices of two streams that agree. *)
LEMMA SameSlice ==
  ASSUME NEW b, NEW d, NEW t \in Nat, NEW u \in Nat, NEW e \in Nat, u <= e,
         \A j \in 0 .. e : d[j] = b[j]
  PROVE  /\ Slice(d, t, u) = Slice(b, t, u)
         /\ Quiet(b, t, u) => Quiet(d, t, u)
<1>1. \A x \in 1 .. u - t : t + x \in 0 .. e
  OBVIOUS
<1>2. \A x \in 1 .. u - t : d[t + x] = b[t + x]
  BY <1>1
<1>3. \A j \in t + 1 .. u : j \in 0 .. e
  OBVIOUS
<1> QED
  BY <1>2, <1>3 DEF Slice, Quiet

(* Packets in two streams that agree. *)
LEMMA SameHolds ==
  ASSUME NEW b, NEW d, NEW u \in Nat, NEW p, p.n \in Nat, NEW e \in Nat, u + p.n <= e,
         \A j \in 0 .. e : d[j] = b[j], Holds(b, u, p)
  PROVE  Holds(d, u, p)
<1>1. \A x \in 1 .. p.n : u + x \in 0 .. e
  OBVIOUS
<1> QED
  BY <1>1 DEF Holds

(* A packet that is queued is the next in the stream. *)
LEMMA SendingMore ==
  ASSUME NEW ch, NEW ch2, NEW b, NEW t \in Nat, NEW e, NEW q, Sending(ch, b, t, e, q),
         NEW p \in Packets,
         ch2.queue = Append(ch.queue, p), ch2.partial = ch.partial
  PROVE  \E q2 : Sending(ch2, More(b, e, p), t, e + p.n, q2)
<1> DEFINE n == Len(ch.queue)
           l == Len(ch.partial)
           d == More(b, e, p)
           q2 == [k \in 1 .. n + 2 |-> IF k = n + 2 THEN e + p.n ELSE q[k]]
<1>1. /\ n \in Nat /\ q \in [1 .. n + 1 -> Nat] /\ ch.queue \in Seq(Packets)
      /\ l \in Nat /\ q[1] = t + l /\ q[n + 1] = e
      /\ ch.partial = Slice(b, t, t + l) /\ Quiet(b, t, t + l)
  BY DEF Sending
<1>2. /\ e \in Nat /\ t + l <= e
      /\ \A k \in 1 .. n + 1 : q[k] \in Nat /\ q[k] <= e
  BY QueueGrows
<1>3. p.n \in Nat
  BY PacketSizes
<1>4. \A j \in 0 .. e : d[j] = b[j]
  <2>1. e \in Nat
    BY <1>2
  <2> QED
    BY <2>1 DEF More
<1>5. Holds(d, e, p)
  BY <1>2, <1>3, MoreBytes
<1>6. ASSUME NEW k \in 1 .. n
      PROVE  /\ q[k + 1] = q[k] + ch.queue[k].n /\ Holds(b, q[k], ch.queue[k])
             /\ ch.queue[k] \in Packets
  BY <1>1 DEF Sending
<1> HIDE DEF d, n, l
<1>7. /\ Len(ch2.queue) = n + 1 /\ ch2.queue \in Seq(Packets) /\ ch2.queue[n + 1] = p
      /\ \A k \in 1 .. n : ch2.queue[k] = ch.queue[k]
  BY <1>1 DEF n
<1>8. /\ q2 \in [1 .. (n + 1) + 1 -> Nat] /\ q2[(n + 1) + 1] = e + p.n
      /\ \A k \in 1 .. n + 1 : q2[k] = q[k]
  <2>1. /\ (n + 1) + 1 = n + 2 /\ e + p.n \in Nat
        /\ \A k \in 1 .. n + 1 : k \in 1 .. n + 2 /\ k # n + 2
    BY <1>1, <1>2, <1>3
  <2>2. \A k \in 1 .. n + 2 : k # n + 2 => k \in 1 .. n + 1
    BY <1>1
  <2> QED
    BY <1>1, <2>1, <2>2
<1> HIDE DEF q2
<1>9. ASSUME NEW k \in 1 .. n + 1
      PROVE  q2[k + 1] = q2[k] + ch2.queue[k].n /\ Holds(d, q2[k], ch2.queue[k])
  <2>1. CASE k = n + 1
    <3>1. q2[k] = e /\ q2[k + 1] = e + p.n /\ ch2.queue[k] = p
      BY <1>1, <1>7, <1>8, <2>1
    <3> QED
      BY <1>5, <3>1
  <2>2. CASE k # n + 1
    <3>1. k \in 1 .. n /\ k \in 1 .. n + 1 /\ k + 1 \in 1 .. n + 1
      BY <1>1, <2>2
    <3>2. /\ q2[k] = q[k] /\ q2[k + 1] = q[k + 1] /\ ch2.queue[k] = ch.queue[k]
          /\ q[k] \in Nat /\ q[k + 1] <= e
      BY <1>2, <1>7, <1>8, <3>1
    <3>3. ch.queue[k].n \in Nat /\ q[k] + ch.queue[k].n <= e
      BY <1>6, <3>1, <3>2, PacketSizes
    <3>4. Holds(d, q[k], ch.queue[k])
      BY <1>2, <1>4, <1>6, <3>1, <3>2, <3>3, SameHolds
    <3> QED
      BY <1>6, <3>1, <3>2, <3>4
  <2> QED
    BY <2>1, <2>2
<1>10. ch2.partial = Slice(d, t, t + l) /\ Quiet(d, t, t + l) /\ Len(ch2.partial) = l
  <2>1. t + l \in Nat
    BY <1>1
  <2>2. Slice(d, t, t + l) = Slice(b, t, t + l) /\ Quiet(d, t, t + l)
    <3>1. PICK u \in Nat : u = t + l
      BY <2>1
    <3>2. Slice(d, t, u) = Slice(b, t, u) /\ (Quiet(b, t, u) => Quiet(d, t, u))
      BY <1>2, <1>4, <3>1, SameSlice
    <3> QED
      BY <1>1, <3>1, <3>2
  <2> QED
    BY <1>1, <2>2 DEF l
<1>11. q2[1] = t + l
  <2>1. 1 \in 1 .. n + 1
    BY <1>1
  <2> QED
    BY <1>1, <1>8, <2>1
<1>12. Sending(ch2, d, t, e + p.n, q2)
  BY <1>1, <1>7, <1>8, <1>9, <1>10, <1>11, SendingIntro
<1> QED
  BY <1>12 DEF d

(* Taken is the first number of queued packets that fill a frame, or all   *)
(* of them.                                                                *)
LEMMA TakenIs ==
  ASSUME NEW ch, NEW b, NEW t \in Nat, NEW e, NEW q, Sending(ch, b, t, e, q)
  PROVE  /\ Taken(ch) \in 0 .. Len(ch.queue)
         /\ Taken(ch) = Len(ch.queue) \/ q[Taken(ch) + 1] - t >= kFrameDataSize
         /\ \A j \in 0 .. Taken(ch) - 1 : q[j + 1] - t < kFrameDataSize
         /\ Stream(ch)[Taken(ch)] = Slice(b, t, q[Taken(ch) + 1])
<1> DEFINE n == Len(ch.queue)
           Enough == {k \in 0 .. n : k = n \/ Len(Stream(ch)[k]) >= kFrameDataSize}
           OK(k) == /\ k = n \/ Len(Stream(ch)[k]) >= kFrameDataSize
                    /\ \A j \in 0 .. k - 1 : Len(Stream(ch)[j]) < kFrameDataSize
<1>1. n \in Nat /\ kFrameDataSize \in Nat
  BY FrameSizes DEF Sending
<1>2. ASSUME NEW k \in 0 .. n
      PROVE  Stream(ch)[k] = Slice(b, t, q[k + 1]) /\ Len(Stream(ch)[k]) = q[k + 1] - t
             /\ q[k + 1] - t \in Nat
  <2>1. Stream(ch)[k] = Slice(b, t, q[k + 1])
    BY StreamIs
  <2>2. k + 1 \in 1 .. n + 1
    BY <1>1
  <2>3. q[k + 1] \in Nat /\ t + Len(ch.partial) <= q[k + 1] /\ Len(ch.partial) \in Nat
    BY <2>2, QueueGrows DEF Sending
  <2>4. t <= q[k + 1]
    BY <2>3
  <2> QED
    <3>1. Len(Slice(b, t, q[k + 1])) = q[k + 1] - t
      BY <2>3, <2>4, Slices, Zenon
    <3>2. q[k + 1] - t \in Nat
      BY <2>3, <2>4
    <3> QED
      BY <2>1, <3>1, <3>2, Zenon
<1>3. PICK m \in Enough : \A x \in Enough : m <= x
  <2>1. n \in Enough
    BY <1>1
  <2>2. Enough \subseteq Nat
    BY <1>1
  <2> HIDE DEF Enough
  <2> QED
    BY <2>1, <2>2, Least
<1>4. m \in 0 .. n /\ OK(m)
  <2>1. m \in 0 .. n /\ (m = n \/ Len(Stream(ch)[m]) >= kFrameDataSize)
    OBVIOUS
  <2>2. ASSUME NEW j \in 0 .. m - 1 PROVE Len(Stream(ch)[j]) < kFrameDataSize
    <3>1. j \in 0 .. n /\ ~(m <= j)
      BY <1>1, <2>1
    <3>2. j \notin Enough
      <4> HIDE DEF Enough
      <4> QED
        BY <1>3, <3>1
    <3>3. ~(Len(Stream(ch)[j]) >= kFrameDataSize)
      BY <3>1, <3>2
    <3> QED
      BY <1>1, <1>2, <3>1, <3>3
  <2> QED
    BY <2>1, <2>2
<1>5. Taken(ch) = CHOOSE k \in 0 .. n : OK(k)
  BY DEF Taken
<1>6. Taken(ch) \in 0 .. n /\ OK(Taken(ch))
  <2> HIDE DEF OK
  <2> QED
    BY <1>4, <1>5
<1>7. \A j \in 0 .. Taken(ch) - 1 : j \in 0 .. n
  BY <1>1, <1>6
<1> QED
  BY <1>2, <1>6, <1>7

(* FirstHeaderPointer points to the first packet that starts in the frame. *)
LEMMA HeaderPointed ==
  ASSUME NEW f, NEW d, NEW t \in Nat, NEW l \in Nat,
         f.fhp = (IF l >= kFrameDataSize THEN kFhpNoPacketStart ELSE l),
         f.data = Slice(d, t, t + kFrameDataSize),
         Quiet(d, t, t + l), l < kFrameDataSize => d[t + l + 1].i = 1
  PROVE  Carries(f, d, t)
<1>0. kFrameDataSize \in Nat /\ kFrameDataSize < 2046
  BY FrameSizes
<1>1. CASE l >= kFrameDataSize
  <2>1. f.fhp = kFhpNoPacketStart
    BY <1>1
  <2>2. Quiet(d, t, t + kFrameDataSize)
    <3>1. \A j \in t + 1 .. t + kFrameDataSize : j \in t + 1 .. t + l
      BY <1>0, <1>1
    <3> QED
      BY <3>1 DEF Quiet
  <2> QED
    BY <2>1, <2>2 DEF Carries
<1>2. CASE l < kFrameDataSize
  <2>1. f.fhp = l
    BY <1>0, <1>2
  <2>2. f.fhp # kFhpNoPacketStart /\ l \in 0 .. kFrameDataSize - 1
    <3>1. l # 2047 /\ l \in 0 .. kFrameDataSize - 1
      BY <1>0, <1>2
    <3> QED
      BY <2>1, <3>1 DEF kFhpNoPacketStart
  <2> QED
    BY <1>2, <2>1, <2>2 DEF Carries
<1> QED
  BY <1>0, <1>1, <1>2

(* The queue without its first k packets. *)
LEMMA QueueLeft ==
  ASSUME NEW queue \in Seq(Packets), NEW k \in 0 .. Len(queue)
  PROVE  /\ SubSeq(queue, k + 1, Len(queue)) \in Seq(Packets)
         /\ Len(SubSeq(queue, k + 1, Len(queue))) = Len(queue) - k
         /\ \A i \in 1 .. Len(queue) - k :
              SubSeq(queue, k + 1, Len(queue))[i] = queue[i + k]
OBVIOUS

(* The frame f is made of the bytes s of the packet in progress and the    *)
(* first k packets; ch2 is what is left.                                   *)
MakesFrame(ch, k, s, f, ch2) ==
  /\ f.fhp = FirstHeaderPointer(ch) /\ f.data = SubSeq(s, 1, kFrameDataSize)
  /\ ch2.queue = SubSeq(ch.queue, k + 1, Len(ch.queue))
  /\ ch2.partial = SubSeq(s, kFrameDataSize + 1, Len(s))

(* A frame full of packets carries the stream from t on, and the           *)
(* multiplexer is a frame further.                                         *)
LEMMA FullFrame ==
  ASSUME NEW ch, NEW b, NEW t \in Nat, NEW e, NEW q, Sending(ch, b, t, e, q),
         NEW k \in Nat, k = Taken(ch), NEW s, s = Stream(ch)[k], NEW f, NEW ch2,
         MakesFrame(ch, k, s, f, ch2), Len(s) >= kFrameDataSize
  PROVE  Carries(f, b, t) /\ \E q2 : Sending(ch2, b, t + kFrameDataSize, e, q2)
<1> DEFINE n == Len(ch.queue)
           l == Len(ch.partial)
           v == t + kFrameDataSize
           u == q[k + 1]
           q2 == [i \in 1 .. (n - k) + 1 |-> q[i + k]]
<1>0. kFrameDataSize \in Nat /\ kFrameDataSize > 0
  BY FrameSizes
<1>1. /\ n \in Nat /\ l \in Nat /\ q[1] = t + l /\ q[n + 1] = e /\ ch.queue \in Seq(Packets)
      /\ Quiet(b, t, t + l)
  BY DEF Sending
<1>2. /\ k \in 0 .. n /\ s = Slice(b, t, u)
      /\ \A j \in 0 .. k - 1 : q[j + 1] - t < kFrameDataSize
  BY TakenIs
<1>3. \A i \in 1 .. n + 1 : q[i] \in Nat /\ t + l <= q[i] /\ q[i] <= e
  BY QueueGrows
<1>4. ASSUME NEW i \in 1 .. n
      PROVE  /\ q[i + 1] = q[i] + ch.queue[i].n /\ Holds(b, q[i], ch.queue[i])
             /\ ch.queue[i] \in Packets
  BY <1>1 DEF Sending
<1>5. u \in Nat /\ t <= u /\ k + 1 \in 1 .. n + 1
  <2>1. k + 1 \in 1 .. n + 1
    BY <1>1, <1>2
  <2>2. u \in Nat /\ t + l <= u
    BY <1>3, <2>1
  <2> QED
    BY <1>1, <2>1, <2>2
<1>a. n \in Nat /\ k <= n
  BY <1>1, <1>2
<1> HIDE DEF n, l, u
<1>6. Len(s) = u - t /\ v <= u
  <2>1. Len(Slice(b, t, u)) = u - t
    BY <1>5, Slices, Zenon
  <2> QED
    BY <1>0, <1>2, <1>5, <2>1
<1>7. f.data = Slice(b, t, v) /\ ch2.partial = Slice(b, v, u)
  <2>1. 0 \in 0 .. u - t /\ kFrameDataSize \in 0 .. u - t /\ u - t \in 0 .. u - t
        /\ 0 <= kFrameDataSize /\ kFrameDataSize <= u - t
    BY <1>0, <1>5, <1>6
  <2>2. SubSeq(Slice(b, t, u), 0 + 1, kFrameDataSize) = Slice(b, t + 0, v)
    BY <1>5, <2>1, SubSlice, Zenon
  <2>3. SubSeq(Slice(b, t, u), kFrameDataSize + 1, u - t) = Slice(b, v, t + (u - t))
    BY <1>5, <2>1, SubSlice, Zenon
  <2>4. t + 0 = t /\ 0 + 1 = 1 /\ t + (u - t) = u
    BY <1>5
  <2>5. f.data = SubSeq(Slice(b, t, u), 1, kFrameDataSize)
        /\ ch2.partial = SubSeq(Slice(b, t, u), kFrameDataSize + 1, u - t)
    BY <1>2, <1>6 DEF MakesFrame
  <2> QED
    BY <2>2, <2>3, <2>4, <2>5
<1>8. l < kFrameDataSize => k \in 1 .. n /\ b[t + l + 1].i = 1
  <2> SUFFICES ASSUME l < kFrameDataSize PROVE k \in 1 .. n /\ b[t + l + 1].i = 1
    OBVIOUS
  <2>1. k # 0
    <3> SUFFICES ASSUME k = 0 PROVE FALSE
      OBVIOUS
    <3>1. u = t + l
      BY <1>1 DEF u
    <3> QED
      BY <1>0, <1>1, <1>6, <3>1
  <2>2. k \in 1 .. n /\ 1 \in 1 .. n
    BY <1>1, <1>2, <2>1
  <2>3. Holds(b, t + l, ch.queue[1]) /\ ch.queue[1] \in Packets
    BY <1>1, <1>4, <2>2
  <2>4. 1 \in 1 .. ch.queue[1].n
    BY <2>3, PacketSizes
  <2>5. b[t + l + 1] = Byte(ch.queue[1].id, ch.queue[1].n, 1)
    BY <2>3, <2>4 DEF Holds
  <2> QED
    BY <2>2, <2>5 DEF Byte
<1>9. Carries(f, b, t)
  <2>1. f.fhp = IF l >= kFrameDataSize THEN kFhpNoPacketStart ELSE l
    BY DEF MakesFrame, FirstHeaderPointer, l
  <2> QED
    BY <1>1, <1>7, <1>8, <2>1, HeaderPointed
<1>10. Quiet(b, v, u)
  <2>1. CASE k = 0
    <3>1. u = t + l
      BY <1>1, <2>1 DEF u
    <3>2. \A j \in v + 1 .. u : j \in t + 1 .. t + l
      BY <1>0, <1>1, <3>1
    <3> QED
      BY <1>1, <3>2 DEF Quiet
  <2>2. CASE k # 0
    <3>1. k \in 1 .. n /\ k - 1 \in 0 .. k - 1 /\ (k - 1) + 1 = k /\ k \in 1 .. n + 1
      BY <1>1, <1>2, <2>2
    <3>2. q[k] \in Nat /\ q[k] < v
      <4>1. q[k] - t < kFrameDataSize /\ q[k] \in Nat
        BY <1>2, <1>3, <3>1
      <4> QED
        BY <1>0, <4>1
    <3>3. u = q[k] + ch.queue[k].n /\ Holds(b, q[k], ch.queue[k]) /\ ch.queue[k].n \in Nat
      BY <1>4, <3>1, PacketSizes DEF u
    <3> SUFFICES ASSUME NEW j \in v + 1 .. u PROVE b[j].i # 1
      BY DEF Quiet
    <3>4. j - q[k] \in 1 .. ch.queue[k].n /\ q[k] + (j - q[k]) = j /\ j - q[k] # 1
      <4>1. PICK x \in Nat, y \in Nat : x = q[k] /\ y = ch.queue[k].n
        BY <3>2, <3>3
      <4>2. v \in Nat /\ x < v /\ u = x + y
        BY <1>0, <3>2, <3>3, <4>1
      <4>3. j - x \in 1 .. y /\ x + (j - x) = j /\ j - x # 1
        BY <4>2
      <4> QED
        BY <4>1, <4>3
    <3>5. b[j] = Byte(ch.queue[k].id, ch.queue[k].n, j - q[k])
      BY <3>3, <3>4 DEF Holds
    <3> QED
      BY <3>4, <3>5 DEF Byte
  <2> QED
    BY <2>1, <2>2
<1>11. /\ ch2.queue \in Seq(Packets) /\ Len(ch2.queue) = n - k
       /\ \A i \in 1 .. n - k : ch2.queue[i] = ch.queue[i + k]
  BY <1>1, <1>2, QueueLeft DEF n, MakesFrame
<1>12. /\ q2 \in [1 .. (n - k) + 1 -> Nat]
       /\ \A i \in 1 .. (n - k) + 1 : q2[i] = q[i + k]
  <2>1. \A i \in 1 .. (n - k) + 1 : i + k \in 1 .. n + 1
    BY <1>a
  <2> QED
    BY <1>3, <2>1
<1> HIDE DEF q2
<1>13. v + (u - v) = u /\ u - v \in Nat /\ Len(ch2.partial) = u - v
  <2>1. v \in Nat /\ v <= u
    BY <1>0, <1>6
  <2>2. Len(Slice(b, v, u)) = u - v
    BY <1>5, <2>1, Slices, Zenon
  <2>3. v + (u - v) = u /\ u - v \in Nat
    BY <1>5, <2>1
  <2> QED
    BY <1>7, <2>2, <2>3
<1>14. q2[1] = v + (u - v) /\ q2[(n - k) + 1] = e
  <2>1. 1 \in 1 .. (n - k) + 1 /\ (n - k) + 1 \in 1 .. (n - k) + 1 /\ ((n - k) + 1) + k = n + 1
        /\ 1 + k = k + 1
    BY <1>1, <1>2
  <2>2. q2[1] = q[k + 1] /\ q2[(n - k) + 1] = q[n + 1]
    BY <1>12, <2>1
  <2> QED
    BY <1>1, <1>13, <2>2 DEF u
<1>15. ASSUME NEW i \in 1 .. n - k
       PROVE  q2[i + 1] = q2[i] + ch2.queue[i].n /\ Holds(b, q2[i], ch2.queue[i])
  <2>1. /\ i + k \in 1 .. n /\ i \in 1 .. (n - k) + 1 /\ i + 1 \in 1 .. (n - k) + 1
        /\ (i + 1) + k = (i + k) + 1
    BY <1>a
  <2>2. q2[i] = q[i + k] /\ q2[i + 1] = q[(i + k) + 1] /\ ch2.queue[i] = ch.queue[i + k]
    BY <1>11, <1>12, <2>1
  <2> QED
    BY <1>4, <2>1, <2>2
<1>16. Sending(ch2, b, v, e, q2)
  <2>1. ch2.partial = Slice(b, v, v + (u - v)) /\ Quiet(b, v, v + (u - v))
    BY <1>7, <1>10, <1>13
  <2> HIDE DEF v
  <2> QED
    BY <1>11, <1>12, <1>13, <1>14, <1>15, <2>1, SendingIntro
<1> QED
  BY <1>9, <1>16

(* The same of a frame filled up: the stream has a fill packet more. *)
FillsUp(f, ch2, b, t, e) ==
  \E p : /\ p.id = Idle /\ p.n \in Nat /\ p.n > kPrimaryHeaderSize
         /\ Carries(f, More(b, e, p), t)
         /\ \E q2 : Sending(ch2, More(b, e, p), t + kFrameDataSize, e + p.n, q2)

(* When the packets do not fill the frame, a fill packet at the end of the *)
(* stream does, its tail left for the next frame if it is too short for    *)
(* one.                                                                    *)
LEMMA FilledFrame ==
  ASSUME NEW ch, NEW b, NEW t \in Nat, NEW e, NEW q, Sending(ch, b, t, e, q),
         NEW k \in Nat, k = Taken(ch), NEW s0, s0 = Stream(ch)[k], NEW s, s = Filled(s0),
         NEW f, NEW ch2, MakesFrame(ch, k, s, f, ch2), Len(s0) < kFrameDataSize
  PROVE  FillsUp(f, ch2, b, t, e)
<1> DEFINE last == Len(ch.queue)
           l == Len(ch.partial)
           v == t + kFrameDataSize
           rest == kFrameDataSize - (e - t)
           n == IF rest > kPrimaryHeaderSize THEN rest ELSE kPrimaryHeaderSize + 1
           p == [id |-> Idle, n |-> n]
           d == More(b, e, p)
           q2 == [i \in 1 .. 0 + 1 |-> e + n]
<1>0. /\ kFrameDataSize \in Nat /\ kFrameDataSize > 0
      /\ kPrimaryHeaderSize \in Nat /\ kPrimaryHeaderSize > 0
  BY FrameSizes
<1>1. /\ last \in Nat /\ l \in Nat /\ q[1] = t + l /\ q[last + 1] = e
      /\ ch.queue \in Seq(Packets) /\ Quiet(b, t, t + l)
      /\ \A i \in 1 .. last : Holds(b, q[i], ch.queue[i])
  BY DEF Sending
<1>2. /\ k \in 0 .. last /\ s0 = Slice(b, t, q[k + 1])
      /\ k = last \/ q[k + 1] - t >= kFrameDataSize
  BY TakenIs
<1>3. e \in Nat /\ t + l <= e /\ \A i \in 1 .. last + 1 : q[i] \in Nat /\ t + l <= q[i]
  BY QueueGrows
<1>4. k = last /\ s0 = Slice(b, t, e) /\ Len(s0) = e - t /\ t <= e
  <2>1. k + 1 \in 1 .. last + 1
    BY <1>1, <1>2
  <2>2. PICK x \in Nat : x = q[k + 1] /\ t <= x
    <3>1. q[k + 1] \in Nat /\ t + l <= q[k + 1]
      BY <1>3, <2>1
    <3>2. t <= q[k + 1]
      BY <1>1, <3>1
    <3> QED
      BY <3>1, <3>2
  <2>3. Len(Slice(b, t, x)) = x - t
    <3>1. t <= x /\ x \in Nat
      BY <2>2
    <3> QED
      BY <3>1, Slices, Zenon
  <2>4. k = last
    <3>1. ~(x - t >= kFrameDataSize)
      BY <1>0, <1>2, <2>2, <2>3
    <3> QED
      BY <1>2, <2>2, <3>1
  <2>5. x = e
    BY <1>1, <2>2, <2>4
  <2> QED
    BY <1>2, <2>2, <2>3, <2>4, <2>5
<1> HIDE DEF last, l
<1>5. n \in Nat /\ n > kPrimaryHeaderSize /\ v <= e + n /\ e < v /\ n > 0 /\ v \in Nat
  <2>1. e - t < kFrameDataSize
    BY <1>4
  <2> QED
    BY <1>0, <1>3, <1>4, <2>1
<1>6. s = s0 \o Bytes(p)
  <2>1. ~(Len(s0) >= kFrameDataSize) /\ rest = kFrameDataSize - Len(s0)
    <3>1. PICK x \in Nat : x = Len(s0) /\ x = e - t
      BY <1>3, <1>4
    <3>2. ~(x >= kFrameDataSize)
      BY <1>0, <3>1
    <3> QED
      BY <3>1, <3>2
  <2> QED
    BY <2>1 DEF Filled
<1> HIDE DEF n
<1>7. /\ \A j \in 0 .. e : d[j] = b[j]
      /\ \A j \in Nat : j > e => d[j] = Byte(Idle, n, j - e)
  BY <1>3, <1>5 DEF More
<1>8. Holds(d, e, p)
  <2>1. \A x \in 1 .. n : e + x \in Nat /\ e + x > e /\ (e + x) - e = x
    BY <1>3, <1>5
  <2> QED
    BY <1>7, <2>1 DEF Holds
<1> HIDE DEF d
<1>9. s = Slice(d, t, e + n) /\ Len(s) = (e + n) - t
  <2>1. Bytes(p) = Slice(d, e, e + n)
    <3>1. p.n = n
      OBVIOUS
    <3> HIDE DEF p
    <3>2. Bytes(p) = Slice(d, e, e + p.n)
      BY <1>3, <1>5, <1>8, <3>1, BytesSlice
    <3> QED
      BY <3>1, <3>2
  <2>2. Slice(d, t, e) = Slice(b, t, e)
    <3>1. PICK x \in Nat : x = e
      BY <1>3
    <3>2. \A j \in 0 .. x : d[j] = b[j]
      BY <1>7, <3>1
    <3>3. Slice(d, t, x) = Slice(b, t, x)
      <4>1. \A i \in 1 .. x - t : t + i \in 0 .. x
        OBVIOUS
      <4>2. \A i \in 1 .. x - t : d[t + i] = b[t + i]
        BY <3>2, <4>1
      <4> QED
        BY <4>2 DEF Slice
    <3> QED
      BY <3>1, <3>3
  <2>3. e + n \in Nat /\ e <= e + n /\ t <= e + n
    BY <1>3, <1>4, <1>5
  <2>4. Slice(d, t, e) \o Slice(d, e, e + n) = Slice(d, t, e + n)
    <3>1. PICK x \in Nat : x = e + n
      BY <2>3
    <3>2. Slice(d, t, e) \o Slice(d, e, x) = Slice(d, t, x)
      <4>1. t <= e /\ e <= x /\ e \in Nat
        BY <1>3, <1>4, <2>3, <3>1
      <4> QED
        BY <4>1, ConcatSlices, Zenon
    <3> QED
      BY <3>1, <3>2
  <2>5. Len(Slice(d, t, e + n)) = (e + n) - t
    BY <2>3, Slices, Zenon
  <2> QED
    BY <1>4, <1>6, <2>1, <2>2, <2>4, <2>5
<1>10. PICK u \in Nat : u = e + n
  BY <1>3, <1>5
<1>11. f.data = Slice(d, t, v) /\ ch2.partial = Slice(d, v, u)
  <2>1. 0 \in 0 .. u - t /\ kFrameDataSize \in 0 .. u - t /\ u - t \in 0 .. u - t
        /\ 0 <= kFrameDataSize /\ kFrameDataSize <= u - t /\ t <= u
    BY <1>0, <1>5, <1>10
  <2>2. SubSeq(Slice(d, t, u), 0 + 1, kFrameDataSize) = Slice(d, t + 0, t + kFrameDataSize)
    BY <2>1, SubSlice, Zenon
  <2>3. SubSeq(Slice(d, t, u), kFrameDataSize + 1, u - t)
          = Slice(d, t + kFrameDataSize, t + (u - t))
    BY <2>1, SubSlice, Zenon
  <2>4. t + 0 = t /\ 0 + 1 = 1 /\ t + (u - t) = u
    OBVIOUS
  <2>5. f.data = SubSeq(Slice(d, t, u), 1, kFrameDataSize)
        /\ ch2.partial = SubSeq(Slice(d, t, u), kFrameDataSize + 1, u - t)
    BY <1>9, <1>10 DEF MakesFrame
  <2> QED
    BY <2>2, <2>3, <2>4, <2>5
<1>12. l < kFrameDataSize /\ d[t + l + 1].i = 1
  <2>1. l < kFrameDataSize
    BY <1>0, <1>1, <1>3, <1>4
  <2>2. CASE last = 0
    <3>1. t + l = e
      BY <1>1, <2>2
    <3>2. e + 1 \in Nat /\ e + 1 > e /\ (e + 1) - e = 1
      BY <1>3
    <3>3. d[e + 1] = Byte(Idle, n, 1)
      BY <1>7, <3>2
    <3> QED
      BY <2>1, <3>1, <3>3 DEF Byte
  <2>3. CASE last # 0
    <3>1. 1 \in 1 .. last /\ 2 \in 1 .. last + 1 /\ 1 + 1 = 2
      BY <1>1, <2>3
    <3>2. Holds(b, t + l, ch.queue[1]) /\ ch.queue[1] \in Packets
      BY <1>1, <3>1 DEF last
    <3>3. 1 \in 1 .. ch.queue[1].n /\ ch.queue[1].n \in Nat
      BY <3>2, PacketSizes
    <3>4. b[t + l + 1] = Byte(ch.queue[1].id, ch.queue[1].n, 1)
      BY <3>2, <3>3 DEF Holds
    <3>5. t + l + 1 \in 0 .. e
      <4>1. PICK m \in Nat : m = ch.queue[1].n
        BY <3>3
      <4>2. q[2] = q[1] + ch.queue[1].n /\ q[1] = t + l
        BY <1>1, <3>1 DEF Sending, last
      <4>3. q[2] <= e
        BY <3>1, QueueGrows DEF last
      <4>4. m > 0 /\ (t + l) + m <= e
        BY <3>3, <4>1, <4>2, <4>3
      <4> HIDE DEF last
      <4> QED
        BY <1>1, <1>3, <4>4
    <3> QED
      BY <1>7, <2>1, <3>4, <3>5 DEF Byte
  <2> QED
    BY <2>2, <2>3
<1>13. Quiet(d, t, t + l)
  <2>1. PICK x \in Nat : x = t + l
    BY <1>1
  <2> QED
    <3>1. t \in Nat /\ e \in Nat /\ x <= e /\ \A j \in 0 .. e : d[j] = b[j]
      BY <1>1, <1>3, <1>7, <2>1
    <3>2. Quiet(b, t, x) => Quiet(d, t, x)
      BY <2>1, <3>1, SameSlice, Zenon
    <3> QED
      BY <1>1, <2>1, <3>2
<1>14. Carries(f, d, t)
  <2>1. f.fhp = IF l >= kFrameDataSize THEN kFhpNoPacketStart ELSE l
    BY DEF MakesFrame, FirstHeaderPointer, l
  <2> QED
    BY <1>1, <1>11, <1>12, <1>13, <2>1, HeaderPointed
<1>15. Quiet(d, v, u)
  <2> SUFFICES ASSUME NEW j \in v + 1 .. u PROVE d[j].i # 1
    BY DEF Quiet
  <2>1. j \in Nat /\ j > e /\ j - e # 1
    BY <1>3, <1>5
  <2> QED
    <3>1. d[j] = Byte(Idle, n, j - e)
      BY <1>7, <2>1
    <3> QED
      BY <2>1, <3>1 DEF Byte
<1>16. ch2.queue \in Seq(Packets) /\ Len(ch2.queue) = 0
  <2>1. k \in 0 .. Len(ch.queue) /\ Len(ch.queue) - k = 0
    BY <1>1, <1>4 DEF last
  <2> QED
    BY <1>1, <2>1, QueueLeft DEF MakesFrame
<1>17. v + (u - v) = u /\ u - v \in Nat /\ Len(ch2.partial) = u - v
  <2>1. v <= u
    BY <1>5, <1>10
  <2>2. Len(Slice(d, v, u)) = u - v
    BY <1>5, <2>1, Slices, Zenon
  <2>3. v + (u - v) = u /\ u - v \in Nat
    BY <1>5, <2>1
  <2> QED
    BY <1>11, <2>2, <2>3
<1>18. Sending(ch2, d, v, u, q2)
  <2>1. ch2.partial = Slice(d, v, v + (u - v)) /\ Quiet(d, v, v + (u - v))
    BY <1>11, <1>15, <1>17
  <2>2. q2 \in [1 .. 0 + 1 -> Nat] /\ q2[1] = v + (u - v) /\ q2[0 + 1] = u
    BY <1>10, <1>17
  <2>3. \A i \in 1 .. 0 : q2[i + 1] = q2[i] + ch2.queue[i].n /\ Holds(d, q2[i], ch2.queue[i])
    OBVIOUS
  <2>4. 0 = Len(ch2.queue)
    BY <1>16
  <2> HIDE DEF v, q2
  <2> QED
    BY <1>16, <1>17, <2>1, <2>2, <2>3, <2>4, SendingIntro
<1>19. p.id = Idle /\ p.n = n
  OBVIOUS
<1> HIDE DEF q2, p
<1>20. /\ p.n \in Nat /\ p.n > kPrimaryHeaderSize /\ Carries(f, More(b, e, p), t)
       /\ Sending(ch2, More(b, e, p), t + kFrameDataSize, e + p.n, q2)
  BY <1>5, <1>10, <1>14, <1>18, <1>19 DEF d
<1> QED
  BY <1>19, <1>20 DEF FillsUp

-----------------------------------------------------------------------------
(* The demultiplexer *)

(* The demultiplexer knows where it is in the stream. *)
Following(rc, g) == rc.synced /\ g = 0

(* The demultiplexer has received the stream up to r.  If it follows, its  *)
(* buffer is what it keeps of it from o on; if not, it goes on from r.     *)
Receiving(rc, g, b, o, r, e) ==
  /\ rc.synced \in BOOLEAN /\ o \in 0 .. r
  /\ ~rc.synced => rc.buffer = <<>>
  /\ ~rc.have_count => ~rc.synced
  /\ Following(rc, g) => rc.buffer = Slice(b, o, r) /\ Left(b, e, o, r)
  /\ ~Following(rc, g) => o = r

(* What Push finds in frame f. *)
FoundIn(rc, f) ==
  LET ch == Resumed(rc, f)
  IN  IF ~ch.synced /\ f.fhp = kFhpNoPacketStart THEN ch ELSE Extract(Assembled(ch, f))

(* Where no packet starts none is wanted. *)
LEMMA PlacesQuiet ==
  ASSUME NEW w, NEW b, NEW o \in Nat, NEW e \in Nat, NEW pos, Places(w, b, o, e, pos),
         NEW a \in Nat, o <= a, Quiet(b, o, a)
  PROVE  Places(w, b, a, e, pos)
<1>1. ASSUME NEW k \in 1 .. Len(w)
      PROVE  a <= pos[k] /\ pos[k] < e /\ Wanted(b, pos[k]) /\ w[k] = PacketAt(b, pos[k])
  <2>1. /\ pos[k] \in Nat /\ o <= pos[k] /\ pos[k] < e /\ Wanted(b, pos[k])
        /\ w[k] = PacketAt(b, pos[k])
    BY DEF Places
  <2>2. b[pos[k] + 1].i = 1
    BY <2>1 DEF Wanted
  <2>3. ~(pos[k] < a)
    <3> SUFFICES ASSUME pos[k] < a PROVE FALSE
      OBVIOUS
    <3>1. pos[k] + 1 \in o + 1 .. a
      BY <2>1
    <3> QED
      BY <2>2, <3>1 DEF Quiet
  <2> QED
    BY <2>1, <2>3
<1>2. w \in Seq(Packets) /\ pos \in [1 .. Len(w) -> Nat]
  BY DEF Places
<1>3. \A k, l \in 1 .. Len(w) : k < l => pos[k] < pos[l]
  BY DEF Places
<1>4. \A j \in a .. e - 1 : Wanted(b, j) => \E k \in 1 .. Len(w) : pos[k] = j
  <2>1. \A j \in a .. e - 1 : j \in o .. e - 1
    OBVIOUS
  <2> QED
    BY <2>1 DEF Places
<1> QED
  BY <1>1, <1>2, <1>3, <1>4, PlacesIntro

(* The bytes of a packet are read back as the packet. *)
LEMMA PacketBytes ==
  ASSUME NEW p \in Packets
  PROVE  Packet(Bytes(p)) = p
<1>1. p.n \in Nat /\ p.n > 0 /\ p = [id |-> p.id, n |-> p.n]
  BY PacketSizes
<1>2. Bytes(p)[1] = Byte(p.id, p.n, 1)
  BY <1>1 DEF Bytes
<1>3. [id |-> Bytes(p)[1].id, n |-> Bytes(p)[1].n] = p
  BY <1>1, <1>2 DEF Byte
<1> QED
  BY <1>3 DEF Packet

(* Where the packet in progress ends is where the pointer of the next      *)
(* frame says that another starts.                                         *)
LEMMA PointerAgrees ==
  ASSUME NEW b, NEW o \in Nat, NEW r \in Nat, NEW e \in Nat, o <= r, Blocks(b, o, e),
         Left(b, e, o, r), NEW f, Carries(f, b, r), f.fhp # kFhpNoPacketStart,
         r + kFrameDataSize <= e, o < r
  PROVE  b[o + 1].i = 1 /\ b[o + 1].n = (r - o) + f.fhp
<1>0. kFrameDataSize \in Nat
  BY FrameSizes
<1>1. PICK h \in 0 .. kFrameDataSize - 1 : h = f.fhp /\ Quiet(b, r, r + h) /\ b[r + h + 1].i = 1
  BY DEF Carries
<1>2. b[o + 1].i = 1 /\ o \in o .. e - 1
  <2>1. o # e /\ o \in o .. e - 1
    BY <1>0
  <2> QED
    BY <2>1 DEF Left, Edge
<1>3. PICK n \in Nat : /\ n = b[o + 1].n /\ n > kPrimaryHeaderSize /\ o + n <= e
                       /\ Edge(b, e, o + n) /\ n > r - o
  BY <1>2 DEF Blocks, Left
<1>4. Quiet(b, o + 1, o + n)
  BY <1>2, <1>3, QuietPacket
<1>5. ~(r + h < o + n)
  <2> SUFFICES ASSUME r + h < o + n PROVE FALSE
    OBVIOUS
  <2>1. r + h + 1 \in o + 1 + 1 .. o + n
    BY <1>1
  <2> QED
    BY <1>1, <1>4, <2>1 DEF Quiet
<1>6. ~(r + h > o + n)
  <2> SUFFICES ASSUME r + h > o + n PROVE FALSE
    OBVIOUS
  <2>1. o + n + 1 \in r + 1 .. r + h /\ o + n < e
    BY <1>0, <1>1, <1>3
  <2>2. b[o + n + 1].i = 1
    BY <1>3, <2>1 DEF Edge
  <2> QED
    BY <1>1, <2>1, <2>2 DEF Quiet
<1>7. n = (r - o) + h
  BY <1>5, <1>6
<1> QED
  BY <1>1, <1>2, <1>3, <1>7

(* A frame and what was left before it hold no whole packet that is too    *)
(* large.                                                                  *)
LEMMA SmallSegment ==
  ASSUME NEW b, NEW o \in Nat, NEW r \in Nat, NEW e \in Nat, o <= r, Blocks(b, o, e),
         Left(b, e, o, r), r + kFrameDataSize <= e
  PROVE  NoneTooLarge(b, o, r + kFrameDataSize)
<1>0. /\ kFrameDataSize \in Nat /\ kPrimaryHeaderSize \in Nat /\ kMaxPacket \in Nat
      /\ kMaxPacket >= kFrameDataSize + kPrimaryHeaderSize
  BY FrameSizes
<1> SUFFICES ASSUME NEW j \in o .. r + kFrameDataSize - 1, b[j + 1].i = 1, b[j + 1].n > kMaxPacket
             PROVE  j + b[j + 1].n > r + kFrameDataSize
  BY <1>0 DEF NoneTooLarge
<1>1. j \in o .. e - 1 /\ j \in Nat
  BY <1>0
<1>2. PICK n \in Nat : n = b[j + 1].n /\ n > kMaxPacket
  BY <1>1 DEF Blocks
<1>3. CASE j >= r
  BY <1>0, <1>1, <1>2, <1>3
<1>4. CASE j < r
  <2>1. j = o
    <3> SUFFICES ASSUME j > o PROVE FALSE
      BY <1>1
    <3>1. o < r /\ o \in o .. e - 1 /\ o # e
      BY <1>1, <1>4
    <3>2. b[o + 1].i = 1
      BY <3>1 DEF Left, Edge
    <3>3. PICK x \in Nat : x = b[o + 1].n /\ x > r - o
      BY <3>1, <3>2 DEF Left, Blocks
    <3>4. Quiet(b, o + 1, o + x)
      BY <3>1, <3>2, <3>3, QuietPacket
    <3>5. j + 1 \in o + 1 + 1 .. o + x
      BY <1>1, <1>4, <3>3
    <3> QED
      BY <3>4, <3>5 DEF Quiet
  <2>2. ~(r - o >= kPrimaryHeaderSize)
    <3>1. r - o >= kPrimaryHeaderSize => n <= kMaxPacket
      BY <1>2, <1>4, <2>1 DEF Left
    <3> QED
      BY <1>0, <1>2, <3>1
  <2>3. j + n > r + kFrameDataSize
    BY <1>0, <1>2, <2>1, <2>2
  <2> QED
    BY <1>2, <2>3
<1> QED
  BY <1>1, <1>3, <1>4

(* The demultiplexer keeps what Push left of the buffer. *)
Keeps(rc, found) ==
  rc.buffer = found.buffer /\ rc.synced = found.synced /\ rc.have_count = TRUE

(* It follows from where the search ended: at what is left or, after a     *)
(* packet that is too large, behind the frame.                             *)
LEMMA KeepsSynced ==
  ASSUME NEW b, NEW e, NEW v \in Nat, NEW s \in 0 .. v, NEW found, NEW rc, Keeps(rc, found)
  PROVE  /\ found.synced = TRUE /\ Left(b, e, s, v) /\ found.buffer = Slice(b, s, v) =>
              Receiving(rc, 0, b, s, v, e)
         /\ found.synced = FALSE /\ found.buffer = <<>> => Receiving(rc, 0, b, v, v, e)
<1>1. rc.buffer = found.buffer /\ rc.synced = found.synced /\ rc.have_count = TRUE
  BY DEF Keeps
<1>2. ASSUME found.synced = TRUE, Left(b, e, s, v), found.buffer = Slice(b, s, v)
      PROVE  Receiving(rc, 0, b, s, v, e)
  <2>1. rc.synced = TRUE /\ rc.buffer = Slice(b, s, v) /\ Following(rc, 0)
    BY <1>1, <1>2 DEF Following
  <2> QED
    BY <1>1, <1>2, <2>1 DEF Receiving
<1>3. ASSUME found.synced = FALSE, found.buffer = <<>>
      PROVE  Receiving(rc, 0, b, v, v, e)
  <2>1. rc.synced = FALSE /\ rc.buffer = <<>> /\ ~Following(rc, 0)
    BY <1>1, <1>3 DEF Following
  <2>2. v \in 0 .. v
    OBVIOUS
  <2> QED
    BY <1>1, <2>1, <2>2 DEF Receiving
<1> QED
  BY <1>2, <1>3

(* The search up to v hands over the next packets of w, and the            *)
(* demultiplexer goes on behind them.                                      *)
HandsOver(found, rc, w, pos, b, o, v, e) ==
  \E n \in 0 .. Len(w), z \in o .. v :
    /\ Len(found.packets) = n /\ \A i \in 1 .. n : found.packets[i] = Bytes(w[i])
    /\ Before(w, pos, z, n) /\ Receiving(rc, 0, b, z, v, e)

(* A search from an edge o of the stream on to v does. *)
LEMMA Searched ==
  ASSUME NEW b, NEW o \in Nat, NEW v \in Nat, NEW e \in Nat, o <= v, v <= e,
         Blocks(b, o, e), NEW w, NEW pos, Places(w, b, o, e, pos), NoneTooLarge(b, o, v),
         Edge(b, e, o), NEW found, found = Extract(Slice(b, o, v)),
         NEW rc, Keeps(rc, found)
  PROVE  HandsOver(found, rc, w, pos, b, o, v, e)
<1>1. Finds(found, b, w, pos, o, e, v, 0)
  BY ExtractFinds
<1>2. PICK n \in 0 .. Len(w) :
        /\ found = [synced |-> found.synced, packets |-> [i \in 1 .. n - 0 |-> Bytes(w[0 + i])],
                    buffer |-> found.buffer]
        /\ \/ /\ found.synced = TRUE
              /\ \E s \in o .. v : /\ Left(b, e, s, v) /\ Before(w, pos, s, n)
                                   /\ found.buffer = Slice(b, s, v)
           \/ /\ found.synced = FALSE /\ found.buffer = <<>>
              /\ Before(w, pos, v, n)
  BY <1>1 DEF Finds
<1>3. Len(found.packets) = n /\ \A i \in 1 .. n : found.packets[i] = Bytes(w[i])
  <2>0. n \in Nat
    BY DEF Places
  <2>1. found.packets = [i \in 1 .. n - 0 |-> Bytes(w[0 + i])]
    <3> DEFINE s == [i \in 1 .. n - 0 |-> Bytes(w[0 + i])]
    <3>1. found = [synced |-> found.synced, packets |-> s, buffer |-> found.buffer]
      BY <1>2
    <3> HIDE DEF s
    <3>2. found.packets = s
      BY <3>1
    <3> QED
      BY <3>2 DEF s
  <2>2. n - 0 = n /\ \A i \in 1 .. n : 0 + i = i
    BY <2>0
  <2>3. found.packets = [i \in 1 .. n |-> Bytes(w[i])]
    BY <2>1, <2>2
  <2> QED
    BY <2>0, <2>3
<1>4. CASE found.synced = TRUE
  <2>1. PICK s \in o .. v : /\ Left(b, e, s, v) /\ Before(w, pos, s, n)
                            /\ found.buffer = Slice(b, s, v)
    BY <1>2, <1>4
  <2>2. Receiving(rc, 0, b, s, v, e)
    <3>1. s \in 0 .. v
      OBVIOUS
    <3> QED
      BY <1>4, <2>1, <3>1, KeepsSynced
  <2> QED
    BY <1>3, <2>1, <2>2 DEF HandsOver
<1>5. CASE found.synced = FALSE
  <2>1. found.buffer = <<>> /\ Before(w, pos, v, n)
    BY <1>2, <1>5
  <2>2. Receiving(rc, 0, b, v, v, e)
    <3>1. v \in 0 .. v
      OBVIOUS
    <3> QED
      BY <1>5, <2>1, <3>1, KeepsSynced
  <2>3. v \in o .. v
    OBVIOUS
  <2> QED
    BY <1>3, <2>1, <2>2, <2>3 DEF HandsOver
<1> QED
  BY <1>2, <1>4, <1>5

(* The counter of the frame tells whether frames of the channel were lost  *)
(* before it.                                                              *)
Tells(f, ch, g) == Gap(ch, f) <=> (ch.have_count /\ g # 0)

(* The frame that starts at r of the stream ends at v. *)
FrameEnds(r, v) == v = r + kFrameDataSize

(* Push of the next frame that arrives hands over the next packets of w,   *)
(* whether the demultiplexer follows, picks up at the first header of the  *)
(* frame, or finds none.                                                   *)
LEMMA PushFinds ==
  ASSUME NEW b, NEW o \in Nat, NEW r \in Nat, NEW e \in Nat, o <= r,
         NEW v \in Nat, FrameEnds(r, v), v <= e,
         Blocks(b, o, e), NEW w, NEW pos, Places(w, b, o, e, pos),
         NEW f, Carries(f, b, r), NEW ch, NEW g \in Nat, Receiving(ch, g, b, o, r, e),
         Tells(f, ch, g), NEW found, found = FoundIn(ch, f), NEW rc, Keeps(rc, found)
  PROVE  HandsOver(found, rc, w, pos, b, o, v, e)
<1>0. /\ kFrameDataSize \in Nat /\ kFrameDataSize > 0 /\ kFrameDataSize < 2046
      /\ kPrimaryHeaderSize \in Nat /\ kPrimaryHeaderSize > 0
      /\ kMaxPacket \in Nat /\ kMaxPacket >= kFrameDataSize + kPrimaryHeaderSize
  BY FrameSizes
<1>1. v = r + kFrameDataSize /\ v <= e
  BY DEF FrameEnds
<1>2. Resumed(ch, f).synced = Following(ch, g) /\ Resumed(ch, f).packets = <<>>
  BY DEF Resumed, Following, Receiving, Tells
<1>3. f.data = Slice(b, r, v)
  BY <1>1 DEF Carries
<1>4. CASE Following(ch, g)
  <2>1. /\ ch.buffer = Slice(b, o, r) /\ Left(b, e, o, r) /\ ~Gap(ch, f)
        /\ Resumed(ch, f).buffer = Slice(b, o, r)
    BY <1>4 DEF Receiving, Following, Resumed, Tells
  <2>2. Len(Slice(b, o, r)) = r - o /\ \A k \in 1 .. r - o : Slice(b, o, r)[k] = b[o + k]
    BY Slices, Zenon
  <2>3. Assembled(Resumed(ch, f), f) = Slice(b, o, v)
    <3>1. ~(/\ f.fhp # kFhpNoPacketStart
            /\ Len(Slice(b, o, r)) >= kPrimaryHeaderSize
            /\ PacketSize(Slice(b, o, r)[1]) # Len(Slice(b, o, r)) + f.fhp)
      <4> SUFFICES ASSUME f.fhp # kFhpNoPacketStart, r - o >= kPrimaryHeaderSize
                   PROVE  PacketSize(Slice(b, o, r)[1]) = (r - o) + f.fhp
        BY <2>2
      <4>1. o < r /\ 1 \in 1 .. r - o
        BY <1>0
      <4>2. b[o + 1].i = 1 /\ b[o + 1].n = (r - o) + f.fhp
        BY <1>1, <2>1, <4>1, PointerAgrees
      <4>3. Slice(b, o, r)[1] = b[o + 1]
        BY <2>2, <4>1
      <4> QED
        BY <4>2, <4>3 DEF PacketSize
    <3>2. Slice(b, o, r) \o Slice(b, r, v) = Slice(b, o, v)
      <4>1. r <= v
        BY <1>0, <1>1
      <4> QED
        BY <4>1, ConcatSlices, Zenon
    <3> QED
      BY <1>2, <1>3, <1>4, <2>1, <3>1, <3>2 DEF Assembled
  <2>4. found = Extract(Slice(b, o, v))
    BY <1>2, <1>4, <2>3 DEF FoundIn
  <2>5. NoneTooLarge(b, o, v) /\ Edge(b, e, o) /\ o <= v /\ v <= e
    <3>1. NoneTooLarge(b, o, v)
      BY <1>1, <2>1, SmallSegment
    <3> QED
      BY <1>0, <1>1, <2>1, <3>1 DEF Left
  <2> QED
    BY <2>4, <2>5, Searched
<1>5. CASE ~Following(ch, g) /\ f.fhp = kFhpNoPacketStart
  <2>1. o = r /\ Quiet(b, r, v)
    BY <1>1, <1>5 DEF Receiving, Carries
  <2>2. found = Resumed(ch, f)
    BY <1>2, <1>5 DEF FoundIn
  <2>3. found.buffer = <<>> /\ found.packets = <<>> /\ found.synced = FALSE
    <3>1. found.packets = <<>> /\ found.synced = FALSE
      BY <1>2, <1>5, <2>2
    <3>2. found.buffer = <<>>
      <4>1. CASE Gap(ch, f)
        BY <2>2, <4>1 DEF Resumed
      <4>2. CASE ~Gap(ch, f)
        <5>1. ~ch.synced
          BY <1>5, <4>2 DEF Receiving, Following, Tells
        <5>2. ch.buffer = <<>>
          BY <5>1 DEF Receiving
        <5> QED
          BY <2>2, <4>2, <5>2 DEF Resumed
      <4> QED
        BY <4>1, <4>2
    <3> QED
      BY <3>1, <3>2
  <2>4. Receiving(rc, 0, b, v, v, e)
    <3>1. v \in 0 .. v
      OBVIOUS
    <3> QED
      BY <2>3, <3>1, KeepsSynced
  <2>5. Before(w, pos, v, 0)
    <3>1. r <= v
      BY <1>0, <1>1
    <3>2. Places(w, b, v, e, pos)
      BY <2>1, <3>1, PlacesQuiet
    <3>3. Len(w) \in Nat /\ \A k \in 1 .. Len(w) : pos[k] \in Nat /\ v <= pos[k]
      BY <3>2 DEF Places
    <3> QED
      BY <3>3 DEF Before
  <2>6. 0 \in 0 .. Len(w) /\ v \in o .. v
    BY <1>0, <1>1, <2>1, <2>5 DEF Before
  <2>7. Len(found.packets) = 0 /\ \A i \in 1 .. 0 : found.packets[i] = Bytes(w[i])
    BY <2>3
  <2> QED
    BY <2>4, <2>5, <2>6, <2>7 DEF HandsOver
<1>6. CASE ~Following(ch, g) /\ f.fhp # kFhpNoPacketStart
  <2>1. o = r
    BY <1>6 DEF Receiving
  <2>2. PICK h \in Nat : /\ h < kFrameDataSize /\ h = f.fhp
                          /\ Quiet(b, r, r + h) /\ b[r + h + 1].i = 1
    BY <1>0, <1>6 DEF Carries
  <2>3. PICK a \in Nat : a = r + h /\ r <= a /\ a < v
    BY <1>0, <1>1, <2>2
  <2>4. found = Extract(Slice(b, a, v))
    <3>1. Assembled(Resumed(ch, f), f) = SubSeq(f.data, h + 1, kFrameDataSize)
      BY <1>2, <1>6, <2>2 DEF Assembled
    <3>2. h \in 0 .. v - r /\ v - r \in 0 .. v - r /\ h <= v - r /\ v - r = kFrameDataSize /\ r <= v
          /\ r + (v - r) = v
      BY <1>0, <1>1, <2>2
    <3>3. SubSeq(Slice(b, r, v), h + 1, v - r) = Slice(b, r + h, r + (v - r))
      <4>1. PICK k \in 0 .. v - r, l \in 0 .. v - r : k = h /\ l = v - r /\ k <= l
        BY <3>2
      <4>2. SubSeq(Slice(b, r, v), k + 1, l) = Slice(b, r + k, r + l)
        <5>1. r <= v /\ k <= l /\ k \in 0 .. v - r /\ l \in 0 .. v - r
          BY <3>2, <4>1
        <5> QED
          BY <5>1, SubSlice, Zenon
      <4> QED
        BY <4>1, <4>2
    <3>4. Assembled(Resumed(ch, f), f) = Slice(b, a, v)
      BY <1>3, <2>3, <3>1, <3>2, <3>3
    <3> QED
      BY <1>2, <1>6, <3>4 DEF FoundIn
  <2>5. Places(w, b, a, e, pos)
    BY <2>1, <2>2, <2>3, PlacesQuiet
  <2>6. Blocks(b, a, e)
    BY <2>1, <2>3, Onward
  <2>7. a <= v /\ v <= e /\ Edge(b, e, a)
    BY <1>1, <2>2, <2>3 DEF Edge
  <2>8. NoneTooLarge(b, a, v)
    <3> SUFFICES ASSUME NEW j \in a .. v - 1, b[j + 1].i = 1, b[j + 1].n > kMaxPacket
                 PROVE  j + b[j + 1].n > v
      BY DEF NoneTooLarge
    <3>1. j \in a .. e - 1
      BY <1>1, <2>3
    <3>2. PICK n \in Nat : n = b[j + 1].n /\ n > kMaxPacket
      BY <2>6, <3>1 DEF Blocks
    <3>3. j \in Nat /\ j >= r /\ j + n > v
      BY <1>0, <1>1, <2>3, <3>2
    <3> QED
      BY <3>2, <3>3
  <2>9. HandsOver(found, rc, w, pos, b, a, v, e)
    BY <2>4, <2>5, <2>6, <2>7, <2>8, Searched
  <2>10. \A z \in a .. v : z \in o .. v
    BY <2>1, <2>3
  <2> QED
    BY <2>9, <2>10 DEF HandsOver
<1> QED
  BY <1>4, <1>5, <1>6

-----------------------------------------------------------------------------
(* A channel from end to end *)

(* The stream b of channel c: received up to r, on its way from r to t,    *)
(* still to be sent from t to e; the packets w wanted from o on are those  *)
(* that are to be handed over.                                             *)
Flow(c, ch, fr, rc, g, w, b, at, q, pos, o, r, t, e) ==
  /\ o <= r /\ r <= t /\ t <= e
  /\ Sending(ch, b, t, e, q) /\ Frames(c, fr, at, b, r, t)
  /\ Receiving(rc, g, b, o, r, e)
  /\ Blocks(b, o, e) /\ Unlike(b, o, e) /\ Places(w, b, o, e, pos)

(* There is such a stream. *)
Flows(c, ch, fr, rc, g, w) ==
  \E b, at, q, pos : \E o, r, t, e \in Nat :
    Flow(c, ch, fr, rc, g, w, b, at, q, pos, o, r, t, e)

(* Flows from its parts. *)
LEMMA FlowsIntro ==
  ASSUME NEW c, NEW ch, NEW fr, NEW rc, NEW g, NEW w, NEW b, NEW at, NEW q, NEW pos,
         NEW o \in Nat, NEW r \in Nat, NEW t \in Nat, NEW e \in Nat,
         o <= r, r <= t, t <= e,
         Sending(ch, b, t, e, q), Frames(c, fr, at, b, r, t),
         Receiving(rc, g, b, o, r, e),
         Blocks(b, o, e), Unlike(b, o, e), Places(w, b, o, e, pos)
  PROVE  Flows(c, ch, fr, rc, g, w)
<1>1. Flow(c, ch, fr, rc, g, w, b, at, q, pos, o, r, t, e)
  BY DEF Flow
<1> QED
  BY <1>1 DEF Flows

(* At first the stream is empty. *)
LEMMA FlowsInit ==
  ASSUME NEW c, NEW ch, ch.queue = <<>>, ch.partial = <<>>,
         NEW rc, rc.buffer = <<>>, rc.synced = FALSE, NEW g
  PROVE  Flows(c, ch, <<>>, rc, g, <<>>)
<1> DEFINE b == [j \in Nat |-> Byte(Idle, 0, 0)]
           q == [k \in 1 .. 1 |-> 0]
           none == [k \in 1 .. 0 |-> 0]
<1>0. /\ Len(<<>>) = 0 /\ <<>> \in Seq(Packets) /\ 0 \in Nat /\ 0 <= 0 /\ 0 + 0 = 0
      /\ 1 .. 0 = {}
  OBVIOUS
<1>1. Sending(ch, b, 0, 0, q)
  <2>1. Slice(b, 0, 0) = <<>> /\ Quiet(b, 0, 0)
    BY DEF Slice, Quiet
  <2>2. q \in [1 .. 0 + 1 -> Nat] /\ q[1] = 0 /\ q[0 + 1] = 0
    OBVIOUS
  <2> HIDE DEF b, q
  <2> QED
    BY <1>0, <2>1, <2>2 DEF Sending
<1>2. Frames(c, <<>>, none, b, 0, 0)
  BY DEF Frames
<1>3. Receiving(rc, g, b, 0, 0, 0)
  <2>1. ~Following(rc, g)
    BY DEF Following
  <2>2. 0 \in 0 .. 0
    OBVIOUS
  <2>3. rc.synced \in BOOLEAN
    OBVIOUS
  <2> HIDE DEF b
  <2> QED
    BY <1>0, <2>1, <2>2, <2>3 DEF Receiving
<1>4. Blocks(b, 0, 0) /\ Unlike(b, 0, 0)
  BY DEF Blocks, Unlike
<1>5. Places(<<>>, b, 0, 0, none)
  BY DEF Places
<1> HIDE DEF b, q, none
<1> QED
  BY <1>0, <1>1, <1>2, <1>3, <1>4, <1>5, FlowsIntro, Zenon

(* No byte between multiplexer and demultiplexer bears the name id. *)
Unused(id, c, ch, fr, rc) ==
  /\ id \notin IdsIn(ch.partial) /\ id \notin IdsIn(rc.buffer)
  /\ \A k \in 1 .. Len(ch.queue) : ch.queue[k].id # id
  /\ \A i \in 1 .. Len(fr) : fr[i].vc = c => id \notin IdsIn(fr[i].data)

(* A name that is in no byte of a slice. *)
LEMMA NotInSlice ==
  ASSUME NEW b, NEW o \in Nat, NEW e \in Nat, o <= e, NEW id, id \notin IdsIn(Slice(b, o, e)),
         NEW j \in o + 1 .. e
  PROVE  b[j].id # id
<1>1. DOMAIN Slice(b, o, e) = 1 .. e - o /\ j - o \in 1 .. e - o
  BY DEF Slice
<1>2. Slice(b, o, e)[j - o] = b[j]
  <2>1. Slice(b, o, e)[j - o] = b[o + (j - o)]
    BY <1>1 DEF Slice
  <2>2. o + (j - o) = j
    OBVIOUS
  <2> QED
    BY <2>1, <2>2
<1> QED
  BY <1>1, <1>2 DEF IdsIn

(* A name that no queued packet has is in no byte of the stream behind the *)
(* packet in progress.                                                     *)
LEMMA NotInQueue ==
  ASSUME NEW ch, NEW b, NEW t \in Nat, NEW e \in Nat, NEW q, Sending(ch, b, t, e, q),
         NEW id, \A k \in 1 .. Len(ch.queue) : ch.queue[k].id # id,
         NEW j \in Nat, t + Len(ch.partial) < j, j <= e
  PROVE  b[j].id # id
<1> DEFINE n == Len(ch.queue)
           Past == {k \in 1 .. n + 1 : j <= q[k]}
<1>0. /\ n \in Nat /\ q[n + 1] = e /\ q[1] = t + Len(ch.partial) /\ Len(ch.partial) \in Nat
  BY DEF Sending
<1>00. \A k \in 1 .. n + 1 : q[k] \in Nat
  BY QueueGrows, Zenon
<1>1. Past \in SUBSET Nat /\ Past # {}
  BY <1>0
<1>2. PICK m \in Past : \A x \in Past : m <= x
  BY <1>1, Least
<1>3. m \in 1 .. n + 1 /\ m # 1
  BY <1>0, <1>2
<1>4. PICK k \in Nat : k = m - 1
  BY <1>0, <1>3
<1>5. k \in 1 .. n /\ k + 1 = m /\ k \in 1 .. n + 1
  BY <1>0, <1>3, <1>4
<1>6. k \notin Past
  BY <1>2, <1>4
<1>7. q[k] < j /\ j <= q[k + 1]
  BY <1>00, <1>2, <1>5, <1>6
<1>8. /\ q[k + 1] = q[k] + ch.queue[k].n /\ Holds(b, q[k], ch.queue[k])
      /\ ch.queue[k] \in Packets
  BY <1>5 DEF Sending
<1>9. PICK u \in Nat, l \in Nat : u = q[k] /\ l = ch.queue[k].n
  BY <1>00, <1>5, <1>8, PacketSizes
<1> HIDE DEF n, Past
<1>10. j - u \in 1 .. l /\ u + (j - u) = j
  BY <1>7, <1>8, <1>9
<1>11. b[u + (j - u)] = Byte(ch.queue[k].id, ch.queue[k].n, j - u)
  BY <1>8, <1>9, <1>10 DEF Holds
<1>12. b[j].id = ch.queue[k].id
  BY <1>10, <1>11 DEF Byte
<1> QED
  BY <1>5, <1>12 DEF n

(* No byte of the stream from o on bears the name id. *)
Absent(b, o, e, id) == \A j \in o + 1 .. e : b[j].id # id

(* A name that is not in use is in no byte of the stream that is left. *)
LEMMA NewName ==
  ASSUME NEW c, NEW ch, NEW fr, NEW rc, NEW g, NEW w, NEW b, NEW at, NEW q, NEW pos,
         NEW o \in Nat, NEW r \in Nat, NEW t \in Nat, NEW e \in Nat,
         Flow(c, ch, fr, rc, g, w, b, at, q, pos, o, r, t, e),
         NEW id, Unused(id, c, ch, fr, rc)
  PROVE  Absent(b, o, e, id)
<1> SUFFICES ASSUME NEW j \in o + 1 .. e PROVE b[j].id # id
  BY DEF Absent
<1>0. /\ o <= r /\ r <= t /\ t <= e
      /\ Sending(ch, b, t, e, q) /\ Frames(c, fr, at, b, r, t)
      /\ Receiving(rc, g, b, o, r, e)
  BY DEF Flow
<1>1. j \in Nat /\ o < j /\ j <= e
  OBVIOUS
<1>2. CASE j <= r
  <2>1. rc.buffer = Slice(b, o, r)
    BY <1>0, <1>1, <1>2 DEF Receiving
  <2>2. j \in o + 1 .. r /\ id \notin IdsIn(Slice(b, o, r))
    BY <1>1, <1>2, <2>1 DEF Unused
  <2> QED
    BY <1>0, <2>2, NotInSlice
<1>3. CASE r < j /\ j <= t
  <2>1. j \in r + 1 .. t
    BY <1>1, <1>3
  <2>2. PICK i \in 1 .. Len(fr) : fr[i].vc = c /\ at[i] < j /\ j <= at[i] + kFrameDataSize
    BY <1>0, <2>1 DEF Frames
  <2>3. PICK a \in Nat : a = at[i]
    BY <1>0, <2>2 DEF Frames
  <2>4. PICK v \in Nat : v = a + kFrameDataSize
    BY <2>3, FrameSizes
  <2>5. fr[i].data = Slice(b, a, v)
    BY <1>0, <2>2, <2>3, <2>4 DEF Frames, Carries
  <2>6. id \notin IdsIn(Slice(b, a, v))
    BY <2>2, <2>5 DEF Unused
  <2>7. j \in a + 1 .. v /\ a <= v
    <3>1. a < j /\ j <= v
      BY <2>2, <2>3, <2>4
    <3> QED
      BY <1>1, <2>4, <3>1, FrameSizes
  <2> QED
    BY <2>6, <2>7, NotInSlice
<1>4. CASE t < j /\ j <= t + Len(ch.partial)
  <2>1. PICK u \in Nat : u = t + Len(ch.partial) /\ t <= u /\ ch.partial = Slice(b, t, u)
    BY <1>0 DEF Sending
  <2>2. j \in t + 1 .. u /\ id \notin IdsIn(Slice(b, t, u))
    BY <1>1, <1>4, <2>1 DEF Unused
  <2> QED
    BY <2>1, <2>2, NotInSlice
<1>5. CASE t + Len(ch.partial) < j
  <2>1. \A k \in 1 .. Len(ch.queue) : ch.queue[k].id # id
    BY DEF Unused
  <2> QED
    BY <1>0, <1>1, <1>5, <2>1, NotInQueue
<1>6. Len(ch.partial) \in Nat
  BY <1>0 DEF Sending
<1> QED
  BY <1>1, <1>2, <1>3, <1>4, <1>5, <1>6

(* The demultiplexer does not see a packet at the end of the stream. *)
LEMMA ReceivingMore ==
  ASSUME NEW rc, NEW g, NEW b, NEW o \in Nat, NEW r \in Nat, NEW e \in Nat, o <= r, r <= e,
         Receiving(rc, g, b, o, r, e), NEW p, p.n \in Nat, p.n > kPrimaryHeaderSize
  PROVE  Receiving(rc, g, More(b, e, p), o, r, e + p.n)
<1> DEFINE d == More(b, e, p)
<1>1. /\ \A j \in 0 .. e : d[j] = b[j]
      /\ \A j \in Nat : j > e => d[j] = Byte(p.id, p.n, j - e)
  BY DEF More
<1>2. Slice(d, o, r) = Slice(b, o, r)
  <2> HIDE DEF d
  <2> QED
    BY <1>1, SameSlice
<1>3. ASSUME Left(b, e, o, r) PROVE Left(d, e + p.n, o, r)
  <2>0. p.n > 0 /\ e + p.n \in Nat /\ e + p.n > e
    BY FrameSizes
  <2>1. CASE o = e
    <3>1. d[e + 1].i = 1
      <4>1. e + 1 \in Nat /\ e + 1 > e /\ (e + 1) - e = 1
        OBVIOUS
      <4> HIDE DEF d
      <4>2. d[e + 1] = Byte(p.id, p.n, (e + 1) - e)
        BY <1>1, <4>1
      <4>3. d[e + 1] = Byte(p.id, p.n, 1)
        BY <4>1, <4>2
      <4> QED
        BY <4>3 DEF Byte
    <3>2. Edge(d, e + p.n, o)
      BY <2>1, <3>1 DEF Edge
    <3>3. ~(o < r)
      BY <2>1
    <3> QED
      BY <3>2, <3>3 DEF Left
  <2>2. CASE o # e
    <3>1. o + 1 \in 0 .. e
      BY <2>2
    <3>2. d[o + 1] = b[o + 1]
      BY <1>1, <3>1
    <3>3. b[o + 1].i = 1
      BY <1>3, <2>2 DEF Left, Edge
    <3> HIDE DEF d
    <3>4. Edge(d, e + p.n, o)
      BY <3>2, <3>3 DEF Edge
    <3> QED
      BY <1>3, <3>2, <3>4 DEF Left
  <2> QED
    BY <2>1, <2>2
<1> HIDE DEF d
<1>4. Receiving(rc, g, d, o, r, e + p.n)
  BY <1>2, <1>3 DEF Receiving
<1> QED
  BY <1>4 DEF d

(* What stays true of the stream with another packet of a new name. *)
LEMMA FlowMore ==
  ASSUME NEW c, NEW ch, NEW fr, NEW rc, NEW g, NEW w, NEW b, NEW at, NEW q, NEW pos,
         NEW o \in Nat, NEW r \in Nat, NEW t \in Nat, NEW e \in Nat,
         Flow(c, ch, fr, rc, g, w, b, at, q, pos, o, r, t, e),
         NEW p, p.n \in Nat, p.n > kPrimaryHeaderSize,
         p.id = Idle \/ Absent(b, o, e, p.id)
  PROVE  /\ Frames(c, fr, at, More(b, e, p), r, t)
         /\ Receiving(rc, g, More(b, e, p), o, r, e + p.n)
         /\ Blocks(More(b, e, p), o, e + p.n) /\ Unlike(More(b, e, p), o, e + p.n)
<1>0. /\ o <= r /\ r <= t /\ t <= e
      /\ Sending(ch, b, t, e, q) /\ Frames(c, fr, at, b, r, t)
      /\ Receiving(rc, g, b, o, r, e)
      /\ Blocks(b, o, e) /\ Unlike(b, o, e)
  BY DEF Flow
<1>1. o <= e /\ r <= e
  BY <1>0
<1>2. \A j \in 0 .. t : More(b, e, p)[j] = b[j]
  <2>1. \A j \in 0 .. e : More(b, e, p)[j] = b[j]
    BY MoreBytes
  <2>2. \A j \in 0 .. t : j \in 0 .. e
    BY <1>0
  <2> QED
    BY <2>1, <2>2
<1>3. Frames(c, fr, at, More(b, e, p), r, t)
  BY <1>0, <1>2, FramesSame, Zenon
<1>4. Receiving(rc, g, More(b, e, p), o, r, e + p.n)
  BY <1>0, <1>1, ReceivingMore, Zenon
<1>5. Blocks(More(b, e, p), o, e + p.n)
  BY <1>0, <1>1, BlocksMore, Zenon
<1>6. Unlike(More(b, e, p), o, e + p.n)
  BY <1>0, <1>1, UnlikeMore DEF Absent
<1> QED
  BY <1>3, <1>4, <1>5, <1>6

(* The packets to be handed over once p is queued. *)
Awaits(w, p) == IF p.n > kMaxPacket THEN w ELSE Append(w, p)

(* Enqueue: another packet at the end of the stream. *)
LEMMA FlowsQueued ==
  ASSUME NEW c, NEW ch, NEW fr, NEW rc, NEW g, NEW w, Flows(c, ch, fr, rc, g, w),
         NEW p \in Packets, Unused(p.id, c, ch, fr, rc),
         NEW ch2, ch2.queue = Append(ch.queue, p), ch2.partial = ch.partial
  PROVE  Flows(c, ch2, fr, rc, g, Awaits(w, p))
<1>1. PICK b, at, q, pos : \E o, r, t, e \in Nat :
        Flow(c, ch, fr, rc, g, w, b, at, q, pos, o, r, t, e)
  BY DEF Flows
<1>2. PICK o \in Nat, r \in Nat, t \in Nat, e \in Nat :
        Flow(c, ch, fr, rc, g, w, b, at, q, pos, o, r, t, e)
  BY <1>1
<1>3. /\ o <= r /\ r <= t /\ t <= e
      /\ Sending(ch, b, t, e, q) /\ Places(w, b, o, e, pos)
  BY <1>2 DEF Flow
<1>4. p.n \in Nat /\ p.n > kPrimaryHeaderSize /\ kMaxPacket \in Nat
  BY PacketSizes, FrameSizes
<1>5. Absent(b, o, e, p.id)
  BY <1>2, NewName, Zenon
<1>6. /\ Frames(c, fr, at, More(b, e, p), r, t)
      /\ Receiving(rc, g, More(b, e, p), o, r, e + p.n)
      /\ Blocks(More(b, e, p), o, e + p.n) /\ Unlike(More(b, e, p), o, e + p.n)
  BY <1>2, <1>4, <1>5, FlowMore, Zenon
<1>7. PICK q2 : Sending(ch2, More(b, e, p), t, e + p.n, q2)
  BY <1>3, SendingMore, Zenon
<1>8. e + p.n \in Nat /\ t <= e + p.n /\ o <= e
  BY <1>3, <1>4
<1>9. \E pos2 : Places(Awaits(w, p), More(b, e, p), o, e + p.n, pos2)
  <2>1. CASE p.n > kMaxPacket
    <3>1. Places(w, More(b, e, p), o, e + p.n, pos)
      BY <1>3, <1>4, <1>8, <2>1, PlacesMoreFill, Zenon
    <3> QED
      BY <2>1, <3>1 DEF Awaits
  <2>2. CASE ~(p.n > kMaxPacket)
    <3>1. p.n <= kMaxPacket
      BY <1>4, <2>2
    <3>2. Places(Append(w, p), More(b, e, p), o, e + p.n,
                 [k \in 1 .. Len(w) + 1 |-> IF k = Len(w) + 1 THEN e ELSE pos[k]])
      BY <1>3, <1>8, <3>1, PlacesMore
    <3> QED
      BY <2>2, <3>2, Zenon DEF Awaits
  <2> QED
    BY <2>1, <2>2
<1> QED
  BY <1>3, <1>6, <1>7, <1>8, <1>9, FlowsIntro, Zenon

(* NextFrame of another channel. *)
LEMMA FlowsFramed ==
  ASSUME NEW c, NEW ch, NEW fr, NEW rc, NEW g, NEW w, Flows(c, ch, fr, rc, g, w),
         NEW S, fr \in Seq(S), NEW f, f.vc # c
  PROVE  Flows(c, ch, Append(fr, f), rc, g, w)
<1>1. PICK b, at, q, pos : \E o, r, t, e \in Nat :
        Flow(c, ch, fr, rc, g, w, b, at, q, pos, o, r, t, e)
  BY DEF Flows
<1>2. PICK o \in Nat, r \in Nat, t \in Nat, e \in Nat :
        Flow(c, ch, fr, rc, g, w, b, at, q, pos, o, r, t, e)
  BY <1>1
<1>3. Frames(c, fr, at, b, r, t) /\ r <= t
  BY <1>2 DEF Flow
<1>4. \E at2 : Frames(c, Append(fr, f), at2, b, r, t)
  BY <1>3, FramesAppend, Zenon
<1> QED
  BY <1>2, <1>4 DEF Flow, Flows

(* NextFrame of the channel: its frame carries the next bytes, with a fill *)
(* packet at the end of the stream if there are too few.                   *)
LEMMA FlowsSent ==
  ASSUME NEW c, NEW ch, NEW fr, NEW rc, NEW g, NEW w, Flows(c, ch, fr, rc, g, w),
         NEW S, fr \in Seq(S), NEW f, f.vc = c,
         NEW k \in Nat, k = Taken(ch), NEW s, s = Filled(Stream(ch)[k]),
         NEW ch2, MakesFrame(ch, k, s, f, ch2)
  PROVE  Flows(c, ch2, Append(fr, f), rc, g, w)
<1>1. PICK b, at, q, pos : \E o, r, t, e \in Nat :
        Flow(c, ch, fr, rc, g, w, b, at, q, pos, o, r, t, e)
  BY DEF Flows
<1>2. PICK o \in Nat, r \in Nat, t \in Nat, e \in Nat :
        Flow(c, ch, fr, rc, g, w, b, at, q, pos, o, r, t, e)
  BY <1>1
<1>3. /\ o <= r /\ r <= t /\ t <= e
      /\ Sending(ch, b, t, e, q) /\ Frames(c, fr, at, b, r, t)
      /\ Receiving(rc, g, b, o, r, e)
      /\ Blocks(b, o, e) /\ Unlike(b, o, e) /\ Places(w, b, o, e, pos)
  BY <1>2 DEF Flow
<1>4. PICK s0 : s0 = Stream(ch)[k]
  OBVIOUS
<1>5. s = Filled(s0)
  BY <1>4
<1>6. t + kFrameDataSize \in Nat /\ r <= t + kFrameDataSize
  BY <1>3, FrameSizes
<1>7. CASE Len(s0) >= kFrameDataSize
  <2>1. s = s0
    BY <1>5, <1>7 DEF Filled
  <2>2. s = Stream(ch)[k] /\ Len(s) >= kFrameDataSize
    BY <1>4, <1>7, <2>1
  <2>3. Carries(f, b, t) /\ \E q2 : Sending(ch2, b, t + kFrameDataSize, e, q2)
    BY <1>3, <2>2, FullFrame, Zenon
  <2>4. PICK q2 : Sending(ch2, b, t + kFrameDataSize, e, q2)
    BY <2>3
  <2>5. PICK at2 : Frames(c, Append(fr, f), at2, b, r, t + kFrameDataSize)
    BY <1>3, <2>3, FramesAppend, Zenon
  <2>6. t + kFrameDataSize <= e
    <3>1. PICK v \in Nat : v = t + kFrameDataSize
      BY <1>6
    <3>2. Sending(ch2, b, v, e, q2)
      BY <2>4, <3>1
    <3>3. v + Len(ch2.partial) <= e /\ Len(ch2.partial) \in Nat
      <4>1. v + Len(ch2.partial) <= e
        BY <3>2, QueueGrows, Zenon
      <4>2. Len(ch2.partial) \in Nat
        BY <3>2 DEF Sending
      <4> QED
        BY <4>1, <4>2
    <3>4. v <= e
      BY <3>3
    <3> QED
      BY <3>1, <3>4
  <2> QED
    BY <1>3, <1>6, <2>4, <2>5, <2>6, FlowsIntro, Zenon
<1>8. CASE Len(s0) < kFrameDataSize
  <2>1. FillsUp(f, ch2, b, t, e)
    BY <1>3, <1>4, <1>5, <1>8, FilledFrame, Zenon
  <2>2. PICK p : /\ p.id = Idle /\ p.n \in Nat /\ p.n > kPrimaryHeaderSize
                 /\ Carries(f, More(b, e, p), t)
                 /\ \E q2 : Sending(ch2, More(b, e, p), t + kFrameDataSize, e + p.n, q2)
    BY <2>1 DEF FillsUp
  <2>3. PICK n, d : n \in Nat /\ n = p.n /\ d = More(b, e, p)
    BY <2>2
  <2>6. /\ Frames(c, fr, at, d, r, t) /\ Receiving(rc, g, d, o, r, e + n)
        /\ Blocks(d, o, e + n) /\ Unlike(d, o, e + n)
    <3>1. /\ Frames(c, fr, at, More(b, e, p), r, t)
          /\ Receiving(rc, g, More(b, e, p), o, r, e + p.n)
          /\ Blocks(More(b, e, p), o, e + p.n) /\ Unlike(More(b, e, p), o, e + p.n)
      BY <1>2, <2>2, FlowMore, Zenon
    <3> QED
      BY <2>3, <3>1, Zenon
  <2>7. Places(w, d, o, e + n, pos)
    <3>1. o <= e
      BY <1>3
    <3>2. Places(w, More(b, e, p), o, e + p.n, pos)
      BY <1>3, <2>2, <3>1, PlacesMoreFill, Zenon
    <3> QED
      BY <2>3, <3>2, Zenon
  <2>71. Carries(f, d, t)
    BY <2>2, <2>3
  <2>8. PICK at2 : Frames(c, Append(fr, f), at2, d, r, t + kFrameDataSize)
    BY <1>3, <2>6, <2>71, FramesAppend, Zenon
  <2>9. PICK q2 : Sending(ch2, d, t + kFrameDataSize, e + n, q2)
    BY <2>2, <2>3
  <2>10. PICK v \in Nat, x \in Nat : v = t + kFrameDataSize /\ x = e + n
    BY <1>6, <2>3
  <2>11. v <= x
    <3>2. Sending(ch2, d, v, x, q2)
      BY <2>9, <2>10
    <3>3. v + Len(ch2.partial) <= x
      BY <3>2, QueueGrows, Zenon
    <3>4. Len(ch2.partial) \in Nat
      BY <3>2 DEF Sending
    <3> QED
      BY <3>3, <3>4
  <2>12. /\ Sending(ch2, d, v, x, q2) /\ Frames(c, Append(fr, f), at2, d, r, v)
         /\ Receiving(rc, g, d, o, r, x) /\ Blocks(d, o, x) /\ Unlike(d, o, x)
         /\ Places(w, d, o, x, pos) /\ r <= v
    BY <1>6, <2>6, <2>7, <2>8, <2>9, <2>10
  <2> QED
    BY <1>3, <2>11, <2>12, FlowsIntro, Zenon
<1>9. Len(s0) \in Nat /\ kFrameDataSize \in Nat
  <2>1. /\ k \in 0 .. Len(ch.queue) /\ Stream(ch)[k] = Slice(b, t, q[k + 1])
    BY <1>3, TakenIs, Zenon
  <2>2. k + 1 \in 1 .. Len(ch.queue) + 1
    BY <1>3, <2>1 DEF Sending
  <2>3. Len(ch.partial) \in Nat
    BY <1>3 DEF Sending
  <2>4. q[k + 1] \in Nat /\ t + Len(ch.partial) <= q[k + 1]
    BY <1>3, <2>2, QueueGrows, Zenon
  <2>5. PICK u \in Nat : u = q[k + 1] /\ t <= u
    BY <2>3, <2>4
  <2>55. t <= u
    BY <2>5
  <2>6. Len(Slice(b, t, u)) = u - t
    BY <2>55, Slices, Zenon
  <2> QED
    BY <1>4, <2>1, <2>5, <2>6, FrameSizes
<1> QED
  BY <1>7, <1>8, <1>9

(* A name in a slice is that of one of its bytes. *)
LEMMA InSlice ==
  ASSUME NEW b, NEW o \in Nat, NEW e \in Nat, o <= e, NEW id, id \in IdsIn(Slice(b, o, e))
  PROVE  \E j \in o + 1 .. e : b[j].id = id
<1>1. PICK x \in DOMAIN Slice(b, o, e) : Slice(b, o, e)[x].id = id
  BY DEF IdsIn
<1>2. x \in 1 .. e - o
  BY <1>1 DEF Slice
<1>3. Slice(b, o, e)[x] = b[o + x]
  BY <1>2 DEF Slice
<1>4. o + x \in o + 1 .. e
  BY <1>2
<1> QED
  BY <1>1, <1>3, <1>4

(* Hit is the number of packets it is meant to be. *)
LEMMA HitIs ==
  ASSUME NEW w, w \in Seq(Packets), NEW f
  PROVE  /\ Hit(w, f) \in 0 .. Len(w)
         /\ \A i \in 1 .. Hit(w, f) : w[i].id \in IdsIn(f.data)
         /\ Hit(w, f) < Len(w) => w[Hit(w, f) + 1].id \notin IdsIn(f.data)
<1> DEFINE In(i) == w[i].id \in IdsIn(f.data)
           Ends == {n \in 0 .. Len(w) : n < Len(w) => ~In(n + 1)}
           OK(n) == /\ \A i \in 1 .. n : In(i)
                    /\ n < Len(w) => ~In(n + 1)
<1>0. Len(w) \in Nat
  OBVIOUS
<1> HIDE DEF In
<1>1. Ends \in SUBSET Nat /\ Len(w) \in Ends
  BY <1>0
<1>2. Ends # {}
  BY <1>1
<1>3. PICK m \in Ends : \A x \in Ends : m <= x
  BY <1>1, <1>2, Least
<1>4. m \in 0 .. Len(w) /\ m \in Nat
  BY <1>0, <1>3
<1>5. ASSUME NEW i \in 1 .. m PROVE In(i)
  <2>1. PICK x \in Nat : x = i - 1
    BY <1>4
  <2>2. x \in 0 .. Len(w) /\ x < m /\ x + 1 = i /\ x < Len(w)
    BY <1>0, <1>4, <2>1
  <2>3. x \notin Ends
    BY <1>3, <1>4, <2>2
  <2> QED
    BY <2>2, <2>3
<1>6. OK(m)
  BY <1>3, <1>5
<1>7. \E n \in 0 .. Len(w) : OK(n)
  BY <1>4, <1>6
<1>8. Hit(w, f) = CHOOSE n \in 0 .. Len(w) : OK(n)
  BY DEF Hit, In
<1> HIDE DEF OK
<1>9. Hit(w, f) \in 0 .. Len(w) /\ OK(Hit(w, f))
  BY <1>7, <1>8
<1> QED
  BY <1>9 DEF OK, In

(* The packets a frame carries are the oldest that are not handed over:    *)
(* those that start before its end.                                        *)
LEMMA HitBefore ==
  ASSUME NEW b, NEW o \in Nat, NEW r \in Nat, NEW e \in Nat, o <= r,
         NEW v \in Nat, FrameEnds(r, v), v <= e, Blocks(b, o, e), Unlike(b, o, e),
         NEW w, NEW pos, Places(w, b, o, e, pos),
         NEW rc, NEW g, Receiving(rc, g, b, o, r, e), NEW f, Carries(f, b, r)
  PROVE  Before(w, pos, v, Hit(w, f))
<1>0. /\ w \in Seq(Packets) /\ pos \in [1 .. Len(w) -> Nat] /\ Len(w) \in Nat
      /\ \A k \in 1 .. Len(w) :
           o <= pos[k] /\ pos[k] < e /\ Wanted(b, pos[k]) /\ w[k] = PacketAt(b, pos[k])
      /\ \A k, l \in 1 .. Len(w) : k < l => pos[k] < pos[l]
  BY DEF Places
<1>1. f.data = Slice(b, r, v) /\ r < v
  <2>1. v = r + kFrameDataSize
    BY DEF FrameEnds
  <2> QED
    BY <2>1, FrameSizes DEF Carries
<1>2. ASSUME NEW i \in 1 .. Len(w), pos[i] < v
      PROVE  w[i].id \in IdsIn(f.data)
  <2>1. PICK j \in Nat : j = pos[i]
    BY <1>0
  <2>2. /\ o <= j /\ j < e /\ j < v /\ b[j + 1].i = 1 /\ w[i].id = b[j + 1].id
    <3>1. o <= j /\ j < e /\ j < v /\ Wanted(b, j) /\ w[i] = PacketAt(b, j)
      BY <1>0, <1>2, <2>1
    <3>2. PacketAt(b, j).id = b[j + 1].id
      BY DEF PacketAt
    <3> QED
      BY <3>1, <3>2 DEF Wanted
  <2>3. \E x \in r + 1 .. v : b[x].id = b[j + 1].id
    <3>1. CASE r <= j
      <4>1. j + 1 \in r + 1 .. v
        BY <2>2, <3>1
      <4> QED
        BY <4>1
    <3>2. CASE j < r
      <4>1. o < r
        BY <2>2, <3>2
      <4>2. Left(b, e, o, r)
        BY <4>1 DEF Receiving
      <4>3. o # e /\ o \in o .. e - 1
        BY <1>1, <4>1
      <4>4. b[o + 1].i = 1
        BY <4>2, <4>3 DEF Left, Edge
      <4>5. PICK n \in Nat : n = b[o + 1].n /\ n > r - o
        BY <4>1, <4>2, <4>3, <4>4 DEF Left, Blocks
      <4>6. Quiet(b, o + 1, o + n)
        BY <4>3, <4>4, <4>5, QuietPacket
      <4>7. j = o
        <5> SUFFICES ASSUME o < j PROVE FALSE
          BY <2>2
        <5>1. j + 1 \in o + 1 + 1 .. o + n
          BY <3>2, <4>5
        <5> QED
          BY <2>2, <4>6, <5>1 DEF Quiet
      <4>8. Holds(b, o, PacketAt(b, o))
        BY <4>3, <4>4 DEF Blocks
      <4>9. PICK x \in Nat : x = (r + 1) - o
        BY <4>1
      <4>10. x \in 1 .. n /\ o + x = r + 1 /\ PacketAt(b, o).n = n
             /\ PacketAt(b, o).id = b[o + 1].id
        BY <4>1, <4>5, <4>9 DEF PacketAt
      <4>11. b[r + 1] = Byte(b[o + 1].id, n, x)
        BY <4>8, <4>10 DEF Holds
      <4>12. b[r + 1].id = b[o + 1].id
        BY <4>11 DEF Byte
      <4>13. r + 1 \in r + 1 .. v
        BY <1>1
      <4> QED
        BY <4>7, <4>12, <4>13
    <3> QED
      BY <2>2, <3>1, <3>2
  <2>4. PICK x \in r + 1 .. v : b[x].id = w[i].id
    BY <2>2, <2>3
  <2>5. r <= v
    BY <1>1
  <2>6. w[i].id \notin IdsIn(Slice(b, r, v)) => b[x].id # w[i].id
    BY <2>5, NotInSlice
  <2> QED
    BY <1>1, <2>4, <2>6
<1>3. ASSUME NEW i \in 1 .. Len(w), w[i].id \in IdsIn(f.data)
      PROVE  pos[i] < v
  <2>1. PICK j \in Nat : j = pos[i]
    BY <1>0
  <2>2. /\ o <= j /\ j < e /\ b[j + 1].i = 1 /\ b[j + 1].id # Idle
        /\ w[i].id = b[j + 1].id
    <3>1. o <= j /\ j < e /\ Wanted(b, j) /\ w[i] = PacketAt(b, j)
      BY <1>0, <2>1
    <3>2. PacketAt(b, j).id = b[j + 1].id
      BY DEF PacketAt
    <3> QED
      BY <3>1, <3>2 DEF Wanted
  <2>3. r <= v
    BY <1>1
  <2>4. PICK x \in r + 1 .. v : b[x].id = w[i].id
    BY <1>1, <1>3, <2>3, InSlice
  <2> SUFFICES ASSUME v <= j PROVE FALSE
    BY <2>1
  <2>5. x \in o + 1 .. e /\ j + 1 \in o + 1 .. e /\ x < j + 1
    BY <2>2, <2>4
  <2> QED
    BY <2>2, <2>4, <2>5 DEF Unlike
<1>4. PICK n \in 0 .. Len(w) : n = Hit(w, f)
  BY <1>0, HitIs, Zenon
<1>5. /\ \A i \in 1 .. n : w[i].id \in IdsIn(f.data)
      /\ n < Len(w) => w[n + 1].id \notin IdsIn(f.data)
  BY <1>0, <1>4, HitIs
<1>6. ASSUME NEW k \in 1 .. Len(w)
      PROVE  k <= n <=> pos[k] < v
  <2>1. CASE k <= n
    <3>1. k \in 1 .. n
      BY <2>1
    <3>2. pos[k] < v
      BY <1>3, <1>5, <3>1
    <3> QED
      BY <2>1, <3>2
  <2>2. CASE ~(k <= n)
    <3>1. n < Len(w) /\ n + 1 \in 1 .. Len(w) /\ n + 1 <= k
      BY <1>0, <2>2
    <3>2. ~(pos[n + 1] < v)
      BY <1>2, <1>5, <3>1
    <3>3. PICK x \in Nat, y \in Nat : x = pos[n + 1] /\ y = pos[k]
      BY <1>0, <3>1
    <3>4. n + 1 = k \/ x < y
      BY <1>0, <3>1, <3>3
    <3>5. ~(y < v)
      BY <3>2, <3>3, <3>4
    <3> QED
      BY <2>2, <3>3, <3>5
  <2> QED
    BY <2>1, <2>2
<1> QED
  BY <1>4, <1>6 DEF Before

(* A frame of another channel leaves. *)
LEMMA FlowsPassed ==
  ASSUME NEW c, NEW ch, NEW fr, NEW rc, NEW g, NEW w, Flows(c, ch, fr, rc, g, w),
         NEW S, fr \in Seq(S), fr # <<>>, Head(fr).vc # c
  PROVE  Flows(c, ch, Tail(fr), rc, g, w)
<1>1. PICK b, at, q, pos : \E o, r, t, e \in Nat :
        Flow(c, ch, fr, rc, g, w, b, at, q, pos, o, r, t, e)
  BY DEF Flows
<1>2. PICK o \in Nat, r \in Nat, t \in Nat, e \in Nat :
        Flow(c, ch, fr, rc, g, w, b, at, q, pos, o, r, t, e)
  BY <1>1
<1>3. Frames(c, fr, at, b, r, t) /\ r <= t
  BY <1>2 DEF Flow
<1>4. \E at2 : Frames(c, Tail(fr), at2, b, r, t)
  BY <1>3, FramesTail, Zenon
<1> QED
  BY <1>2, <1>4 DEF Flow, Flows

(* The demultiplexer has come to z of the stream, the frames on their way  *)
(* start at v.                                                             *)
LEMMA FlowsOn ==
  ASSUME NEW c, NEW ch, NEW fr, NEW rc, NEW g, NEW w, NEW b, NEW q, NEW pos,
         NEW at, NEW rc2, NEW g2, NEW n,
         NEW o \in Nat, NEW v \in Nat, NEW t \in Nat, NEW e \in Nat, v <= t, t <= e,
         Sending(ch, b, t, e, q), Blocks(b, o, e), Unlike(b, o, e), Places(w, b, o, e, pos),
         Frames(c, fr, at, b, v, t),
         NEW z \in o .. v, Receiving(rc2, g2, b, z, v, e), Before(w, pos, z, n)
  PROVE  Flows(c, ch, fr, rc2, g2, SubSeq(w, n + 1, Len(w)))
<1>1. z \in Nat /\ o <= z /\ z <= v
  OBVIOUS
<1>2. Blocks(b, z, e) /\ Unlike(b, z, e)
  BY <1>1, Onward, Zenon
<1>3. \E pos2 : Places(SubSeq(w, n + 1, Len(w)), b, z, e, pos2)
  BY <1>1, PlacesOnward
<1> QED
  BY <1>1, <1>2, <1>3, FlowsIntro, Zenon

(* Lose: the demultiplexer goes on behind the lost frame, and the packets  *)
(* the frame carried are no longer to be handed over.                      *)
LEMMA FlowsLost ==
  ASSUME NEW c, NEW ch, NEW fr, NEW rc, NEW g \in Nat, NEW w, Flows(c, ch, fr, rc, g, w),
         NEW S, fr \in Seq(S), fr # <<>>, Head(fr).vc = c
  PROVE  /\ w \in Seq(Packets) /\ Hit(w, Head(fr)) \in 0 .. Len(w)
         /\ Flows(c, ch, Tail(fr), rc, g + 1, SubSeq(w, Hit(w, Head(fr)) + 1, Len(w)))
<1>1. PICK b, at, q, pos : \E o, r, t, e \in Nat :
        Flow(c, ch, fr, rc, g, w, b, at, q, pos, o, r, t, e)
  BY DEF Flows
<1>2. PICK o \in Nat, r \in Nat, t \in Nat, e \in Nat :
        Flow(c, ch, fr, rc, g, w, b, at, q, pos, o, r, t, e)
  BY <1>1
<1>3. /\ o <= r /\ r <= t /\ t <= e
      /\ Sending(ch, b, t, e, q) /\ Frames(c, fr, at, b, r, t)
      /\ Receiving(rc, g, b, o, r, e)
      /\ Blocks(b, o, e) /\ Unlike(b, o, e) /\ Places(w, b, o, e, pos)
  BY <1>2 DEF Flow
<1>4. PICK f, n : f = Head(fr) /\ n = Hit(w, f)
  OBVIOUS
<1>5. /\ Carries(Head(fr), b, r) /\ r + kFrameDataSize <= t
      /\ \E at2 : Frames(c, Tail(fr), at2, b, r + kFrameDataSize, t)
  BY <1>3, FramesTail, Zenon
<1>6. PICK v \in Nat : FrameEnds(r, v)
  <2>1. r + kFrameDataSize \in Nat
    BY FrameSizes
  <2> QED
    BY <2>1 DEF FrameEnds
<1>7. v = r + kFrameDataSize
  BY <1>6 DEF FrameEnds
<1>8. PICK at2 : Frames(c, Tail(fr), at2, b, v, t)
  BY <1>5, <1>7
<1>9. v <= t /\ v <= e /\ r <= v /\ v \in o .. v
  BY <1>3, <1>5, <1>7, FrameSizes
<1>10. Carries(f, b, r)
  BY <1>4, <1>5
<1>11. Before(w, pos, v, Hit(w, f))
  BY <1>3, <1>6, <1>9, <1>10, HitBefore, Zenon
<1>12. Receiving(rc, g + 1, b, v, v, e)
  <2>1. g + 1 # 0 /\ v \in 0 .. v
    OBVIOUS
  <2>2. ~Following(rc, g + 1)
    BY <2>1 DEF Following
  <2> QED
    BY <1>3, <2>1, <2>2 DEF Receiving
<1>13. Flows(c, ch, Tail(fr), rc, g + 1, SubSeq(w, Hit(w, f) + 1, Len(w)))
  BY <1>3, <1>8, <1>9, <1>11, <1>12, FlowsOn, Zenon
<1>14. w \in Seq(Packets)
  BY <1>3 DEF Places
<1>15. Hit(w, f) \in 0 .. Len(w)
  BY <1>11 DEF Before
<1> QED
  BY <1>4, <1>13, <1>14, <1>15, Zenon

(* Push found the first n packets of w. *)
HandedOver(found, w, n) ==
  /\ n \in 0 .. Len(w) /\ w \in Seq(Packets)
  /\ Len(found.packets) = n /\ \A i \in 1 .. n : found.packets[i] = Bytes(w[i])

(* Receive: the packets found are the next to be handed over. *)
LEMMA FlowsReceived ==
  ASSUME NEW c, NEW ch, NEW fr, NEW rc, NEW g \in Nat, NEW w, Flows(c, ch, fr, rc, g, w),
         NEW S, fr \in Seq(S), fr # <<>>, Head(fr).vc = c,
         Tells(Head(fr), rc, g), NEW found, found = FoundIn(rc, Head(fr)),
         NEW rc2, Keeps(rc2, found)
  PROVE  /\ HandedOver(found, w, Len(found.packets))
         /\ Flows(c, ch, Tail(fr), rc2, 0, SubSeq(w, Len(found.packets) + 1, Len(w)))
<1>1. PICK b, at, q, pos : \E o, r, t, e \in Nat :
        Flow(c, ch, fr, rc, g, w, b, at, q, pos, o, r, t, e)
  BY DEF Flows
<1>2. PICK o \in Nat, r \in Nat, t \in Nat, e \in Nat :
        Flow(c, ch, fr, rc, g, w, b, at, q, pos, o, r, t, e)
  BY <1>1
<1>3. /\ o <= r /\ r <= t /\ t <= e
      /\ Sending(ch, b, t, e, q) /\ Frames(c, fr, at, b, r, t)
      /\ Receiving(rc, g, b, o, r, e)
      /\ Blocks(b, o, e) /\ Unlike(b, o, e) /\ Places(w, b, o, e, pos)
  BY <1>2 DEF Flow
<1>4. /\ Carries(Head(fr), b, r) /\ r + kFrameDataSize <= t
      /\ \E at2 : Frames(c, Tail(fr), at2, b, r + kFrameDataSize, t)
  BY <1>3, FramesTail, Zenon
<1>5. PICK v \in Nat : FrameEnds(r, v)
  <2>1. r + kFrameDataSize \in Nat
    BY FrameSizes
  <2> QED
    BY <2>1 DEF FrameEnds
<1>6. v = r + kFrameDataSize
  BY <1>5 DEF FrameEnds
<1>7. PICK at2 : Frames(c, Tail(fr), at2, b, v, t)
  BY <1>4, <1>6
<1>8. v <= t /\ v <= e
  BY <1>3, <1>4, <1>6
<1>9. HandsOver(found, rc2, w, pos, b, o, v, e)
  BY <1>3, <1>4, <1>5, <1>8, PushFinds, Zenon
<1>10. PICK n \in 0 .. Len(w), z \in o .. v :
         /\ Len(found.packets) = n /\ \A i \in 1 .. n : found.packets[i] = Bytes(w[i])
         /\ Before(w, pos, z, n) /\ Receiving(rc2, 0, b, z, v, e)
  BY <1>9 DEF HandsOver
<1>11. Flows(c, ch, Tail(fr), rc2, 0, SubSeq(w, n + 1, Len(w)))
  BY <1>3, <1>7, <1>8, <1>10, FlowsOn, Zenon
<1>12. w \in Seq(Packets)
  BY <1>3 DEF Places
<1>13. HandedOver(found, w, n)
  BY <1>10, <1>12 DEF HandedOver
<1> QED
  BY <1>10, <1>11, <1>13

-----------------------------------------------------------------------------
(* The refinement *)

(* Every channel has its stream: what the four actions keep true. *)
Flowing == \A c \in Channels : Flows(c, tx[c], air, rx[c], gap[c], sent[c])

(* The invariant of the refinement. *)
FlowInv == IndInv /\ sent = [c \in Channels |-> sent[c]] /\ Flowing

(* It holds at first. *)
LEMMA InitFlowing == Init => FlowInv
<1> SUFFICES ASSUME Init PROVE FlowInv
  OBVIOUS
<1>1. IndInv
  BY InitInd
<1>2. sent = [c \in Channels |-> sent[c]]
  BY DEF Init
<1>3. ASSUME NEW c \in Channels
      PROVE  Flows(c, tx[c], air, rx[c], gap[c], sent[c])
  <2>1. tx[c].queue = <<>> /\ tx[c].partial = <<>>
    BY DEF Init
  <2>2. rx[c].buffer = <<>> /\ rx[c].synced = FALSE
    BY DEF Init
  <2>3. air = <<>> /\ sent[c] = <<>>
    BY DEF Init
  <2>4. Flows(c, tx[c], <<>>, rx[c], gap[c], <<>>)
    BY <2>1, <2>2, FlowsInit, Zenon
  <2> QED
    BY <2>3, <2>4
<1> QED
  BY <1>1, <1>2, <1>3 DEF FlowInv, Flowing

(* Types of the two ends of a channel. *)
LEMMA FlowTypes ==
  ASSUME NEW c, NEW ch, NEW fr, NEW rc, NEW g, NEW w, Flows(c, ch, fr, rc, g, w)
  PROVE  w \in Seq(Packets) /\ ch.queue \in Seq(Packets) /\ Taken(ch) \in Nat
<1>1. PICK b, at, q, pos : \E o, r, t, e \in Nat :
        Flow(c, ch, fr, rc, g, w, b, at, q, pos, o, r, t, e)
  BY DEF Flows
<1>2. PICK o \in Nat, r \in Nat, t \in Nat, e \in Nat :
        Flow(c, ch, fr, rc, g, w, b, at, q, pos, o, r, t, e)
  BY <1>1
<1>3. Sending(ch, b, t, e, q) /\ Places(w, b, o, e, pos)
  BY <1>2 DEF Flow
<1>4. w \in Seq(Packets) /\ ch.queue \in Seq(Packets)
  BY <1>3 DEF Sending, Places
<1>5. Taken(ch) \in 0 .. Len(ch.queue)
  BY <1>3, TakenIs, Zenon
<1>6. Taken(ch) \in Nat
  BY <1>4, <1>5
<1> QED
  BY <1>4, <1>6

(* The same, of the state. *)
LEMMA QueueTypes ==
  ASSUME FlowInv, NEW c \in Channels
  PROVE  /\ sent[c] \in Seq(Packets) /\ tx[c].queue \in Seq(Packets)
         /\ Taken(tx[c]) \in Nat
<1>1. Flows(c, tx[c], air, rx[c], gap[c], sent[c])
  BY DEF FlowInv, Flowing
<1> QED
  BY <1>1, FlowTypes, Zenon

(* A step that hands over nothing and forgets nothing is one of the link   *)
(* that hands over no packet.                                              *)
LEMMA NothingHanded ==
  ASSUME FlowInv, NEW c \in Channels, sent' = sent, out' = Nothing
  PROVE  Link!Next
<1>0. sent[c] \in Seq(Packets)
  BY QueueTypes, Zenon
<1>1. sent[c] \in Seq(Packets) /\ Len(sent[c]) \in Nat /\ 0 <= Len(sent[c])
  BY <1>0
<1>2. SubSeq(sent[c], 0 + 1, Len(sent[c])) = sent[c]
  BY <1>1
<1>3. sent' = [sent EXCEPT ![c] = SubSeq(@, 0 + 1, Len(@))]
  BY <1>2 DEF FlowInv
<1>4. /\ out'.packets = [i \in 1 .. 0 |-> <<c, sent[c][i]>>]
      /\ [i \in 1 .. 0 |-> <<c, sent[c][i]>>] = <<>>
  BY DEF Nothing
<1>5. Link!HandOver(c, 0)
  BY <1>1, <1>3, <1>4 DEF Link!HandOver
<1>6. 0 \in 0 .. Len(sent[c])
  BY <1>1
<1> QED
  BY <1>5, <1>6 DEF Link!Next

(* What Enqueue asks of a name. *)
LEMMA NotInFlight ==
  ASSUME FlowInv, NEW c \in Channels, NEW id, id \notin InFlight(c)
  PROVE  Unused(id, c, tx[c], air, rx[c])
<1>1. id \notin IdsIn(tx[c].partial) /\ id \notin IdsIn(rx[c].buffer)
  BY DEF InFlight
<1>2. ASSUME NEW k \in 1 .. Len(tx[c].queue) PROVE tx[c].queue[k].id # id
  <2>0. tx[c].queue \in Seq(Packets)
    BY QueueTypes, Zenon
  <2>1. k \in DOMAIN tx[c].queue
    BY <2>0
  <2>2. tx[c].queue[k] \in ToSet(tx[c].queue)
    BY <2>1 DEF ToSet
  <2> QED
    BY <2>2 DEF InFlight
<1>3. ASSUME NEW i \in 1 .. Len(air), air[i].vc = c
      PROVE  id \notin IdsIn(air[i].data)
  <2>1. PICK S : air \in Seq(S)
    BY DEF FlowInv, IndInv, Shape
  <2>2. air[i] \in ToSet(air)
    BY <2>1 DEF ToSet
  <2>3. air[i] \in {g \in ToSet(air) : g.vc = c}
    BY <1>3, <2>2
  <2>4. IdsIn(air[i].data) \in {IdsIn(f.data) : f \in {g \in ToSet(air) : g.vc = c}}
    BY <2>3
  <2> QED
    BY <2>4 DEF InFlight
<1> QED
  BY <1>1, <1>2, <1>3 DEF Unused

(* Enqueue is Send of the link, or for a packet that is too large no step  *)
(* of it.                                                                  *)
LEMMA EnqueueFlows ==
  ASSUME FlowInv, NEW c0 \in Channels, NEW p \in Offers[c0], Enqueue(c0, p)
  PROVE  FlowInv' /\ Link!Next
<1>1. /\ tx' = [tx EXCEPT ![c0].queue = Append(@, p)]
      /\ air' = air /\ rx' = rx /\ gap' = gap /\ out' = Nothing
      /\ p.id \notin InFlight(c0)
      /\ sent' = IF p.n > kMaxPacket THEN sent ELSE [sent EXCEPT ![c0] = Append(@, p)]
  BY DEF Enqueue
<1>2. IndInv'
  BY EnqueueInd DEF FlowInv
<1>3. p \in Packets
  BY DEF Packets
<1>4. tx = [c \in Channels |-> tx[c]] /\ sent = [c \in Channels |-> sent[c]]
  BY DEF FlowInv, IndInv, Shape
<1>5. /\ tx'[c0] = [tx[c0] EXCEPT !.queue = Append(@, p)]
      /\ \A c \in Channels \ {c0} : tx'[c] = tx[c]
  BY <1>1, <1>4
<1>6. tx'[c0].queue = Append(tx[c0].queue, p) /\ tx'[c0].partial = tx[c0].partial
  <2>1. tx[c0] = [queue |-> tx[c0].queue, partial |-> tx[c0].partial, count |-> tx[c0].count]
    BY DEF FlowInv, IndInv, Shape
  <2>2. tx'[c0] = [queue |-> Append(tx[c0].queue, p), partial |-> tx[c0].partial,
                   count |-> tx[c0].count]
    BY <1>5, <2>1
  <2> QED
    BY <2>2
<1>7. /\ sent'[c0] = Awaits(sent[c0], p) /\ sent' = [c \in Channels |-> sent'[c]]
      /\ \A c \in Channels \ {c0} : sent'[c] = sent[c]
  <2>1. CASE p.n > kMaxPacket
    BY <1>1, <1>4, <2>1 DEF Awaits
  <2>2. CASE ~(p.n > kMaxPacket)
    <3>1. sent' = [sent EXCEPT ![c0] = Append(@, p)]
      BY <1>1, <2>2
    <3>2. sent'[c0] = Append(sent[c0], p) /\ sent' = [c \in Channels |-> sent'[c]]
          /\ \A c \in Channels \ {c0} : sent'[c] = sent[c]
      BY <1>4, <3>1
    <3> QED
      BY <2>2, <3>2 DEF Awaits
  <2> QED
    BY <2>1, <2>2
<1>8. ASSUME NEW c \in Channels
      PROVE  Flows(c, tx'[c], air', rx'[c], gap'[c], sent'[c])
  <2>1. Flows(c, tx[c], air, rx[c], gap[c], sent[c])
    BY DEF FlowInv, Flowing
  <2>2. CASE c = c0
    <3>1. Unused(p.id, c, tx[c], air, rx[c])
      BY <1>1, <2>2, NotInFlight
    <3>2. PICK ch2 : ch2 = tx'[c]
      OBVIOUS
    <3>3. ch2.queue = Append(tx[c].queue, p) /\ ch2.partial = tx[c].partial
      BY <1>6, <2>2, <3>2
    <3>4. Flows(c, ch2, air, rx[c], gap[c], Awaits(sent[c], p))
      BY <1>3, <2>1, <3>1, <3>3, FlowsQueued, Zenon
    <3> QED
      BY <1>1, <1>7, <2>2, <3>2, <3>4, Zenon
  <2>3. CASE c # c0
    <3>1. tx'[c] = tx[c] /\ sent'[c] = sent[c]
      BY <1>5, <1>7, <2>3
    <3> QED
      BY <1>1, <2>1, <3>1, Zenon
  <2> QED
    BY <2>2, <2>3
<1>9. FlowInv'
  BY <1>2, <1>7, <1>8 DEF FlowInv, Flowing
<1>10. Link!Next
  <2>1. CASE p.n > kMaxPacket
    BY <1>1, <2>1, NothingHanded
  <2>2. CASE ~(p.n > kMaxPacket)
    <3>1. Link!Send(c0, p)
      BY <1>1, <2>2 DEF Link!Send, Nothing
    <3> QED
      BY <1>3, <3>1 DEF Link!Next
  <2> QED
    BY <2>1, <2>2
<1> QED
  BY <1>9, <1>10

(* The frames on their way are a sequence. *)
LEMMA AirSeq ==
  ASSUME FlowInv
  PROVE  \E S : air \in Seq(S)
BY DEF FlowInv, IndInv, Shape

(* NextFrame hands over nothing. *)
LEMMA NextFrameFlows ==
  ASSUME FlowInv, NextFrame
  PROVE  FlowInv' /\ Link!Next
<1> DEFINE c0 == Serve
           k == Taken(tx[c0])
           s == Filled(Stream(tx[c0])[k])
           f == [vc |-> c0, count |-> tx[c0].count, fhp |-> FirstHeaderPointer(tx[c0]),
                 data |-> SubSeq(s, 1, kFrameDataSize)]
           ch2 == [queue |-> SubSeq(tx[c0].queue, k + 1, Len(tx[c0].queue)),
                   partial |-> SubSeq(s, kFrameDataSize + 1, Len(s)),
                   count |-> NextCount(tx[c0].count)]
<1>1. /\ air' = Append(air, f) /\ tx' = [tx EXCEPT ![c0] = ch2]
      /\ out' = Nothing /\ rx' = rx /\ sent' = sent /\ gap' = gap
  BY DEF NextFrame
<1>2. c0 \in Channels
  BY Served DEF NextFrame
<1>3. IndInv'
  BY NextFrameInd DEF FlowInv
<1>4. k \in Nat
  BY <1>2, QueueTypes
<1>5. f.vc = c0 /\ MakesFrame(tx[c0], k, s, f, ch2)
  <2> HIDE DEF s, k, c0
  <2>1. /\ f.vc = c0 /\ f.fhp = FirstHeaderPointer(tx[c0])
        /\ f.data = SubSeq(s, 1, kFrameDataSize)
        /\ ch2.queue = SubSeq(tx[c0].queue, k + 1, Len(tx[c0].queue))
        /\ ch2.partial = SubSeq(s, kFrameDataSize + 1, Len(s))
    OBVIOUS
  <2> HIDE DEF f, ch2
  <2> QED
    BY <2>1 DEF MakesFrame
<1>6. k = Taken(tx[c0]) /\ s = Filled(Stream(tx[c0])[k])
  OBVIOUS
<1> HIDE DEF ch2, f, s, k, c0
<1>7. tx = [c \in Channels |-> tx[c]]
  BY DEF FlowInv, IndInv, Shape
<1>8. tx'[c0] = ch2 /\ \A c \in Channels \ {c0} : tx'[c] = tx[c]
  BY <1>1, <1>2, <1>7
<1>9. PICK S : air \in Seq(S)
  BY AirSeq
<1>10. ASSUME NEW c \in Channels
       PROVE  Flows(c, tx'[c], air', rx'[c], gap'[c], sent'[c])
  <2>1. Flows(c, tx[c], air, rx[c], gap[c], sent[c])
    BY DEF FlowInv, Flowing
  <2>2. CASE c = c0
    <3>1. PICK ch : ch = tx[c]
      OBVIOUS
    <3>2. /\ Flows(c, ch, air, rx[c], gap[c], sent[c])
          /\ k = Taken(ch) /\ s = Filled(Stream(ch)[k])
          /\ f.vc = c /\ MakesFrame(ch, k, s, f, ch2)
      BY <1>5, <1>6, <2>1, <2>2, <3>1
    <3>3. Flows(c, ch2, Append(air, f), rx[c], gap[c], sent[c])
      BY <1>4, <1>9, <3>2, FlowsSent, Zenon
    <3> QED
      BY <1>1, <1>8, <2>2, <3>3, Zenon
  <2>3. CASE c # c0
    <3>1. f.vc # c
      BY <1>5, <2>3
    <3>2. Flows(c, tx[c], Append(air, f), rx[c], gap[c], sent[c])
      BY <1>9, <2>1, <3>1, FlowsFramed, Zenon
    <3>3. tx'[c] = tx[c]
      BY <1>8, <2>3
    <3> QED
      BY <1>1, <3>2, <3>3, Zenon
  <2> QED
    BY <2>2, <2>3
<1>11. FlowInv'
  <2>1. Flowing'
    BY <1>10 DEF Flowing
  <2>2. sent' = [c \in Channels |-> sent'[c]]
    BY <1>1 DEF FlowInv
  <2> QED
    BY <1>3, <2>1, <2>2 DEF FlowInv
<1>12. Link!Next
  BY <1>1, <1>2, NothingHanded
<1> QED
  BY <1>11, <1>12

(* Lose loses the packets the frame carried and no other. *)
LEMMA LoseFlows ==
  ASSUME FlowInv, Lose
  PROVE  FlowInv' /\ Link!Next
<1> SUFFICES ASSUME NEW f, f = Head(air), NEW c0, c0 = f.vc
             PROVE  FlowInv' /\ Link!Next
  OBVIOUS
<1>1. /\ air # <<>> /\ air' = Tail(air) /\ out' = Nothing /\ tx' = tx /\ rx' = rx
      /\ gap' = [gap EXCEPT ![c0] = @ + 1]
      /\ sent' = [sent EXCEPT ![c0] = SubSeq(@, Hit(@, f) + 1, Len(@))]
  BY DEF Lose
<1>2. c0 \in Channels
  BY <1>1, HeadIsDue DEF FlowInv
<1>3. IndInv'
  BY LoseInd DEF FlowInv
<1>4. /\ gap \in [Channels -> 0 .. CountMod - 1] /\ sent = [c \in Channels |-> sent[c]]
      /\ \A c \in Channels : gap[c] \in Nat
  BY Width DEF FlowInv, IndInv, Shape
<1>5. PICK S : air \in Seq(S)
  BY AirSeq
<1>6. PICK n : n = Hit(sent[c0], f)
  OBVIOUS
<1>7. sent' = [sent EXCEPT ![c0] = SubSeq(@, n + 1, Len(@))]
  BY <1>1, <1>6
<1>8. /\ gap'[c0] = gap[c0] + 1 /\ sent'[c0] = SubSeq(sent[c0], n + 1, Len(sent[c0]))
      /\ \A c \in Channels \ {c0} : gap'[c] = gap[c] /\ sent'[c] = sent[c]
      /\ sent' = [c \in Channels |-> sent'[c]]
  BY <1>1, <1>2, <1>4, <1>7
<1>9. /\ sent[c0] \in Seq(Packets) /\ n \in 0 .. Len(sent[c0])
      /\ Flows(c0, tx[c0], Tail(air), rx[c0], gap[c0] + 1,
               SubSeq(sent[c0], n + 1, Len(sent[c0])))
  <2>1. Flows(c0, tx[c0], air, rx[c0], gap[c0], sent[c0])
    BY <1>2 DEF FlowInv, Flowing
  <2>2. PICK w, g : g \in Nat /\ w = sent[c0] /\ g = gap[c0]
    BY <1>2, <1>4
  <2>3. Flows(c0, tx[c0], air, rx[c0], g, w) /\ Head(air).vc = c0
    BY <2>1, <2>2
  <2>4. /\ w \in Seq(Packets) /\ Hit(w, Head(air)) \in 0 .. Len(w)
        /\ Flows(c0, tx[c0], Tail(air), rx[c0], g + 1, SubSeq(w, Hit(w, Head(air)) + 1, Len(w)))
    BY <1>1, <1>5, <2>2, <2>3, FlowsLost
  <2>5. n = Hit(w, Head(air))
    BY <1>6, <2>2
  <2> QED
    BY <2>2, <2>4, <2>5, Zenon
<1>10. ASSUME NEW c \in Channels
       PROVE  Flows(c, tx'[c], air', rx'[c], gap'[c], sent'[c])
  <2>1. CASE c = c0
    BY <1>1, <1>8, <1>9, <2>1, Zenon
  <2>2. CASE c # c0
    <3>1. Flows(c, tx[c], air, rx[c], gap[c], sent[c]) /\ Head(air).vc # c
      BY <2>2 DEF FlowInv, Flowing
    <3>2. Flows(c, tx[c], Tail(air), rx[c], gap[c], sent[c])
      BY <1>1, <1>5, <3>1, FlowsPassed, Zenon
    <3>3. gap'[c] = gap[c] /\ sent'[c] = sent[c]
      BY <1>8, <2>2
    <3> QED
      BY <1>1, <3>2, <3>3, Zenon
  <2> QED
    BY <2>1, <2>2
<1>11. FlowInv'
  <2>1. Flowing'
    BY <1>10 DEF Flowing
  <2> QED
    BY <1>3, <1>8, <2>1 DEF FlowInv
<1>12. Link!Next
  <2>1. n <= Len(sent[c0])
    BY <1>9
  <2>2. Link!Lose(c0, n)
    BY <1>1, <1>7, <2>1 DEF Link!Lose, Nothing
  <2> QED
    BY <1>2, <1>9, <2>2 DEF Link!Next
<1> QED
  BY <1>11, <1>12

(* The counter of the oldest frame tells whether frames of its channel     *)
(* were lost before it: by CountersRunOn, as long as fewer than CountMod   *)
(* in a row are lost.                                                      *)
LEMMA HeadTells ==
  ASSUME IndInv, air # <<>>
  PROVE  Tells(Head(air), rx[Head(air).vc], gap[Head(air).vc])
<1> SUFFICES ASSUME NEW f, f = Head(air), NEW c, c = f.vc
             PROVE  Tells(f, rx[c], gap[c])
  OBVIOUS
<1>1. /\ f = air[1] /\ c \in Channels
      /\ known(c) => f.count = due(c)
  BY HeadIsDue
<1>2. rx[c].expected \in 0 .. CountMod - 1 /\ gap[c] \in 0 .. CountMod - 1
  BY <1>1 DEF IndInv, Shape
<1>3. PICK x \in 0 .. CountMod - 1, y \in 0 .. CountMod - 1 :
        x = rx[c].expected /\ y = gap[c]
  BY <1>2
<1>4. rx[c].have_count => (f.count # x <=> y # 0)
  <2> SUFFICES ASSUME rx[c].have_count PROVE f.count # x <=> y # 0
    OBVIOUS
  <2>1. PICK z \in 0 .. 2 * CountMod - 1 : z = x + y
    BY <1>3, Width
  <2>2. f.count = z % CountMod
    <3>1. f.count = due(c)
      BY <1>1 DEF known
    <3>2. due(c) = (x + y) % CountMod
      BY <1>3 DEF due
    <3> QED
      BY <2>1, <3>1, <3>2
  <2>3. f.count = IF z < CountMod THEN z ELSE z - CountMod
    BY <2>2, Wrapped
  <2> QED
    <3>1. CASE z < CountMod
      <4>1. f.count = x + y
        BY <2>1, <2>3, <3>1
      <4> QED
        BY <1>3, <4>1
    <3>2. CASE ~(z < CountMod)
      <4>1. f.count = z - CountMod
        BY <2>3, <3>2
      <4>2. z - CountMod < x /\ y # 0 /\ z - CountMod \in Int
        <5>1. CountMod \in Nat
          BY Width
        <5>2. z - CountMod < x /\ y # 0
          BY <1>3, <2>1, <3>2, <5>1
        <5> QED
          BY <5>1, <5>2
      <4> QED
        BY <1>3, <4>1, <4>2
    <3> QED
      BY <3>1, <3>2
<1> QED
  BY <1>3, <1>4 DEF Tells, Gap

(* Receive hands over the oldest packets of its channel, whole, in order   *)
(* and once.                                                               *)
LEMMA ReceiveFlows ==
  ASSUME FlowInv, Receive
  PROVE  FlowInv' /\ Link!Next
<1> SUFFICES ASSUME NEW f, f = Head(air), NEW c0, c0 = f.vc
             PROVE  FlowInv' /\ Link!Next
  OBVIOUS
<1> DEFINE found == FoundIn(rx[c0], f)
           n == Len(found.packets)
           rc2 == [buffer |-> found.buffer, synced |-> found.synced, have_count |-> TRUE,
                   expected |-> NextCount(f.count)]
<1>1. /\ air # <<>> /\ air' = Tail(air) /\ tx' = tx /\ rx' = [rx EXCEPT ![c0] = rc2]
      /\ out'.packets = [i \in 1 .. n |-> <<c0, Packet(found.packets[i])>>]
      /\ sent' = [sent EXCEPT ![c0] = SubSeq(@, n + 1, Len(@))]
      /\ gap' = [gap EXCEPT ![c0] = 0]
  BY Zenon DEF Receive, Push, FoundIn
<1>2. Keeps(rc2, found)
  <2> HIDE DEF found
  <2> QED
    BY DEF Keeps
<1>3. found = FoundIn(rx[c0], f) /\ n = Len(found.packets)
  OBVIOUS
<1> HIDE DEF found, n, rc2
<1>4. c0 \in Channels
  BY <1>1, HeadIsDue DEF FlowInv
<1>5. IndInv'
  BY ReceiveInd DEF FlowInv
<1>6. /\ gap \in [Channels -> 0 .. CountMod - 1] /\ sent = [c \in Channels |-> sent[c]]
      /\ rx = [c \in Channels |-> rx[c]] /\ \A c \in Channels : gap[c] \in Nat
  BY Width DEF FlowInv, IndInv, Shape
<1>7. PICK S : air \in Seq(S)
  BY AirSeq
<1>8. /\ gap'[c0] = 0 /\ sent'[c0] = SubSeq(sent[c0], n + 1, Len(sent[c0])) /\ rx'[c0] = rc2
      /\ \A c \in Channels \ {c0} : gap'[c] = gap[c] /\ sent'[c] = sent[c] /\ rx'[c] = rx[c]
      /\ sent' = [c \in Channels |-> sent'[c]]
  BY <1>1, <1>4, <1>6
<1>9. /\ HandedOver(found, sent[c0], n)
      /\ Flows(c0, tx[c0], Tail(air), rc2, 0, SubSeq(sent[c0], n + 1, Len(sent[c0])))
  <2>1. Flows(c0, tx[c0], air, rx[c0], gap[c0], sent[c0])
    BY <1>4 DEF FlowInv, Flowing
  <2>2. PICK w, g, rc : /\ g \in Nat /\ w = sent[c0] /\ g = gap[c0] /\ rc = rx[c0]
    BY <1>4, <1>6
  <2>3. Flows(c0, tx[c0], air, rc, g, w) /\ Head(air).vc = c0
    BY <2>1, <2>2
  <2>4. Tells(Head(air), rc, g)
    BY <1>1, <2>2, HeadTells DEF FlowInv
  <2>5. found = FoundIn(rc, Head(air))
    BY <1>3, <2>2
  <2>6. /\ HandedOver(found, w, Len(found.packets))
        /\ Flows(c0, tx[c0], Tail(air), rc2, 0, SubSeq(w, Len(found.packets) + 1, Len(w)))
    BY <1>1, <1>2, <1>7, <2>2, <2>3, <2>4, <2>5, FlowsReceived, Zenon
  <2> QED
    BY <1>3, <2>2, <2>6, Zenon
<1>10. ASSUME NEW c \in Channels
       PROVE  Flows(c, tx'[c], air', rx'[c], gap'[c], sent'[c])
  <2>1. CASE c = c0
    BY <1>1, <1>8, <1>9, <2>1, Zenon
  <2>2. CASE c # c0
    <3>1. Flows(c, tx[c], air, rx[c], gap[c], sent[c]) /\ Head(air).vc # c
      BY <2>2 DEF FlowInv, Flowing
    <3>2. Flows(c, tx[c], Tail(air), rx[c], gap[c], sent[c])
      BY <1>1, <1>7, <3>1, FlowsPassed, Zenon
    <3>3. gap'[c] = gap[c] /\ sent'[c] = sent[c] /\ rx'[c] = rx[c]
      BY <1>8, <2>2
    <3> QED
      BY <1>1, <3>2, <3>3, Zenon
  <2> QED
    BY <2>1, <2>2
<1>11. FlowInv'
  <2>1. Flowing'
    BY <1>10 DEF Flowing
  <2> QED
    BY <1>5, <1>8, <2>1 DEF FlowInv
<1>12. Link!Next
  <2>1. n \in 0 .. Len(sent[c0]) /\ n <= Len(sent[c0]) /\ sent[c0] \in Seq(Packets)
    BY <1>9 DEF HandedOver
  <2>2. ASSUME NEW i \in 1 .. n
        PROVE  Packet(found.packets[i]) = sent[c0][i]
    <3>1. found.packets[i] = Bytes(sent[c0][i])
      BY <1>9 DEF HandedOver
    <3>2. sent[c0][i] \in Packets
      BY <2>1
    <3> QED
      BY <3>1, <3>2, PacketBytes
  <2>3. out'.packets = [i \in 1 .. n |-> <<c0, sent[c0][i]>>]
    BY <1>1, <2>2
  <2>4. Link!HandOver(c0, n)
    BY <1>1, <2>1, <2>3 DEF Link!HandOver
  <2> QED
    BY <1>4, <2>1, <2>4 DEF Link!Next
<1> QED
  BY <1>11, <1>12

(* Every step keeps the invariant and is a step of the link or leaves it   *)
(* alone.                                                                  *)
LEMMA StepFlows ==
  ASSUME FlowInv, [Next]_vars
  PROVE  FlowInv' /\ [Link!Next]_(Link!vars)
<1>1. ASSUME NEW c \in Channels, NEW p \in Offers[c], Enqueue(c, p)
      PROVE  FlowInv' /\ Link!Next
  BY <1>1, EnqueueFlows
<1>2. CASE NextFrame
  BY <1>2, NextFrameFlows
<1>3. CASE Lose
  BY <1>3, LoseFlows
<1>4. CASE Receive
  BY <1>4, ReceiveFlows
<1>5. CASE UNCHANGED vars
  <2>1. IndInv'
    BY NextInd DEF FlowInv
  <2>2. tx' = tx /\ air' = air /\ rx' = rx /\ gap' = gap /\ sent' = sent /\ out' = out
    BY <1>5 DEF vars
  <2>3. UNCHANGED Link!vars
    BY <2>2 DEF Link!vars
  <2>4. Flowing'
    BY <2>2 DEF FlowInv, Flowing
  <2>5. sent' = [c \in Channels |-> sent'[c]]
    BY <2>2 DEF FlowInv
  <2> QED
    BY <2>1, <2>3, <2>4, <2>5 DEF FlowInv
<1> QED
  BY <1>1, <1>2, <1>3, <1>4, <1>5 DEF Next

(* For any channels, packets, sizes and counter width, and however many    *)
(* frames are lost or on their way: the users of a channel get whole       *)
(* packets in the order they were queued, none twice, and a lost frame     *)
(* costs the packets it carried and no other.                              *)
THEOREM FramesImplementLink == Spec => ImplementsLink
<1>1. Init => FlowInv
  BY InitFlowing
<1>2. FlowInv /\ [Next]_vars => FlowInv' /\ [Link!Next]_(Link!vars)
  BY StepFlows
<1>3. Init => Link!Init
  BY DEF Init, Link!Init, Nothing
<1> QED
  BY <1>1, <1>2, <1>3, PTL DEF Spec, ImplementsLink, Link!Spec

-----------------------------------------------------------------------------
(* Telecommands and their verification (Ground).                           *)
Kinds == {"ping", "function", "report", "unknown"}
Reports ==
  [type : {"verification"}, nr : Nat, count : Nat, subtype : {1, 2, 7, 8}, failure : BOOLEAN]
    \cup [type : {"pong", "hk"}, nr : {0}, count : {0}]
Cells == {"...", "OK", "FAILED", "-"}
TcRows == [nr : Nat, acceptance : Cells, completion : Cells]
Commands == [count : Nat, sent : BOOLEAN, reported : SUBSET Nat,
             said : {None, "done", "rejected", "timeout"}]
Sessions == [mode : {"idle", "wait", "watch"}, nr : Nat, count : Nat, completed : BOOLEAN,
             pong : BOOLEAN]
Datagrams == [from : Stations \cup {None}, count : Nat, kind : Kinds, nr : Nat, ok : BOOLEAN]

GroundTypes ==
  /\ session \in [Clients -> Sessions]
  /\ next["python"] \in Nat
  /\ rows \in Seq(TcRows) /\ up \subseteq Datagrams
  /\ link \in Seq(Reports) /\ down \in [Stations -> Seq(Reports)]
  /\ log \in Seq(Commands)

(* All reports on their way. *)
Travelling == ToSet(link) \cup UNION {ToSet(down[s]) : s \in Stations}

(* A datagram or a report bears the count of the command it is about; one  *)
(* about no command bears a count that was read from no telecommand.       *)
DatagramTrue(d) == IF d.ok THEN d.nr \in DOMAIN log /\ log[d.nr].count = d.count ELSE d.nr = 0
ReportTrue(r) ==
  r.type = "verification" =>
    /\ r.failure <=> r.subtype \in {2, 8}
    /\ IF r.nr = 0 THEN r.subtype = 2 /\ r.count \in bogus
       ELSE /\ r.nr \in DOMAIN log /\ log[r.nr].count = r.count
            /\ r.subtype \in log[r.nr].reported
Truthful == (\A d \in up : DatagramTrue(d)) /\ \A r \in Travelling : ReportTrue(r)

(* Command k shares its count n, or what is on its way with this count is  *)
(* about k, or about none.                                                 *)
Own(n, k) ==
  \/ k \in shared
  \/ /\ \A d \in up : d.count = n => d.nr \in {0, k}
     /\ \A r \in Travelling : Bears(r, n) => r.nr \in {0, k}

Asking(e) ==
  /\ e.nr \in DOMAIN log /\ log[e.nr].count = e.count
  /\ e.completed => 7 \in Reported(e.nr)
  /\ Own(e.count, e.nr)
Awaited == \A c \in Clients : session[c].mode = "wait" => Asking(session[c])

Displayed == \A i \in DOMAIN rows : rows[i].nr \in DOMAIN log /\ RowTrue(rows[i])
RowOf(n) ==
  /\ tc_rows[n] \in DOMAIN rows
  /\ log[rows[tc_rows[n]].nr].count = n /\ Own(n, rows[tc_rows[n]].nr)
Found == \A n \in DOMAIN tc_rows : RowOf(n)

Verified == GroundTypes /\ Truthful /\ Awaited /\ Displayed /\ Found /\ OutcomeTrue

(* The history grows. *)
Grows ==
  /\ \A i \in DOMAIN log : /\ i \in DOMAIN log' /\ log'[i].count = log[i].count
                           /\ log[i].reported \subseteq log'[i].reported
                           /\ log'[i].sent = log[i].sent
  /\ bogus \subseteq bogus' /\ shared \subseteq shared'

LEMMA ReportedGrows ==
  ASSUME Grows, NEW i \in DOMAIN log
  PROVE  Reported(i) \subseteq Reported(i)'
<1> SUFFICES ASSUME NEW x \in Reported(i) PROVE x \in Reported(i)'
  OBVIOUS
<1>1. PICK j \in Namesakes(i) : x \in log[j].reported
  BY DEF Reported
<1>2. j \in DOMAIN log /\ j \in Namesakes(i)'
  BY DEF Namesakes, Grows
<1>3. x \in log'[j].reported
  BY <1>1, <1>2 DEF Grows
<1> QED
  BY <1>2, <1>3 DEF Reported

LEMMA OfNamesake ==
  ASSUME NEW i \in DOMAIN log, NEW j \in DOMAIN log,
         j = i \/ (i \in shared /\ log[j].count = log[i].count)
  PROVE  log[j].reported \subseteq Reported(i)
<1>1. j \in Namesakes(i)
  BY DEF Namesakes
<1> QED
  BY <1>1 DEF Reported

LEMMA Inside ==
  ASSUME NEW S, NEW s \in Seq(S)
  PROVE  ToSet(s) \subseteq S
BY DEF ToSet

LEMMA HeadTailInside ==
  ASSUME NEW S, NEW s \in Seq(S), s # <<>>
  PROVE  /\ Tail(s) \in Seq(S) /\ ToSet(Tail(s)) \subseteq ToSet(s)
         /\ Head(s) \in ToSet(s) /\ Head(s) \in S
<1>1. ToSet(Tail(s)) \subseteq ToSet(s)
  BY DEF ToSet
<1>2. Tail(s) \in Seq(S) /\ Head(s) \in S
  OBVIOUS
<1>3. 1 \in DOMAIN s /\ Head(s) = s[1]
  OBVIOUS
<1> QED
  BY <1>1, <1>2, <1>3 DEF ToSet

LEMMA ConcatInside ==
  ASSUME NEW S, NEW s \in Seq(S), NEW t \in Seq(S)
  PROVE  s \o t \in Seq(S) /\ ToSet(s \o t) \subseteq ToSet(s) \cup ToSet(t)
<1> SUFFICES ASSUME NEW i \in 1 .. Len(s) + Len(t)
             PROVE  (s \o t)[i] \in ToSet(s) \cup ToSet(t)
  BY DEF ToSet
<1>1. CASE i <= Len(s)
  BY <1>1 DEF ToSet
<1>2. CASE i > Len(s)
  <2>1. i - Len(s) \in 1 .. Len(t) /\ (s \o t)[i] = t[i - Len(s)]
    BY <1>2
  <2> QED
    BY <2>1 DEF ToSet
<1> QED
  BY <1>1, <1>2

(* The three ways the sets of reports change. *)
LEMMA PutIn ==
  ASSUME GroundTypes, NEW new \in Seq(Reports),
         \/ link' = link \o new /\ down' = down
         \/ link' = link /\ (down' = down \/ \E s : down' = [down EXCEPT ![s] = @ \o new])
  PROVE  /\ link' \in Seq(Reports) /\ down' \in [Stations -> Seq(Reports)]
         /\ Travelling' \subseteq Travelling \cup ToSet(new)
<1> USE ConcatInside DEF GroundTypes
<1>1. CASE link' = link \o new /\ down' = down
  <2>1. link' \in Seq(Reports) /\ ToSet(link') \subseteq ToSet(link) \cup ToSet(new)
    BY <1>1
  <2> QED
    BY <1>1, <2>1 DEF Travelling
<1>2. CASE link' = link /\ down' = down
  BY <1>2 DEF Travelling
<1>3. ASSUME link' = link, NEW s, down' = [down EXCEPT ![s] = @ \o new]
      PROVE  /\ link' \in Seq(Reports) /\ down' \in [Stations -> Seq(Reports)]
             /\ Travelling' \subseteq Travelling \cup ToSet(new)
  <2>1. ASSUME NEW x \in Stations
        PROVE  /\ down'[x] \in Seq(Reports)
               /\ ToSet(down'[x]) \subseteq ToSet(down[x]) \cup ToSet(new)
    BY <1>3, <2>1
  <2>2. down' \in [Stations -> Seq(Reports)]
    BY <1>3, <2>1
  <2> QED
    BY <1>3, <2>1, <2>2 DEF Travelling
<1> QED
  BY <1>1, <1>2, <1>3

LEMMA TakenOut ==
  ASSUME GroundTypes,
         \/ down' = down /\ (link' = link \/ (link # <<>> /\ link' = Tail(link)))
         \/ link' = link /\ \E s \in Stations : /\ down[s] # <<>>
                                                /\ down' = [down EXCEPT ![s] = Tail(@)]
  PROVE  /\ link' \in Seq(Reports) /\ down' \in [Stations -> Seq(Reports)]
         /\ Travelling' \subseteq Travelling
<1>1. CASE down' = down /\ (link' = link \/ (link # <<>> /\ link' = Tail(link)))
  <2>1. link' \in Seq(Reports) /\ ToSet(link') \subseteq ToSet(link)
    BY <1>1, HeadTailInside DEF GroundTypes
  <2> QED
    BY <1>1, <2>1 DEF Travelling, GroundTypes
<1>2. ASSUME link' = link, NEW s \in Stations, down[s] # <<>>, down' = [down EXCEPT ![s] = Tail(@)]
      PROVE  /\ link' \in Seq(Reports) /\ down' \in [Stations -> Seq(Reports)]
             /\ Travelling' \subseteq Travelling
  <2>1. ASSUME NEW x \in Stations
        PROVE  /\ down'[x] \in Seq(Reports)
               /\ ToSet(down'[x]) \subseteq ToSet(down[x])
    BY <1>2, <2>1, HeadTailInside DEF GroundTypes
  <2>2. down' \in [Stations -> Seq(Reports)]
    BY <1>2, <2>1 DEF GroundTypes
  <2> QED
    BY <1>2, <2>1, <2>2 DEF Travelling, GroundTypes
<1> QED
  BY <1>1, <1>2

(* Reports of commands and strays are true, and leave counts to their      *)
(* commands, when the only reports added answer datagrams.                 *)
LEMMA TruthKept ==
  ASSUME Truthful, Grows,
         \A d \in up' : d \in up \/ (~d.ok /\ d.nr = 0),
         \A r \in Travelling' :
           \/ r \in Travelling
           \/ r.type # "verification"
           \/ ReportTrue(r)' /\ \E d \in up : d.count = r.count /\ d.nr = r.nr
  PROVE  Truthful' /\ \A n, k : Own(n, k) => Own(n, k)'
<1>1. ASSUME NEW d, DatagramTrue(d) PROVE DatagramTrue(d)'
  BY <1>1 DEF DatagramTrue, Grows
<1>2. ASSUME NEW r, ReportTrue(r) PROVE ReportTrue(r)'
  BY <1>2 DEF ReportTrue, Grows
<1>3. ASSUME NEW d \in up' PROVE DatagramTrue(d)'
  <2>1. CASE d \in up
    BY <1>1, <2>1 DEF Truthful
  <2>2. CASE ~d.ok /\ d.nr = 0
    BY <2>2 DEF DatagramTrue
  <2> QED
    BY <2>1, <2>2
<1>4. ASSUME NEW r \in Travelling' PROVE ReportTrue(r)'
  <2>1. CASE r \in Travelling
    BY <1>2, <2>1 DEF Truthful
  <2>2. CASE r.type # "verification"
    BY <2>2 DEF ReportTrue
  <2> QED
    BY <2>1, <2>2
<1>5. ASSUME NEW n, NEW k, Own(n, k) PROVE Own(n, k)'
  BY <1>5 DEF Own, Bears, Grows
<1> QED
  BY <1>3, <1>4, <1>5 DEF Truthful

LEMMA AskingKept ==
  ASSUME Grows, NEW e, Asking(e), Own(e.count, e.nr)'
  PROVE  Asking(e)'
BY ReportedGrows DEF Asking, Grows

LEMMA RowKept ==
  ASSUME Grows, NEW row, row.nr \in DOMAIN log, RowTrue(row)
  PROVE  row.nr \in DOMAIN log' /\ RowTrue(row)'
BY ReportedGrows DEF Grows, RowTrue

(* What is on its way stays with the rows and with what a client waits for. *)
RowsOwn == \A n \in DOMAIN tc_rows : \A k : k = rows[tc_rows[n]].nr /\ Own(n, k) => Own(n, k)'
AskedOwn(c) ==
  \A e : e = session[c] /\ e.mode = "wait" /\ Own(e.count, e.nr) => Own(e.count, e.nr)'

LEMMA RowsKept ==
  ASSUME Grows, Displayed, Found, UNCHANGED <<rows, tc_rows>>, RowsOwn
  PROVE  Displayed' /\ Found'
<1>1. Displayed'
  BY RowKept DEF Displayed
<1>2. ASSUME NEW n \in DOMAIN tc_rows PROVE RowOf(n)'
  <2>1. PICK k : k = rows[tc_rows[n]].nr
    OBVIOUS
  <2>2. /\ tc_rows[n] \in DOMAIN rows /\ k \in DOMAIN log /\ log[k].count = n
        /\ Own(n, k)
    BY <2>1 DEF Found, RowOf, Displayed
  <2>3. Own(n, k)' /\ log'[k].count = n
    BY <2>1, <2>2 DEF RowsOwn, Grows
  <2> QED
    BY <2>1, <2>2, <2>3 DEF RowOf
<1> QED
  BY <1>1, <1>2 DEF Found

LEMMA OutcomesKept ==
  ASSUME Grows, OutcomeTrue, DOMAIN log' = DOMAIN log,
         \A i \in DOMAIN log : log'[i].said = log[i].said
  PROVE  OutcomeTrue'
BY ReportedGrows DEF Grows, OutcomeTrue

(* A step of the payload or of the network. *)
LEMMA OthersVerified ==
  ASSUME Verified, GroundTypes', Grows, UNCHANGED <<rows, tc_rows>>,
         \A c \in Clients : session'[c] = session[c] \/ session'[c].mode # "wait",
         DOMAIN log' = DOMAIN log, \A i \in DOMAIN log : log'[i].said = log[i].said,
         \A d \in up' : d \in up \/ (~d.ok /\ d.nr = 0),
         \A r \in Travelling' :
           \/ r \in Travelling
           \/ r.type # "verification"
           \/ ReportTrue(r)' /\ \E d \in up : d.count = r.count /\ d.nr = r.nr
  PROVE  Verified'
<1>1. Truthful' /\ \A n, k : Own(n, k) => Own(n, k)'
  BY TruthKept DEF Verified
<1>2. Displayed' /\ Found'
  BY <1>1, RowsKept DEF Verified, RowsOwn
<1>3. ASSUME NEW c \in Clients, session'[c].mode = "wait" PROVE Asking(session[c])'
  <2>1. PICK e : e = session[c]
    OBVIOUS
  <2>2. session'[c] = e /\ Asking(e)
    BY <1>3, <2>1 DEF Verified, Awaited
  <2>3. Own(e.count, e.nr)'
    BY <1>1, <2>2 DEF Asking
  <2>4. Asking(e)'
    BY <2>2, <2>3, AskingKept
  <2> QED
    BY <2>2, <2>4 DEF Asking
<1> QED
  BY <1>1, <1>2, <1>3, OutcomesKept DEF Verified, Awaited

(* A command begins: it shares its count if anything on its way bears it. *)
LEMMA NewCommand ==
  ASSUME Verified, NEW n \in Nat, NEW e \in Commands, NEW nr, nr = Len(log) + 1,
         e.count = n, e.said = None \/ (e.said = "rejected" /\ ~e.sent),
         log' = Append(log, e), UNCHANGED <<link, down, bogus>>, shared \subseteq shared',
         \/ up' = up
         \/ /\ OnItsWay(n) => nr \in shared'
            /\ \E d : /\ up' = up \cup {d} /\ d \in Datagrams
                      /\ d.count = n /\ d.nr = nr /\ d.ok
  PROVE  /\ Grows /\ Truthful' /\ OutcomeTrue'
         /\ up' \subseteq Datagrams /\ log' \in Seq(Commands)
         /\ \A m, k : Own(m, k) /\ (up' = up \/ m # n \/ k \in shared') => Own(m, k)'
         /\ nr \in DOMAIN log' /\ log'[nr] = e
         /\ up' = up \/ Own(n, nr)'
<1>1. /\ log' \in Seq(Commands) /\ Len(log) \in Nat /\ Len(log') = Len(log) + 1
      /\ \A i \in DOMAIN log : i \in DOMAIN log' /\ log'[i] = log[i]
      /\ DOMAIN log' = DOMAIN log \cup {Len(log) + 1} /\ log'[Len(log) + 1] = e
  BY DEF Verified, GroundTypes
<1>2. Grows
  BY <1>1 DEF Grows
<1>3. Travelling' = Travelling
  BY DEF Travelling
<1>4. OnItsWay(n) \/ /\ \A d \in up : d.count = n => d.nr = 0
                     /\ \A r \in Travelling : Bears(r, n) => r.nr = 0
  BY DEF OnItsWay, Travelling
<1>5. \A d \in up' : d \in up \/ (d.count = n /\ d.nr = nr /\ d.ok)
  OBVIOUS
<1>6. Truthful'
  <2>1. ASSUME NEW d \in up' PROVE DatagramTrue(d)'
    <3>1. CASE d \in up
      BY <1>1, <3>1 DEF DatagramTrue, Verified, Truthful
    <3>2. CASE d.count = n /\ d.nr = nr /\ d.ok
      BY <1>1, <3>2 DEF DatagramTrue
    <3> QED
      BY <1>5, <3>1, <3>2
  <2>2. ASSUME NEW r \in Travelling PROVE ReportTrue(r)'
    BY <1>1, <2>2 DEF ReportTrue, Verified, Truthful
  <2> QED
    BY <1>3, <2>1, <2>2 DEF Truthful
<1>7. OutcomeTrue'
  <2> SUFFICES ASSUME NEW i \in DOMAIN log'
               PROVE  /\ log'[i].said = "done" => 7 \in Reported(i)'
                      /\ log'[i].said = "rejected" =>
                           \/ ~log'[i].sent
                           \/ Reported(i)' \cap {2, 8} # {}
                           \/ log'[i].count \in bogus'
    BY DEF OutcomeTrue
  <2>1. CASE i \in DOMAIN log
    BY <1>1, <1>2, <2>1, ReportedGrows DEF OutcomeTrue, Verified
  <2>2. CASE i = Len(log) + 1
    BY <1>1, <2>2 DEF None
  <2> QED
    BY <1>1, <2>1, <2>2
<1>8. ASSUME NEW m, NEW k, Own(m, k), up' = up \/ m # n \/ k \in shared'
      PROVE  Own(m, k)'
  BY <1>3, <1>5, <1>8 DEF Own, Bears
<1>9. up' = up \/ Own(n, nr)'
  BY <1>3, <1>4, <1>5 DEF Own, Bears
<1>10. up' \subseteq Datagrams
  BY DEF Verified, GroundTypes
<1> QED
  BY <1>1, <1>2, <1>6, <1>7, <1>8, <1>9, <1>10

LEMMA CommandSent ==
  ASSUME Verified, NEW s \in Stations, NEW n \in Nat, NEW kind \in Kinds,
         Sends(s, n, kind), UNCHANGED <<link, down, bogus>>, NEW nr, nr = Len(log) + 1
  PROVE  /\ Grows /\ Truthful' /\ OutcomeTrue'
         /\ up' \subseteq Datagrams /\ log' \in Seq(Commands)
         /\ \A m, k : m # n /\ Own(m, k) => Own(m, k)'
         /\ nr \in Nat /\ nr \in DOMAIN log' /\ log'[nr].count = n
         /\ Own(n, nr)'
         /\ \A c \in Clients : AskedOwn(c)
         /\ s # "gs" => RowsOwn
<1>1. PICK e : e = Command(n)
  OBVIOUS
<1>2. PICK d : d = Datagram(s, n, kind)
  OBVIOUS
<1>3. Len(log) \in Nat
  BY DEF Verified, GroundTypes
<1>4. e \in Commands /\ e.count = n /\ e.said = None
  BY <1>1 DEF Command, Commands, None
<1>5. d \in Datagrams /\ d.count = n /\ d.nr = nr /\ d.ok
  BY <1>2, <1>3 DEF Datagram, Datagrams
<1>6. /\ up' = up \cup {d} /\ log' = Append(log, e)
      /\ shared' = shared \cup Sharing(s, n)
  BY <1>1, <1>2 DEF Sends
<1>7. OnItsWay(n) => nr \in shared'
  BY <1>6 DEF Sharing
<1>8. /\ Grows /\ Truthful' /\ OutcomeTrue'
      /\ up' \subseteq Datagrams /\ log' \in Seq(Commands)
      /\ \A m, k : Own(m, k) /\ (up' = up \/ m # n \/ k \in shared') => Own(m, k)'
      /\ nr \in DOMAIN log' /\ log'[nr] = e
      /\ up' = up \/ Own(n, nr)'
  BY <1>4, <1>5, <1>6, <1>7, NewCommand
<1>9. d \notin up
  <2>1. ASSUME d \in up PROVE FALSE
    <3>1. DatagramTrue(d) /\ log \in Seq(Commands)
      BY <2>1 DEF Verified, Truthful, GroundTypes
    <3> QED
      BY <1>3, <1>5, <3>1 DEF DatagramTrue
  <2> QED
    BY <2>1
<1>10. up' # up
  BY <1>6, <1>9
<1>11. ASSUME NEW c \in Clients PROVE AskedOwn(c)
  <2> SUFFICES ASSUME NEW x, x = session[c], x.mode = "wait", Own(x.count, x.nr)
               PROVE  Own(x.count, x.nr)'
    BY DEF AskedOwn
  <2>1. x.count = n => x.nr \in shared'
    BY <1>6 DEF Sharing
  <2> QED
    BY <1>8, <2>1
<1>12. ASSUME s # "gs" PROVE RowsOwn
  <2> SUFFICES ASSUME NEW m \in DOMAIN tc_rows, NEW k, k = rows[tc_rows[m]].nr, Own(m, k)
               PROVE  Own(m, k)'
    BY DEF RowsOwn
  <2>1. m = n => k \in shared'
    BY <1>6, <1>12 DEF Sharing
  <2> QED
    BY <1>8, <2>1
<1> QED
  BY <1>3, <1>4, <1>8, <1>10, <1>11, <1>12

LEMMA NextCounts ==
  ASSUME Verified, NEW s \in Stations, NEW n \in Numbers(s)
  PROVE  n \in Nat
BY GroundAssumption DEF Numbers, Stations, Verified, GroundTypes

LEMMA UsesKinds ==
  /\ \A u \in Uses : u[2] \in Kinds
  /\ Counts \in Nat \ {0}
BY GroundAssumption DEF Kinds

LEMMA WindowSendVerified ==
  ASSUME Verified, NEW kind \in Kinds, WindowSend(kind)
  PROVE  Verified'
<1>1. PICK n \in Numbers("gs") :
        OnTcSent(n) /\ Sends("gs", n, kind)
  BY DEF WindowSend
<1>2. UNCHANGED <<session, next, link, down, bogus>>
  BY DEF WindowSend, board
<1>3. "gs" \in Stations /\ n \in Nat /\ Len(log) \in Nat
  BY NextCounts DEF Stations, Verified, GroundTypes
<1>4. PICK nr : nr = Len(log) + 1
  OBVIOUS
<1>5. /\ Grows /\ Truthful' /\ OutcomeTrue'
      /\ up' \subseteq Datagrams /\ log' \in Seq(Commands)
      /\ \A m, k : m # n /\ Own(m, k) => Own(m, k)'
      /\ nr \in Nat /\ nr \in DOMAIN log' /\ log'[nr].count = n
      /\ Own(n, nr)'
      /\ \A c \in Clients : AskedOwn(c)
  BY <1>1, <1>2, <1>3, <1>4, CommandSent
<1>6. PICK row : row = [nr |-> nr, acceptance |-> "...", completion |-> "..."]
  OBVIOUS
<1>7. row \in TcRows /\ row.nr = nr /\ row.acceptance = "..." /\ row.completion = "..."
  BY <1>3, <1>4, <1>6 DEF TcRows, Cells
<1>8. /\ rows' = Append(rows, row)
      /\ tc_rows' = [x \in DOMAIN tc_rows \cup {n} |-> IF x = n THEN Len(rows) + 1 ELSE tc_rows[x]]
  BY <1>1, <1>4, <1>6 DEF OnTcSent
<1>9. /\ rows' \in Seq(TcRows) /\ Len(rows) \in Nat
      /\ DOMAIN rows' = DOMAIN rows \cup {Len(rows) + 1} /\ rows'[Len(rows) + 1] = row
      /\ \A i \in DOMAIN rows : rows'[i] = rows[i] /\ i # Len(rows) + 1
  BY <1>7, <1>8 DEF Verified, GroundTypes
<1>10. Displayed'
  <2>1. ASSUME NEW i \in DOMAIN rows PROVE rows'[i].nr \in DOMAIN log' /\ RowTrue(rows[i])'
    <3>1. PICK r : r = rows[i]
      OBVIOUS
    <3>2. r.nr \in DOMAIN log' /\ RowTrue(r)'
      BY <1>5, <2>1, <3>1, RowKept DEF Displayed, Verified
    <3> QED
      BY <1>9, <3>1, <3>2 DEF RowTrue
  <2>2. row.nr \in DOMAIN log' /\ RowTrue(row)'
    BY <1>5, <1>7 DEF RowTrue
  <2>3. PICK last : last = Len(rows) + 1
    OBVIOUS
  <2>4. RowTrue(rows[last])'
    BY <1>9, <2>2, <2>3 DEF RowTrue
  <2> QED
    BY <1>9, <2>1, <2>2, <2>3, <2>4 DEF Displayed
<1>11. ASSUME NEW x \in DOMAIN tc_rows' PROVE RowOf(x)'
  <2>1. CASE x = n
    <3>1. tc_rows'[x] \in DOMAIN rows' /\ rows'[tc_rows'[x]].nr = nr
      BY <1>7, <1>8, <1>9, <2>1
    <3>2. Own(x, nr)' /\ log'[nr].count = x
      BY <1>5, <2>1
    <3> QED
      BY <3>1, <3>2 DEF RowOf
  <2>2. CASE x # n
    <3>1. PICK k : k = rows[tc_rows[x]].nr
      OBVIOUS
    <3>2. x \in DOMAIN tc_rows /\ RowOf(x) /\ tc_rows'[x] = tc_rows[x]
      BY <1>8, <2>2 DEF Verified, Found
    <3>3. k \in DOMAIN log /\ log[k].count = x /\ Own(x, k)
      BY <3>1, <3>2 DEF RowOf, Verified, Displayed
    <3>4. Own(x, k)' /\ log'[k].count = x
      BY <1>5, <2>2, <3>3 DEF Grows
    <3>5. rows'[tc_rows'[x]].nr = k /\ tc_rows'[x] \in DOMAIN rows'
      BY <1>9, <3>1, <3>2 DEF RowOf
    <3> QED
      BY <3>4, <3>5 DEF RowOf
  <2> QED
    BY <2>1, <2>2
<1>12. ASSUME NEW c \in Clients, session[c].mode = "wait" PROVE Asking(session[c])'
  <2>1. PICK x : x = session[c]
    OBVIOUS
  <2>2. session'[c] = x /\ Asking(x)
    BY <1>2, <1>12, <2>1 DEF Verified, Awaited
  <2>3. Own(x.count, x.nr)'
    BY <1>5, <1>12, <2>1, <2>2 DEF Asking, AskedOwn
  <2>4. Asking(x)'
    BY <1>5, <2>2, <2>3, AskingKept
  <2> QED
    BY <2>2, <2>4 DEF Asking
<1>13. GroundTypes'
  BY <1>2, <1>5, <1>9 DEF Verified, GroundTypes
<1> QED
  BY <1>2, <1>5, <1>10, <1>11, <1>12, <1>13 DEF Verified, Awaited, Found

LEMMA AskedKept ==
  ASSUME Verified, Grows, NEW c \in Clients, session'[c] = session[c], AskedOwn(c)
  PROVE  session[c].mode = "wait" => Asking(session[c])'
<1> SUFFICES ASSUME session[c].mode = "wait" PROVE Asking(session[c])'
  OBVIOUS
<1>1. PICK x : x = session[c]
  OBVIOUS
<1>2. session'[c] = x /\ Asking(x)
  BY <1>1 DEF Verified, Awaited
<1>3. Asking(x)'
  BY <1>1, <1>2, AskingKept DEF Asking, AskedOwn
<1> QED
  BY <1>2, <1>3 DEF Asking

(* A command of a client that waits, or of one that only looks on. *)
LEMMA ClientCommand ==
  ASSUME Verified, GroundTypes', Grows, Truthful', OutcomeTrue', UNCHANGED <<rows, tc_rows>>,
         RowsOwn, NEW c \in Clients, session'[c].mode = "wait" => Asking(session[c])',
         \A b \in Clients \ {c} : session'[b] = session[b] /\ AskedOwn(b)
  PROVE  Verified'
<1>1. Displayed' /\ Found'
  BY RowsKept DEF Verified
<1>2. ASSUME NEW b \in Clients, session'[b].mode = "wait" PROVE Asking(session[b])'
  <2>1. CASE b = c
    BY <1>2, <2>1
  <2>2. CASE b # c
    <3>1. session'[b] = session[b] /\ AskedOwn(b)
      BY <2>2
    <3>2. session[b].mode = "wait" => Asking(session[b])'
      BY <3>1, AskedKept
    <3> QED
      BY <1>2, <3>1, <3>2
  <2> QED
    BY <2>1, <2>2
<1> QED
  BY <1>1, <1>2 DEF Verified, Awaited

LEMMA ClientSendVerified ==
  ASSUME Verified, NEW kind \in Kinds, NEW c \in Clients,
         ClientSend(c, kind)
  PROVE  Verified'
<1>1. PICK n \in Numbers(c) :
        /\ Advance(c, n) /\ Sends(c, n, kind)
        /\ session' = [session EXCEPT ![c] = Waiting(c, n, kind)]
  BY DEF ClientSend
<1>2. UNCHANGED <<rows, tc_rows, link, down, bogus>>
  BY DEF ClientSend, board
<1>3. c \in Stations /\ c # "gs" /\ n \in Nat /\ Len(log) \in Nat
  BY NextCounts DEF Stations, Clients, Verified, GroundTypes
<1>4. PICK nr : nr = Len(log) + 1
  OBVIOUS
<1>5. /\ Grows /\ Truthful' /\ OutcomeTrue'
      /\ up' \subseteq Datagrams /\ log' \in Seq(Commands)
      /\ \A m, k : m # n /\ Own(m, k) => Own(m, k)'
      /\ nr \in Nat /\ nr \in DOMAIN log' /\ log'[nr].count = n
      /\ Own(n, nr)' /\ RowsOwn
      /\ \A b \in Clients : AskedOwn(b)
  BY <1>1, <1>2, <1>3, <1>4, CommandSent
<1>6. PICK x : x = Waiting(c, n, kind)
  OBVIOUS
<1>7. x \in Sessions /\ x.nr = nr /\ x.count = n /\ ~x.completed
  BY <1>3, <1>4, <1>6 DEF Waiting, Sessions
<1>8. session' = [session EXCEPT ![c] = x]
  BY <1>1, <1>6
<1>9. session' \in [Clients -> Sessions]
  BY <1>7, <1>8 DEF Verified, GroundTypes
<1>10. session'[c] = x
  BY <1>8 DEF Verified, GroundTypes
<1>11. next'["python"] \in Nat
  BY <1>1, <1>3, GroundAssumption DEF Advance, Verified, GroundTypes
<1>12. GroundTypes'
  BY <1>2, <1>5, <1>9, <1>11 DEF Verified, GroundTypes
<1>13. Asking(x)'
  <2>1. nr \in DOMAIN log' /\ log'[nr].count = n /\ Own(n, nr)'
    BY <1>5
  <2> QED
    BY <1>7, <2>1 DEF Asking
<1>14. Asking(session[c])'
  BY <1>10, <1>13 DEF Asking
<1>15. \A b \in Clients \ {c} : session'[b] = session[b]
  BY <1>8 DEF Verified, GroundTypes
<1> QED
  BY <1>1, <1>2, <1>3, <1>5, <1>12, <1>14, <1>15, ClientCommand

LEMMA SendFailsVerified ==
  ASSUME Verified, NEW kind \in Kinds, SendFails(kind)
  PROVE  Verified'
<1>1. PICK n \in Numbers("cli") :
        log' = Append(log, [Command(n) EXCEPT !.sent = FALSE, !.said = "rejected"])
  BY DEF SendFails
<1>2. UNCHANGED <<session, next, rows, tc_rows, up, link, down, bogus, shared>>
  BY DEF SendFails, board, stations
<1>3. "cli" \in Stations /\ "cli" \in Clients /\ n \in Nat /\ Len(log) \in Nat
  BY NextCounts DEF Stations, Clients, Verified, GroundTypes
<1>4. PICK nr : nr = Len(log) + 1
  OBVIOUS
<1>5. PICK e : e = [Command(n) EXCEPT !.sent = FALSE, !.said = "rejected"]
  OBVIOUS
<1>6. e \in Commands /\ e.count = n /\ e.said = "rejected" /\ ~e.sent
  <2> DEFINE no == FALSE
             yes == TRUE
  <2>1. e = [[count |-> n, sent |-> yes, reported |-> {}, said |-> "none"] EXCEPT !.sent = no, !.said = "rejected"]
    BY <1>5 DEF Command, None
  <2>2. ~no /\ no \in BOOLEAN
    OBVIOUS
  <2> HIDE DEF no, yes
  <2> QED
    BY <1>3, <2>1, <2>2 DEF Commands, Stations
<1>7. log' = Append(log, e)
  BY <1>1, <1>5
<1>8. /\ Grows /\ Truthful' /\ OutcomeTrue' /\ log' \in Seq(Commands)
      /\ \A m, k : Own(m, k) => Own(m, k)'
  BY <1>2, <1>3, <1>4, <1>6, <1>7, NewCommand
<1>9. RowsOwn /\ \A b \in Clients : AskedOwn(b)
  BY <1>8 DEF RowsOwn, AskedOwn
<1>10. GroundTypes'
  BY <1>2, <1>8 DEF Verified, GroundTypes
<1>11. session["cli"].mode = "wait" => Asking(session["cli"])'
  BY <1>2, <1>3, <1>8, <1>9, AskedKept
<1> QED
  BY <1>2, <1>3, <1>8, <1>9, <1>10, <1>11, ClientCommand

LEMMA WatchVerified ==
  ASSUME Verified, Watch
  PROVE  Verified'
<1>1. PICK n \in Numbers("cli") :
        /\ session' = [session EXCEPT !["cli"] = [NoCommand EXCEPT !.mode = "watch"]]
        /\ Sends("cli", n, "ping")
  BY DEF Watch
<1>2. UNCHANGED <<next, rows, tc_rows, link, down, bogus>>
  BY DEF Watch, board
<1>3. "cli" \in Stations /\ "cli" \in Clients /\ n \in Nat /\ Len(log) \in Nat
      /\ "ping" \in Kinds
  BY NextCounts DEF Stations, Clients, Verified, GroundTypes, Kinds
<1>4. PICK nr : nr = Len(log) + 1
  OBVIOUS
<1>5. /\ Grows /\ Truthful' /\ OutcomeTrue'
      /\ up' \subseteq Datagrams /\ log' \in Seq(Commands)
      /\ RowsOwn /\ \A b \in Clients : AskedOwn(b)
  BY <1>1, <1>2, <1>3, <1>4, CommandSent
<1>6. PICK x : x = [NoCommand EXCEPT !.mode = "watch"]
  OBVIOUS
<1>7. x \in Sessions /\ x.mode = "watch"
  <2> DEFINE no == FALSE
  <2>1. x = [[mode |-> "idle", nr |-> 0, count |-> 0, completed |-> no, pong |-> no]
               EXCEPT !.mode = "watch"]
    BY <1>6 DEF NoCommand
  <2>2. no \in BOOLEAN
    OBVIOUS
  <2> HIDE DEF no
  <2> QED
    BY <2>1, <2>2 DEF Sessions
<1>8. session' = [session EXCEPT !["cli"] = x]
  BY <1>1, <1>6
<1>9. /\ session' \in [Clients -> Sessions] /\ session'["cli"] = x
      /\ \A b \in Clients \ {"cli"} : session'[b] = session[b]
  BY <1>3, <1>7, <1>8 DEF Verified, GroundTypes
<1>10. GroundTypes'
  BY <1>2, <1>5, <1>9 DEF Verified, GroundTypes
<1> QED
  <2>1. session'["cli"].mode # "wait"
    BY <1>7, <1>9
  <2> QED
    BY <1>2, <1>3, <1>5, <1>9, <1>10, <2>1, ClientCommand

LEMMA VerificationForm ==
  ASSUME NEW d \in Datagrams, NEW v \in {1, 2, 7, 8}, NEW r, r = Verification(d, v)
  PROVE  /\ r \in Reports /\ r.type = "verification" /\ r.nr = d.nr /\ r.count = d.count
         /\ r.subtype = v /\ (r.failure <=> v \in {2, 8})
<1>1. PICK f \in BOOLEAN : f <=> v \in {2, 8}
  OBVIOUS
<1>2. f = (v \in {2, 8})
  BY <1>1
<1>3. r = [type |-> "verification", nr |-> d.nr, count |-> d.count, subtype |-> v, failure |-> f]
  BY <1>2 DEF Verification
<1>4. d.nr \in Nat /\ d.count \in Nat
  BY DEF Datagrams
<1> HIDE <1>2
<1> QED
  BY <1>1, <1>3, <1>4 DEF Reports

LEMMA OtherForms ==
  /\ Pong \in Reports /\ Pong.type = "pong"
  /\ Housekeeping \in Reports /\ Housekeeping.type = "hk"
BY DEF Pong, Housekeeping, Reports

(* What HandleTc answers is about the datagram. *)
AnswerTo(d, r) ==
  r.type = "verification" =>
    /\ r.nr = d.nr /\ r.count = d.count
    /\ r.failure <=> r.subtype \in {2, 8}
    /\ ~d.ok => r.subtype = 2
LEMMA AnswersForm ==
  ASSUME NEW d \in Datagrams, NEW reports \in Answers(d)
  PROVE  /\ reports \in Seq(Reports)
         /\ \A r \in ToSet(reports) : AnswerTo(d, r)
<1> DEFINE V(v) == Verification(d, v)
<1>1. \A v \in {1, 2, 7, 8} : /\ V(v) \in Reports /\ V(v).type = "verification"
                              /\ V(v).nr = d.nr /\ V(v).count = d.count
                              /\ V(v).subtype = v /\ (V(v).failure <=> v \in {2, 8})
  BY VerificationForm
<1>2. \/ ~d.ok /\ reports = <<V(2)>>
      \/ d.ok /\ \/ reports = <<V(2)>>
                 \/ reports = <<V(1), Pong, V(7)>>
                 \/ \E v \in {7, 8} : reports = <<V(1), V(v)>>
                 \/ reports = <<V(1), Housekeeping, V(7)>>
  BY DEF Answers, Datagrams, Kinds
<1> HIDE DEF V
<1>3. ASSUME NEW a, reports = <<a>>, a \in Reports, AnswerTo(d, a)
      PROVE  reports \in Seq(Reports) /\ \A r \in ToSet(reports) : AnswerTo(d, r)
  BY <1>3 DEF ToSet
<1>4. ASSUME NEW a, NEW b, reports = <<a, b>>, a \in Reports, AnswerTo(d, a),
             b \in Reports, AnswerTo(d, b)
      PROVE  reports \in Seq(Reports) /\ \A r \in ToSet(reports) : AnswerTo(d, r)
  BY <1>4 DEF ToSet
<1>5. ASSUME NEW a, NEW b, NEW c, reports = <<a, b, c>>, a \in Reports, AnswerTo(d, a),
             b \in Reports, AnswerTo(d, b), c \in Reports, AnswerTo(d, c)
      PROVE  reports \in Seq(Reports) /\ \A r \in ToSet(reports) : AnswerTo(d, r)
  BY <1>5 DEF ToSet
<1>6. AnswerTo(d, V(2)) /\ AnswerTo(d, Pong) /\ AnswerTo(d, Housekeeping)
  BY <1>1, OtherForms DEF AnswerTo
<1>7. d.ok => AnswerTo(d, V(1)) /\ AnswerTo(d, V(7)) /\ AnswerTo(d, V(8))
  BY <1>1 DEF AnswerTo
<1> QED
  BY <1>1, <1>2, <1>3, <1>4, <1>5, <1>6, <1>7, OtherForms

LEMMA EntryReplaced ==
  ASSUME NEW S, NEW s \in Seq(S), NEW i \in DOMAIN s, NEW e \in S,
         NEW t, t = [s EXCEPT ![i] = e]
  PROVE  /\ t \in Seq(S) /\ DOMAIN t = DOMAIN s /\ t[i] = e
         /\ \A j \in DOMAIN s \ {i} : t[j] = s[j]
OBVIOUS

LEMMA HandleTcVerified ==
  ASSUME Verified, NEW d \in up, HandleTc(d)
  PROVE  Verified'
<1>1. PICK reports \in Answers(d) :
        /\ EmitTm(reports, dest')
        /\ log' = IF d.ok THEN [log EXCEPT ![d.nr].reported = @ \cup Subtypes(reports)] ELSE log
  BY DEF HandleTc
<1>2. /\ UNCHANGED <<session, next, rows, tc_rows, shared>> /\ up' \subseteq up
      /\ bogus' = IF d.ok THEN bogus ELSE bogus \cup {d.count}
  BY DEF HandleTc, stations
<1>3. d \in Datagrams /\ DatagramTrue(d)
  BY DEF Verified, GroundTypes, Truthful
<1>4. reports \in Seq(Reports) /\ \A r \in ToSet(reports) : AnswerTo(d, r)
  BY <1>1, <1>3, AnswersForm
<1>5. /\ link' \in Seq(Reports) /\ down' \in [Stations -> Seq(Reports)]
      /\ Travelling' \subseteq Travelling \cup ToSet(reports)
  <2>1. \/ link' = link \o reports /\ down' = down
        \/ link' = link /\ (down' = down \/ \E s : down' = [down EXCEPT ![s] = @ \o reports])
    BY <1>1 DEF EmitTm, SendTm
  <2>2. GroundTypes
    BY DEF Verified
  <2> QED
    BY <1>4, <2>1, <2>2, PutIn
<1>6. ToSet(reports) \subseteq Reports
  BY <1>4, Inside
<1>7. \A r \in ToSet(reports) : r.type = "verification" => r.subtype \in Subtypes(reports)
  BY DEF ToSet, Subtypes
<1>8. Subtypes(reports) \subseteq Nat
  <2> SUFFICES ASSUME NEW i \in DOMAIN reports, reports[i].type = "verification"
               PROVE  reports[i].subtype \in Nat
    BY DEF Subtypes
  <2>1. reports[i] \in Reports
    BY <1>4
  <2> QED
    BY <2>1 DEF Reports
<1>9. /\ log' \in Seq(Commands) /\ DOMAIN log' = DOMAIN log
      /\ \A i \in DOMAIN log : /\ log'[i].count = log[i].count /\ log'[i].said = log[i].said
                               /\ log'[i].sent = log[i].sent
                               /\ log[i].reported \subseteq log'[i].reported
      /\ d.ok => Subtypes(reports) \subseteq log'[d.nr].reported
  <2>1. CASE ~d.ok
    BY <1>1, <2>1 DEF Verified, GroundTypes
  <2>2. CASE d.ok
    <3>1. PICK e : e = [log[d.nr] EXCEPT !.reported = @ \cup Subtypes(reports)]
      OBVIOUS
    <3>2. log \in Seq(Commands) /\ d.nr \in DOMAIN log /\ log[d.nr] \in Commands
      BY <1>3, <2>2 DEF DatagramTrue, Verified, GroundTypes
    <3>3. /\ e \in Commands /\ e.count = log[d.nr].count /\ e.said = log[d.nr].said
          /\ e.sent = log[d.nr].sent /\ e.reported = log[d.nr].reported \cup Subtypes(reports)
      BY <1>8, <3>1, <3>2 DEF Commands
    <3>4. log' = [log EXCEPT ![d.nr] = e]
      BY <1>1, <2>2, <3>1
    <3> QED
      BY <2>2, <3>2, <3>3, <3>4, EntryReplaced
  <2> QED
    BY <2>1, <2>2
<1>10. Grows
  BY <1>2, <1>9 DEF Grows
<1>11. GroundTypes'
  BY <1>2, <1>5, <1>9 DEF Verified, GroundTypes
<1>12. ASSUME NEW r \in ToSet(reports), r.type = "verification"
       PROVE  ReportTrue(r)' /\ d.count = r.count /\ d.nr = r.nr
  <2>1. /\ r.nr = d.nr /\ r.count = d.count /\ (r.failure <=> r.subtype \in {2, 8})
        /\ ~d.ok => r.subtype = 2
    BY <1>4, <1>12 DEF AnswerTo
  <2>2. CASE d.ok
    <3>1. d.nr \in DOMAIN log' /\ log'[d.nr].count = d.count /\ d.nr # 0
      BY <1>3, <1>9, <2>2 DEF DatagramTrue, Verified, GroundTypes
    <3>2. r.subtype \in log'[d.nr].reported
      BY <1>7, <1>9, <1>12, <2>2
    <3> QED
      BY <2>1, <3>1, <3>2 DEF ReportTrue
  <2>3. CASE ~d.ok
    <3>1. d.nr = 0 /\ d.count \in bogus'
      BY <1>2, <1>3, <2>3 DEF DatagramTrue
    <3> QED
      BY <2>1, <2>3, <3>1 DEF ReportTrue
  <2> QED
    BY <2>1, <2>2, <2>3
<1> QED
  BY <1>2, <1>5, <1>9, <1>10, <1>11, <1>12, OthersVerified

LEMMA StrayVerified ==
  ASSUME Verified, NEW n \in Nat, Stray(n)
  PROVE  Verified'
<1>1. PICK d : d = [from |-> None, count |-> n, kind |-> "unknown", nr |-> 0, ok |-> FALSE]
  OBVIOUS
<1>2. /\ up' = up \cup {d}
      /\ UNCHANGED <<session, next, rows, tc_rows, link, down, log, bogus, shared>>
  BY <1>1 DEF Stray, stations, board, history
<1>3. d \in Datagrams /\ ~d.ok /\ d.nr = 0
  BY <1>1 DEF Datagrams, Kinds
<1>4. GroundTypes' /\ Grows /\ Travelling' = Travelling
  BY <1>2, <1>3 DEF Verified, GroundTypes, Grows, Travelling
<1> QED
  BY <1>2, <1>3, <1>4, OthersVerified

LEMMA UpdateHousekeepingVerified ==
  ASSUME Verified, UpdateHousekeeping
  PROVE  Verified'
<1>1. PICK new : new = <<Housekeeping>>
  OBVIOUS
<1>2. UNCHANGED <<session, next, rows, tc_rows, up, log, bogus, shared>> /\ EmitTm(new, dest)
  BY <1>1 DEF UpdateHousekeeping, stations, history
<1>3. new \in Seq(Reports) /\ \A r \in ToSet(new) : r.type = "hk"
  BY <1>1, OtherForms DEF ToSet
<1>4. \/ link' = link \o new /\ down' = down
      \/ link' = link /\ (down' = down \/ \E s : down' = [down EXCEPT ![s] = @ \o new])
  BY <1>2 DEF EmitTm, SendTm
<1>5. GroundTypes
  BY DEF Verified
<1>6. /\ link' \in Seq(Reports) /\ down' \in [Stations -> Seq(Reports)]
      /\ Travelling' \subseteq Travelling \cup ToSet(new)
  BY <1>3, <1>4, <1>5, PutIn
<1>7. GroundTypes' /\ Grows
  BY <1>2, <1>5, <1>6 DEF GroundTypes, Grows
<1> QED
  BY <1>2, <1>3, <1>6, <1>7, OthersVerified

(* Nothing is added to what is on its way, and no history written. *)
LEMMA LessOnItsWay ==
  ASSUME Verified, UNCHANGED <<next, rows, tc_rows, log, bogus, shared>>,
         up' \subseteq up, link' \in Seq(Reports), down' \in [Stations -> Seq(Reports)],
         Travelling' \subseteq Travelling, session' \in [Clients -> Sessions],
         \A c \in Clients : session'[c] = session[c] \/ session'[c].mode # "wait"
  PROVE  Verified'
<1>1. GroundTypes' /\ Grows
  BY DEF Verified, GroundTypes, Grows
<1> QED
  BY <1>1, OthersVerified

LEMMA OnPacketVerified ==
  ASSUME Verified, OnPacket
  PROVE  Verified'
<1>1. /\ UNCHANGED <<session, next, rows, tc_rows, up, log, bogus, shared>>
      /\ link # <<>> /\ link' = Tail(link) /\ SendTm(dest, <<Head(link)>>)
  BY DEF OnPacket, stations, history
<1>2. GroundTypes
  BY DEF Verified
<1>3. PICK new : new = <<Head(link)>>
  OBVIOUS
<1>4. /\ link' \in Seq(Reports) /\ ToSet(link') \subseteq ToSet(link)
      /\ Head(link) \in ToSet(link) /\ Head(link) \in Reports
  BY <1>1, <1>2, HeadTailInside DEF GroundTypes
<1>5. new \in Seq(Reports) /\ ToSet(new) = {Head(link)}
  BY <1>3, <1>4 DEF ToSet
<1>6. down' \in [Stations -> Seq(Reports)]
      /\ \A s \in Stations : ToSet(down'[s]) \subseteq ToSet(down[s]) \cup {Head(link)}
  <2>1. CASE down' = down
    BY <1>2, <2>1 DEF GroundTypes
  <2>2. CASE down' = [down EXCEPT ![dest] = @ \o new]
    <3>1. ASSUME NEW s \in Stations
          PROVE  /\ down'[s] \in Seq(Reports)
                 /\ ToSet(down'[s]) \subseteq ToSet(down[s]) \cup {Head(link)}
      BY <1>2, <1>5, <2>2, <3>1, ConcatInside DEF GroundTypes
    <3> QED
      BY <1>2, <2>2, <3>1 DEF GroundTypes
  <2> QED
    BY <1>1, <1>3, <2>1, <2>2 DEF SendTm
<1>7. Travelling' \subseteq Travelling
  BY <1>4, <1>6 DEF Travelling
<1> QED
  BY <1>1, <1>2, <1>4, <1>6, <1>7, LessOnItsWay DEF GroundTypes

LEMMA LoseVerified ==
  ASSUME Verified, LoseDatagram
  PROVE  Verified'
<1>1. UNCHANGED <<session, next, rows, tc_rows, log, bogus, shared>>
  BY DEF LoseDatagram, stations, history
<1>2. GroundTypes
  BY DEF Verified
<1>3. /\ up' \subseteq up
      /\ \/ down' = down /\ (link' = link \/ (link # <<>> /\ link' = Tail(link)))
         \/ link' = link /\ \E s \in Stations : /\ down[s] # <<>>
                                                /\ down' = [down EXCEPT ![s] = Tail(@)]
  BY DEF LoseDatagram
<1>4. /\ link' \in Seq(Reports) /\ down' \in [Stations -> Seq(Reports)]
      /\ Travelling' \subseteq Travelling
  BY <1>2, <1>3, TakenOut
<1> QED
  BY <1>1, <1>2, <1>3, <1>4, LessOnItsWay DEF GroundTypes

LEMMA SwapInside ==
  ASSUME NEW S, NEW t \in Seq(S), Len(t) > 1, NEW u, u = <<t[2], t[1]>> \o SubSeq(t, 3, Len(t))
  PROVE  u \in Seq(S) /\ ToSet(u) \subseteq ToSet(t)
<1> DEFINE a == <<t[2], t[1]>>
           b == SubSeq(t, 3, Len(t))
<1>1. a \in Seq(S) /\ ToSet(a) \subseteq ToSet(t)
  BY DEF ToSet
<1>2. b \in Seq(S) /\ ToSet(b) \subseteq ToSet(t)
  BY DEF ToSet
<1>3. u = a \o b
  OBVIOUS
<1> HIDE DEF a, b
<1>4. u \in Seq(S) /\ ToSet(u) \subseteq ToSet(a) \cup ToSet(b)
  BY <1>1, <1>2, <1>3, ConcatInside
<1> QED
  BY <1>1, <1>2, <1>4

LEMMA OvertakeVerified ==
  ASSUME Verified, NEW s \in Stations, Overtake(s)
  PROVE  Verified'
<1>1. /\ UNCHANGED <<session, next, rows, tc_rows, up, link, log, bogus, shared>> /\ Len(down[s]) > 1
      /\ down' = [down EXCEPT ![s] = <<@[2], @[1]>> \o SubSeq(@, 3, Len(@))]
  BY DEF Overtake, stations, history, board
<1>2. GroundTypes
  BY DEF Verified
<1>3. PICK u : u = <<down[s][2], down[s][1]>> \o SubSeq(down[s], 3, Len(down[s]))
  OBVIOUS
<1>4. u \in Seq(Reports) /\ ToSet(u) \subseteq ToSet(down[s])
  BY <1>1, <1>2, <1>3, SwapInside DEF GroundTypes
<1>5. down' = [down EXCEPT ![s] = u]
  BY <1>1, <1>3
<1>6. /\ down' \in [Stations -> Seq(Reports)]
      /\ \A x \in Stations : ToSet(down'[x]) \subseteq ToSet(down[x])
  BY <1>2, <1>4, <1>5 DEF GroundTypes
<1>7. Travelling' \subseteq Travelling
  BY <1>1, <1>6 DEF Travelling
<1> QED
  BY <1>1, <1>2, <1>6, <1>7, LessOnItsWay DEF GroundTypes

(* What reading from a socket leaves, and what is read. *)
LEMMA Reading ==
  ASSUME Verified, NEW s \in Stations, down[s] # <<>>, link' = link,
         down' = down \/ down' = [down EXCEPT ![s] = Tail(@)]
  PROVE  /\ link' \in Seq(Reports) /\ down' \in [Stations -> Seq(Reports)]
         /\ Travelling' \subseteq Travelling
         /\ Head(down[s]) \in Reports /\ Head(down[s]) \in Travelling
<1>1. GroundTypes
  BY DEF Verified
<1>2. Head(down[s]) \in Reports /\ Head(down[s]) \in ToSet(down[s])
  BY <1>1, HeadTailInside DEF GroundTypes
<1>3. Head(down[s]) \in Travelling
  BY <1>2 DEF Travelling
<1> QED
  BY <1>1, <1>2, <1>3, TakenOut

LEMMA NoListenerVerified ==
  ASSUME Verified, NoListener
  PROVE  Verified'
<1>1. /\ UNCHANGED <<session, next, rows, tc_rows, up, link, log, bogus, shared>>
      /\ down["cli"] # <<>> /\ down' = [down EXCEPT !["cli"] = Tail(@)] /\ "cli" \in Stations
  BY DEF NoListener, stations, history, board, Stations
<1>2. /\ link' \in Seq(Reports) /\ down' \in [Stations -> Seq(Reports)]
      /\ Travelling' \subseteq Travelling
  BY <1>1, Reading
<1> QED
  BY <1>1, <1>2, LessOnItsWay DEF Verified, GroundTypes

LEMMA IdleSession == NoCommand \in Sessions /\ NoCommand.mode = "idle"
BY DEF NoCommand, Sessions

LEMMA EndWatchVerified ==
  ASSUME Verified, EndWatch
  PROVE  Verified'
<1>1. /\ UNCHANGED <<next, rows, tc_rows, up, link, down, log, bogus, shared>>
      /\ session' = [session EXCEPT !["cli"] = NoCommand]
  BY DEF EndWatch, history, board
<1>2. /\ session' \in [Clients -> Sessions]
      /\ \A c \in Clients : session'[c] = session[c] \/ session'[c].mode # "wait"
  BY <1>1, IdleSession DEF Verified, GroundTypes
<1>3. Travelling' = Travelling
  BY <1>1 DEF Travelling
<1> QED
  BY <1>1, <1>2, <1>3, LessOnItsWay DEF Verified, GroundTypes

(* A client that waits goes on waiting or ends, and says why. *)
LEMMA ClientSays ==
  ASSUME Verified, NEW c \in Clients, session[c].mode = "wait",
         NEW said \in {None, "done", "rejected", "timeout"},
         log' = [log EXCEPT ![session[c].nr].said = said],
         said = "done" => 7 \in Reported(session[c].nr),
         said = "rejected" => \/ Reported(session[c].nr) \cap {2, 8} # {}
                              \/ session[c].count \in bogus,
         NEW x \in Sessions, session' = [session EXCEPT ![c] = x],
         x.mode = "wait" => /\ x.nr = session[c].nr /\ x.count = session[c].count
                            /\ x.completed => 7 \in Reported(session[c].nr),
         UNCHANGED <<next, rows, tc_rows, bogus, shared>>, up' \subseteq up,
         link' \in Seq(Reports), down' \in [Stations -> Seq(Reports)],
         Travelling' \subseteq Travelling
  PROVE  Verified'
<1>1. PICK o : o = session[c]
  OBVIOUS
<1>2. PICK nr : nr = o.nr
  OBVIOUS
<1>3. Asking(o) /\ log \in Seq(Commands) /\ nr \in DOMAIN log /\ log[nr] \in Commands
  BY <1>1, <1>2 DEF Verified, Awaited, Asking, GroundTypes
<1>4. PICK e : e = [log[nr] EXCEPT !.said = said]
  OBVIOUS
<1>5. /\ e \in Commands /\ e.count = log[nr].count /\ e.said = said
      /\ e.sent = log[nr].sent /\ e.reported = log[nr].reported
  BY <1>3, <1>4 DEF Commands
<1>6. log' = [log EXCEPT ![nr] = e]
  BY <1>1, <1>2, <1>4
<1>7. /\ log' \in Seq(Commands) /\ DOMAIN log' = DOMAIN log /\ log'[nr] = e
      /\ \A i \in DOMAIN log \ {nr} : log'[i] = log[i]
  <2>1. PICK t : t = [log EXCEPT ![nr] = e]
    OBVIOUS
  <2>2. /\ t \in Seq(Commands) /\ DOMAIN t = DOMAIN log /\ t[nr] = e
        /\ \A i \in DOMAIN log \ {nr} : t[i] = log[i]
    BY <1>3, <1>5, <2>1, EntryReplaced
  <2>3. log' = t
    BY <1>6, <2>1
  <2> QED
    BY <2>2, <2>3
<1>8. Grows
  BY <1>5, <1>7 DEF Grows
<1>9. Truthful' /\ \A n, k : Own(n, k) => Own(n, k)'
  BY <1>8, TruthKept DEF Verified
<1>10. Displayed' /\ Found'
  BY <1>8, <1>9, RowsKept DEF Verified, RowsOwn
<1>11. OutcomeTrue'
  <2> SUFFICES ASSUME NEW i \in DOMAIN log
               PROVE  /\ log'[i].said = "done" => 7 \in Reported(i)'
                      /\ log'[i].said = "rejected" =>
                           \/ ~log'[i].sent
                           \/ Reported(i)' \cap {2, 8} # {}
                           \/ log'[i].count \in bogus'
    BY <1>7 DEF OutcomeTrue
  <2>0. Reported(i) \subseteq Reported(i)'
    BY <1>8, ReportedGrows
  <2>1. CASE i = nr
    <3>1. log'[i].said = said /\ log'[i].count = session[c].count
      BY <1>1, <1>3, <1>5, <1>7, <2>1, <1>2 DEF Asking
    <3>2. /\ said = "done" => 7 \in Reported(i)
          /\ said = "rejected" => \/ Reported(i) \cap {2, 8} # {}
                                  \/ session[c].count \in bogus'
      BY <1>1, <1>2, <2>1
    <3> QED
      BY <2>0, <3>1, <3>2
  <2>2. CASE i # nr
    <3>1. log'[i] = log[i] /\ bogus' = bogus
      BY <1>7, <2>2
    <3>2. /\ log[i].said = "done" => 7 \in Reported(i)
          /\ log[i].said = "rejected" =>
               \/ ~log[i].sent
               \/ Reported(i) \cap {2, 8} # {}
               \/ log[i].count \in bogus
      BY DEF Verified, OutcomeTrue
    <3> QED
      BY <2>0, <3>1, <3>2
  <2> QED
    BY <2>1, <2>2
<1>12. session' \in [Clients -> Sessions] /\ session'[c] = x
       /\ \A b \in Clients \ {c} : session'[b] = session[b]
  BY DEF Verified, GroundTypes
<1>13. ASSUME NEW b \in Clients, session'[b].mode = "wait" PROVE Asking(session[b])'
  <2>1. CASE b = c
    <3>1. /\ x.nr = o.nr /\ x.count = o.count
          /\ x.completed => 7 \in Reported(nr)
      BY <1>1, <1>2, <1>12, <1>13, <2>1
    <3>2. Own(x.count, x.nr)'
      BY <1>3, <1>9, <3>1 DEF Asking
    <3>3. x.nr \in DOMAIN log' /\ log'[x.nr].count = x.count /\ x.nr = nr
      BY <1>2, <1>3, <1>5, <1>7, <3>1 DEF Asking
    <3>4. Reported(nr) \subseteq Reported(nr)'
      BY <1>3, <1>8, ReportedGrows
    <3>5. x.completed => 7 \in Reported(x.nr)'
      BY <3>1, <3>3, <3>4
    <3>6. Asking(x)'
      BY <3>2, <3>3, <3>5 DEF Asking
    <3> QED
      BY <1>12, <2>1, <3>6 DEF Asking
  <2>2. CASE b # c
    <3>1. PICK y : y = session[b]
      OBVIOUS
    <3>2. session'[b] = y /\ Asking(y)
      BY <1>12, <1>13, <2>2, <3>1 DEF Verified, Awaited
    <3>3. Own(y.count, y.nr)'
      BY <1>9, <3>2 DEF Asking
    <3>4. Asking(y)'
      BY <1>8, <3>2, <3>3, AskingKept
    <3> QED
      BY <3>2, <3>4 DEF Asking
  <2> QED
    BY <2>1, <2>2
<1>14. GroundTypes'
  BY <1>7, <1>12 DEF Verified, GroundTypes
<1> QED
  BY <1>9, <1>10, <1>11, <1>13, <1>14 DEF Verified, Awaited

LEMMA TimeoutVerified ==
  ASSUME Verified, NEW c \in Clients, Timeout(c)
  PROVE  Verified'
<1>1. /\ session[c].mode = "wait" /\ session' = [session EXCEPT ![c] = NoCommand]
      /\ log' = [log EXCEPT ![session[c].nr].said = "timeout"]
      /\ UNCHANGED <<next, rows, tc_rows, up, link, down, bogus, shared>>
  BY DEF Timeout, board
<1>2. Travelling' = Travelling
  BY <1>1 DEF Travelling
<1>3. link' \in Seq(Reports) /\ down' \in [Stations -> Seq(Reports)]
  BY <1>1 DEF Verified, GroundTypes
<1> QED
  BY <1>1, <1>2, <1>3, IdleSession, ClientSays

(* A report that a client takes for its own is its own, or of a command    *)
(* that shares its count, or was read from no telecommand.                 *)
LEMMA OwnReport ==
  ASSUME Verified, NEW c \in Clients, session[c].mode = "wait",
         NEW r \in Travelling, r \in Reports, Mine(c, r)
  PROVE  /\ r.subtype \in {1, 2, 7, 8} /\ (r.failure <=> r.subtype \in {2, 8})
         /\ \/ r.subtype = 2 /\ session[c].count \in bogus
            \/ r.subtype \in Reported(session[c].nr)
<1>1. ReportTrue(r) /\ Asking(session[c])
  BY DEF Verified, Truthful, Awaited
<1>2. r.type = "verification" /\ r.count = session[c].count /\ r.subtype \in {1, 2, 7, 8}
  BY DEF Mine, Reports
<1>3. Own(session[c].count, session[c].nr)
  BY <1>1 DEF Asking
<1>4. r.nr \in {0, session[c].nr} \/ session[c].nr \in shared
  BY <1>2, <1>3 DEF Own, Bears
<1>5. ASSUME r.nr # 0 PROVE r.subtype \in Reported(session[c].nr)
  <2>1. /\ r.nr \in DOMAIN log /\ log[r.nr].count = r.count /\ r.subtype \in log[r.nr].reported
        /\ session[c].nr \in DOMAIN log /\ log[session[c].nr].count = r.count
    BY <1>1, <1>2, <1>5 DEF ReportTrue, Asking
  <2> QED
    BY <1>4, <1>5, <2>1, OfNamesake
<1> QED
  BY <1>1, <1>2, <1>5 DEF ReportTrue

LEMMA ReceiveVerified ==
  ASSUME Verified, NEW c \in Clients, ReceiveReport(c)
  PROVE  Verified'
<1>1. /\ UNCHANGED <<next, rows, tc_rows, up, link, bogus, shared>>
      /\ down[c] # <<>> /\ (down' = down \/ down' = [down EXCEPT ![c] = Tail(@)])
      /\ session[c].mode # "idle" /\ c \in Stations
  BY DEF ReceiveReport, Read1, board, Clients, Stations
<1>2. PICK r : r = Head(down[c])
  OBVIOUS
<1>3. /\ link' \in Seq(Reports) /\ down' \in [Stations -> Seq(Reports)]
      /\ Travelling' \subseteq Travelling /\ r \in Reports /\ r \in Travelling
  BY <1>1, <1>2, Reading
<1>4. session[c] \in Sessions
  BY DEF Verified, GroundTypes
<1>5. CASE session[c].mode = "watch"
  <2>1. UNCHANGED <<session, log>>
    BY <1>5 DEF ReceiveReport
  <2> QED
    BY <1>1, <1>3, <2>1, LessOnItsWay DEF Verified, GroundTypes
<1>6. CASE session[c].mode = "wait"
  <2>1. PICK said : said = Said(c, r)
    OBVIOUS
  <2>2. /\ session' = [session EXCEPT ![c] = IF said = None THEN After(c, r) ELSE NoCommand]
        /\ log' = [log EXCEPT ![session[c].nr].said = said]
    BY <1>2, <1>6, <2>1 DEF ReceiveReport
  <2>3. PICK done \in BOOLEAN :
          done <=> session[c].completed \/ (Mine(c, r) /\ r.subtype \in {7, 8})
    OBVIOUS
  <2>4. PICK pong \in BOOLEAN : pong <=> session[c].pong \/ r.type = "pong"
    OBVIOUS
  <2>5. PICK x : x = After(c, r)
    OBVIOUS
  <2>6. x = [session[c] EXCEPT !.completed = done, !.pong = pong]
    BY <1>4, <2>3, <2>4, <2>5 DEF After, Sessions
  <2>7. /\ x \in Sessions /\ x.nr = session[c].nr /\ x.count = session[c].count
        /\ x.completed = done
    BY <1>4, <2>6 DEF Sessions
  <2>8. /\ said \in {None, "done", "rejected"}
        /\ said = "rejected" => Mine(c, r) /\ Failed(c, r)
        /\ said = "done" => done /\ ~(Mine(c, r) /\ Failed(c, r))
        /\ said = None => ~(Mine(c, r) /\ Failed(c, r))
    BY <2>1, <2>5, <2>7 DEF Said, None
  <2>9. session[c].completed => 7 \in Reported(session[c].nr)
    BY <1>6 DEF Verified, Awaited, Asking
  <2>10. ASSUME Mine(c, r)
         PROVE  /\ Failed(c, r) <=> r.subtype \in {2, 8}
                /\ \/ r.subtype = 2 /\ session[c].count \in bogus
                   \/ r.subtype \in Reported(session[c].nr)
                /\ r.subtype \in {1, 2, 7, 8}
    BY <1>3, <1>6, <2>10, OwnReport DEF Failed, Success
  <2>11. said = "rejected" => \/ Reported(session[c].nr) \cap {2, 8} # {}
                              \/ session[c].count \in bogus
    BY <2>8, <2>10
  <2>12. ~(Mine(c, r) /\ Failed(c, r)) /\ done => 7 \in Reported(session[c].nr)
    BY <2>3, <2>9, <2>10
  <2>13. PICK y : y = IF said = None THEN x ELSE NoCommand
    OBVIOUS
  <2>14. /\ y \in Sessions
         /\ y.mode = "wait" => /\ y.nr = session[c].nr /\ y.count = session[c].count
                               /\ y.completed => 7 \in Reported(session[c].nr)
    BY <2>7, <2>8, <2>12, <2>13, IdleSession
  <2>15. session' = [session EXCEPT ![c] = y]
    BY <2>2, <2>5, <2>13
  <2> QED
    BY <1>1, <1>3, <1>6, <2>2, <2>8, <2>11, <2>12, <2>14, <2>15, ClientSays
<1> QED
  BY <1>1, <1>4, <1>5, <1>6 DEF Sessions

(* One cell, or two, of the row that a report leads to. *)
LEMMA VerificationShown ==
  ASSUME Verified, NEW r \in Travelling, r \in Reports, r.type = "verification",
         OnVerification(r)
  PROVE  /\ rows' \in Seq(TcRows) /\ DOMAIN rows' = DOMAIN rows
         /\ \A i \in DOMAIN rows : rows'[i].nr = rows[i].nr /\ RowTrue(rows'[i])
<1>1. rows \in Seq(TcRows) /\ Displayed /\ Found /\ ReportTrue(r)
  BY DEF Verified, GroundTypes, Truthful
<1>2. CASE r.count \notin DOMAIN tc_rows
  BY <1>1, <1>2 DEF OnVerification, Displayed
<1>3. CASE r.count \in DOMAIN tc_rows
  <2>1. PICK at : at = tc_rows[r.count]
    OBVIOUS
  <2>2. PICK row : row = rows[at]
    OBVIOUS
  <2>3. /\ at \in DOMAIN rows /\ row \in TcRows /\ row.nr \in DOMAIN log /\ RowTrue(row)
        /\ log[row.nr].count = r.count /\ (r.nr \in {0, row.nr} \/ row.nr \in shared)
    BY <1>1, <1>3, <2>1, <2>2 DEF Found, RowOf, Own, Displayed, Bears
  <2>4. /\ r.subtype \in {1, 2, 7, 8}
        /\ \/ r.subtype = 2 /\ log[row.nr].count \in bogus
           \/ r.subtype \in Reported(row.nr)
    <3>1. ASSUME r.nr # 0 PROVE r.subtype \in Reported(row.nr)
      <4>1. r.nr \in DOMAIN log /\ log[r.nr].count = r.count /\ r.subtype \in log[r.nr].reported
        BY <1>1, <3>1 DEF ReportTrue
      <4> QED
        BY <2>3, <3>1, <4>1, OfNamesake
    <3> QED
      BY <1>1, <2>3, <3>1 DEF ReportTrue, Reports
  <2>5. PICK v : v = IF Success(r) THEN "OK" ELSE "FAILED"
    OBVIOUS
  <2>6. PICK q : q = [row EXCEPT ![Column(r)] = v]
    OBVIOUS
  <2>7. Column(r) \in {"acceptance", "completion"} /\ v \in Cells
    BY <2>5 DEF Column, Cells
  <2>8. /\ q \in TcRows /\ q.nr = row.nr
        /\ q.acceptance = IF Column(r) = "acceptance" THEN v ELSE row.acceptance
        /\ q.completion = IF Column(r) = "completion" THEN v ELSE row.completion
    <3>1. PICK f : f = Column(r)
      OBVIOUS
    <3>2. q = [row EXCEPT ![f] = v] /\ f \in {"acceptance", "completion"}
      BY <2>6, <2>7, <3>1
    <3>3. /\ q \in TcRows /\ q.nr = row.nr
          /\ q.acceptance = IF f = "acceptance" THEN v ELSE row.acceptance
          /\ q.completion = IF f = "completion" THEN v ELSE row.completion
      <4>1. row \in TcRows /\ v \in Cells
        BY <2>3, <2>7
      <4>2. CASE f = "acceptance"
        BY <3>2, <4>1, <4>2 DEF TcRows
      <4>3. CASE f = "completion"
        BY <3>2, <4>1, <4>3 DEF TcRows
      <4> QED
        BY <3>2, <4>2, <4>3
    <3> QED
      BY <3>1, <3>3
  <2>9. PICK p : p = IF ~Success(r) /\ Column(r) = "acceptance"
                       THEN [q EXCEPT !.completion = "-"] ELSE q
    OBVIOUS
  <2>10. /\ p \in TcRows /\ p.nr = row.nr /\ p.acceptance = q.acceptance
         /\ p.completion = IF ~Success(r) /\ Column(r) = "acceptance"
                             THEN "-" ELSE q.completion
    BY <2>8, <2>9 DEF TcRows, Cells
  <2>11. rows' = [rows EXCEPT ![at] = p]
    <3>1. PICK shown : shown = [rows EXCEPT ![at] = q]
      OBVIOUS
    <3>2. shown = [rows EXCEPT ![at][Column(r)] = IF Success(r) THEN "OK" ELSE "FAILED"]
      BY <2>2, <2>5, <2>6, <3>1
    <3>3. rows' = IF ~Success(r) /\ Column(r) = "acceptance"
                    THEN [shown EXCEPT ![at].completion = "-"] ELSE shown
      BY <1>3, <2>1, <3>2 DEF OnVerification
    <3>4. shown[at] = q /\ [shown EXCEPT ![at] = p] = [rows EXCEPT ![at] = p]
      BY <1>1, <2>3, <3>1
    <3> QED
      BY <2>9, <3>1, <3>3, <3>4
  <2>12. /\ rows' \in Seq(TcRows) /\ DOMAIN rows' = DOMAIN rows /\ rows'[at] = p
         /\ \A i \in DOMAIN rows \ {at} : rows'[i] = rows[i]
    BY <1>1, <2>3, <2>10, <2>11, EntryReplaced
  <2>13. RowTrue(p)
    <3>1. CASE r.subtype = 1
      BY <2>3, <2>4, <2>5, <2>8, <2>10, <3>1 DEF RowTrue, Success, Column
    <3>2. CASE r.subtype = 2
      BY <2>3, <2>4, <2>5, <2>8, <2>10, <3>2 DEF RowTrue, Success, Column
    <3>3. CASE r.subtype = 7
      BY <2>3, <2>4, <2>5, <2>8, <2>10, <3>3 DEF RowTrue, Success, Column
    <3>4. CASE r.subtype = 8
      BY <2>3, <2>4, <2>5, <2>8, <2>10, <3>4 DEF RowTrue, Success, Column
    <3> QED
      BY <2>4, <3>1, <3>2, <3>3, <3>4
  <2>14. ASSUME NEW i \in DOMAIN rows PROVE rows'[i].nr = rows[i].nr /\ RowTrue(rows'[i])
    <3>1. CASE i = at
      BY <2>2, <2>10, <2>12, <2>13, <3>1
    <3>2. CASE i # at
      BY <1>1, <2>12, <3>2 DEF Displayed
    <3> QED
      BY <3>1, <3>2
  <2> QED
    BY <2>12, <2>14
<1> QED
  BY <1>2, <1>3

LEMMA OnReadyReadVerified ==
  ASSUME Verified, OnReadyRead
  PROVE  Verified'
<1>1. /\ UNCHANGED <<session, next, tc_rows, up, link, log, bogus, shared>> /\ "gs" \in Stations
      /\ down["gs"] # <<>> /\ (down' = down \/ down' = [down EXCEPT !["gs"] = Tail(@)])
  BY DEF OnReadyRead, Read1, board, Stations
<1>2. PICK r : r = Head(down["gs"])
  OBVIOUS
<1>3. /\ link' \in Seq(Reports) /\ down' \in [Stations -> Seq(Reports)]
      /\ Travelling' \subseteq Travelling /\ r \in Reports /\ r \in Travelling
  BY <1>1, <1>2, Reading
<1>4. IF r.type = "verification" THEN OnVerification(r) ELSE UNCHANGED rows
  BY <1>2 DEF OnReadyRead
<1>5. /\ rows' \in Seq(TcRows) /\ DOMAIN rows' = DOMAIN rows
      /\ \A i \in DOMAIN rows : rows'[i].nr = rows[i].nr /\ RowTrue(rows'[i])
  BY <1>3, <1>4, VerificationShown DEF Verified, GroundTypes, Displayed
<1>6. Grows
  BY <1>1 DEF Grows
<1>7. Truthful' /\ \A n, k : Own(n, k) => Own(n, k)'
  BY <1>1, <1>3, <1>6, TruthKept DEF Verified
<1>8. Displayed'
  <2> SUFFICES ASSUME NEW i \in DOMAIN rows
               PROVE  rows'[i].nr \in DOMAIN log' /\ RowTrue(rows[i])'
    BY <1>5 DEF Displayed
  <2>1. PICK row : row = rows'[i]
    OBVIOUS
  <2>2. row.nr \in DOMAIN log /\ RowTrue(row)
    BY <1>5, <2>1 DEF Verified, Displayed
  <2>3. row.nr \in DOMAIN log' /\ RowTrue(row)'
    BY <1>6, <2>2, RowKept
  <2> QED
    BY <2>1, <2>3 DEF RowTrue
<1>9. ASSUME NEW n \in DOMAIN tc_rows PROVE RowOf(n)'
  <2>1. RowOf(n)
    BY DEF Verified, Found
  <2>2. PICK k : k = rows[tc_rows[n]].nr
    OBVIOUS
  <2>3. Own(n, k)' /\ log[k].count = n /\ tc_rows[n] \in DOMAIN rows
    BY <1>7, <2>1, <2>2 DEF RowOf
  <2>4. rows'[tc_rows'[n]].nr = k
    BY <1>1, <1>5, <2>2, <2>3
  <2> QED
    BY <1>1, <1>5, <2>3, <2>4 DEF RowOf
<1>10. ASSUME NEW c \in Clients, session[c].mode = "wait" PROVE Asking(session[c])'
  <2>1. PICK y : y = session[c]
    OBVIOUS
  <2>2. session'[c] = y /\ Asking(y)
    BY <1>1, <1>10, <2>1 DEF Verified, Awaited
  <2>3. Own(y.count, y.nr)'
    BY <1>7, <2>2 DEF Asking
  <2>4. Asking(y)'
    BY <1>6, <2>2, <2>3, AskingKept
  <2> QED
    BY <2>2, <2>4 DEF Asking
<1>11. GroundTypes' /\ OutcomeTrue'
  BY <1>1, <1>3, <1>5, <1>6, OutcomesKept DEF Verified, GroundTypes
<1> QED
  BY <1>1, <1>7, <1>8, <1>9, <1>10, <1>11 DEF Verified, Found, Awaited

LEMMA VerifiedInductive ==
  /\ GroundInit => Verified
  /\ Verified /\ [GroundNext]_groundVars => Verified'
<1>1. ASSUME GroundInit PROVE Verified
  <2>1. /\ rows = <<>> /\ log = <<>> /\ tc_rows = <<>> /\ up = {} /\ link = <<>>
        /\ down = [s \in Stations |-> <<>>] /\ session = [c \in Clients |-> NoCommand]
    BY <1>1 DEF GroundInit
  <2>2. next["python"] \in Nat
    BY <1>1, GroundAssumption DEF GroundInit
  <2>3. GroundTypes
    BY <2>1, <2>2, IdleSession DEF GroundTypes
  <2>4. Travelling = {}
    BY <2>1 DEF Travelling, ToSet
  <2>5. Truthful
    BY <2>1, <2>4 DEF Truthful
  <2>6. Awaited
    BY <2>1, IdleSession DEF Awaited
  <2>7. DOMAIN rows = {} /\ DOMAIN log = {} /\ DOMAIN tc_rows = {}
    BY <2>1
  <2>8. Displayed /\ Found /\ OutcomeTrue
    BY <2>7 DEF Displayed, Found, OutcomeTrue
  <2> QED
    BY <2>3, <2>5, <2>6, <2>8 DEF Verified
<1>2. ASSUME Verified, [GroundNext]_groundVars PROVE Verified'
  <2>1. ASSUME NEW k \in {u[2] : u \in Uses},
               WindowSend(k) \/ SendFails(k) \/ \E c \in Clients : ClientSend(c, k)
        PROVE  Verified'
    <3>1. k \in Kinds
      BY UsesKinds
    <3> QED
      BY <1>2, <2>1, <3>1, WindowSendVerified, SendFailsVerified, ClientSendVerified
  <2>2. ASSUME NEW n \in 0 .. Counts - 1, Stray(n) PROVE Verified'
    <3>1. n \in Nat
      BY GroundAssumption
    <3> QED
      BY <1>2, <2>2, <3>1, StrayVerified
  <2>3. ASSUME NEW d \in up, HandleTc(d) PROVE Verified'
    BY <1>2, <2>3, HandleTcVerified
  <2>4. ASSUME NEW s \in Stations, Overtake(s) PROVE Verified'
    BY <1>2, <2>4, OvertakeVerified
  <2>5. ASSUME NEW c \in Clients, ReceiveReport(c) \/ Timeout(c) PROVE Verified'
    BY <1>2, <2>5, ReceiveVerified, TimeoutVerified
  <2>6. CASE Watch \/ EndWatch \/ UpdateHousekeeping \/ OnPacket \/ LoseDatagram
             \/ OnReadyRead \/ NoListener
    BY <1>2, <2>6, WatchVerified, EndWatchVerified, UpdateHousekeepingVerified,
       OnPacketVerified, LoseVerified, OnReadyReadVerified, NoListenerVerified
  <2>7. CASE UNCHANGED groundVars
    <3>1. UNCHANGED <<session, next, rows, tc_rows, up, link, down, log, bogus, shared>>
      BY <2>7 DEF groundVars
    <3>2. Travelling' = Travelling
      BY <3>1 DEF Travelling
    <3> QED
      BY <1>2, <3>1, <3>2, LessOnItsWay DEF Verified, GroundTypes
  <2> QED
    BY <1>2, <2>1, <2>2, <2>3, <2>4, <2>5, <2>6, <2>7 DEF GroundNext
<1> QED
  BY <1>1, <1>2

(* What a client says of its command when it ends is true, for any range   *)
(* of sequence counts, any commands of any stations, losses, repetitions   *)
(* and strays: of this very command when nothing bore its count while it   *)
(* was alive, else of one of the commands with its count.                  *)
THEOREM OutcomeTrueAlways == GroundSpec => []OutcomeTrue
<1>1. Verified => OutcomeTrue
  BY DEF Verified
<1> QED
  BY <1>1, VerifiedInductive, PTL DEF GroundSpec

(* No row of the window shows what was not reported of its command, also   *)
(* after the counts have begun again; of a command that shared its count,  *)
(* what was reported of one with this count.                               *)
THEOREM RowsTrueAlways == GroundSpec => []RowsTrue
<1>1. Verified => RowsTrue
  BY DEF Verified, Displayed, RowsTrue
<1> QED
  BY <1>1, VerifiedInductive, PTL DEF GroundSpec

-----------------------------------------------------------------------------
(* Layouts of numbers, and what is computed from field to field (Icd).     *)

(* A layout: one number after the other, none without a byte. *)
IsLayout(l) == (\E S : l \in Seq(S)) /\ \A i \in 1 .. Len(l) : l[i].w \in Nat \ {0}

LEMMA LayoutIs ==
  ASSUME NEW l, IsLayout(l)
  PROVE  /\ Len(l) \in Nat /\ DOMAIN l = 1 .. Len(l)
         /\ \A i \in 1 .. Len(l) : l[i].w \in Nat /\ l[i].w > 0
<1>1. PICK S : l \in Seq(S)
  BY DEF IsLayout
<1>2. Len(l) \in Nat /\ DOMAIN l = 1 .. Len(l)
  BY <1>1
<1> QED
  BY <1>2 DEF IsLayout

(* A set of numbers that has 0, and with each number below n the next one. *)
LEMMA UpTo ==
  ASSUME NEW n \in Nat, NEW S, 0 \in S, \A k \in 0 .. n : k < n /\ k \in S => k + 1 \in S
  PROVE  0 .. n \subseteq S
<1> DEFINE Bad == {k \in 0 .. n : k \notin S}
<1>1. SUFFICES ASSUME Bad # {} PROVE FALSE
  OBVIOUS
<1>2. PICK m \in Bad : \A x \in Bad : m <= x
  <2>1. Bad \in SUBSET Nat
    OBVIOUS
  <2> HIDE DEF Bad
  <2> QED
    BY <1>1, <2>1, Least
<1>3. m # 0 /\ m \in 0 .. n /\ m \notin S
  OBVIOUS
<1>4. m - 1 \in 0 .. n /\ m - 1 < n /\ m - 1 < m /\ (m - 1) + 1 = m
  BY <1>3
<1>5. m - 1 \notin Bad
  <2> HIDE DEF Bad
  <2> QED
    BY <1>2, <1>3, <1>4
<1> QED
  BY <1>3, <1>4, <1>5

(* f is computed step by step: f[0] is x, and f[k] is what step k makes of *)
(* f[k - 1].                                                               *)
Steps(F, n, T) == F \in [1 .. n -> [T -> T]]
Computes(f, n, T, x, F) ==
  /\ f \in [0 .. n -> T] /\ f[0] = x
  /\ \A k \in 1 .. n : f[k] = F[k][f[k - 1]]

(* There is such a function. *)
LEMMA Computed ==
  ASSUME NEW n \in Nat, NEW T, NEW x \in T, NEW F, Steps(F, n, T)
  PROVE  \E f : Computes(f, n, T, x, F)
<1> USE DEF Steps, Computes
<1> DEFINE Does(f, m) == /\ f \in [0 .. m -> T] /\ f[0] = x
                         /\ \A k \in 1 .. m : f[k] = F[k][f[k - 1]]
           S == {m \in Nat : \E f : Does(f, m)}
<1>1. 0 \in S
  <2> DEFINE g == [k \in 0 .. 0 |-> x]
  <2>1. Does(g, 0)
    OBVIOUS
  <2> QED
    BY <2>1
<1>2. ASSUME NEW m \in 0 .. n, m < n, m \in S PROVE m + 1 \in S
  <2>1. PICK f : Does(f, m)
    BY <1>2
  <2>2. m \in Nat /\ m + 1 \in 1 .. n
    BY <1>2
  <2> DEFINE g == [k \in 0 .. m + 1 |-> IF k = m + 1 THEN F[m + 1][f[m]] ELSE f[k]]
  <2>3. f[m] \in T /\ F[m + 1] \in [T -> T]
    BY <2>1, <2>2
  <2>4. g \in [0 .. m + 1 -> T] /\ g[0] = x
    <3>1. F[m + 1][f[m]] \in T
      BY <2>3
    <3>2. \A k \in 0 .. m + 1 : k # m + 1 => k \in 0 .. m
      BY <2>2
    <3> QED
      BY <2>1, <2>2, <3>1, <3>2
  <2>5. ASSUME NEW k \in 1 .. m + 1 PROVE g[k] = F[k][g[k - 1]]
    <3>1. k - 1 \in 0 .. m + 1 /\ k - 1 # m + 1 /\ k \in 0 .. m + 1
      BY <2>2
    <3>2. g[k - 1] = f[k - 1]
      BY <3>1
    <3>3. CASE k = m + 1
      BY <2>2, <3>2, <3>3
    <3>4. CASE k # m + 1
      <4>1. k \in 1 .. m
        BY <2>2, <3>4
      <4> QED
        BY <2>1, <3>1, <3>2, <3>4, <4>1
    <3> QED
      BY <3>3, <3>4
  <2>6. Does(g, m + 1)
    BY <2>4, <2>5
  <2> HIDE DEF g
  <2>7. \E h : Does(h, m + 1)
    BY <2>6
  <2> QED
    BY <2>2, <2>7
<1>3. n \in S
  <2> HIDE DEF S
  <2>1. 0 .. n \subseteq S
    BY <1>1, <1>2, UpTo
  <2> QED
    BY <2>1
<1> QED
  BY <1>3

(* Each field starts where the one before it ends. *)
LEMMA Starts ==
  ASSUME NEW l, IsLayout(l)
  PROVE  /\ \A i \in 1 .. Len(l) + 1 : Start(l, i) \in Nat
         /\ Start(l, 1) = 0
         /\ \A i \in 1 .. Len(l) : Start(l, i + 1) = Start(l, i) + l[i].w
<1> DEFINE n == Len(l)
           Solves(at) == at = [k \in 1 .. n + 1 |-> IF k = 1 THEN 0 ELSE at[k - 1] + l[k - 1].w]
           F == [k \in 1 .. n |-> [y \in Nat |-> y + l[k].w]]
<1>1. n \in Nat /\ \A k \in 1 .. n : l[k].w \in Nat
  BY LayoutIs
<1>2. PICK f : f \in [0 .. n -> Nat] /\ f[0] = 0 /\ \A k \in 1 .. n : f[k] = F[k][f[k - 1]]
  <2>1. Steps(F, n, Nat)
    BY <1>1 DEF Steps
  <2>2. n \in Nat
    BY <1>1
  <2>3. 0 \in Nat
    OBVIOUS
  <2> HIDE DEF n, F
  <2>4. \E f : Computes(f, n, Nat, 0, F)
    BY <2>1, <2>2, <2>3, Computed, Zenon
  <2> QED
    BY <2>4 DEF Computes
<1> DEFINE g == [k \in 1 .. n + 1 |-> f[k - 1]]
<1>3. Solves(g)
  <2> SUFFICES ASSUME NEW k \in 1 .. n + 1
               PROVE  g[k] = IF k = 1 THEN 0 ELSE g[k - 1] + l[k - 1].w
    OBVIOUS
  <2>1. CASE k = 1
    BY <1>2, <2>1
  <2>2. CASE k # 1
    <3>1. k - 1 \in 1 .. n + 1 /\ k - 1 \in 1 .. n /\ (k - 1) - 1 \in 0 .. n
      BY <1>1, <2>2
    <3>2. f[(k - 1) - 1] \in Nat
      BY <1>2, <3>1
    <3>3. f[k - 1] = f[(k - 1) - 1] + l[k - 1].w
      BY <1>2, <3>1, <3>2
    <3> QED
      BY <2>2, <3>1, <3>3
  <2> QED
    BY <2>1, <2>2
<1>4. PICK at : Solves(at) /\ \A i : Start(l, i) = at[i]
  <2> DEFINE c == CHOOSE at : Solves(at)
  <2>1. Solves(c)
    BY <1>3
  <2>2. \A i : Start(l, i) = c[i]
    BY DEF Start
  <2> QED
    BY <2>1, <2>2
<1>5. at[1] = 0 /\ \A k \in 1 .. n : at[k + 1] = at[k] + l[k].w
  <2>1. 1 \in 1 .. n + 1 /\ \A k \in 1 .. n : k + 1 \in 1 .. n + 1 /\ k + 1 # 1 /\ (k + 1) - 1 = k
    BY <1>1
  <2> QED
    BY <1>4, <2>1
<1>6. \A i \in 1 .. n + 1 : at[i] \in Nat
  <2> DEFINE S == {k \in Nat : at[k + 1] \in Nat}
  <2>1. 0 \in S
    BY <1>5
  <2>2. ASSUME NEW k \in 0 .. n, k < n, k \in S PROVE k + 1 \in S
    <3>1. k + 1 \in 1 .. n /\ k + 1 \in Nat
      BY <1>1, <2>2
    <3>2. at[(k + 1) + 1] = at[k + 1] + l[k + 1].w
      BY <1>5, <3>1
    <3> QED
      BY <1>1, <2>2, <3>1, <3>2
  <2>3. 0 .. n \subseteq S
    <3> HIDE DEF S, n
    <3> QED
      BY <1>1, <2>1, <2>2, UpTo
  <2>4. ASSUME NEW i \in 1 .. n + 1 PROVE at[i] \in Nat
    <3>1. i - 1 \in 0 .. n /\ (i - 1) + 1 = i
      BY <1>1
    <3> QED
      BY <2>3, <3>1
  <2> QED
    BY <2>4
<1> HIDE DEF Solves, n
<1>7. \A i : Start(l, i) = at[i]
  BY <1>4
<1> QED
  BY <1>5, <1>6, <1>7 DEF n

-----------------------------------------------------------------------------
(* The bytes that Write makes of a layout.                                 *)

(* Byte k of number i of the layout l, as it is written. *)
Octet(l, v, i, k) == [of |-> v[l[i].name], form |-> l[i].form, byte |-> k]

(* The bytes of the first m numbers. *)
Wrote(l, v, S, m, y) ==
  /\ y \in Seq(S) /\ Len(y) = Start(l, m + 1)
  /\ \A i \in 1 .. m : /\ Start(l, i) + l[i].w <= Start(l, m + 1)
                       /\ \A k \in 1 .. l[i].w : y[Start(l, i) + k] = Octet(l, v, i, k)

(* The elements of two sequences in a row. *)
LEMMA Joined ==
  ASSUME NEW S, NEW y \in Seq(S), NEW z \in Seq(S)
  PROVE  /\ y \o z \in Seq(S) /\ Len(y \o z) = Len(y) + Len(z)
         /\ \A x \in 1 .. Len(y) + Len(z) :
              (y \o z)[x] = IF x <= Len(y) THEN y[x] ELSE z[x - Len(y)]
OBVIOUS

(* One number more. *)
LEMMA WroteNext ==
  ASSUME NEW l, IsLayout(l), NEW v, NEW S, NEW m \in Nat, m + 1 \in 1 .. Len(l), NEW y,
         Wrote(l, v, S, m, y), NEW z \in Seq(S), Len(z) = l[m + 1].w,
         \A k \in 1 .. l[m + 1].w : z[k] = Octet(l, v, m + 1, k)
  PROVE  Wrote(l, v, S, m + 1, y \o z)
<1>1. PICK a \in Nat, w \in Nat : /\ a = Start(l, m + 1) /\ w = l[m + 1].w
                                  /\ Start(l, (m + 1) + 1) = a + w
  <2>2. l[m + 1].w \in Nat
    BY LayoutIs
  <2>3. m + 1 \in 1 .. Len(l) + 1
    OBVIOUS
  <2> QED
    BY <2>2, <2>3, Starts
<1>2. y \in Seq(S) /\ Len(y) = a /\ Len(z) = w
  BY <1>1 DEF Wrote
<1>3. y \o z \in Seq(S) /\ Len(y \o z) = a + w
  BY <1>2
<1>4. /\ \A x \in 1 .. a : (y \o z)[x] = y[x]
      /\ \A k \in 1 .. w : (y \o z)[a + k] = z[k]
  <2>1. \A x \in 1 .. a + w : (y \o z)[x] = IF x <= Len(y) THEN y[x] ELSE z[x - Len(y)]
    <3>1. \A x \in 1 .. Len(y) + Len(z) :
            (y \o z)[x] = IF x <= Len(y) THEN y[x] ELSE z[x - Len(y)]
      BY <1>2, Joined
    <3> QED
      BY <1>2, <3>1
  <2>2. \A x \in 1 .. a : x \in 1 .. a + w /\ x <= Len(y)
    BY <1>2
  <2>3. \A k \in 1 .. w : a + k \in 1 .. a + w /\ ~(a + k <= Len(y)) /\ (a + k) - Len(y) = k
    BY <1>2
  <2> QED
    BY <2>1, <2>2, <2>3
<1>5. ASSUME NEW i \in 1 .. m + 1
      PROVE  /\ Start(l, i) + l[i].w <= a + w
             /\ \A k \in 1 .. l[i].w : (y \o z)[Start(l, i) + k] = Octet(l, v, i, k)
  <2>1. CASE i = m + 1
    <3>1. Start(l, i) = a /\ l[i].w = w
      BY <1>1, <2>1
    <3>2. \A k \in 1 .. w : (y \o z)[a + k] = Octet(l, v, m + 1, k)
      BY <1>1, <1>4
    <3>3. a + w <= a + w
      OBVIOUS
    <3> QED
      BY <2>1, <3>1, <3>2, <3>3
  <2>2. CASE i # m + 1
    <3>1. i \in 1 .. m /\ i \in 1 .. Len(l) /\ i \in 1 .. Len(l) + 1
      BY <2>2
    <3>3. PICK s \in Nat, u \in Nat : s = Start(l, i) /\ u = l[i].w
      BY <3>1, Starts, LayoutIs
    <3>4. s + u <= a
      BY <1>1, <3>1, <3>3 DEF Wrote
    <3>5. \A k \in 1 .. u : s + k \in 1 .. a
      BY <3>4
    <3>6. \A k \in 1 .. u : y[s + k] = Octet(l, v, i, k)
      BY <3>1, <3>3 DEF Wrote
    <3>7. \A k \in 1 .. u : (y \o z)[s + k] = Octet(l, v, i, k)
      BY <1>4, <3>5, <3>6
    <3>8. s + u <= a + w
      BY <3>4
    <3> QED
      BY <3>3, <3>7, <3>8
  <2> QED
    BY <2>1, <2>2
<1> QED
  BY <1>1, <1>3, <1>5 DEF Wrote

(* What Write makes of the numbers v. *)
LEMMA Written ==
  ASSUME NEW l, IsLayout(l), Len(l) > 0, NEW v
  PROVE  \E S : Wrote(l, v, S, Len(l), Write(l, v))
<1>1. PICK n \in Nat : n = Len(l) /\ n > 0 /\ DOMAIN l = 1 .. n
  BY LayoutIs
<1>2. \A i \in 1 .. n : l[i].w \in Nat
  BY <1>1, LayoutIs
<1> DEFINE S == {Octet(l, v, i, k) : i \in 1 .. n, k \in Nat}
           part(i) == [k \in 1 .. l[i].w |-> [of |-> v[l[i].name], form |-> l[i].form, byte |-> k]]
           seqs == [i \in 1 .. n |-> part(i)]
           Solves(f) == f = [i \in 1 .. n |-> IF i = 1 THEN seqs[i] ELSE f[i - 1] \o seqs[i]]
           c == CHOOSE f : Solves(f)
           F == [i \in 1 .. n |-> [y \in Seq(S) |-> IF i = 1 THEN seqs[i] ELSE y \o seqs[i]]]
<1>3. ASSUME NEW i \in 1 .. n
      PROVE  /\ seqs[i] \in Seq(S) /\ Len(seqs[i]) = l[i].w
             /\ \A k \in 1 .. l[i].w : seqs[i][k] = Octet(l, v, i, k)
  <2>1. \A k \in 1 .. l[i].w : part(i)[k] = Octet(l, v, i, k)
    BY DEF Octet
  <2>2. ASSUME NEW k \in 1 .. l[i].w PROVE part(i)[k] \in S
    <3>1. k \in Nat
      BY <1>2
    <3>2. Octet(l, v, i, k) \in S
      BY <3>1
    <3> HIDE DEF S
    <3> QED
      BY <2>1, <3>2
  <2>3. part(i) = [k \in 1 .. l[i].w |-> part(i)[k]]
    OBVIOUS
  <2>4. l[i].w \in Nat
    BY <1>2
  <2> HIDE DEF S, part
  <2>5. part(i) \in [1 .. l[i].w -> S]
    BY <2>2, <2>3
  <2>6. part(i) \in Seq(S) /\ Len(part(i)) = l[i].w
    BY <2>4, <2>5
  <2> QED
    BY <2>1, <2>6
<1>4. Write(l, v) = c[n]
  <2>1. Write(l, v) = FlattenSeq(seqs)
    BY <1>1 DEF Write
  <2>2. Len(seqs) = n /\ ~(Len(seqs) = 0)
    BY <1>1
  <2> QED
    BY <2>1, <2>2 DEF FlattenSeq
<1>5. Steps(F, n, Seq(S))
  <2> HIDE DEF S, seqs
  <2>1. ASSUME NEW i \in 1 .. n PROVE seqs[i] \in Seq(S)
    BY <1>3
  <2>2. \A i \in 1 .. n : \A y \in Seq(S) : y \o seqs[i] \in Seq(S)
    BY <2>1
  <2> QED
    BY <2>1, <2>2 DEF Steps
<1>6. <<>> \in Seq(S)
  OBVIOUS
<1> HIDE DEF seqs, S
<1>7. PICK f : Computes(f, n, Seq(S), <<>>, F)
  <2> HIDE DEF F
  <2> QED
    BY <1>5, <1>6, Computed, Zenon
<1> DEFINE g == [i \in 1 .. n |-> f[i]]
<1>8. Solves(g)
  <2> SUFFICES ASSUME NEW i \in 1 .. n
               PROVE  g[i] = IF i = 1 THEN seqs[i] ELSE g[i - 1] \o seqs[i]
    OBVIOUS
  <2>1. i - 1 \in 0 .. n /\ f[i - 1] \in Seq(S) /\ f[i] = F[i][f[i - 1]]
    <3>1. i - 1 \in 0 .. n
      OBVIOUS
    <3> HIDE DEF F
    <3> QED
      BY <1>7, <3>1 DEF Computes
  <2>2. f[i] = IF i = 1 THEN seqs[i] ELSE f[i - 1] \o seqs[i]
    BY <2>1
  <2>3. i # 1 => i - 1 \in 1 .. n
    OBVIOUS
  <2> HIDE DEF F
  <2> QED
    BY <2>2, <2>3
<1>9. Solves(c)
  BY <1>8
<1>10. c[1] = seqs[1] /\ \A i \in 1 .. n : i # 1 => c[i] = c[i - 1] \o seqs[i]
  <2>1. 1 \in 1 .. n
    BY <1>1
  <2> HIDE DEF c
  <2> QED
    BY <1>9, <2>1
<1> HIDE DEF c, F
<1> DEFINE T == {m \in Nat : m = 0 \/ Wrote(l, v, S, m, c[m])}
<1>11. 0 \in T
  OBVIOUS
<1>12. ASSUME NEW m \in 0 .. n, m < n, m \in T PROVE m + 1 \in T
  <2>1. m + 1 \in 1 .. n /\ m + 1 \in Nat /\ m \in Nat /\ m + 1 \in 1 .. Len(l)
    BY <1>1, <1>12
  <2>2. /\ seqs[m + 1] \in Seq(S) /\ Len(seqs[m + 1]) = l[m + 1].w
        /\ \A k \in 1 .. l[m + 1].w : seqs[m + 1][k] = Octet(l, v, m + 1, k)
    BY <1>3, <2>1
  <2>3. Wrote(l, v, S, m + 1, c[m + 1])
    <3>1. CASE m = 0
      <4>1. Wrote(l, v, S, 0, <<>>)
        <5>1. Start(l, 0 + 1) = 0
          BY Starts
        <5> QED
          BY <1>6, <5>1 DEF Wrote
      <4>2. 0 \in Nat /\ 0 + 1 \in 1 .. Len(l)
        BY <2>1, <3>1
      <4>3. Wrote(l, v, S, 0 + 1, <<>> \o seqs[0 + 1])
        BY <2>2, <3>1, <4>1, <4>2, WroteNext
      <4>4. <<>> \o seqs[0 + 1] = c[0 + 1]
        <5>1. seqs[0 + 1] \in Seq(S) /\ 0 + 1 = 1
          BY <2>2, <3>1
        <5> QED
          BY <1>10, <5>1
      <4> QED
        BY <3>1, <4>3, <4>4
    <3>2. CASE m # 0
      <4>1. Wrote(l, v, S, m, c[m])
        BY <1>12, <3>2
      <4>2. Wrote(l, v, S, m + 1, c[m] \o seqs[m + 1])
        BY <2>1, <2>2, <4>1, WroteNext
      <4>3. c[m + 1] = c[m] \o seqs[m + 1]
        <5>1. m + 1 # 1 /\ (m + 1) - 1 = m
          BY <2>1, <3>2
        <5> QED
          BY <1>10, <2>1, <5>1
      <4> QED
        BY <4>2, <4>3
    <3> QED
      BY <3>1, <3>2
  <2> QED
    BY <2>1, <2>3
<1>13. n \in T
  <2> HIDE DEF T
  <2>1. 0 .. n \subseteq T
    BY <1>11, <1>12, UpTo
  <2> QED
    BY <1>1, <2>1
<1>14. Wrote(l, v, S, n, c[n])
  BY <1>1, <1>13
<1> QED
  BY <1>1, <1>4, <1>14

-----------------------------------------------------------------------------
(* What Read makes of them.                                                *)

(* Two layouts whose numbers have the same sizes and forms. *)
Alike(l, r) ==
  Len(l) = Len(r) /\ \A i \in 1 .. Len(l) : l[i].w = r[i].w /\ l[i].form = r[i].form

LEMMA SameStarts ==
  ASSUME NEW l, IsLayout(l), NEW r, IsLayout(r), Alike(l, r)
  PROVE  \A i \in 1 .. Len(l) + 1 : Start(l, i) = Start(r, i)
<1> DEFINE n == Len(l)
           S == {k \in Nat : Start(l, k + 1) = Start(r, k + 1)}
<1>1. n \in Nat /\ Len(r) = n
  BY LayoutIs DEF Alike
<1>2. 0 \in S
  BY Starts
<1>3. ASSUME NEW k \in 0 .. n, k < n, k \in S PROVE k + 1 \in S
  <2>1. k + 1 \in 1 .. n /\ k + 1 \in Nat
    BY <1>1, <1>3
  <2>2. l[k + 1].w = r[k + 1].w
    BY <2>1 DEF Alike
  <2>3. /\ Start(l, (k + 1) + 1) = Start(l, k + 1) + l[k + 1].w
        /\ Start(r, (k + 1) + 1) = Start(r, k + 1) + r[k + 1].w
    BY <1>1, <2>1, Starts
  <2> QED
    BY <1>3, <2>1, <2>2, <2>3
<1>4. 0 .. n \subseteq S
  <2> HIDE DEF n, S
  <2> QED
    BY <1>1, <1>2, <1>3, UpTo
<1>5. ASSUME NEW i \in 1 .. n + 1 PROVE Start(l, i) = Start(r, i)
  <2>1. i - 1 \in 0 .. n /\ (i - 1) + 1 = i
    BY <1>1
  <2> QED
    BY <1>4, <2>1
<1> QED
  BY <1>5

(* The field of a name. *)
At(l, x) == CHOOSE j \in DOMAIN l : l[j].name = x

LEMMA Found1 ==
  ASSUME NEW l, IsLayout(l), NEW x \in Names(l)
  PROVE  At(l, x) \in 1 .. Len(l) /\ l[At(l, x)].name = x
<1>1. DOMAIN l = 1 .. Len(l)
  BY LayoutIs
<1>2. \E j \in DOMAIN l : l[j].name = x
  BY <1>1 DEF Names
<1> QED
  BY <1>1, <1>2 DEF At

(* What is read of one number. *)
LEMMA ReadOne ==
  ASSUME NEW l, IsLayout(l), NEW r, IsLayout(r), Alike(l, r), NEW v, NEW S, NEW y,
         Wrote(l, v, S, Len(l), y), NEW i \in 1 .. Len(l)
  PROVE  Number(r[i], SubSeq(y, Start(r, i) + 1, Start(r, i) + r[i].w)) = v[l[i].name]
<1>1. PICK s \in Nat, w \in Nat :
        /\ s = Start(l, i) /\ s = Start(r, i) /\ w = l[i].w /\ w = r[i].w /\ w > 0
  <2>1. i \in 1 .. Len(l) + 1
    BY LayoutIs
  <2>2. Start(l, i) \in Nat /\ Start(l, i) = Start(r, i)
    BY <2>1, Starts, SameStarts
  <2>3. l[i].w \in Nat /\ l[i].w > 0 /\ l[i].w = r[i].w
    <3>1. l[i].w \in Nat /\ l[i].w > 0
      BY LayoutIs
    <3>2. l[i].w = r[i].w
      BY DEF Alike
    <3> QED
      BY <3>1, <3>2
  <2> QED
    BY <2>2, <2>3
<1>2. PICK n \in Nat : n = Len(y) /\ y \in Seq(S) /\ s + w <= n
  <2>1. y \in Seq(S) /\ Len(y) = Start(l, Len(l) + 1) /\ s + w <= Start(l, Len(l) + 1)
    BY <1>1 DEF Wrote
  <2> QED
    BY <2>1
<1> DEFINE z == SubSeq(y, s + 1, s + w)
<1>3. DOMAIN z = 1 .. w /\ \A k \in 1 .. w : z[k] = Octet(l, v, i, k)
  <2>1. z = [k \in 1 .. w |-> y[s + k]]
    <3>1. z = [k \in 1 .. ((s + w) - (s + 1)) + 1 |-> y[(s + k)]]
      BY <1>2
    <3>2. ((s + w) - (s + 1)) + 1 = w
      OBVIOUS
    <3> QED
      BY <3>1, <3>2
  <2>2. \A k \in 1 .. w : y[s + k] = Octet(l, v, i, k)
    BY <1>1 DEF Wrote
  <2> QED
    BY <2>1, <2>2
<1>4. \A k \in 1 .. w : z[k].of = v[l[i].name] /\ z[k].form = r[i].form /\ z[k].byte = k
  <2>1. l[i].form = r[i].form
    BY DEF Alike
  <2>2. \A k : /\ Octet(l, v, i, k).of = v[l[i].name]
               /\ Octet(l, v, i, k).form = l[i].form /\ Octet(l, v, i, k).byte = k
    BY DEF Octet
  <2> HIDE DEF z
  <2> QED
    BY <1>3, <2>1, <2>2
<1>5. 1 \in 1 .. w
  BY <1>1
<1> HIDE DEF z
<1>6. Number(r[i], z) = v[l[i].name]
  BY <1>3, <1>4, <1>5 DEF Number
<1> QED
  BY <1>1, <1>6 DEF z

(* Whatever numbers are written with one layout are read with another of   *)
(* the same sizes and forms: each under the name the reader has for its    *)
(* place.                                                                  *)
Across(l, r, v) == [x \in Names(r) |-> v[l[At(r, x)].name]]

LEMMA ReadAcross ==
  ASSUME NEW l, IsLayout(l), NEW r, IsLayout(r), Alike(l, r), Len(l) > 0, NEW v
  PROVE  Read(r, Write(l, v)) = Across(l, r, v)
<1>1. PICK S : Wrote(l, v, S, Len(l), Write(l, v))
  BY Written
<1> DEFINE y == Write(l, v)
<1> HIDE DEF y
<1>2. Wrote(l, v, S, Len(l), y)
  BY <1>1 DEF y
<1>3. Len(y) = Size(r)
  <2>1. Len(y) = Start(l, Len(l) + 1) /\ Len(l) + 1 \in 1 .. Len(l) + 1 /\ Len(r) = Len(l)
    BY <1>2, LayoutIs DEF Wrote, Alike
  <2>2. Start(l, Len(l) + 1) = Start(r, Len(l) + 1)
    BY <2>1, SameStarts
  <2> QED
    BY <2>1, <2>2 DEF Size
<1>4. ASSUME NEW x \in Names(r)
      PROVE  Number(r[At(r, x)], SubSeq(y, Start(r, At(r, x)) + 1,
                                        Start(r, At(r, x)) + r[At(r, x)].w))
               = v[l[At(r, x)].name]
  <2>1. At(r, x) \in 1 .. Len(r)
    BY Found1
  <2>2. At(r, x) \in 1 .. Len(l)
    BY <2>1 DEF Alike
  <2> QED
    BY <1>2, <2>2, ReadOne
<1>5. Read(r, y) = [x \in Names(r) |->
                      Number(r[At(r, x)], SubSeq(y, Start(r, At(r, x)) + 1,
                                                 Start(r, At(r, x)) + r[At(r, x)].w))]
  BY <1>3 DEF Read, At
<1> QED
  BY <1>4, <1>5 DEF y, Across

(* Reading and writing with the same layout, whatever it is, gives back    *)
(* the numbers.                                                            *)
THEOREM ReadsBack ==
  ASSUME NEW l, IsLayout(l), Len(l) > 0, NEW v
  PROVE  Read(l, Write(l, v)) = [x \in Names(l) |-> v[x]]
<1>1. Alike(l, l)
  BY DEF Alike
<1>2. Read(l, Write(l, v)) = Across(l, l, v)
  BY <1>1, ReadAcross
<1>3. \A x \in Names(l) : l[At(l, x)].name = x
  BY Found1
<1> QED
  BY <1>2, <1>3 DEF Across

-----------------------------------------------------------------------------
(* The numbers as they really are, and the layouts of the model.           *)

(* The numbers x for which v has what they really are, n for a count. *)
Really(v, N, n) == \A x \in N : v[x] = [name |-> x, n |-> IF x = "count" THEN n ELSE 0]

LEMMA ReadsReal ==
  ASSUME NEW l, IsLayout(l), Len(l) > 0, NEW v, NEW n, Really(v, Names(l), n)
  PROVE  Read(l, Write(l, v)) = Real(Names(l), n)
<1>1. Read(l, Write(l, v)) = [x \in Names(l) |-> v[x]]
  BY ReadsBack
<1> QED
  BY <1>1 DEF Really, Real

LEMMA RealIsReal ==
  ASSUME NEW N, NEW n
  PROVE  Really(Real(N, n), N, n)
BY DEF Really, Real

LEMMA ReadsOwn ==
  ASSUME NEW l, IsLayout(l), Len(l) > 0, NEW n
  PROVE  Read(l, Write(l, Real(Names(l), n))) = Real(Names(l), n)
BY ReadsReal, RealIsReal

(* The layouts of the model: numbers of one size, and layouts in a row.    *)
Wide(w) == w \in Nat \ {0}
Listed(t, n) == {t[i] : i \in 1 .. n}
Tuple(t, n) == t = [i \in 1 .. n |-> t[i]]

LEMMA IsSequence ==
  ASSUME NEW n \in Nat, NEW X, NEW l \in [1 .. n -> X]
  PROVE  l \in Seq(X) /\ Len(l) = n /\ DOMAIN l = 1 .. n
OBVIOUS

(* A layout of n numbers with the names N. *)
Just(l, n, N) == IsLayout(l) /\ Len(l) = n /\ Names(l) = N

(* All of its numbers have w bytes, and one form. *)
Same(l, w, form) == \A i \in 1 .. Len(l) : l[i].w = w /\ l[i].form = form

(* One after the other they have the names of t. *)
Named(l, t, n) == \A i \in 1 .. n : l[i].name = t[i]

LEMMA FieldsLayout ==
  ASSUME NEW w, Wide(w), NEW signed, NEW per, NEW n \in Nat, NEW names, Tuple(names, n)
  PROVE  /\ Just(Fields(w, signed, per, names), n, Listed(names, n))
         /\ Same(Fields(w, signed, per, names), w, <<w, signed, per>>)
         /\ Named(Fields(w, signed, per, names), names, n)
<1> DEFINE l == Fields(w, signed, per, names)
           field(i) == [name |-> names[i], w |-> w, form |-> <<w, signed, per>>]
<1>1. DOMAIN names = 1 .. n
  BY DEF Tuple
<1>2. l = [i \in 1 .. n |-> field(i)]
  BY <1>1 DEF Fields
<1> HIDE DEF l
<1>3. \A i \in 1 .. n : l[i].w = w /\ l[i].name = names[i] /\ l[i].form = <<w, signed, per>>
  <2>1. \A i : field(i).w = w /\ field(i).name = names[i] /\ field(i).form = <<w, signed, per>>
    OBVIOUS
  <2>2. \A i \in 1 .. n : l[i] = field(i)
    BY <1>2
  <2> HIDE DEF field
  <2> QED
    BY <2>1, <2>2
<1>4. l = [i \in 1 .. n |-> l[i]]
  BY <1>2
<1>5. l \in [1 .. n -> {l[i] : i \in 1 .. n}]
  BY <1>4
<1>6. l \in Seq({l[i] : i \in 1 .. n}) /\ Len(l) = n /\ DOMAIN l = 1 .. n
  BY <1>5, IsSequence
<1>7. \E S : l \in Seq(S)
  BY <1>6
<1>8. IsLayout(l)
  BY <1>3, <1>6, <1>7 DEF IsLayout, Wide
<1>9. Names(l) = {names[i] : i \in 1 .. n}
  <2>1. Names(l) = {l[i].name : i \in 1 .. n}
    BY <1>6 DEF Names
  <2> QED
    BY <1>3, <2>1
<1> QED
  BY <1>3, <1>6, <1>8, <1>9 DEF l, Just, Same, Listed, Named

LEMMA JoinLayout ==
  ASSUME NEW a, IsLayout(a), NEW b, IsLayout(b)
  PROVE  /\ IsLayout(a \o b) /\ Len(a \o b) = Len(a) + Len(b)
         /\ Names(a \o b) = Names(a) \cup Names(b)
         /\ \A i \in 1 .. Len(a) + Len(b) :
              (a \o b)[i] = IF i <= Len(a) THEN a[i] ELSE b[i - Len(a)]
<1>2. PICK n \in Nat, m \in Nat : n = Len(a) /\ m = Len(b)
  BY LayoutIs
<1>3. PICK S : a \in Seq(S) /\ b \in Seq(S)
  <2>1. PICK S1, S2 : a \in Seq(S1) /\ b \in Seq(S2)
    BY DEF IsLayout
  <2>2. a \in Seq(S1 \cup S2) /\ b \in Seq(S1 \cup S2)
    BY <2>1
  <2> QED
    BY <2>2
<1>4. /\ a \o b \in Seq(S) /\ Len(a \o b) = n + m
      /\ \A x \in 1 .. n + m : (a \o b)[x] = IF x <= n THEN a[x] ELSE b[x - n]
  BY <1>2, <1>3, Joined
<1>5. DOMAIN a = 1 .. n /\ DOMAIN b = 1 .. m /\ DOMAIN (a \o b) = 1 .. n + m
  BY <1>2, <1>3, <1>4
<1>6. \A x \in 1 .. n : x \in 1 .. n + m /\ (a \o b)[x] = a[x]
  BY <1>4
<1>7. \A x \in 1 .. m : n + x \in 1 .. n + m /\ (a \o b)[n + x] = b[x]
  <2>1. \A x \in 1 .. m : n + x \in 1 .. n + m /\ ~(n + x <= n) /\ (n + x) - n = x
    OBVIOUS
  <2> QED
    BY <1>4, <2>1
<1>8. \A x \in 1 .. n + m : x \in 1 .. n \/ (x - n \in 1 .. m /\ n + (x - n) = x)
  OBVIOUS
<1>9. IsLayout(a \o b)
  <2>1. \A x \in 1 .. n : a[x].w \in Nat \ {0}
    BY <1>2 DEF IsLayout
  <2>2. \A x \in 1 .. m : b[x].w \in Nat \ {0}
    BY <1>2 DEF IsLayout
  <2>3. ASSUME NEW x \in 1 .. n + m PROVE (a \o b)[x].w \in Nat \ {0}
    <3>1. CASE x \in 1 .. n
      BY <1>6, <2>1, <3>1
    <3>2. CASE x - n \in 1 .. m /\ n + (x - n) = x
      <4>1. (a \o b)[x] = b[x - n]
        BY <1>7, <3>2
      <4> QED
        BY <2>2, <3>2, <4>1
    <3> QED
      BY <1>8, <3>1, <3>2
  <2> QED
    BY <1>4, <2>3 DEF IsLayout
<1>10. Names(a \o b) = Names(a) \cup Names(b)
  <2>1. Names(a \o b) = {(a \o b)[i].name : i \in 1 .. n + m}
    BY <1>5 DEF Names
  <2>2. Names(a) = {a[i].name : i \in 1 .. n} /\ Names(b) = {b[i].name : i \in 1 .. m}
    BY <1>5 DEF Names
  <2>3. ASSUME NEW i \in 1 .. n + m PROVE (a \o b)[i].name \in Names(a) \cup Names(b)
    <3>1. CASE i \in 1 .. n
      BY <1>6, <2>2, <3>1
    <3>2. CASE i - n \in 1 .. m /\ n + (i - n) = i
      <4>1. (a \o b)[i] = b[i - n]
        BY <1>7, <3>2
      <4> QED
        BY <2>2, <3>2, <4>1
    <3> QED
      BY <1>8, <3>1, <3>2
  <2>4. ASSUME NEW i \in 1 .. n PROVE a[i].name \in Names(a \o b)
    BY <1>6, <2>1
  <2>5. ASSUME NEW i \in 1 .. m PROVE b[i].name \in Names(a \o b)
    BY <1>7, <2>1
  <2> QED
    BY <2>1, <2>2, <2>3, <2>4, <2>5
<1> QED
  BY <1>2, <1>4, <1>9, <1>10

LEMMA Numbers1 ==
  ASSUME NEW w, Wide(w), NEW signed, NEW per, NEW a1
  PROVE  Just(Fields(w, signed, per, <<a1>>), 1, {a1})
<1> DEFINE names == <<a1>>
<1>1. Tuple(names, 1)
  BY DEF Tuple
<1>2. Listed(names, 1) = {a1}
  BY DEF Listed
<1>3. 1 \in Nat
  OBVIOUS
<1> HIDE DEF names
<1>4. Just(Fields(w, signed, per, names), 1, Listed(names, 1))
  BY <1>1, <1>3, FieldsLayout
<1> QED
  BY <1>2, <1>4 DEF names

LEMMA Numbers2 ==
  ASSUME NEW w, Wide(w), NEW signed, NEW per, NEW a1, NEW b1
  PROVE  Just(Fields(w, signed, per, <<a1, b1>>), 2, {a1, b1})
<1> DEFINE names == <<a1, b1>>
<1>1. Tuple(names, 2)
  BY DEF Tuple
<1>2. Listed(names, 2) = {a1, b1}
  BY DEF Listed
<1>3. 2 \in Nat
  OBVIOUS
<1> HIDE DEF names
<1>4. Just(Fields(w, signed, per, names), 2, Listed(names, 2))
  BY <1>1, <1>3, FieldsLayout
<1> QED
  BY <1>2, <1>4 DEF names

LEMMA Numbers3 ==
  ASSUME NEW w, Wide(w), NEW signed, NEW per, NEW a1, NEW b1, NEW c1
  PROVE  Just(Fields(w, signed, per, <<a1, b1, c1>>), 3, {a1, b1, c1})
<1> DEFINE names == <<a1, b1, c1>>
<1>1. Tuple(names, 3)
  BY DEF Tuple
<1>2. Listed(names, 3) = {a1, b1, c1}
  BY DEF Listed
<1>3. 3 \in Nat
  OBVIOUS
<1> HIDE DEF names
<1>4. Just(Fields(w, signed, per, names), 3, Listed(names, 3))
  BY <1>1, <1>3, FieldsLayout
<1> QED
  BY <1>2, <1>4 DEF names

LEMMA Numbers4 ==
  ASSUME NEW w, Wide(w), NEW signed, NEW per, NEW a1, NEW b1, NEW c1, NEW d1
  PROVE  Just(Fields(w, signed, per, <<a1, b1, c1, d1>>), 4, {a1, b1, c1, d1})
<1> DEFINE names == <<a1, b1, c1, d1>>
<1>1. Tuple(names, 4)
  BY DEF Tuple
<1>2. Listed(names, 4) = {a1, b1, c1, d1}
  BY DEF Listed
<1>3. 4 \in Nat
  OBVIOUS
<1> HIDE DEF names
<1>4. Just(Fields(w, signed, per, names), 4, Listed(names, 4))
  BY <1>1, <1>3, FieldsLayout
<1> QED
  BY <1>2, <1>4 DEF names

LEMMA Numbers7 ==
  ASSUME NEW w, Wide(w), NEW signed, NEW per, NEW a1, NEW b1, NEW c1, NEW d1, NEW e1, NEW f1, NEW g1
  PROVE  Just(Fields(w, signed, per, <<a1, b1, c1, d1, e1, f1, g1>>), 7, {a1, b1, c1, d1, e1, f1,
         g1})
<1> DEFINE names == <<a1, b1, c1, d1, e1, f1, g1>>
<1>1. Tuple(names, 7)
  BY DEF Tuple
<1>2. Listed(names, 7) = {a1, b1, c1, d1, e1, f1, g1}
  BY DEF Listed
<1>3. 7 \in Nat
  OBVIOUS
<1> HIDE DEF names
<1>4. Just(Fields(w, signed, per, names), 7, Listed(names, 7))
  BY <1>1, <1>3, FieldsLayout
<1> QED
  BY <1>2, <1>4 DEF names

LEMMA Numbers8 ==
  ASSUME NEW w, Wide(w), NEW signed, NEW per, NEW a1, NEW b1, NEW c1, NEW d1, NEW e1, NEW f1,
         NEW g1, NEW h1
  PROVE  Just(Fields(w, signed, per, <<a1, b1, c1, d1, e1, f1, g1, h1>>), 8, {a1, b1, c1, d1, e1,
         f1, g1, h1})
<1> DEFINE names == <<a1, b1, c1, d1, e1, f1, g1, h1>>
<1>1. Tuple(names, 8)
  BY DEF Tuple
<1>2. Listed(names, 8) = {a1, b1, c1, d1, e1, f1, g1, h1}
  BY DEF Listed
<1>3. 8 \in Nat
  OBVIOUS
<1> HIDE DEF names
<1>4. Just(Fields(w, signed, per, names), 8, Listed(names, 8))
  BY <1>1, <1>3, FieldsLayout
<1> QED
  BY <1>2, <1>4 DEF names

LEMMA Numbers12 ==
  ASSUME NEW w, Wide(w), NEW signed, NEW per, NEW a1, NEW b1, NEW c1, NEW d1, NEW e1, NEW f1,
         NEW g1, NEW h1, NEW i1, NEW j1, NEW k1, NEW l1
  PROVE  Just(Fields(w, signed, per, <<a1, b1, c1, d1, e1, f1, g1, h1, i1, j1, k1, l1>>), 12, {a1,
         b1, c1, d1, e1, f1, g1, h1, i1, j1, k1, l1})
<1> DEFINE names == <<a1, b1, c1, d1, e1, f1, g1, h1, i1, j1, k1, l1>>
<1>1. Tuple(names, 12)
  BY DEF Tuple
<1>2. Listed(names, 12) = {a1, b1, c1, d1, e1, f1, g1, h1, i1, j1, k1, l1}
  BY DEF Listed
<1>3. 12 \in Nat
  OBVIOUS
<1> HIDE DEF names
<1>4. Just(Fields(w, signed, per, names), 12, Listed(names, 12))
  BY <1>1, <1>3, FieldsLayout
<1> QED
  BY <1>2, <1>4 DEF names

-----------------------------------------------------------------------------
(* Layouts that end in what they began with.                               *)

(* A layout that has a number. *)
Ready(l) == IsLayout(l) /\ Len(l) > 0

LEMMA Ends ==
  ASSUME NEW l, Ready(l), NEW n
  PROVE  Read(l, Write(l, Real(Names(l), n))) = Real(Names(l), n)
BY ReadsOwn DEF Ready

LEMMA ReadyJoin ==
  ASSUME NEW a, NEW b, Ready(a), Ready(b)
  PROVE  Ready(a \o b) /\ Names(a \o b) = Names(a) \cup Names(b)
<1>1. Len(a) \in Nat /\ Len(b) \in Nat
  BY LayoutIs DEF Ready
<1> QED
  BY <1>1, JoinLayout DEF Ready

LEMMA ReadyJust ==
  ASSUME NEW l, NEW n \in Nat, n > 0, NEW N, Just(l, n, N)
  PROVE  Ready(l) /\ Names(l) = N
BY DEF Just, Ready

LEMMA ReadyU8 ==
  /\ \A a1 : Ready(U8(<<a1>>)) /\ Names(U8(<<a1>>)) = {a1}
  /\ \A a1, b1 : Ready(U8(<<a1, b1>>)) /\ Names(U8(<<a1, b1>>)) = {a1, b1}
  /\ \A a1, b1, c1 : Ready(U8(<<a1, b1, c1>>)) /\ Names(U8(<<a1, b1, c1>>)) = {a1, b1, c1}
  /\ \A a1, b1, c1, d1 : Ready(U8(<<a1, b1, c1, d1>>))
       /\ Names(U8(<<a1, b1, c1, d1>>)) = {a1, b1, c1, d1}
<1>1. Wide(1)
  BY DEF Wide
<1>2. ASSUME NEW a1
      PROVE  Ready(U8(<<a1>>)) /\ Names(U8(<<a1>>)) = {a1}
  <2>1. Just(U8(<<a1>>), 1, {a1})
    BY <1>1, Numbers1 DEF U8
  <2> QED
    BY <2>1, ReadyJust
<1>3. ASSUME NEW a1, NEW b1
      PROVE  Ready(U8(<<a1, b1>>)) /\ Names(U8(<<a1, b1>>)) = {a1, b1}
  <2>1. Just(U8(<<a1, b1>>), 2, {a1, b1})
    BY <1>1, Numbers2 DEF U8
  <2> QED
    BY <2>1, ReadyJust
<1>4. ASSUME NEW a1, NEW b1, NEW c1
      PROVE  Ready(U8(<<a1, b1, c1>>)) /\ Names(U8(<<a1, b1, c1>>)) = {a1, b1, c1}
  <2>1. Just(U8(<<a1, b1, c1>>), 3, {a1, b1, c1})
    BY <1>1, Numbers3 DEF U8
  <2> QED
    BY <2>1, ReadyJust
<1>5. ASSUME NEW a1, NEW b1, NEW c1, NEW d1
      PROVE  Ready(U8(<<a1, b1, c1, d1>>)) /\ Names(U8(<<a1, b1, c1, d1>>)) = {a1, b1, c1, d1}
  <2>1. Just(U8(<<a1, b1, c1, d1>>), 4, {a1, b1, c1, d1})
    BY <1>1, Numbers4 DEF U8
  <2> QED
    BY <2>1, ReadyJust
<1> QED
  BY <1>2, <1>3, <1>4, <1>5

LEMMA ReadyU16 ==
  /\ \A a1 : Ready(U16(<<a1>>)) /\ Names(U16(<<a1>>)) = {a1}
  /\ \A a1, b1 : Ready(U16(<<a1, b1>>)) /\ Names(U16(<<a1, b1>>)) = {a1, b1}
  /\ \A a1, b1, c1 : Ready(U16(<<a1, b1, c1>>)) /\ Names(U16(<<a1, b1, c1>>)) = {a1, b1, c1}
<1>1. Wide(2)
  BY DEF Wide
<1>2. ASSUME NEW a1
      PROVE  Ready(U16(<<a1>>)) /\ Names(U16(<<a1>>)) = {a1}
  <2>1. Just(U16(<<a1>>), 1, {a1})
    BY <1>1, Numbers1 DEF U16
  <2> QED
    BY <2>1, ReadyJust
<1>3. ASSUME NEW a1, NEW b1
      PROVE  Ready(U16(<<a1, b1>>)) /\ Names(U16(<<a1, b1>>)) = {a1, b1}
  <2>1. Just(U16(<<a1, b1>>), 2, {a1, b1})
    BY <1>1, Numbers2 DEF U16
  <2> QED
    BY <2>1, ReadyJust
<1>4. ASSUME NEW a1, NEW b1, NEW c1
      PROVE  Ready(U16(<<a1, b1, c1>>)) /\ Names(U16(<<a1, b1, c1>>)) = {a1, b1, c1}
  <2>1. Just(U16(<<a1, b1, c1>>), 3, {a1, b1, c1})
    BY <1>1, Numbers3 DEF U16
  <2> QED
    BY <2>1, ReadyJust
<1> QED
  BY <1>2, <1>3, <1>4

LEMMA ReadyU32 ==
  /\ \A a1 : Ready(U32(<<a1>>)) /\ Names(U32(<<a1>>)) = {a1}
  /\ \A a1, b1 : Ready(U32(<<a1, b1>>)) /\ Names(U32(<<a1, b1>>)) = {a1, b1}
  /\ \A a1, b1, c1, d1, e1, f1, g1 : Ready(U32(<<a1, b1, c1, d1, e1, f1, g1>>))
       /\ Names(U32(<<a1, b1, c1, d1, e1, f1, g1>>)) = {a1, b1, c1, d1, e1, f1, g1}
  /\ \A a1, b1, c1, d1, e1, f1, g1, h1 : Ready(U32(<<a1, b1, c1, d1, e1, f1, g1, h1>>))
       /\ Names(U32(<<a1, b1, c1, d1, e1, f1, g1, h1>>)) = {a1, b1, c1, d1, e1, f1, g1, h1}
  /\ \A a1, b1, c1, d1, e1, f1, g1, h1, i1, j1, k1, l1 : Ready(U32(<<a1, b1, c1, d1, e1, f1, g1,
       h1, i1, j1, k1, l1>>))
         /\ Names(U32(<<a1, b1, c1, d1, e1, f1, g1, h1, i1, j1, k1, l1>>)) = {a1, b1, c1, d1, e1,
            f1, g1, h1, i1, j1, k1, l1}
<1>1. Wide(4)
  BY DEF Wide
<1>2. ASSUME NEW a1
      PROVE  Ready(U32(<<a1>>)) /\ Names(U32(<<a1>>)) = {a1}
  <2>1. Just(U32(<<a1>>), 1, {a1})
    BY <1>1, Numbers1 DEF U32
  <2> QED
    BY <2>1, ReadyJust
<1>3. ASSUME NEW a1, NEW b1
      PROVE  Ready(U32(<<a1, b1>>)) /\ Names(U32(<<a1, b1>>)) = {a1, b1}
  <2>1. Just(U32(<<a1, b1>>), 2, {a1, b1})
    BY <1>1, Numbers2 DEF U32
  <2> QED
    BY <2>1, ReadyJust
<1>4. ASSUME NEW a1, NEW b1, NEW c1, NEW d1, NEW e1, NEW f1, NEW g1
      PROVE  Ready(U32(<<a1, b1, c1, d1, e1, f1, g1>>))
             /\ Names(U32(<<a1, b1, c1, d1, e1, f1, g1>>)) = {a1, b1, c1, d1, e1, f1, g1}
  <2>1. Just(U32(<<a1, b1, c1, d1, e1, f1, g1>>), 7, {a1, b1, c1, d1, e1, f1, g1})
    BY <1>1, Numbers7 DEF U32
  <2> QED
    BY <2>1, ReadyJust
<1>5. ASSUME NEW a1, NEW b1, NEW c1, NEW d1, NEW e1, NEW f1, NEW g1, NEW h1
      PROVE  Ready(U32(<<a1, b1, c1, d1, e1, f1, g1, h1>>))
             /\ Names(U32(<<a1, b1, c1, d1, e1, f1, g1, h1>>)) = {a1, b1, c1, d1, e1, f1, g1, h1}
  <2>1. Just(U32(<<a1, b1, c1, d1, e1, f1, g1, h1>>), 8, {a1, b1, c1, d1, e1, f1, g1, h1})
    BY <1>1, Numbers8 DEF U32
  <2> QED
    BY <2>1, ReadyJust
<1>6. ASSUME NEW a1, NEW b1, NEW c1, NEW d1, NEW e1, NEW f1, NEW g1, NEW h1, NEW i1, NEW j1,
      NEW k1, NEW l1
      PROVE  Ready(U32(<<a1, b1, c1, d1, e1, f1, g1, h1, i1, j1, k1, l1>>))
             /\ Names(U32(<<a1, b1, c1, d1, e1, f1, g1, h1, i1, j1, k1, l1>>)) = {a1, b1, c1, d1,
                e1, f1, g1, h1, i1, j1, k1, l1}
  <2>1. Just(U32(<<a1, b1, c1, d1, e1, f1, g1, h1, i1, j1, k1, l1>>), 12, {a1, b1, c1, d1, e1, f1,
        g1, h1, i1, j1, k1, l1})
    BY <1>1, Numbers12 DEF U32
  <2> QED
    BY <2>1, ReadyJust
<1> QED
  BY <1>2, <1>3, <1>4, <1>5, <1>6

LEMMA ReadyTenths ==
  /\ \A a1 : Ready(Tenths(<<a1>>)) /\ Names(Tenths(<<a1>>)) = {a1}
<1>1. Wide(2)
  BY DEF Wide
<1>2. ASSUME NEW a1
      PROVE  Ready(Tenths(<<a1>>)) /\ Names(Tenths(<<a1>>)) = {a1}
  <2>1. Just(Tenths(<<a1>>), 1, {a1})
    BY <1>1, Numbers1 DEF Tenths
  <2> QED
    BY <2>1, ReadyJust
<1> QED
  BY <1>2

LEMMA ReadyCenti ==
  /\ \A a1 : Ready(Centi(<<a1>>)) /\ Names(Centi(<<a1>>)) = {a1}
  /\ \A a1, b1 : Ready(Centi(<<a1, b1>>)) /\ Names(Centi(<<a1, b1>>)) = {a1, b1}
<1>1. Wide(2)
  BY DEF Wide
<1>2. ASSUME NEW a1
      PROVE  Ready(Centi(<<a1>>)) /\ Names(Centi(<<a1>>)) = {a1}
  <2>1. Just(Centi(<<a1>>), 1, {a1})
    BY <1>1, Numbers1 DEF Centi
  <2> QED
    BY <2>1, ReadyJust
<1>3. ASSUME NEW a1, NEW b1
      PROVE  Ready(Centi(<<a1, b1>>)) /\ Names(Centi(<<a1, b1>>)) = {a1, b1}
  <2>1. Just(Centi(<<a1, b1>>), 2, {a1, b1})
    BY <1>1, Numbers2 DEF Centi
  <2> QED
    BY <2>1, ReadyJust
<1> QED
  BY <1>2, <1>3

LEMMA ReadyMilli ==
  /\ \A a1 : Ready(Milli(<<a1>>)) /\ Names(Milli(<<a1>>)) = {a1}
<1>1. Wide(2)
  BY DEF Wide
<1>2. ASSUME NEW a1
      PROVE  Ready(Milli(<<a1>>)) /\ Names(Milli(<<a1>>)) = {a1}
  <2>1. Just(Milli(<<a1>>), 1, {a1})
    <3>1. PICK per : per = 1000
      BY SMT
    <3>2. Milli(<<a1>>) = Fields(2, TRUE, per, <<a1>>)
      BY <3>1, SMT DEF Milli
    <3> QED
      BY <1>1, <3>2, Numbers1
  <2> QED
    BY <2>1, ReadyJust
<1> QED
  BY <1>2

LEMMA ReadyOffset ==
  /\ \A a1, b1, c1, d1 : Ready(Offset(<<a1, b1, c1, d1>>))
       /\ Names(Offset(<<a1, b1, c1, d1>>)) = {a1, b1, c1, d1}
<1>1. Wide(1)
  BY DEF Wide
<1>2. ASSUME NEW a1, NEW b1, NEW c1, NEW d1
      PROVE  Ready(Offset(<<a1, b1, c1, d1>>))
             /\ Names(Offset(<<a1, b1, c1, d1>>)) = {a1, b1, c1, d1}
  <2>1. Just(Offset(<<a1, b1, c1, d1>>), 4, {a1, b1, c1, d1})
    BY <1>1, Numbers4 DEF Offset
  <2> QED
    BY <2>1, ReadyJust
<1> QED
  BY <1>2

LEMMA ReadyBits ==
  ASSUME NEW w, Wide(w), NEW name
  PROVE  Ready(Bits(w, name))
<1>1. Just(Bits(w, name), 1, {name})
  BY Numbers1 DEF Bits
<1> QED
  BY <1>1, ReadyJust

-----------------------------------------------------------------------------
(* Messages, reports and packets.                                          *)

LEMMA JoinNothing ==
  ASSUME NEW a, Ready(a)
  PROVE  a \o <<>> = a
<1>1. PICK S : a \in Seq(S)
  BY DEF Ready, IsLayout
<1> QED
  BY <1>1

LEMMA HeaderReady == Ready(EncodePrimaryHeader)
<1>1. Wide(1) /\ Wide(2) /\ Wide(3) /\ Wide(11) /\ Wide(14) /\ Wide(16)
  BY DEF Wide
<1> QED
  BY <1>1, ReadyBits, ReadyJoin DEF EncodePrimaryHeader

LEMMA TcReady == Ready(EncodeTc)
<1>1. Wide(4)
  BY DEF Wide
<1>2. Ready(Bits(4, "pus") \o Bits(4, "ack") \o U8(<<"service", "subtype">>) \o U16(<<"source">>))
  BY <1>1, ReadyBits, ReadyJoin, ReadyU8, ReadyU16
<1>3. Ready(U16(<<"crc">>))
  BY ReadyU16
<1> QED
  BY <1>2, <1>3, HeaderReady, ReadyJoin DEF EncodeTc, Finish

LEMMA TmReady == Ready(EncodeTm)
<1>1. Wide(4)
  BY DEF Wide
<1>2. Ready(Bits(4, "pus") \o Bits(4, "status") \o U8(<<"service", "subtype">>)
            \o U16(<<"counter", "destination">>) \o U32(<<"seconds">>) \o U16(<<"fraction">>))
  BY <1>1, ReadyBits, ReadyJoin, ReadyU8, ReadyU16, ReadyU32
<1>3. Ready(U16(<<"crc">>))
  BY ReadyU16
<1> QED
  BY <1>2, <1>3, HeaderReady, ReadyJoin DEF EncodeTm, Finish

(* The messages between Linux and Core 1. *)
LEMMA CarriedReady ==
  /\ Ready(encode_ping) /\ Ready(encode_modem_config) /\ Ready(encode_channel)
  /\ Ready(encode_acm_config) /\ Ready(encode_time) /\ Ready(encode_rx_frame)
<1>1. Ready(encode_ping) /\ Ready(encode_time)
  BY ReadyU32 DEF encode_ping, encode_time
<1>2. Ready(encode_modem_config)
  BY ReadyU8 DEF encode_modem_config
<1>3. Ready(encode_channel)
  BY ReadyU16 DEF encode_channel
<1>4. Ready(encode_acm_config)
  BY ReadyU8, ReadyCenti, ReadyJoin DEF encode_acm_config
<1>5. Ready(encode_rx_frame)
  BY ReadyU8, ReadyCenti, ReadyJoin DEF encode_rx_frame, Frame
<1> QED
  BY <1>1, <1>2, <1>3, <1>4, <1>5

LEMMA CarriedAlways == CarriedArrive
<1>1. /\ decode_ping = encode_ping /\ decode_modem_config = encode_modem_config
      /\ decode_channel = encode_channel /\ decode_acm_config = encode_acm_config
      /\ decode_time = encode_time /\ decode_rx_frame = encode_rx_frame
  BY DEF decode_ping, encode_ping, decode_modem_config, encode_modem_config, decode_channel,
         encode_channel, decode_acm_config, encode_acm_config, decode_time, encode_time,
         decode_rx_frame, encode_rx_frame
<1>2. ASSUME NEW m \in Carried PROVE m[2] = m[1] /\ Ready(m[1])
  BY <1>1, CarriedReady DEF Carried
<1> QED
  BY <1>2, Ends DEF CarriedArrive

(* ST[01] and ST[05] reports. *)
LEMMA ReportsAlways == ReportsArrive
<1>1. Ready(EmitEvent) /\ InterpretEvent = EmitEvent
  BY ReadyU8, ReadyU16, ReadyJoin DEF EmitEvent, InterpretEvent
<1>2. ASSUME NEW f \in BOOLEAN
      PROVE  InterpretVerification(f) = VerificationData(f) /\ Ready(VerificationData(f))
  <2>1. Ready(U16(<<"packet id", "sequence control">>)) /\ Ready(U16(<<"failure">>))
    BY ReadyU16
  <2>2. CASE f = TRUE
    BY <2>1, <2>2, ReadyJoin DEF InterpretVerification, VerificationData
  <2>3. CASE f = FALSE
    <3>1. U16(<<"packet id", "sequence control">>) \o <<>> = U16(<<"packet id",
          "sequence control">>)
      BY <2>1, JoinNothing
    <3> QED
      BY <2>1, <2>3, <3>1 DEF InterpretVerification, VerificationData
  <2> QED
    BY <2>2, <2>3
<1>3. ASSUME NEW h \in {<<VerificationData(f), InterpretVerification(f)>> : f \in BOOLEAN}
                       \cup {<<EmitEvent, InterpretEvent>>}
      PROVE  h[2] = h[1] /\ Ready(h[1])
  BY <1>1, <1>2
<1> QED
  BY <1>3, Ends DEF ReportsArrive

LEMMA PacketsAlways == PacketsArrive
<1>1. /\ DecodeTc = EncodeTc /\ encode_tc = EncodeTc /\ encode_py = EncodeTc
      /\ DecodeTm = EncodeTm /\ decode_tm = EncodeTm /\ decode_py = EncodeTm
  BY DEF DecodeTc, EncodeTc, encode_tc, encode_py, DecodeTm, EncodeTm, decode_tm, decode_py,
         EncodePrimaryHeader, DecodePrimaryHeader, primary_header, header_py
<1>2. ASSUME NEW h \in {<<EncodeTc, DecodeTc>>, <<encode_tc, DecodeTc>>, <<encode_py, DecodeTc>>,
                        <<EncodeTm, DecodeTm>>, <<EncodeTm, decode_tm>>, <<EncodeTm, decode_py>>}
      PROVE  Read(h[2], Write(h[1], Real(Names(h[1]), 0))) = Real(Names(h[1]), 0)
  <2>1. h[2] = h[1] /\ Ready(h[1])
    BY <1>1, TcReady, TmReady
  <2> QED
    BY <2>1, Ends
<1>3. ASSUME NEW n \in Points
      PROVE  CheckCommon(Whole("tc", 5, n), "tc", 5) /\ CheckCommon(Whole("tm", 13, n), "tm", 13)
  <2>1. n \in Nat
    BY DEF Points
  <2> QED
    BY <2>1 DEF CheckCommon, Whole
<1>4. ASSUME NEW p \in Arriving
      PROVE  accepts_rs(p) = CheckCommon(p, "tm", 13) /\ accepts_py(p) = CheckCommon(p, "tm", 13)
  <2>1. p.size \in Int /\ p.length \in Int
    BY DEF Arriving
  <2> QED
    BY <2>1 DEF accepts_rs, accepts_py, CheckCommon
<1> QED
  BY <1>2, <1>3, <1>4 DEF PacketsArrive

-----------------------------------------------------------------------------
(* Pieces of sequences.                                                    *)

(* Sequences of any elements, cut and joined. *)
IsSeq(s, n) == (\E S : s \in Seq(S)) /\ Len(s) = n

LEMMA TupleSeq ==
  ASSUME NEW n \in Nat, NEW t, Tuple(t, n)
  PROVE  IsSeq(t, n)
<1>1. t \in [1 .. n -> {t[i] : i \in 1 .. n}]
  BY DEF Tuple
<1>2. t \in Seq({t[i] : i \in 1 .. n}) /\ Len(t) = n
  BY <1>1, IsSequence
<1> QED
  BY <1>2 DEF IsSeq

(* s has the n elements of a from the one after p on, after k others. *)
Piece(s, k, a, p, n) == \A i \in 1 .. n : s[k + i] = a[p + i]

LEMMA PieceOn ==
  ASSUME NEW s, NEW k, NEW a, NEW p, NEW b, NEW q, NEW n, Piece(s, k, a, p, n), Piece(a, p, b, q, n)
  PROVE  Piece(s, k, b, q, n)
BY DEF Piece

LEMMA PieceAt ==
  ASSUME NEW s, NEW k \in Nat, NEW a, NEW p \in Nat, NEW n \in Nat, Piece(s, k, a, p, n),
         NEW i \in Nat, i > k, i <= k + n
  PROVE  s[i] = a[p + (i - k)]
<1>1. i - k \in 1 .. n /\ k + (i - k) = i
  OBVIOUS
<1>2. s[k + (i - k)] = a[p + (i - k)]
  BY <1>1 DEF Piece
<1> QED
  BY <1>1, <1>2

LEMMA JoinSeq ==
  ASSUME NEW n \in Nat, NEW m \in Nat, NEW a, IsSeq(a, n), NEW b, IsSeq(b, m)
  PROVE  IsSeq(a \o b, n + m) /\ Piece(a \o b, 0, a, 0, n) /\ Piece(a \o b, n, b, 0, m)
<1>1. PICK S : a \in Seq(S) /\ b \in Seq(S)
  <2>1. PICK S1, S2 : a \in Seq(S1) /\ b \in Seq(S2)
    BY DEF IsSeq
  <2>2. a \in Seq(S1 \cup S2) /\ b \in Seq(S1 \cup S2)
    BY <2>1
  <2> QED
    BY <2>2
<1>2. Len(a) = n /\ Len(b) = m
  BY DEF IsSeq
<1>3. /\ a \o b \in Seq(S) /\ Len(a \o b) = n + m
      /\ \A x \in 1 .. n + m : (a \o b)[x] = IF x <= n THEN a[x] ELSE b[x - n]
  BY <1>1, <1>2, Joined
<1>4. IsSeq(a \o b, n + m)
  BY <1>3 DEF IsSeq
<1>5. \A i \in 1 .. n : i \in 1 .. n + m /\ i <= n
  OBVIOUS
<1>6. \A i \in 1 .. m : n + i \in 1 .. n + m /\ ~(n + i <= n) /\ (n + i) - n = i
  OBVIOUS
<1>7. Piece(a \o b, 0, a, 0, n)
  <2>1. \A i \in 1 .. n : (a \o b)[i] = a[i] /\ 0 + i = i
    BY <1>3, <1>5
  <2> QED
    BY <2>1 DEF Piece
<1>8. Piece(a \o b, n, b, 0, m)
  <2>1. \A i \in 1 .. m : (a \o b)[n + i] = b[i] /\ 0 + i = i
    BY <1>3, <1>6
  <2> QED
    BY <2>1 DEF Piece
<1> QED
  BY <1>4, <1>7, <1>8

LEMMA PartSeq ==
  ASSUME NEW n \in Nat, NEW a, IsSeq(a, n), NEW p \in 0 .. n, NEW k \in Nat, p + k <= n
  PROVE  /\ IsSeq(SubSeq(a, p + 1, p + k), k)
         /\ Piece(SubSeq(a, p + 1, p + k), 0, a, p, k)
<1>1. PICK S : a \in Seq(S) /\ Len(a) = n
  BY DEF IsSeq
<1> DEFINE z == SubSeq(a, p + 1, p + k)
<1>2. z = [i \in 1 .. k |-> a[p + i]]
  <2>1. z = [i \in 1 .. ((p + k) - (p + 1)) + 1 |-> a[((p + 1) + i) - 1]]
    BY <1>1
  <2>2. ((p + k) - (p + 1)) + 1 = k /\ \A i \in 1 .. k : ((p + 1) + i) - 1 = p + i
    OBVIOUS
  <2> QED
    BY <2>1, <2>2
<1> HIDE DEF z
<1>3. Tuple(z, k) /\ \A i \in 1 .. k : z[i] = a[p + i]
  BY <1>2 DEF Tuple
<1>4. IsSeq(z, k)
  BY <1>3, TupleSeq
<1>5. Piece(z, 0, a, p, k)
  <2>1. \A i \in 1 .. k : 0 + i = i
    OBVIOUS
  <2> QED
    BY <1>3, <2>1 DEF Piece
<1> QED
  BY <1>4, <1>5 DEF z

LEMMA TailSeq ==
  ASSUME NEW n \in Nat, NEW a, IsSeq(a, n + 1)
  PROVE  IsSeq(Tail(a), n) /\ Piece(Tail(a), 0, a, 1, n)
<1>1. PICK S : a \in Seq(S) /\ Len(a) = n + 1
  BY DEF IsSeq
<1>2. /\ Tail(a) \in Seq(S) /\ Len(Tail(a)) = n
      /\ \A i \in 1 .. n : Tail(a)[i] = a[i + 1]
  <2>1. a # <<>>
    BY <1>1
  <2> QED
    BY <1>1, <2>1
<1>3. Piece(Tail(a), 0, a, 1, n)
  <2>1. \A i \in 1 .. n : 0 + i = i /\ 1 + i = i + 1
    OBVIOUS
  <2> QED
    BY <1>2, <2>1 DEF Piece
<1> QED
  BY <1>2, <1>3 DEF IsSeq

LEMMA SameSeq ==
  ASSUME NEW n \in Nat, NEW a, IsSeq(a, n), NEW b, IsSeq(b, n), \A i \in 1 .. n : a[i] = b[i]
  PROVE  a = b
<1>1. PICK S1, S2 : a \in Seq(S1) /\ b \in Seq(S2)
  BY DEF IsSeq
<1>2. Len(a) = n /\ Len(b) = n
  BY DEF IsSeq
<1>3. a = [i \in 1 .. n |-> a[i]] /\ b = [i \in 1 .. n |-> b[i]]
  BY <1>1, <1>2
<1> QED
  BY <1>3

-----------------------------------------------------------------------------
(* The text of a change, periods, times and temperatures.                  *)

(* The text of a change: eight of its characters count. *)
LEMMA ChangeAlways == ChangeArrives
<1> DEFINE text == on_acm_change("0", "1")
           cut == SubSeq(text, 0 + 1, 0 + 10)
           one == <<"level">>
           wire == one \o cut
           back == Tail(wire)
           word == SubSeq(back, 0 + 1, 0 + 4)
           acm == <<"A", "C", "M", " ">>
<1>1. IsSeq(text, 11)
  <2>1. Tuple(text, 11)
    BY DEF Tuple, on_acm_change
  <2> HIDE DEF text
  <2> QED
    BY <2>1, TupleSeq
<1>2. /\ text[1] = "A" /\ text[2] = "C" /\ text[3] = "M" /\ text[4] = " "
      /\ text[5] = "0" /\ text[8] = "1"
  BY DEF on_acm_change
<1> HIDE DEF text
<1>3. IsSeq(cut, 10) /\ Piece(cut, 0, text, 0, 10)
  BY <1>1, PartSeq
<1>4. encode_log(text) = wire
  <2>1. Len(text) = 11 /\ 0 + 1 = 1 /\ 0 + 10 = 10
    BY <1>1 DEF IsSeq
  <2> QED
    BY <2>1 DEF encode_log, LogMax
<1> HIDE DEF cut
<1>5. IsSeq(one, 1)
  <2>1. Tuple(one, 1)
    BY DEF Tuple
  <2> HIDE DEF one
  <2> QED
    BY <2>1, TupleSeq
<1> HIDE DEF one
<1>6. IsSeq(wire, 10 + 1) /\ Piece(wire, 1, cut, 0, 10)
  <2>1. 1 \in Nat /\ 10 \in Nat
    OBVIOUS
  <2>2. IsSeq(wire, 1 + 10) /\ Piece(wire, 1, cut, 0, 10)
    BY <1>3, <1>5, <2>1, JoinSeq
  <2> QED
    BY <2>2 DEF IsSeq
<1> HIDE DEF wire
<1>7. decode_log(wire) = back
  BY <1>6 DEF decode_log, IsSeq, LogMax
<1>8. IsSeq(back, 10) /\ Piece(back, 0, text, 0, 10)
  <2>1. 10 \in Nat
    OBVIOUS
  <2>2. IsSeq(back, 10) /\ Piece(back, 0, wire, 1, 10)
    BY <1>6, <2>1, TailSeq
  <2> QED
    BY <1>3, <1>6, <2>2, PieceOn
<1> HIDE DEF back
<1>9. /\ back[1] = "A" /\ back[2] = "C" /\ back[3] = "M" /\ back[4] = " "
      /\ back[5] = "0" /\ back[8] = "1"
  <2>1. /\ back[1] = text[1] /\ back[2] = text[2] /\ back[3] = text[3] /\ back[4] = text[4]
        /\ back[5] = text[5] /\ back[8] = text[8]
    BY <1>8 DEF Piece
  <2> QED
    BY <1>2, <2>1
<1>10. word = acm
  <2>1. IsSeq(word, 4) /\ Piece(word, 0, back, 0, 4)
    BY <1>8, PartSeq
  <2>2. Tuple(acm, 4) /\ acm[1] = "A" /\ acm[2] = "C" /\ acm[3] = "M" /\ acm[4] = " "
    BY DEF Tuple
  <2> HIDE DEF acm, word
  <2>3. IsSeq(acm, 4)
    BY <2>2, TupleSeq
  <2>4. word[1] = back[1] /\ word[2] = back[2] /\ word[3] = back[3] /\ word[4] = back[4]
    BY <2>1 DEF Piece
  <2>5. word[1] = acm[1] /\ word[2] = acm[2] /\ word[3] = acm[3] /\ word[4] = acm[4]
    BY <1>9, <2>2, <2>4
  <2>6. \A i \in 1 .. 4 : word[i] = acm[i]
    BY <2>5
  <2> QED
    BY <2>1, <2>3, <2>6, SameSeq
<1>11. OnLog(back) = <<"0", "1">>
  <2>1. Len(back) = 10 /\ 0 + 1 = 1 /\ 0 + 4 = 4
    BY <1>8 DEF IsSeq
  <2>2. SubSeq(back, 1, 4) = acm
    BY <1>10, <2>1
  <2>3. Len(back) >= 8
    BY <2>1
  <2>4. OnLog(back) = <<back[5], back[8]>>
    BY <2>2, <2>3, Zenon DEF OnLog, acm
  <2> QED
    BY <1>9, <2>4
<1> QED
  BY <1>4, <1>7, <1>11 DEF ChangeArrives, text

LEMMA PeriodArrives ==
  ASSUME NEW ms \in Periods
  PROVE  CommandedPeriod(decode_command(encode_command("SET_PERIOD", PeriodArgs(ms)))) = ms
<1> DEFINE lo == ms % 256
           hi == (ms \div 256) % 256
           op == <<"SET_PERIOD">>
           args == <<lo, hi>>
           data == op \o args
           argv == Padded(Tail(data), MaxDlc - 1)
<1>1. lo + 256 * hi = ms /\ lo \in Int /\ hi \in Int
  <2>1. ms \in Nat /\ ms <= 10000
    BY DEF Periods
  <2> QED
    BY <2>1
<1>2. IsSeq(op, 1)
  <2>1. Tuple(op, 1)
    BY DEF Tuple
  <2> HIDE DEF op
  <2> QED
    BY <2>1, TupleSeq
<1>3. IsSeq(args, 2) /\ args[1] = lo /\ args[2] = hi
  <2>1. Tuple(args, 2) /\ args[1] = lo /\ args[2] = hi
    BY DEF Tuple
  <2> HIDE DEF args
  <2> QED
    BY <2>1, TupleSeq
<1>4. /\ encode_command("SET_PERIOD", PeriodArgs(ms)).data = data
      /\ decode_command(encode_command("SET_PERIOD", PeriodArgs(ms))).argv = argv
  BY DEF encode_command, decode_command, PeriodArgs
<1> HIDE DEF op, args, lo, hi
<1>5. IsSeq(data, 2 + 1) /\ data[1 + 1] = lo /\ data[1 + 2] = hi
  <2>1. 1 \in Nat /\ 2 \in Nat
    OBVIOUS
  <2>2. IsSeq(data, 1 + 2) /\ Piece(data, 1, args, 0, 2)
    BY <1>2, <1>3, <2>1, JoinSeq
  <2> HIDE DEF data
  <2>3. IsSeq(data, 2 + 1)
    BY <2>2 DEF IsSeq
  <2>4. data[1 + 1] = args[0 + 1] /\ data[1 + 2] = args[0 + 2]
    BY <2>2 DEF Piece
  <2> QED
    BY <1>3, <2>3, <2>4
<1> HIDE DEF data
<1> DEFINE tail == Tail(data)
<1>6. Len(tail) = 2 /\ tail[1] = lo /\ tail[2] = hi
  <2>1. 2 \in Nat
    OBVIOUS
  <2>2. IsSeq(tail, 2) /\ Piece(tail, 0, data, 1, 2)
    BY <1>5, <2>1, TailSeq
  <2> HIDE DEF tail
  <2>3. tail[0 + 1] = data[1 + 1] /\ tail[0 + 2] = data[1 + 2]
    BY <2>2 DEF Piece
  <2> QED
    BY <1>5, <2>2, <2>3 DEF IsSeq
<1> HIDE DEF tail
<1>7. argv[1] = lo /\ argv[2] = hi
  <2>1. argv = [i \in 1 .. 7 |-> IF i <= Len(tail) THEN tail[i] ELSE 0]
    BY DEF Padded, MaxDlc, tail
  <2> HIDE DEF argv
  <2> QED
    BY <1>6, <2>1
<1> HIDE DEF argv
<1> QED
  BY <1>1, <1>4, <1>7 DEF CommandedPeriod

LEMMA TimeArrives ==
  ASSUME NEW t \in Times
  PROVE  decode_time_sync(encode_time_sync(SyncTime(t))) = SyncTime(t)
<1> DEFINE s == t \div 1000
           m == t % 1000
<1>1. m \in Int /\ ~(m > 999)
  BY DEF Times
<1>2. SyncTime(t) = [unix_s |-> s, millis |-> m]
  BY DEF SyncTime
<1> HIDE DEF s, m
<1>3. encode_time_sync(SyncTime(t)) = <<s, m>>
  BY <1>1, <1>2 DEF encode_time_sync
<1>4. decode_time_sync(<<s, m>>) = [unix_s |-> s, millis |-> m]
  BY <1>1 DEF decode_time_sync
<1> QED
  BY <1>2, <1>3, <1>4

LEMMA TemperatureArrives ==
  ASSUME NEW code \in Codes, NEW v, v = xadc_temp_centi_c(code), NEW h, h = Hundredths(v)
  PROVE  -32768 <= v /\ v <= 32767 /\ v = (IF h.minus THEN -1 ELSE 1) * (100 * h.whole + h.frac)
<1> DEFINE d == (code * 100795) \div 8192
<1>1. code \in Nat /\ code <= 4095
  BY DEF Codes
<1>2. d \in Int /\ 0 <= d /\ d <= 50386
  BY <1>1
<1>3. v = d - 27315
  BY DEF xadc_temp_centi_c
<1> HIDE DEF d
<1>4. v \in Int /\ -32768 <= v /\ v <= 32767
  BY <1>2, <1>3
<1> DEFINE m == IF v < 0 THEN -v ELSE v
           q == m \div 100
           r == m % 100
           s == IF v < 0 THEN -1 ELSE 1
           w == s * q
<1>5. m \in Nat /\ (v < 0 => m > 0)
  BY <1>4
<1>6. v = s * m
  BY <1>4
<1>7. h.minus = ((v < 0 /\ w = 0) \/ w < 0) /\ h.whole = Magnitude(w) /\ h.frac = r
  BY DEF Hundredths, Magnitude
<1> HIDE DEF m
<1>8. q \in Nat /\ r \in Nat /\ m = 100 * q + r
  BY <1>5
<1> HIDE DEF q, r
<1>9. w \in Int /\ w = IF v < 0 THEN -q ELSE q
  BY <1>4, <1>8
<1> HIDE DEF w
<1>10. Magnitude(w) = q
  BY <1>8, <1>9 DEF Magnitude
<1>11. h.minus <=> v < 0
  <2>1. (v < 0 /\ w = 0) \/ w < 0 <=> v < 0
    BY <1>4, <1>8, <1>9
  <2> QED
    BY <1>7, <2>1, Zenon
<1>12. (IF h.minus THEN -1 ELSE 1) = s
  BY <1>11
<1> QED
  BY <1>4, <1>6, <1>7, <1>8, <1>10, <1>12

-----------------------------------------------------------------------------
(* Acknowledgements, and frames that several decoders look at.             *)

LEMMA SameHeld ==
  ASSUME NEW n \in Nat, NEW a, IsSeq(a, n), NEW b, IsSeq(b, n), Piece(a, 0, b, 0, n)
  PROVE  a = b
<1>1. \A i \in 1 .. n : a[i] = b[i]
  <2>1. \A i \in 1 .. n : 0 + i = i
    OBVIOUS
  <2> QED
    BY <2>1 DEF Piece
<1> QED
  BY <1>1, SameSeq

(* An acknowledgement with the data it has room for. *)
Acknowledged(op, data) ==
  LET a == decode_ack(send_ack(op, data))
  IN  a.op = op /\ SubSeq(a.datav, 1, a.datac) = data

LEMMA AckArrives ==
  ASSUME NEW n \in Nat, n <= 6, NEW data, IsSeq(data, n), NEW op
  PROVE  Acknowledged(op, data)
<1> DEFINE a == decode_ack(send_ack(op, data))
           pad == Padded(data, MaxDlc - 2)
           sub == SubSeq(pad, 0 + 1, 0 + n)
           head == <<op, 0>>
           wire == head \o data
           rest == SubSeq(wire, 2 + 1, 2 + n)
<1>1. sub = data
  <2>1. pad = [i \in 1 .. 6 |-> IF i <= Len(data) THEN data[i] ELSE 0]
    BY DEF Padded, MaxDlc
  <2> HIDE DEF pad
  <2>2. Tuple(pad, 6) /\ \A i \in 1 .. n : pad[0 + i] = data[0 + i]
    BY <2>1 DEF IsSeq, Tuple
  <2>3. IsSeq(pad, 6)
    BY <2>2, TupleSeq
  <2>4. IsSeq(sub, n) /\ Piece(sub, 0, pad, 0, n)
    BY <2>3, PartSeq
  <2>5. Piece(pad, 0, data, 0, n)
    BY <2>2 DEF Piece
  <2> HIDE DEF sub
  <2> QED
    BY <2>4, <2>5, PieceOn, SameHeld
<1>2. IsSeq(head, 2) /\ head[1] = op
  <2>1. Tuple(head, 2) /\ head[1] = op
    BY DEF Tuple
  <2> HIDE DEF head
  <2> QED
    BY <2>1, TupleSeq
<1>3. send_ack(op, data).data = wire
  <2>1. Len(data) = n /\ 0 + 1 = 1 /\ 0 + n = n
    BY DEF IsSeq
  <2>2. send_ack(op, data).data = head \o SubSeq(pad, 1, n)
    BY <2>1 DEF send_ack, encode_ack
  <2> QED
    BY <1>1, <2>1, <2>2
<1> HIDE DEF head
<1>4. IsSeq(wire, 2 + n) /\ wire[1] = op /\ Piece(wire, 2, data, 0, n)
  <2>1. 2 \in Nat
    OBVIOUS
  <2>2. IsSeq(wire, 2 + n) /\ Piece(wire, 0, head, 0, 2) /\ Piece(wire, 2, data, 0, n)
    BY <1>2, <2>1, JoinSeq
  <2> HIDE DEF wire
  <2>3. wire[0 + 1] = head[0 + 1]
    BY <2>2 DEF Piece
  <2> QED
    BY <1>2, <2>2, <2>3
<1> HIDE DEF wire
<1>5. rest = data
  <2>1. 2 + n \in Nat /\ 2 \in 0 .. 2 + n
    OBVIOUS
  <2>2. IsSeq(rest, n) /\ Piece(rest, 0, wire, 2, n)
    BY <1>4, <2>1, PartSeq
  <2> HIDE DEF rest
  <2> QED
    BY <1>4, <2>2, PieceOn, SameHeld
<1>6. a.op = op /\ a.datac = n /\ a.datav = pad
  <2>1. Len(wire) = 2 + n /\ (2 + n) - 2 = n /\ 2 + 1 = 3
    BY <1>4 DEF IsSeq
  <2>2. rest = SubSeq(wire, 3, Len(wire))
    BY <2>1
  <2> HIDE DEF rest, pad
  <2>3. a = [op |-> wire[1], status |-> wire[2], datac |-> Len(wire) - 2,
             datav |-> Padded(SubSeq(wire, 3, Len(wire)), MaxDlc - 2)]
    BY <1>3 DEF decode_ack
  <2>4. a = [op |-> op, status |-> wire[2], datac |-> n, datav |-> pad]
    BY <1>4, <1>5, <2>1, <2>2, <2>3 DEF pad
  <2> QED
    BY <2>4
<1>7. SubSeq(pad, 1, n) = data
  <2>1. 0 + 1 = 1 /\ 0 + n = n
    OBVIOUS
  <2> QED
    BY <1>1, <2>1
<1> HIDE DEF a, pad
<1>8. a.op = op /\ SubSeq(a.datav, 1, a.datac) = data
  BY <1>6, <1>7
<1> QED
  BY <1>8, Zenon DEF Acknowledged, a

(* The numbers of three frames of housekeeping data. *)
LEMMA SizeOf ==
  ASSUME NEW l, Ready(l), NEW v
  PROVE  Size(l) \in Nat /\ (\E S : Write(l, v) \in Seq(S)) /\ Len(Write(l, v)) = Size(l)
<1>1. PICK S : Wrote(l, v, S, Len(l), Write(l, v))
  BY Written DEF Ready
<1>2. Len(l) + 1 \in 1 .. Len(l) + 1
  BY LayoutIs DEF Ready
<1> QED
  BY <1>1, <1>2, Starts DEF Wrote, Size, Ready

LEMMA FrameRead ==
  ASSUME NEW l, Ready(l), Size(l) <= 8, NEW id
  PROVE  Decode(id, l, HkFrame(id, l)) = Real(Names(l), 0)
<1> DEFINE d == Write(l, Real(Names(l), 0))
           s == Size(l)
<1>1. s \in Nat /\ (\E S : d \in Seq(S)) /\ Len(d) = s
  BY SizeOf
<1>2. Read(l, d) = Real(Names(l), 0)
  BY Ends
<1>3. HkFrame(id, l).id = id /\ HkFrame(id, l).data = d
  BY DEF HkFrame
<1> HIDE DEF d, s
<1>4. Len(d) \in s .. 8
  BY <1>1 DEF s
<1>5. SubSeq(d, 1, s) = d
  <2>1. IsSeq(d, s)
    BY <1>1 DEF IsSeq
  <2>2. 0 \in 0 .. s /\ 0 + s <= s /\ 0 + 1 = 1 /\ 0 + s = s
    BY <1>1
  <2> DEFINE z == SubSeq(d, 0 + 1, 0 + s)
  <2>3. IsSeq(z, s) /\ Piece(z, 0, d, 0, s)
    BY <1>1, <2>1, <2>2, PartSeq
  <2>4. z = SubSeq(d, 1, s)
    BY <2>2
  <2> HIDE DEF z
  <2>5. z = d
    BY <1>1, <2>1, <2>3, SameHeld
  <2> QED
    BY <2>4, <2>5
<1> QED
  BY <1>2, <1>3, <1>4, <1>5 DEF Decode, frame_matches, MaxDlc, s

LEMMA FrameOther ==
  ASSUME NEW l, NEW id, NEW r, NEW other, other # id
  PROVE  Decode(other, r, HkFrame(id, l)) = Unknown
BY DEF Decode, frame_matches, HkFrame

-----------------------------------------------------------------------------
(* Sizes of layouts.                                                       *)

(* The size of layouts in a row, and of numbers of one size. *)
LEMMA SizeJoin ==
  ASSUME NEW a, IsLayout(a), NEW b, IsLayout(b)
  PROVE  Size(a \o b) = Size(a) + Size(b)
<1> DEFINE c == a \o b
<1>1. PICK n \in Nat, m \in Nat : n = Len(a) /\ m = Len(b)
  BY LayoutIs
<1>2. /\ IsLayout(c) /\ Len(c) = n + m
      /\ \A i \in 1 .. n + m : c[i] = IF i <= n THEN a[i] ELSE b[i - n]
  BY <1>1, JoinLayout
<1> HIDE DEF c
<1>3. ASSUME NEW k \in 0 .. n PROVE Start(c, k + 1) = Start(a, k + 1)
  <2> DEFINE S == {x \in Nat : Start(c, x + 1) = Start(a, x + 1)}
  <2>1. 0 \in S
    BY <1>2, Starts
  <2>2. ASSUME NEW x \in 0 .. n, x < n, x \in S PROVE x + 1 \in S
    <3>1. x + 1 \in 1 .. n /\ x + 1 \in 1 .. n + m /\ x + 1 \in Nat
      BY <2>2
    <3>2. c[x + 1] = a[x + 1]
      BY <1>2, <3>1
    <3>3. /\ Start(c, (x + 1) + 1) = Start(c, x + 1) + c[x + 1].w
          /\ Start(a, (x + 1) + 1) = Start(a, x + 1) + a[x + 1].w
      BY <1>1, <1>2, <3>1, Starts
    <3> QED
      BY <2>2, <3>1, <3>2, <3>3
  <2> HIDE DEF S
  <2>3. 0 .. n \subseteq S
    BY <2>1, <2>2, UpTo
  <2>4. k \in S
    BY <2>3
  <2> QED
    BY <2>4 DEF S
<1>4. Start(c, n + 1) \in Nat /\ Start(c, n + 1) = Start(a, n + 1)
  <2>1. n \in 0 .. n /\ n + 1 \in 1 .. Len(c) + 1
    BY <1>2
  <2> QED
    BY <1>2, <1>3, <2>1, Starts
<1>5. Start(c, (n + m) + 1) = Start(c, n + 1) + Start(b, m + 1)
  <2> DEFINE S == {x \in Nat : Start(c, (n + x) + 1) = Start(c, n + 1) + Start(b, x + 1)}
  <2>1. 0 \in S
    <3>1. Start(b, 0 + 1) = 0 /\ n + 0 = n
      BY Starts
    <3> QED
      BY <1>4, <3>1
  <2>2. ASSUME NEW x \in 0 .. m, x < m, x \in S PROVE x + 1 \in S
    <3>1. /\ x + 1 \in 1 .. m /\ x + 1 \in Nat /\ n + (x + 1) \in 1 .. n + m
          /\ ~(n + (x + 1) <= n) /\ (n + (x + 1)) - n = x + 1 /\ n + (x + 1) = (n + x) + 1
          /\ x + 1 \in 1 .. m + 1
      BY <2>2
    <3>2. c[n + (x + 1)] = b[x + 1]
      BY <1>2, <3>1
    <3>3. /\ Start(c, (n + (x + 1)) + 1) = Start(c, n + (x + 1)) + c[n + (x + 1)].w
          /\ Start(b, (x + 1) + 1) = Start(b, x + 1) + b[x + 1].w
      BY <1>1, <1>2, <3>1, Starts
    <3>4. Start(b, x + 1) \in Nat /\ b[x + 1].w \in Nat
      BY <1>1, <3>1, Starts, LayoutIs
    <3>5. Start(c, n + (x + 1)) = Start(c, n + 1) + Start(b, x + 1)
      BY <2>2, <3>1
    <3>6. Start(c, (n + (x + 1)) + 1) = Start(c, n + 1) + Start(b, (x + 1) + 1)
      BY <1>4, <3>2, <3>3, <3>4, <3>5
    <3> QED
      BY <3>1, <3>6
  <2> HIDE DEF S
  <2>3. 0 .. m \subseteq S
    BY <2>1, <2>2, UpTo
  <2>4. m \in S
    BY <2>3
  <2> QED
    BY <2>4 DEF S
<1> QED
  BY <1>1, <1>2, <1>4, <1>5 DEF Size, c

LEMMA SizeSame ==
  ASSUME NEW l, IsLayout(l), NEW w \in {1, 2, 4}, \A i \in 1 .. Len(l) : l[i].w = w
  PROVE  Size(l) = w * Len(l)
<1> DEFINE n == Len(l)
           S == {x \in Nat : Start(l, x + 1) = w * x}
<1>1. n \in Nat
  BY LayoutIs
<1>2. 0 \in S
  BY Starts
<1>3. ASSUME NEW x \in 0 .. n, x < n, x \in S PROVE x + 1 \in S
  <2>1. x + 1 \in 1 .. n /\ x + 1 \in Nat /\ w * (x + 1) = w * x + w
    BY <1>1, <1>3
  <2>2. Start(l, (x + 1) + 1) = Start(l, x + 1) + w
    BY <2>1, Starts
  <2> QED
    BY <1>3, <2>1, <2>2
<1> HIDE DEF S
<1>4. 0 .. n \subseteq S
  <2> HIDE DEF n
  <2> QED
    BY <1>1, <1>2, <1>3, UpTo
<1>5. n \in S
  BY <1>1, <1>4
<1> QED
  BY <1>5 DEF S, Size

Sizes(signed, per, names, n) ==
  /\ Size(Fields(1, signed, per, names)) = n
  /\ Size(Fields(2, signed, per, names)) = 2 * n
  /\ Size(Fields(4, signed, per, names)) = 4 * n

LEMMA SizeFields ==
  ASSUME NEW signed, NEW per, NEW n \in Nat, NEW names, Tuple(names, n)
  PROVE  Sizes(signed, per, names, n)
<1>1. ASSUME NEW w \in {1, 2, 4} PROVE Size(Fields(w, signed, per, names)) = w * n
  <2> DEFINE l == Fields(w, signed, per, names)
  <2>1. Wide(w)
    BY DEF Wide
  <2>2. Just(l, n, Listed(names, n)) /\ Same(l, w, <<w, signed, per>>)
    BY <2>1, FieldsLayout
  <2> HIDE DEF l
  <2>3. IsLayout(l) /\ Len(l) = n /\ \A i \in 1 .. Len(l) : l[i].w = w
    BY <2>2 DEF Just, Same
  <2>4. Size(l) = w * Len(l)
    BY <2>3, SizeSame
  <2> QED
    BY <2>3, <2>4 DEF l
<1>2. Size(Fields(1, signed, per, names)) = 1 * n
  BY <1>1
<1>3. Size(Fields(2, signed, per, names)) = 2 * n
  BY <1>1
<1>4. Size(Fields(4, signed, per, names)) = 4 * n
  BY <1>1
<1> QED
  BY <1>2, <1>3, <1>4 DEF Sizes

-----------------------------------------------------------------------------
(* The bus of the housekeeping controller.                                 *)

LEMMA BusLayouts ==
  /\ Ready(encode_env) /\ Ready(encode_supply) /\ Ready(encode_status)
  /\ Names(encode_env) = {"temp", "vccint", "vccaux", "vbram"}
  /\ Names(encode_supply) = {"vccpint", "vccpaux", "vcco_ddr"}
  /\ Names(encode_status) = {"hkc_uptime", "reset_cause", "switches", "cmd_count", "error_flags"}
<1>1. Ready(Centi(<<"temp">>)) /\ Names(Centi(<<"temp">>)) = {"temp"}
  BY ReadyCenti
<1>2. /\ Ready(U16(<<"vccint", "vccaux", "vbram">>))
      /\ Names(U16(<<"vccint", "vccaux", "vbram">>)) = {"vccint", "vccaux", "vbram"}
  BY ReadyU16
<1>3. Ready(U32(<<"hkc_uptime">>)) /\ Names(U32(<<"hkc_uptime">>)) = {"hkc_uptime"}
  BY ReadyU32
<1>4. /\ Ready(U8(<<"reset_cause", "switches", "cmd_count", "error_flags">>))
      /\ Names(U8(<<"reset_cause", "switches", "cmd_count", "error_flags">>))
           = {"reset_cause", "switches", "cmd_count", "error_flags"}
  BY ReadyU8
<1>5. Ready(encode_env) /\ Names(encode_env) = {"temp", "vccint", "vccaux", "vbram"}
  <2>1. Ready(encode_env) /\ Names(encode_env) = {"temp"} \cup {"vccint", "vccaux", "vbram"}
    BY <1>1, <1>2, ReadyJoin DEF encode_env
  <2> QED
    BY <2>1
<1>6. Ready(encode_supply) /\ Names(encode_supply) = {"vccpint", "vccpaux", "vcco_ddr"}
  BY ReadyU16 DEF encode_supply
<1>7. /\ Ready(encode_status)
      /\ Names(encode_status) = {"hkc_uptime", "reset_cause", "switches", "cmd_count",
         "error_flags"}
  <2>1. /\ Ready(encode_status)
        /\ Names(encode_status)
             = {"hkc_uptime"} \cup {"reset_cause", "switches", "cmd_count", "error_flags"}
    BY <1>3, <1>4, ReadyJoin DEF encode_status
  <2> QED
    BY <2>1
<1> QED
  BY <1>5, <1>6, <1>7

LEMMA BusSizes == Size(encode_env) <= 8 /\ Size(encode_supply) <= 8 /\ Size(encode_status) <= 8
<1> DEFINE n1 == <<"temp">>
           n3 == <<"vccint", "vccaux", "vbram">>
           s3 == <<"vccpint", "vccpaux", "vcco_ddr">>
           u1 == <<"hkc_uptime">>
           u4 == <<"reset_cause", "switches", "cmd_count", "error_flags">>
<1>1. Tuple(n1, 1) /\ Tuple(n3, 3) /\ Tuple(s3, 3) /\ Tuple(u1, 1) /\ Tuple(u4, 4)
  BY DEF Tuple
<1>2. Ready(Centi(n1)) /\ Ready(U16(n3)) /\ Ready(U32(u1)) /\ Ready(U8(u4))
  BY ReadyCenti, ReadyU16, ReadyU32, ReadyU8
<1>3. /\ encode_env = Centi(n1) \o U16(n3) /\ encode_supply = U16(s3)
      /\ encode_status = U32(u1) \o U8(u4)
  BY DEF encode_env, encode_supply, encode_status
<1> HIDE DEF n1, n3, s3, u1, u4
<1>4. 1 \in Nat /\ 3 \in Nat /\ 4 \in Nat
  OBVIOUS
<1>5. Size(Centi(n1)) = 2 * 1 /\ Size(U16(n3)) = 2 * 3 /\ Size(U16(s3)) = 2 * 3
  <2>1. Sizes(TRUE, 100, n1, 1) /\ Sizes(FALSE, 1, n3, 3) /\ Sizes(FALSE, 1, s3, 3)
    BY <1>1, <1>4, SizeFields
  <2> QED
    BY <2>1 DEF Sizes, Centi, U16
<1>6. Size(U32(u1)) = 4 * 1 /\ Size(U8(u4)) = 4
  <2>1. Sizes(FALSE, 1, u1, 1) /\ Sizes(FALSE, 1, u4, 4)
    BY <1>1, <1>4, SizeFields
  <2> QED
    BY <2>1 DEF Sizes, U32, U8
<1>7. Size(encode_env) = Size(Centi(n1)) + Size(U16(n3))
  BY <1>2, <1>3, SizeJoin DEF Ready
<1>8. Size(encode_status) = Size(U32(u1)) + Size(U8(u4))
  BY <1>2, <1>3, SizeJoin DEF Ready
<1> QED
  BY <1>3, <1>5, <1>6, <1>7, <1>8

LEMMA BusFrames ==
  /\ Decode("env", decode_env, HkFrames["env"]) = Real(Names(encode_env), 0)
  /\ Decode("supply", decode_supply, HkFrames["supply"]) = Real(Names(encode_supply), 0)
  /\ Decode("status", decode_status, HkFrames["status"]) = Real(Names(encode_status), 0)
<1>1. decode_env = encode_env /\ decode_supply = encode_supply /\ decode_status = encode_status
  BY DEF decode_env, encode_env, decode_supply, encode_supply, decode_status, encode_status
<1>2. /\ HkFrames["env"] = HkFrame("env", encode_env)
      /\ HkFrames["supply"] = HkFrame("supply", encode_supply)
      /\ HkFrames["status"] = HkFrame("status", encode_status)
  BY DEF HkFrames
<1> QED
  BY <1>1, <1>2, BusLayouts, BusSizes, FrameRead

LEMMA DescribeAlways ==
  ASSUME NEW n \in DOMAIN HkFrames
  PROVE  \E d \in DescribeFrame(HkFrames[n]) :
           DescribeFrame(HkFrames[n]) = {d} /\ d[1] = n /\ d[2] = Real(DOMAIN d[2], 0)
<1> DEFINE e(f) == Decode("env", decode_env, f)
           p(f) == Decode("supply", decode_supply, f)
           s(f) == Decode("status", decode_status, f)
<1>1. n \in {"env", "supply", "status"}
  BY DEF HkFrames
<1>2. /\ HkFrames["env"] = HkFrame("env", encode_env)
      /\ HkFrames["supply"] = HkFrame("supply", encode_supply)
      /\ HkFrames["status"] = HkFrame("status", encode_status)
  BY DEF HkFrames
<1>3. "env" # "supply" /\ "env" # "status" /\ "supply" # "status"
  OBVIOUS
<1>4. \A f : DescribeFrame(f) = {d \in {<<"env", e(f)>>, <<"supply", p(f)>>, <<"status", s(f)>>} :
                                   d[2] # Unknown}
  BY DEF DescribeFrame
<1>5. ASSUME NEW N, "unknown" \notin N PROVE Real(N, 0) # Unknown /\ DOMAIN Real(N, 0) = N
  <2>1. DOMAIN Real(N, 0) = N
    BY DEF Real
  <2>2. "unknown" \in DOMAIN Unknown
    BY DEF Unknown
  <2> QED
    BY <1>5, <2>1, <2>2
<1>6. \A x \in {encode_env, encode_supply, encode_status} : "unknown" \notin Names(x)
  BY BusLayouts
<1> HIDE DEF e, p, s
<1>7. CASE n = "env"
  <2> DEFINE f == HkFrames["env"]
             r == Real(Names(encode_env), 0)
  <2>1. e(f) = r /\ r # Unknown /\ DOMAIN r = Names(encode_env)
    BY <1>5, <1>6, BusFrames DEF e
  <2>2. p(f) = Unknown /\ s(f) = Unknown
    BY <1>2, <1>3, FrameOther DEF p, s
  <2> HIDE DEF r, f
  <2>3. DescribeFrame(f) = {<<"env", r>>}
    BY <1>4, <2>1, <2>2
  <2> QED
    BY <1>7, <2>1, <2>3 DEF f, r
<1>8. CASE n = "supply"
  <2> DEFINE f == HkFrames["supply"]
             r == Real(Names(encode_supply), 0)
  <2>1. p(f) = r /\ r # Unknown /\ DOMAIN r = Names(encode_supply)
    BY <1>5, <1>6, BusFrames DEF p
  <2>2. e(f) = Unknown /\ s(f) = Unknown
    BY <1>2, <1>3, FrameOther DEF e, s
  <2> HIDE DEF r, f
  <2>3. DescribeFrame(f) = {<<"supply", r>>}
    BY <1>4, <2>1, <2>2
  <2> QED
    BY <1>8, <2>1, <2>3 DEF f, r
<1>9. CASE n = "status"
  <2> DEFINE f == HkFrames["status"]
             r == Real(Names(encode_status), 0)
  <2>1. s(f) = r /\ r # Unknown /\ DOMAIN r = Names(encode_status)
    BY <1>5, <1>6, BusFrames DEF s
  <2>2. e(f) = Unknown /\ p(f) = Unknown
    BY <1>2, <1>3, FrameOther DEF e, p
  <2> HIDE DEF r, f
  <2>3. DescribeFrame(f) = {<<"status", r>>}
    BY <1>4, <2>1, <2>2
  <2> QED
    BY <1>9, <2>1, <2>3 DEF f, r
<1> QED
  BY <1>1, <1>7, <1>8, <1>9

LEMMA BusAlways == BusArrives
<1>1. ASSUME NEW data \in {<<>>, <<1, 2, 3>>}
      PROVE  Acknowledged("op", data)
  <2>1. IsSeq(<<>>, 0) /\ 0 \in Nat /\ 0 <= 6
    BY DEF IsSeq
  <2> DEFINE t == <<1, 2, 3>>
  <2>2. Tuple(t, 3)
    BY DEF Tuple
  <2> HIDE DEF t
  <2>3. IsSeq(t, 3) /\ 3 \in Nat /\ 3 <= 6
    BY <2>2, TupleSeq
  <2>4. data = <<>> \/ data = t
    BY DEF t
  <2> QED
    BY <2>1, <2>3, <2>4, AckArrives
<1>2. \A data \in {<<>>, <<1, 2, 3>>} :
        LET a == decode_ack(send_ack("op", data))
        IN  a.op = "op" /\ SubSeq(a.datav, 1, a.datac) = data
  BY <1>1, Zenon DEF Acknowledged
<1>3. \A code \in Codes :
        LET v == xadc_temp_centi_c(code)
            h == Hundredths(v)
        IN  -32768 <= v /\ v <= 32767 /\ v = (IF h.minus THEN -1 ELSE 1) * (100 * h.whole + h.frac)
  BY TemperatureArrives
<1>4. \A n \in DOMAIN HkFrames :
        \E d \in DescribeFrame(HkFrames[n]) :
          DescribeFrame(HkFrames[n]) = {d} /\ d[1] = n /\ d[2] = Real(DOMAIN d[2], 0)
  BY DescribeAlways
<1>5. \A ms \in Periods :
        CommandedPeriod(decode_command(encode_command("SET_PERIOD", PeriodArgs(ms)))) = ms
  BY PeriodArrives
<1>6. \A t \in Times : decode_time_sync(encode_time_sync(SyncTime(t))) = SyncTime(t)
  BY TimeArrives
<1> QED
  BY <1>2, <1>3, <1>4, <1>5, <1>6 DEF BusArrives

-----------------------------------------------------------------------------
(* The arguments of requests, and layouts that differ in their ends.       *)

LEMMA ParsedReady ==
  ASSUME NEW f
  PROVE  Ready(Parsed(f))
<1>1. CASE f = "SetModcod"
  BY <1>1, ReadyU8 DEF Parsed
<1>2. CASE f = "SetAcm"
  BY <1>2, ReadyU8, ReadyCenti, ReadyJoin DEF Parsed
<1>3. CASE f = "SetChannel"
  BY <1>3, ReadyU8, ReadyU16, ReadyJoin DEF Parsed
<1>4. CASE f = "StartPass"
  <2>1. Ready(Elevation)
    <3>1. Wide(2)
      BY DEF Wide
    <3>2. Just(Elevation, 1, {"max_el"})
      BY <3>1, Numbers1 DEF Elevation
    <3> QED
      BY <3>2, ReadyJust
  <2> QED
    BY <1>4, <2>1, ReadyU8, ReadyCenti, ReadyJoin DEF Parsed
<1>5. CASE f = "SetLoopback"
  BY <1>5, ReadyU8 DEF Parsed
<1>6. CASE f = "Report"
  BY <1>6, ReadyU8 DEF Parsed
<1>7. CASE f = "Period"
  BY <1>7, ReadyU8, ReadyU32, ReadyJoin DEF Parsed
<1>8. CASE f \notin {"SetModcod", "SetAcm", "SetChannel", "StartPass", "SetLoopback", "Report",
      "Period"}
  BY <1>8, ReadyU8 DEF Parsed
<1> QED
  BY <1>1, <1>2, <1>3, <1>4, <1>5, <1>6, <1>7, <1>8

LEMMA BuiltParsed ==
  ASSUME NEW g \in Stations, NEW f \in Requests(g)
  PROVE  Built(g, f) = Parsed(f)
<1>1. CASE g = "gs"
  <2>1. Built(g, f) = Commander_cpp(f)
    BY <1>1 DEF Built
  <2> QED
    BY <2>1 DEF Commander_cpp, Parsed
<1>2. CASE g = "cli"
  <2>1. Built(g, f) = Commander_rs(f) /\ f # "Period"
    BY <1>2 DEF Built, Requests
  <2> QED
    BY <2>1 DEF Commander_rs, Parsed
<1>3. CASE g = "python"
  <2>1. Built(g, f) = Commander_py(f)
    BY <1>3 DEF Built
  <2> QED
    BY <2>1 DEF Commander_py, Parsed
<1> QED
  BY <1>1, <1>2, <1>3 DEF Stations

LEMMA AskedAccepted ==
  ASSUME NEW g \in Stations, NEW f \in Requests(g)
  PROVE  Accepted[g][f] = Asked[g][f]
<1>1. /\ Accepted[g][f] = Read(Parsed(f), Write(Built(g, f), Real(Names(Built(g, f)), 0)))
      /\ Asked[g][f] = Real(Names(Built(g, f)), 0)
  BY DEF Accepted, Asked
<1> QED
  BY <1>1, BuiltParsed, ParsedReady, Ends

LEMMA RequestsAlways == RequestsArrive
BY AskedAccepted DEF RequestsArrive

(* What is read of a layout that ends in other names than it was written   *)
(* with.                                                                   *)
LEMMA FieldsAlike ==
  ASSUME NEW w, Wide(w), NEW signed, NEW per, NEW n \in Nat,
         NEW s, Tuple(s, n), NEW t, Tuple(t, n)
  PROVE  Alike(Fields(w, signed, per, s), Fields(w, signed, per, t))
<1> DEFINE a == Fields(w, signed, per, s)
           b == Fields(w, signed, per, t)
<1>1. Just(a, n, Listed(s, n)) /\ Same(a, w, <<w, signed, per>>)
  BY FieldsLayout
<1>2. Just(b, n, Listed(t, n)) /\ Same(b, w, <<w, signed, per>>)
  BY FieldsLayout
<1> HIDE DEF a, b
<1>3. Alike(a, b)
  BY <1>1, <1>2 DEF Just, Same, Alike
<1> QED
  BY <1>3 DEF a, b

LEMMA ReadsBeginning ==
  ASSUME NEW p, Ready(p), NEW a, Ready(a), NEW b, Ready(b), Alike(a, b), NEW n,
         NEW r, r = Read(p \o b, Write(p \o a, Real(Names(p \o a), n)))
  PROVE  /\ DOMAIN r = Names(p) \cup Names(b)
         /\ Really(r, Names(p) \ Names(b), n)
<1> DEFINE l == p \o a
           m == p \o b
           v == Real(Names(l), n)
<1>1. PICK k \in Nat, j \in Nat : k = Len(p) /\ j = Len(a) /\ j = Len(b) /\ k > 0
  BY LayoutIs DEF Ready, Alike
<1>2. /\ IsLayout(l) /\ Len(l) = k + j /\ Names(l) = Names(p) \cup Names(a)
      /\ \A i \in 1 .. k + j : l[i] = IF i <= k THEN p[i] ELSE a[i - k]
  BY <1>1, JoinLayout DEF Ready
<1>3. /\ IsLayout(m) /\ Len(m) = k + j /\ Names(m) = Names(p) \cup Names(b)
      /\ \A i \in 1 .. k + j : m[i] = IF i <= k THEN p[i] ELSE b[i - k]
  BY <1>1, JoinLayout DEF Ready
<1> HIDE DEF l, m
<1>4. Alike(l, m)
  <2>1. ASSUME NEW i \in 1 .. k + j PROVE l[i].w = m[i].w /\ l[i].form = m[i].form
    <3>1. CASE i <= k
      BY <1>2, <1>3, <3>1
    <3>2. CASE ~(i <= k)
      <4>1. i - k \in 1 .. Len(a)
        BY <1>1, <3>2
      <4>2. a[i - k].w = b[i - k].w /\ a[i - k].form = b[i - k].form
        BY <4>1 DEF Alike
      <4> QED
        BY <1>2, <1>3, <3>2, <4>2
    <3> QED
      BY <3>1, <3>2
  <2> QED
    BY <1>2, <1>3, <2>1 DEF Alike
<1>5. r = [x \in Names(m) |-> v[l[At(m, x)].name]]
  <2>1. Len(l) > 0
    BY <1>1, <1>2
  <2>2. r = Read(m, Write(l, v))
    BY DEF l, m
  <2> QED
    <3> HIDE DEF v
    <3>1. Read(m, Write(l, v)) = Across(l, m, v)
      BY <1>2, <1>3, <1>4, <2>1, ReadAcross
    <3> QED
      BY <2>2, <3>1 DEF Across
<1>6. ASSUME NEW x \in Names(p) \ Names(b)
      PROVE  r[x] = [name |-> x, n |-> IF x = "count" THEN n ELSE 0]
  <2>1. x \in Names(m) /\ x \in Names(l)
    BY <1>2, <1>3
  <2>2. At(m, x) \in 1 .. k + j /\ m[At(m, x)].name = x
    BY <1>3, <2>1, Found1
  <2>3. At(m, x) <= k
    <3>1. SUFFICES ASSUME ~(At(m, x) <= k) PROVE FALSE
      BY <2>2
    <3>2. At(m, x) - k \in 1 .. j /\ m[At(m, x)] = b[At(m, x) - k]
      BY <1>3, <2>2, <3>1
    <3>3. DOMAIN b = 1 .. j
      BY <1>1, LayoutIs DEF Ready
    <3>4. x \in Names(b)
      BY <2>2, <3>2, <3>3 DEF Names
    <3> QED
      BY <3>4
  <2>4. l[At(m, x)].name = x
    BY <1>2, <1>3, <2>2, <2>3
  <2>5. r[x] = v[x]
    BY <1>5, <2>1, <2>4
  <2> QED
    BY <2>1, <2>5 DEF Real
<1> QED
  BY <1>3, <1>5, <1>6 DEF Really

-----------------------------------------------------------------------------
(* The sources of housekeeping data.                                       *)

(* The numbers of a STATUS message that are read. *)
StatusRead == Counters \o Centi(<<"esn0">>)
              \o U8(<<"locked", "tx_modcod", "acm_enabled", "tx_queue_depth">>)
              \o Tenths(<<"cpu_load">>)

LEMMA ModemDataNames ==
  /\ Ready(ModemData)
  /\ Names(ModemData) = {"sid", "locked", "tx_modcod", "acm_enabled", "esn0", "frames_ok",
                         "frames_crc_error", "header_errors", "bit_errors", "bits_checked",
                         "rx_latency_max_us", "rx_latency_avg_us", "cpu_load", "tx_queue_depth",
                         "uptime_ms"}
<1>1. PICK l1 : /\ l1 = U8(<<"sid", "locked", "tx_modcod", "acm_enabled">>)
                /\ Ready(l1) /\ Names(l1) = {"sid", "locked", "tx_modcod", "acm_enabled"}
  BY ReadyU8
<1>2. PICK l2 : /\ l2 = Centi(<<"esn0">>)
                /\ Ready(l2) /\ Names(l2) = {"esn0"}
  BY ReadyCenti
<1>3. PICK l3 : /\ l3 = U32(<<"frames_ok", "frames_crc_error", "header_errors", "bit_errors",
                              "bits_checked", "rx_latency_max_us", "rx_latency_avg_us">>)
                /\ Ready(l3) /\ Names(l3) = {"frames_ok", "frames_crc_error", "header_errors",
                                             "bit_errors", "bits_checked", "rx_latency_max_us",
                                             "rx_latency_avg_us"}
  BY ReadyU32
<1>4. PICK l4 : /\ l4 = Tenths(<<"cpu_load">>)
                /\ Ready(l4) /\ Names(l4) = {"cpu_load"}
  BY ReadyTenths
<1>5. PICK l5 : /\ l5 = U8(<<"tx_queue_depth">>)
                /\ Ready(l5) /\ Names(l5) = {"tx_queue_depth"}
  BY ReadyU8
<1>6. PICK l6 : /\ l6 = U32(<<"uptime_ms">>)
                /\ Ready(l6) /\ Names(l6) = {"uptime_ms"}
  BY ReadyU32
<1>7. ModemData = l1 \o l2 \o l3 \o l4 \o l5 \o l6
  BY <1>1, <1>2, <1>3, <1>4, <1>5, <1>6, Zenon DEF ModemData
<1>8. Ready(ModemData)
      /\ Names(ModemData) = Names(l1) \cup Names(l2) \cup Names(l3) \cup Names(l4)
         \cup Names(l5) \cup Names(l6)
  BY <1>1, <1>2, <1>3, <1>4, <1>5, <1>6, <1>7, ReadyJoin
<1> QED
  BY <1>1, <1>2, <1>3, <1>4, <1>5, <1>6, <1>8

LEMMA LinkDataNames ==
  /\ Ready(LinkData)
  /\ Names(LinkData) = {"sid", "active", "elevation", "range", "range_rate", "esn0",
                        "frames_sent", "frames_received", "lost_frames", "packets", "resyncs",
                        "ip_down", "ip_up", "dropped"}
<1>1. PICK l1 : /\ l1 = U8(<<"sid", "active">>)
                /\ Ready(l1) /\ Names(l1) = {"sid", "active"}
  BY ReadyU8
<1>2. PICK l2 : /\ l2 = Centi(<<"elevation">>)
                /\ Ready(l2) /\ Names(l2) = {"elevation"}
  BY ReadyCenti
<1>3. PICK l3 : /\ l3 = U16(<<"range">>)
                /\ Ready(l3) /\ Names(l3) = {"range"}
  BY ReadyU16
<1>4. PICK l4 : /\ l4 = Milli(<<"range_rate">>)
                /\ Ready(l4) /\ Names(l4) = {"range_rate"}
  BY ReadyMilli
<1>5. PICK l5 : /\ l5 = Centi(<<"esn0">>)
                /\ Ready(l5) /\ Names(l5) = {"esn0"}
  BY ReadyCenti
<1>6. PICK l6 : /\ l6 = U32(<<"frames_sent", "frames_received", "lost_frames", "packets",
                              "resyncs", "ip_down", "ip_up", "dropped">>)
                /\ Ready(l6) /\ Names(l6) = {"frames_sent", "frames_received", "lost_frames",
                                             "packets", "resyncs", "ip_down", "ip_up", "dropped"}
  BY ReadyU32
<1>7. LinkData = l1 \o l2 \o l3 \o l4 \o l5 \o l6
  BY <1>1, <1>2, <1>3, <1>4, <1>5, <1>6, Zenon DEF LinkData
<1>8. Ready(LinkData)
      /\ Names(LinkData) = Names(l1) \cup Names(l2) \cup Names(l3) \cup Names(l4)
         \cup Names(l5) \cup Names(l6)
  BY <1>1, <1>2, <1>3, <1>4, <1>5, <1>6, <1>7, ReadyJoin
<1> QED
  BY <1>1, <1>2, <1>3, <1>4, <1>5, <1>6, <1>8

LEMMA PlatformDataNames ==
  /\ Ready(PlatformData)
  /\ Names(PlatformData) = {"sid", "hkc_valid", "temp", "vccint", "vccaux", "vbram",
                            "hkc_uptime", "error_flags", "rtos_state", "rtos_restarts"}
<1>1. PICK l1 : /\ l1 = U8(<<"sid", "hkc_valid">>)
                /\ Ready(l1) /\ Names(l1) = {"sid", "hkc_valid"}
  BY ReadyU8
<1>2. PICK l2 : /\ l2 = Centi(<<"temp">>)
                /\ Ready(l2) /\ Names(l2) = {"temp"}
  BY ReadyCenti
<1>3. PICK l3 : /\ l3 = U16(<<"vccint", "vccaux", "vbram">>)
                /\ Ready(l3) /\ Names(l3) = {"vccint", "vccaux", "vbram"}
  BY ReadyU16
<1>4. PICK l4 : /\ l4 = U32(<<"hkc_uptime">>)
                /\ Ready(l4) /\ Names(l4) = {"hkc_uptime"}
  BY ReadyU32
<1>5. PICK l5 : /\ l5 = U8(<<"error_flags", "rtos_state">>)
                /\ Ready(l5) /\ Names(l5) = {"error_flags", "rtos_state"}
  BY ReadyU8
<1>6. PICK l6 : /\ l6 = U32(<<"rtos_restarts">>)
                /\ Ready(l6) /\ Names(l6) = {"rtos_restarts"}
  BY ReadyU32
<1>7. PlatformData = l1 \o l2 \o l3 \o l4 \o l5 \o l6
  BY <1>1, <1>2, <1>3, <1>4, <1>5, <1>6, Zenon DEF PlatformData
<1>8. Ready(PlatformData)
      /\ Names(PlatformData) = Names(l1) \cup Names(l2) \cup Names(l3) \cup Names(l4)
         \cup Names(l5) \cup Names(l6)
  BY <1>1, <1>2, <1>3, <1>4, <1>5, <1>6, <1>7, ReadyJoin
<1> QED
  BY <1>1, <1>2, <1>3, <1>4, <1>5, <1>6, <1>8

LEMMA StatusReadNames ==
  /\ Ready(StatusRead)
  /\ Names(StatusRead) = {"uptime_ms", "frames_ok", "frames_crc_error", "header_errors",
                          "bit_errors", "bits_checked", "tx_data_frames", "tx_idle_frames",
                          "dma_underruns", "rx_overruns", "rx_latency_max_us",
                          "rx_latency_avg_us", "esn0", "locked", "tx_modcod", "acm_enabled",
                          "tx_queue_depth", "cpu_load"}
<1>1. PICK l1 : /\ l1 = U32(<<"uptime_ms", "frames_ok", "frames_crc_error", "header_errors",
                              "bit_errors", "bits_checked", "tx_data_frames", "tx_idle_frames",
                              "dma_underruns", "rx_overruns", "rx_latency_max_us",
                              "rx_latency_avg_us">>)
                /\ Ready(l1) /\ Names(l1) = {"uptime_ms", "frames_ok", "frames_crc_error",
                                             "header_errors", "bit_errors", "bits_checked",
                                             "tx_data_frames", "tx_idle_frames",
                                             "dma_underruns", "rx_overruns",
                                             "rx_latency_max_us", "rx_latency_avg_us"}
  BY ReadyU32
<1>2. PICK l2 : /\ l2 = Centi(<<"esn0">>)
                /\ Ready(l2) /\ Names(l2) = {"esn0"}
  BY ReadyCenti
<1>3. PICK l3 : /\ l3 = U8(<<"locked", "tx_modcod", "acm_enabled", "tx_queue_depth">>)
                /\ Ready(l3) /\ Names(l3) = {"locked", "tx_modcod", "acm_enabled",
                                             "tx_queue_depth"}
  BY ReadyU8
<1>4. PICK l4 : /\ l4 = Tenths(<<"cpu_load">>)
                /\ Ready(l4) /\ Names(l4) = {"cpu_load"}
  BY ReadyTenths
<1>5. StatusRead = l1 \o l2 \o l3 \o l4
  BY <1>1, <1>2, <1>3, <1>4, Zenon DEF StatusRead, Counters
<1>6. Ready(StatusRead)
      /\ Names(StatusRead) = Names(l1) \cup Names(l2) \cup Names(l3) \cup Names(l4)
  BY <1>1, <1>2, <1>3, <1>4, <1>5, ReadyJoin
<1> QED
  BY <1>1, <1>2, <1>3, <1>4, <1>6

LEMMA StatusArrives ==
  /\ DOMAIN Status = Names(StatusRead) \cup {"not read1", "not read2"}
  /\ Really(Status, Names(StatusRead), 0)
<1> DEFINE ta == <<"spare1", "spare2">>
           tb == <<"not read1", "not read2">>
<1>1. Tuple(ta, 2) /\ Tuple(tb, 2)
  BY DEF Tuple
<1>2. EncodeStatus = StatusRead \o U8(ta) /\ DecodeStatus = StatusRead \o U8(tb)
  BY DEF EncodeStatus, DecodeStatus, StatusRead
<1>3. Ready(U8(ta)) /\ Ready(U8(tb)) /\ Names(U8(tb)) = {"not read1", "not read2"}
  BY ReadyU8
<1> HIDE DEF ta, tb
<1>4. Alike(U8(ta), U8(tb))
  <2>1. Wide(1) /\ 2 \in Nat
    BY DEF Wide
  <2> QED
    BY <1>1, <2>1, FieldsAlike DEF U8
<1>5. /\ DOMAIN Status = Names(StatusRead) \cup Names(U8(tb))
      /\ Really(Status, Names(StatusRead) \ Names(U8(tb)), 0)
  BY <1>2, <1>3, <1>4, StatusReadNames, ReadsBeginning DEF Status
<1>6. Names(StatusRead) \ Names(U8(tb)) = Names(StatusRead)
  BY <1>3, StatusReadNames
<1> QED
  BY <1>3, <1>5, <1>6

(* Numbers from two sources. *)
LEMMA AlsoReally ==
  ASSUME NEW f, NEW g, NEW N, NEW n, N \subseteq DOMAIN f \cup DOMAIN g,
         Really(f, N \cap DOMAIN f, n), Really(g, N \ DOMAIN f, n)
  PROVE  Really(Also(f, g), N, n)
BY DEF Really, Also

LEMMA AlsoDomain ==
  ASSUME NEW f, NEW g
  PROVE  DOMAIN Also(f, g) = DOMAIN f \cup DOMAIN g
BY DEF Also

LEMMA NoCount ==
  ASSUME NEW v, NEW N, NEW n, Really(v, N, 0), "count" \notin N
  PROVE  Really(v, N, n)
BY DEF Really

(* What a station shows of a report, and what it should show. *)
Right(r, n) == r = Real(DOMAIN r \ {"unknown"}, n)

LEMMA ShowsReal ==
  ASSUME NEW l, Ready(l), NEW v, NEW n, Really(v, Names(l), n), "unknown" \notin Names(l)
  PROVE  Right(Read(l, Write(l, v)), n)
<1> DEFINE r == Read(l, Write(l, v))
<1>1. r = Real(Names(l), n)
  BY ReadsReal DEF Ready
<1> HIDE DEF r
<1>2. DOMAIN r = Names(l)
  BY <1>1 DEF Real
<1>3. DOMAIN r \ {"unknown"} = Names(l)
  BY <1>2
<1>4. Right(r, n)
  BY <1>1, <1>3 DEF Right
<1> QED
  BY <1>4 DEF r

-----------------------------------------------------------------------------
(* What the stations show of three structures.                             *)

LEMMA ModemRight ==
  ASSUME NEW n
  PROVE  Right(Read(ModemData, HousekeepingData("modem", n)), n)
<1> DEFINE sid == Real({"sid"}, 0)
           v == Also(Status, sid)
           N == Names(ModemData)
<1>1. HousekeepingData("modem", n) = Write(ModemData, v)
  BY DEF HousekeepingData
<1>2. DOMAIN sid = {"sid"} /\ Really(sid, {"sid"}, 0)
  BY RealIsReal DEF Real
<1>3. N \ {"sid"} \subseteq Names(StatusRead) /\ "sid" \notin Names(StatusRead)
  BY ModemDataNames, StatusReadNames
<1>4. N \subseteq DOMAIN Status \cup DOMAIN sid
  BY <1>2, <1>3, StatusArrives
<1>5. N \cap DOMAIN Status \subseteq Names(StatusRead) /\ N \ DOMAIN Status \subseteq {"sid"}
  <2>1. "not read1" \notin N /\ "not read2" \notin N /\ "sid" \notin DOMAIN Status
    BY <1>3, ModemDataNames, StatusArrives
  <2> QED
    BY <1>3, <2>1, StatusArrives
<1> HIDE DEF N
<1>6. Really(Status, N \cap DOMAIN Status, 0) /\ Really(sid, N \ DOMAIN Status, 0)
  BY <1>2, <1>5, StatusArrives DEF Really
<1> HIDE DEF sid
<1>7. Really(v, N, 0)
  BY <1>4, <1>6, AlsoReally
<1>8. Really(v, N, n) /\ "unknown" \notin N
  <2>1. "count" \notin N /\ "unknown" \notin N
    BY ModemDataNames DEF N
  <2> HIDE DEF v
  <2> QED
    BY <1>7, <2>1, NoCount
<1> QED
  BY <1>1, <1>8, ModemDataNames, ShowsReal DEF N

LEMMA LinkRight ==
  ASSUME NEW n
  PROVE  Right(Read(LinkData, HousekeepingData("link", n)), n)
<1> DEFINE N == Names(LinkData)
           v == Real(N, 0)
<1>1. HousekeepingData("link", n) = Write(LinkData, v)
  BY DEF HousekeepingData
<1>2. Really(v, N, 0)
  BY RealIsReal
<1>3. "count" \notin N /\ "unknown" \notin N
  BY LinkDataNames
<1> HIDE DEF v
<1>4. Really(v, N, n)
  <2> HIDE DEF N
  <2> QED
    BY <1>2, <1>3, NoCount
<1> QED
  BY <1>1, <1>3, <1>4, LinkDataNames, ShowsReal

LEMMA PlatformRight ==
  ASSUME NEW n
  PROVE  Right(Read(PlatformData, HousekeepingData("platform", n)), n)
<1> DEFINE N == Names(PlatformData)
           A == Names(encode_env)
           B == Names(encode_status)
           C == {"sid", "hkc_valid", "rtos_state", "rtos_restarts"}
           rest == Also(Real(B, 0), Real(C, 0))
<1>1. HousekeepingData("platform", n) = Write(PlatformData, HkcSource)
  BY DEF HousekeepingData
<1>2. HkcSource = Also(Real(A, 0), rest)
  BY BusFrames DEF HkcSource
<1>3. DOMAIN Real(A, 0) = A /\ DOMAIN Real(B, 0) = B /\ DOMAIN Real(C, 0) = C
  BY DEF Real
<1>4. Really(Real(A, 0), A, 0) /\ Really(Real(B, 0), B, 0) /\ Really(Real(C, 0), C, 0)
  BY RealIsReal
<1>5. N \subseteq A \cup (B \cup C) /\ "count" \notin N /\ "unknown" \notin N
  BY PlatformDataNames, BusLayouts
<1> HIDE DEF N, A, B, C
<1>6. DOMAIN rest = B \cup C
  BY <1>3, AlsoDomain
<1>7. Really(rest, B \cup C, 0)
  <2>1. B \cup C \subseteq DOMAIN Real(B, 0) \cup DOMAIN Real(C, 0)
    BY <1>3
  <2>2. Really(Real(B, 0), (B \cup C) \cap DOMAIN Real(B, 0), 0)
    BY <1>3, <1>4 DEF Really
  <2>3. Really(Real(C, 0), (B \cup C) \ DOMAIN Real(B, 0), 0)
    BY <1>3, <1>4 DEF Really
  <2> QED
    BY <2>1, <2>2, <2>3, AlsoReally
<1> HIDE DEF rest
<1>8. Really(HkcSource, N, 0)
  <2>1. N \subseteq DOMAIN Real(A, 0) \cup DOMAIN rest
    BY <1>3, <1>5, <1>6
  <2>2. Really(Real(A, 0), N \cap DOMAIN Real(A, 0), 0)
    BY <1>3, <1>4 DEF Really
  <2>3. Really(rest, N \ DOMAIN Real(A, 0), 0)
    BY <1>3, <1>5, <1>7 DEF Really
  <2> QED
    BY <1>2, <2>1, <2>2, <2>3, AlsoReally
<1>9. Really(HkcSource, N, n)
  BY <1>5, <1>8, NoCount
<1> QED
  BY <1>1, <1>5, <1>9, PlatformDataNames, ShowsReal DEF N

(* The points of a constellation, and their count before them. *)
LEMMA SpotsLayout ==
  ASSUME NEW n \in Points
  PROVE  /\ n \in Nat /\ IsLayout(Spots(n)) /\ Len(Spots(n)) = 2 * n /\ Size(Spots(n)) = 2 * n
         /\ Names(Spots(n)) \subseteq {"i1", "q1", "i2", "q2"}
<1> DEFINE four == <<"i1", "q1", "i2", "q2">>
           m == 2 * n
           t == SubSeq(four, 0 + 1, 0 + m)
<1>1. n \in Nat /\ m \in Nat /\ m <= 4
  BY DEF Points
<1>2. Tuple(four, 4) /\ four[1] = "i1" /\ four[2] = "q1" /\ four[3] = "i2" /\ four[4] = "q2"
  BY DEF Tuple
<1>3. Spots(n) = Fields(1, TRUE, 64, t)
  <2>1. 0 + 1 = 1 /\ 0 + m = 2 * n
    BY <1>1
  <2> QED
    BY <2>1 DEF Spots, Offset
<1> HIDE DEF four, m
<1>4. IsSeq(t, m) /\ Piece(t, 0, four, 0, m)
  <2>1. IsSeq(four, 4)
    BY <1>2, TupleSeq
  <2>2. 0 \in 0 .. 4 /\ 0 + m <= 4
    BY <1>1
  <2> QED
    BY <1>1, <2>1, <2>2, PartSeq
<1> HIDE DEF t
<1>5. Tuple(t, m)
  BY <1>4 DEF IsSeq, Tuple
<1>6. Listed(t, m) \subseteq {"i1", "q1", "i2", "q2"}
  <2>1. ASSUME NEW i \in 1 .. m PROVE t[i] \in {"i1", "q1", "i2", "q2"}
    <3>1. t[0 + i] = four[0 + i] /\ 0 + i = i
      BY <1>4 DEF Piece
    <3>2. i \in 1 .. 4
      BY <1>1
    <3> QED
      BY <1>2, <3>1, <3>2
  <2> QED
    BY <2>1 DEF Listed
<1>7. Just(Fields(1, TRUE, 64, t), m, Listed(t, m)) /\ Sizes(TRUE, 64, t, m)
  <2>1. Wide(1)
    BY DEF Wide
  <2> QED
    BY <1>1, <1>5, <2>1, FieldsLayout, SizeFields
<1> QED
  BY <1>1, <1>3, <1>6, <1>7 DEF Just, Sizes, m

-----------------------------------------------------------------------------
(* What the stations show of a constellation, and of all structures.       *)

(* The byte of the count comes last before the points, and says how many. *)
Counted(l, y, names, size, k, of) ==
  Ready(l) /\ Names(l) = names /\ Len(y) = size /\ y[k].of = of

LEMMA CountByte ==
  ASSUME NEW k \in {2, 3}, NEW t, Tuple(t, k), t[k] = "count", NEW n \in Points, NEW v
  PROVE  Counted(U8(t) \o Spots(n), Write(U8(t) \o Spots(n), v),
                 Listed(t, k) \cup Names(Spots(n)), k + 2 * n, k, v["count"])
<1> DEFINE a == U8(t)
           l == U8(t) \o Spots(n)
           y == Write(l, v)
<1>1. /\ IsLayout(a) /\ Len(a) = k /\ Names(a) = Listed(t, k) /\ Size(a) = k
      /\ \A i \in 1 .. k : a[i].w = 1 /\ a[i].name = t[i]
  <2>1. Wide(1) /\ k \in Nat
    BY DEF Wide
  <2>2. /\ Just(a, k, Listed(t, k)) /\ Same(a, 1, <<1, FALSE, 1>>) /\ Named(a, t, k)
        /\ Sizes(FALSE, 1, t, k)
    BY <2>1, FieldsLayout, SizeFields DEF U8
  <2>3. Size(a) = k
    BY <2>2 DEF Sizes, U8
  <2> HIDE DEF a
  <2> QED
    BY <2>2, <2>3 DEF Just, Same, Named
<1>2. l = a \o Spots(n)
  OBVIOUS
<1> HIDE DEF a, l
<1> DEFINE b == Spots(n)
           j == 2 * n
<1>a. n \in Nat /\ j \in Nat /\ IsLayout(b) /\ Len(b) = j /\ Size(b) = j
  BY SpotsLayout
<1>b. l = a \o b
  BY <1>2
<1> HIDE DEF b, j
<1>3. /\ IsLayout(l) /\ Len(l) = k + j /\ Names(l) = Names(a) \cup Names(b)
      /\ \A i \in 1 .. k + j : l[i] = IF i <= k THEN a[i] ELSE b[i - k]
  <2>1. k \in Nat
    OBVIOUS
  <2> QED
    BY <1>1, <1>a, <1>b, <2>1, JoinLayout
<1>4. Size(l) = k + j
  BY <1>1, <1>a, <1>b, SizeJoin
<1>5. Ready(l)
  BY <1>3, <1>a DEF Ready
<1>6. \A i \in 1 .. k : i \in 1 .. Len(l) /\ l[i].w = 1 /\ l[i].name = t[i]
  <2>1. \A i \in 1 .. k : i \in 1 .. k + j /\ i <= k
    BY <1>a
  <2> QED
    BY <1>1, <1>3, <2>1
<1>7. Start(l, k) = k - 1
  <2>1. Start(l, 1) = 0 /\ \A i \in 1 .. Len(l) : Start(l, i + 1) = Start(l, i) + l[i].w
    BY <1>3, Starts
  <2>2. 1 \in 1 .. k /\ 2 \in 1 .. k
    OBVIOUS
  <2>3. Start(l, 2) = 1
    <3>1. Start(l, 1 + 1) = 0 + 1
      BY <1>6, <2>1, <2>2
    <3> QED
      BY <3>1
  <2>4. Start(l, 3) = 2
    <3>1. Start(l, 2 + 1) = 1 + 1
      BY <1>6, <2>1, <2>2, <2>3
    <3> QED
      BY <3>1
  <2> QED
    BY <2>3, <2>4
<1>8. PICK S : Wrote(l, v, S, Len(l), y)
  BY <1>5, Written DEF Ready
<1> HIDE DEF y
<1>9. Len(y) = k + j
  BY <1>4, <1>8 DEF Wrote, Size
<1>10. y[k].of = v["count"]
  <2>1. k \in 1 .. k /\ 1 \in 1 .. 1
    OBVIOUS
  <2>2. k \in 1 .. Len(l) /\ l[k].w = 1 /\ l[k].name = "count"
    BY <1>6, <2>1
  <2>3. y[Start(l, k) + 1] = Octet(l, v, k, 1)
    BY <1>8, <2>1, <2>2 DEF Wrote
  <2>4. (k - 1) + 1 = k
    OBVIOUS
  <2>5. y[k] = Octet(l, v, k, 1)
    BY <1>7, <2>3, <2>4
  <2> QED
    BY <2>2, <2>5 DEF Octet
<1>11. Counted(l, y, Listed(t, k) \cup Names(b), k + j, k, v["count"])
  BY <1>1, <1>3, <1>5, <1>9, <1>10 DEF Counted
<1> QED
  BY <1>11 DEF y, l, b, j

LEMMA ConstellationArrives ==
  ASSUME NEW n \in Points
  PROVE  /\ Constellation(n) = Real(Names(EncodeConstellation(n)), n)
         /\ Names(EncodeConstellation(n)) = {"modcod", "count"} \cup Names(Spots(n))
<1> DEFINE t == <<"modcod", "count">>
           l == EncodeConstellation(n)
           v == Real(Names(l), n)
           y == Write(l, v)
<1>1. Tuple(t, 2) /\ t[2] = "count" /\ Listed(t, 2) = {"modcod", "count"}
  BY DEF Tuple, Listed
<1>2. l = U8(t) \o Spots(n)
  BY DEF EncodeConstellation
<1> HIDE DEF t, l, v
<1>3. /\ Ready(l) /\ Names(l) = Listed(t, 2) \cup Names(Spots(n))
      /\ Len(y) = 2 + 2 * n /\ y[2].of = v["count"]
  <2>1. Counted(l, y, Listed(t, 2) \cup Names(Spots(n)), 2 + 2 * n, 2, v["count"])
    <3>1. 2 \in {2, 3}
      OBVIOUS
    <3> QED
      BY <1>1, <1>2, <3>1, CountByte
  <2> QED
    BY <2>1 DEF Counted
<1>4. v["count"].n = n
  <2>1. "count" \in Names(l)
    BY <1>1, <1>3
  <2> QED
    BY <2>1 DEF v, Real
<1>5. Read(l, y) = v
  BY <1>3, Ends DEF v
<1> HIDE DEF y
<1>6. DecodeConstellation(y) = Read(l, y)
  <2>1. ~(Len(y) < 2) /\ y[2].of.n = n
    BY <1>3, <1>4, SpotsLayout
  <2>2. DecodeConstellation(y) = Read(U8(t) \o Spots(n), y)
    BY <2>1 DEF DecodeConstellation, t
  <2> QED
    BY <1>2, <2>2
<1>7. Constellation(n) = DecodeConstellation(y)
  BY DEF Constellation, y, v, l
<1> QED
  BY <1>1, <1>3, <1>5, <1>6, <1>7 DEF v, l

LEMMA ConstellationRight ==
  ASSUME NEW n \in Points
  PROVE  /\ Right(DecodeConstellationHk(HousekeepingData("constellation", n)), n)
         /\ Right(decode_constellation(HousekeepingData("constellation", n)), n)
         /\ Right(ConstellationHk(HousekeepingData("constellation", n)), n)
<1> DEFINE t == <<"sid", "modcod", "count">>
           l == U8(t) \o Spots(n)
           sid == Real({"sid"}, 0)
           C == Names(EncodeConstellation(n))
           v == Also(Real(C, n), sid)
           y == Write(l, v)
<1>1. Tuple(t, 3) /\ t[3] = "count" /\ Listed(t, 3) = {"sid", "modcod", "count"}
  BY DEF Tuple, Listed
<1>2. HousekeepingData("constellation", n) = y
  BY ConstellationArrives DEF HousekeepingData
<1>3. /\ C = {"modcod", "count"} \cup Names(Spots(n))
      /\ Names(Spots(n)) \subseteq {"i1", "q1", "i2", "q2"} /\ n \in Nat
  BY ConstellationArrives, SpotsLayout
<1>4. DOMAIN sid = {"sid"} /\ DOMAIN Real(C, n) = C
  BY DEF Real
<1>5. Really(sid, {"sid"}, n) /\ Really(Real(C, n), C, n)
  <2>1. Really(sid, {"sid"}, 0) /\ "count" \notin {"sid"}
    BY RealIsReal
  <2> HIDE DEF sid, C
  <2> QED
    BY <2>1, NoCount, RealIsReal
<1> HIDE DEF t, l, v, C, sid
<1>6. l = U8(t) \o Spots(n)
  BY DEF l
<1>7. /\ Ready(l) /\ Names(l) = Listed(t, 3) \cup Names(Spots(n))
      /\ Len(y) = 3 + 2 * n /\ y[3].of = v["count"]
  <2>1. Counted(l, y, Listed(t, 3) \cup Names(Spots(n)), 3 + 2 * n, 3, v["count"])
    <3>1. 3 \in {2, 3}
      OBVIOUS
    <3> QED
      BY <1>1, <1>6, <3>1, CountByte
  <2> QED
    BY <2>1 DEF Counted
<1>8. Really(v, Names(l), n)
  <2>1. Names(l) \subseteq DOMAIN Real(C, n) \cup DOMAIN sid
    BY <1>1, <1>3, <1>4, <1>7
  <2>2. Really(Real(C, n), Names(l) \cap DOMAIN Real(C, n), n)
    BY <1>4, <1>5 DEF Really
  <2>3. Really(sid, Names(l) \ DOMAIN Real(C, n), n)
    BY <1>4, <1>5, <2>1 DEF Really
  <2> QED
    BY <2>1, <2>2, <2>3, AlsoReally DEF v
<1>9. v["count"].n = n
  <2>1. "count" \in Names(l)
    BY <1>1, <1>7
  <2>2. v["count"] = [name |-> "count", n |-> IF "count" = "count" THEN n ELSE 0]
    BY <1>8, <2>1 DEF Really
  <2> QED
    BY <2>2
<1>10. "unknown" \notin Names(l)
  BY <1>1, <1>3, <1>7
<1>11. Right(Read(l, y), n)
  BY <1>7, <1>8, <1>10, ShowsReal DEF y
<1> HIDE DEF y
<1>12. ~(Len(y) < 3) /\ Len(y) = 3 + 2 * y[3].of.n /\ y[3].of.n = n
  BY <1>3, <1>7, <1>9
<1>13. DecodeConstellationHk(y) = Read(l, y)
  BY <1>12 DEF DecodeConstellationHk, l, t
<1>14. decode_constellation(y) = Read(l, y)
  BY <1>12 DEF decode_constellation, l, t
<1>15. ConstellationHk(y) = Read(l, y)
  BY <1>12 DEF ConstellationHk, l, t
<1> QED
  BY <1>2, <1>11, <1>13, <1>14, <1>15

LEMMA ShownMeasured ==
  ASSUME NEW g \in Stations, NEW s \in Structures, NEW n \in Points
  PROVE  Shown[g][s][n] = Measured[g][s][n]
<1> DEFINE y == HousekeepingData(s, n)
           x == Shown[g][s][n]
<1>1. /\ g = "gs" => x = Interpret(s, y)
      /\ g = "cli" => x = interpret_rs(s, y)
      /\ g = "python" => x = interpret_py(s, y)
  BY DEF Shown
<1>2. /\ DecodeModemHk = ModemData /\ decode_modem = ModemData /\ ModemHk = ModemData
      /\ DecodeLinkHk = LinkData /\ decode_link = LinkData /\ LinkHk = LinkData
      /\ DecodePlatformHk = PlatformData /\ decode_platform = PlatformData
      /\ PlatformHk = PlatformData
  BY Zenon DEF DecodeModemHk, ModemData, decode_modem, ModemHk, DecodeLinkHk, LinkData,
               decode_link, LinkHk, DecodePlatformHk, PlatformData, decode_platform, PlatformHk
<1>3. Measured[g][s][n] = Real(DOMAIN x \ {"unknown"}, n)
  BY DEF Measured
<1>4. Right(Interpret(s, y), n) /\ Right(interpret_rs(s, y), n) /\ Right(interpret_py(s, y), n)
  <2>1. CASE s = "modem"
    <3>1. /\ Interpret(s, y) = Read(ModemData, y) /\ interpret_rs(s, y) = Read(ModemData, y)
          /\ interpret_py(s, y) = Read(ModemData, y)
      BY <1>2, <2>1 DEF Interpret, interpret_rs, interpret_py
    <3>2. Right(Read(ModemData, y), n)
      BY <2>1, ModemRight
    <3> QED
      BY <3>1, <3>2
  <2>2. CASE s = "link"
    <3>1. /\ Interpret(s, y) = Read(LinkData, y) /\ interpret_rs(s, y) = Read(LinkData, y)
          /\ interpret_py(s, y) = Read(LinkData, y)
      BY <1>2, <2>2 DEF Interpret, interpret_rs, interpret_py
    <3>2. Right(Read(LinkData, y), n)
      BY <2>2, LinkRight
    <3> QED
      BY <3>1, <3>2
  <2>3. CASE s = "platform"
    <3>1. /\ Interpret(s, y) = Read(PlatformData, y)
          /\ interpret_rs(s, y) = Read(PlatformData, y)
          /\ interpret_py(s, y) = Read(PlatformData, y)
      BY <1>2, <2>3 DEF Interpret, interpret_rs, interpret_py
    <3>2. Right(Read(PlatformData, y), n)
      BY <2>3, PlatformRight
    <3> QED
      BY <3>1, <3>2
  <2>4. CASE s = "constellation"
    <3>1. /\ Interpret(s, y) = DecodeConstellationHk(y)
          /\ interpret_rs(s, y) = decode_constellation(y)
          /\ interpret_py(s, y) = ConstellationHk(y)
      BY <2>4 DEF Interpret, interpret_rs, interpret_py
    <3>2. /\ Right(DecodeConstellationHk(y), n) /\ Right(decode_constellation(y), n)
          /\ Right(ConstellationHk(y), n)
      BY <2>4, ConstellationRight
    <3> QED
      BY <3>1, <3>2
  <2> QED
    BY <2>1, <2>2, <2>3, <2>4 DEF Structures
<1> HIDE DEF x, y
<1>5. Right(x, n)
  BY <1>1, <1>4 DEF Stations
<1>6. Measured[g][s][n] = x
  BY <1>3, <1>5 DEF Right
<1> QED
  BY <1>6 DEF x

-----------------------------------------------------------------------------
(* Nothing is read as something else, and a request that is handled was    *)
(* built by a station.                                                     *)
NothingWrong == wrong = {} /\ \A d \in up : d.ok => d.from \in Stations

LEMMA NothingMisread ==
  ASSUME NEW s \in Stations, NEW r
  PROVE  Misread(s, r) = {}
BY ShownMeasured DEF Misread

LEMMA NothingMisunderstood ==
  ASSUME NEW d, d.ok => d.from \in Stations
  PROVE  Misunderstood(d) = {}
<1>1. CASE d.ok /\ d.kind = "function"
  <2>1. {g \in Requests(d.from) : Accepted[d.from][g] # Asked[d.from][g]} = {}
    BY <1>1, AskedAccepted
  <2> QED
    BY <2>1 DEF Misunderstood
<1>2. CASE ~(d.ok /\ d.kind = "function")
  BY <1>2 DEF Misunderstood
<1> QED
  BY <1>1, <1>2

LEMMA NothingWrongInductive ==
  /\ GroundInit => NothingWrong
  /\ NothingWrong /\ [GroundNext]_groundVars => NothingWrong'
<1>1. GroundInit => NothingWrong
  BY DEF GroundInit, NothingWrong
<1>2. ASSUME NothingWrong, [GroundNext]_groundVars PROVE NothingWrong'
  <2>1. ASSUME NEW s \in Stations, NEW n, NEW k, up' = up \cup {Datagram(s, n, k)}, wrong' = wrong
        PROVE  NothingWrong'
    BY <1>2, <2>1 DEF NothingWrong, Datagram
  <2>2. ASSUME up' \subseteq up, wrong' = wrong PROVE NothingWrong'
    BY <1>2, <2>2 DEF NothingWrong
  <2>3. "gs" \in Stations /\ "cli" \in Stations /\ Clients \subseteq Stations
    BY DEF Stations, Clients
  <2>4. ASSUME NEW k, WindowSend(k) PROVE NothingWrong'
    <3>1. wrong' = wrong /\ \E n \in Numbers("gs") : up' = up \cup {Datagram("gs", n, k)}
      BY <2>4 DEF WindowSend, Sends
    <3> QED
      BY <2>1, <2>3, <3>1
  <2>5. ASSUME NEW c \in Clients, NEW k, ClientSend(c, k) PROVE NothingWrong'
    <3>1. wrong' = wrong /\ \E n \in Numbers(c) : up' = up \cup {Datagram(c, n, k)}
      BY <2>5 DEF ClientSend, Sends
    <3> QED
      BY <2>1, <2>3, <3>1
  <2>6. CASE Watch
    <3>1. wrong' = wrong /\ \E n \in Numbers("cli") : up' = up \cup {Datagram("cli", n, "ping")}
      BY <2>6 DEF Watch, Sends
    <3> QED
      BY <2>1, <2>3, <3>1
  <2>7. ASSUME NEW n, Stray(n) PROVE NothingWrong'
    BY <1>2, <2>7 DEF NothingWrong, Stray, history
  <2>8. ASSUME NEW d \in up, HandleTc(d) PROVE NothingWrong'
    <3>1. up' \subseteq up /\ wrong' = wrong \cup Misunderstood(d)
      BY <2>8 DEF HandleTc
    <3>2. Misunderstood(d) = {}
      BY <1>2, <2>8, NothingMisunderstood DEF NothingWrong
    <3> QED
      BY <2>2, <3>1, <3>2
  <2>9. CASE OnReadyRead
    <3>1. wrong' = wrong \cup Misread("gs", Head(down["gs"])) /\ up' = up
      BY <2>9 DEF OnReadyRead
    <3> QED
      BY <2>2, <2>3, <3>1, NothingMisread
  <2>10. ASSUME NEW c \in Clients, ReceiveReport(c) PROVE NothingWrong'
    <3>1. wrong' = wrong \cup Misread(c, Head(down[c])) /\ up' = up
      BY <2>10 DEF ReceiveReport
    <3> QED
      BY <2>2, <2>3, <3>1, NothingMisread
  <2>11. ASSUME NEW k, SendFails(k) PROVE NothingWrong'
    BY <2>2, <2>11 DEF SendFails
  <2>12. CASE EndWatch \/ UpdateHousekeeping \/ OnPacket \/ NoListener
    BY <2>2, <2>12 DEF EndWatch, UpdateHousekeeping, OnPacket, NoListener, history
  <2>13. CASE LoseDatagram
    <3>1. up' \subseteq up /\ wrong' = wrong
      BY <2>13 DEF LoseDatagram, history
    <3> QED
      BY <2>2, <3>1
  <2>14. ASSUME NEW s, Overtake(s) PROVE NothingWrong'
    BY <2>2, <2>14 DEF Overtake, history
  <2>15. ASSUME NEW c, Timeout(c) PROVE NothingWrong'
    BY <2>2, <2>15 DEF Timeout
  <2>16. CASE UNCHANGED groundVars
    BY <2>2, <2>16 DEF groundVars
  <2> QED
    BY <1>2, <2>4, <2>5, <2>6, <2>7, <2>8, <2>9, <2>10, <2>11, <2>12, <2>13, <2>14, <2>15,
       <2>16 DEF GroundNext
<1> QED
  BY <1>1, <1>2

(* In every state of any instance no number was read as another: those of  *)
(* the four structures of housekeeping data at the three stations and the  *)
(* arguments of their requests at the manager; nor are those of messages,  *)
(* packets, reports and bus frames, and the decoders of the three          *)
(* languages accept the same packets.                                      *)
THEOREM NumbersArriveAlways == GroundSpec => []NumbersArrive
<1>1. NothingWrong => NumbersArrive
  BY CarriedAlways, ChangeAlways, RequestsAlways, PacketsAlways, ReportsAlways, BusAlways
     DEF NothingWrong, NumbersArrive
<1> QED
  BY <1>1, NothingWrongInductive, PTL DEF GroundSpec
=============================================================================
