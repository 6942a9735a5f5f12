--------------------------- MODULE AmpDriverProofs ---------------------------
(***************************************************************************)
(* Proofs about AmpDriver, for any number of callers and readers, any      *)
(* bounds, rings of any size and any image.  Held and Watched are the      *)
(* inductive part behind the safety properties.                            *)
(***************************************************************************)
EXTENDS AmpDriver, TLAPS

(* A quotient times its divisor fits in what was divided. *)
LEMMA QuotientFits ==
  ASSUME NEW a \in Nat, NEW s \in Nat, s > 0, NEW k \in Nat, k <= a \div s
  PROVE  k * s \in Nat /\ k * s <= a
<1> DEFINE d == a \div s
           m == a % s
<1>1. d \in Nat /\ m \in Nat /\ a = s * d + m
  OBVIOUS
<1>2. k <= d
  OBVIOUS
<1> HIDE DEF d, m
<1>3. d - k \in Nat /\ s * (d - k) \in Nat
  BY <1>1, <1>2
<1>4. s * (d - k) = s * d - k * s
  BY <1>1
<1>5. k * s \in Nat /\ s * d \in Nat
  BY <1>1
<1> QED
  BY <1>1, <1>3, <1>4, <1>5

(* No image makes amp_load_elf read beyond its end or write outside the    *)
(* memory of Core 1, for every layout of the two regions below 2^32.       *)
THEOREM ImagesInside == LoadsInside
<1> USE ElfAssumption DEF U32
<1> SUFFICES ASSUME NEW size \in U32
             PROVE  /\ \A phoff, phnum \in U32 :
                         GoodHeaders(size, phoff, phnum) =>
                           ElfHeader <= size /\ phoff + phnum * HeaderSize <= size
                    /\ \A entry \in U32 : GoodEntry(entry) => entry .. entry + 3 \subseteq Firmware
                    /\ \A s \in Segments :
                         /\ Copied(s, size) => /\ Source(s) \subseteq 0 .. size - 1
                                               /\ Destination(s) \subseteq Firmware
                         /\ NoLoad(s, size) => Destination(s) \subseteq Dma
  BY DEF LoadsInside
<1>1. ASSUME NEW phoff \in U32, NEW phnum \in U32, GoodHeaders(size, phoff, phnum)
      PROVE  ElfHeader <= size /\ phoff + phnum * HeaderSize <= size
  <2>1. /\ phnum \in Nat /\ size - phoff \in Nat /\ HeaderSize \in Nat /\ HeaderSize > 0
        /\ ElfHeader <= size
    BY <1>1 DEF GoodHeaders
  <2>2. phnum <= (size - phoff) \div HeaderSize
    BY <1>1 DEF GoodHeaders
  <2>3. phnum * HeaderSize \in Nat /\ phnum * HeaderSize <= size - phoff
    BY <2>1, <2>2, QuotientFits
  <2> QED
    BY <2>1, <2>3
<1>2. ASSUME NEW entry \in U32, GoodEntry(entry)
      PROVE  entry .. entry + 3 \subseteq Firmware
  BY <1>2 DEF GoodEntry, Contains, Firmware
<1>3. ASSUME NEW s \in Segments
      PROVE  /\ Copied(s, size) => /\ Source(s) \subseteq 0 .. size - 1
                                   /\ Destination(s) \subseteq Firmware
             /\ NoLoad(s, size) => Destination(s) \subseteq Dma
  <2>1. /\ s.offset \in Nat /\ s.filesz \in Nat /\ s.memsz \in Nat /\ s.paddr \in Nat
    BY <1>3 DEF Segments
  <2> QED
    BY <2>1 DEF Copied, NoLoad, GoodSizes, Contains, Source, Destination, Firmware, Dma
<1> QED
  BY <1>1, <1>2, <1>3

-----------------------------------------------------------------------------
(* Who holds state_lock, and what a start has already done, at each place  *)
(* where another thread could come between.                                *)
Held ==
  /\ start # "none" => owner # "none"
  /\ wpc = "hold" => owner = "watchdog" /\ start = "none" /\ state \in {"FAULT", "CRASHED"}
  /\ start \in {"take", "load"} => state # "RUNNING"
  /\ start \in {"release", "wait", "giveup", "up"} => state = "BOOTING"

(* What Core 1 can be doing, seen from the driver's state. *)
Watched ==
  /\ start = "release" => rtos = "OFFLINE"
  /\ core = "reset" => rtos = "OFFLINE"
  /\ core = "boot" => rtos = "BOOTING"
  /\ start \in {"wait", "giveup"} => core \in {"reset", "boot", "run", "dead"}
  /\ start = "up" \/ state = "RUNNING" => core \in {"run", "dead"}
  /\ state = "RUNNING" /\ core = "run" /\ quiet > 0 => beat

(* TypeOK in two parts, for two kinds of prover. *)
Flags ==
  /\ pending \in BOOLEAN /\ taken \in BOOLEAN
  /\ beat \in BOOLEAN /\ bell \in BOOLEAN /\ irq \in BOOLEAN

Values ==
  /\ state \in {"OFFLINE", "BOOTING", "RUNNING", "FAULT", "CRASHED"}
  /\ owner \in Callers \cup {"watchdog", "none"}
  /\ start \in {"none", "take", "load", "release", "wait", "giveup", "up"}
  /\ boot \in 0 .. MaxBoots
  /\ caller \in [Callers -> {"idle", "start", "cancel", "stop"}]
  /\ wpc \in {"idle", "lock", "hold", "start"}
  /\ quiet \in 0 .. Stall + 1
  /\ core \in {"linux", "held", "reset", "boot", "run", "dead"}
  /\ rtos \in {"OFFLINE", "BOOTING", "RUNNING", "FAULT"}
  /\ toLinux \in Seq(0 .. MaxBoots) /\ Len(toLinux) <= Capacity
  /\ toRtos \in Seq(0 .. MaxBoots) /\ Len(toRtos) <= Capacity
  /\ reader \in [Readers -> {"idle", "ring", "wait", "asleep", "copy"}]
  /\ woken \subseteq Readers
  /\ writer \in {"idle", "ring"}

Inv == TypeOK /\ Held /\ Watched /\ OfflineHeld /\ RingsOfThisBoot

(* Every step keeps the types, *)
LEMMA ValuesStep ==
  ASSUME Values, Held, [Next]_vars
  PROVE  Values'
<1> USE DriverAssumption DEF Values, Held, control, watchdog, core1, rings, users
<1>1. CASE StartTakeCpu
  BY <1>1 DEF StartTakeCpu, Return
<1>2. CASE StartLoad
  <2>1. CASE boot < MaxBoots /\ boot' = boot + 1 /\ LayOut
    <3>1. toLinux' = <<>> /\ toRtos' = <<>> /\ <<>> \in Seq(0 .. MaxBoots) /\ Len(<<>>) = 0
      BY <2>1 DEF LayOut
    <3> QED
      BY <1>2, <2>1, <3>1 DEF StartLoad, Return
  <2>2. CASE UNCHANGED <<boot, rings>>
    BY <1>2, <2>2 DEF StartLoad, Return
  <2> QED
    BY <1>2, <2>1, <2>2 DEF StartLoad
<1>3. CASE StartRelease
  BY <1>3 DEF StartRelease, Return, amp_cpu_release
<1>4. CASE StartWait
  BY <1>4 DEF StartWait
<1>5. CASE StartGiveUp
  BY <1>5 DEF StartGiveUp, Return, amp_cpu_hold
<1>6. CASE StartUp
  BY <1>6 DEF StartUp, Return, ScheduleWatchdog
<1>7. ASSUME NEW p \in Callers, Start(p)
      PROVE  Values'
  BY <1>7 DEF Start, Startable
<1>8. ASSUME NEW p \in Callers, Stop(p)
      PROVE  Values'
  BY <1>8 DEF Stop
<1>9. ASSUME NEW p \in Callers, StopCancelled(p)
      PROVE  Values'
  BY <1>9 DEF StopCancelled
<1>10. ASSUME NEW p \in Callers, StopLocked(p)
      PROVE  Values'
  BY <1>10 DEF StopLocked, amp_cpu_hold, Wake, Waiting
<1>11. CASE Tick
  BY <1>11 DEF Tick
<1>12. CASE WatchdogRuns
  BY <1>12 DEF WatchdogRuns
<1>13. CASE WatchdogLooks
  BY <1>13 DEF WatchdogLooks, Stalled, ScheduleWatchdog
<1>14. CASE WatchdogActs
  BY <1>14 DEF WatchdogActs, amp_cpu_hold, Wake, Waiting
<1>15. CASE Boot
  BY <1>15 DEF Boot
<1>16. CASE Run
  BY <1>16 DEF Run
<1>17. CASE Beat
  BY <1>17 DEF Beat
<1>18. CASE Fault
  BY <1>18 DEF Fault
<1>19. CASE Hang
  BY <1>19 DEF Hang
<1>20. CASE Send
  BY <1>20 DEF Send
<1>21. CASE Ring
  BY <1>21 DEF Ring
<1>22. CASE Drain
  BY <1>22 DEF Drain
<1>23. CASE Irq
  BY <1>23 DEF Irq, Wake, Waiting
<1>24. ASSUME NEW r \in Readers, Read(r)
      PROVE  Values'
  BY <1>24 DEF Read, ReadStep
<1>25. ASSUME NEW r \in Readers, Poll(r)
      PROVE  Values'
  BY <1>25 DEF Poll, ReadStep
<1>26. ASSUME NEW r \in Readers, ReadRing(r)
      PROVE  Values'
  <2>1. CASE toLinux # <<>> /\ toLinux' = Tail(toLinux)
    <3>1. toLinux' \in Seq(0 .. MaxBoots) /\ Len(toLinux') <= Capacity
      BY <2>1
    <3> QED
      BY <1>26, <3>1 DEF ReadRing, ReadStep
  <2>2. CASE toLinux' = toLinux
    BY <1>26, <2>2 DEF ReadRing, ReadStep
  <2> QED
    BY <1>26, <2>1, <2>2 DEF ReadRing
<1>27. ASSUME NEW r \in Readers, ReadWait(r)
      PROVE  Values'
  BY <1>27 DEF ReadWait, ReadStep, RxReady
<1>28. ASSUME NEW r \in Readers, ReadCopy(r)
      PROVE  Values'
  BY <1>28 DEF ReadCopy, ReadStep
<1>29. ASSUME NEW r \in Readers, Interrupted(r)
      PROVE  Values'
  BY <1>29 DEF Interrupted, ReadStep
<1>30. CASE Write
  BY <1>30 DEF Write
<1>31. CASE WriteRing
  <2>1. CASE Len(toRtos) < Capacity /\ toRtos' = Append(toRtos, boot)
    <3>1. toRtos' \in Seq(0 .. MaxBoots) /\ Len(toRtos') <= Capacity
      BY <2>1
    <3> QED
      BY <1>31, <3>1 DEF WriteRing
  <2>2. CASE toRtos' = toRtos
    BY <1>31, <2>2 DEF WriteRing
  <2> QED
    BY <1>31, <2>1, <2>2 DEF WriteRing
<1>32. CASE UNCHANGED vars
  BY <1>32 DEF vars
<1> QED
  BY <1>1, <1>2, <1>3, <1>4, <1>5, <1>6, <1>7, <1>8, <1>9, <1>10, <1>11, <1>12, <1>13, <1>14, <1>15, <1>16, <1>17, <1>18, <1>19, <1>20, <1>21, <1>22, <1>23, <1>24, <1>25, <1>26, <1>27, <1>28, <1>29, <1>30, <1>31, <1>32
     DEF Next, StartLocked, state_store, Core1, Reading

(* and the truth values. *)
LEMMA FlagsStep ==
  ASSUME Flags, [Next]_vars
  PROVE  Flags'
<1> USE DriverAssumption DEF Flags, control, watchdog, core1, rings, users
<1>1. CASE StartTakeCpu
  BY <1>1 DEF StartTakeCpu, Return
<1>2. CASE StartLoad
  BY <1>2 DEF StartLoad, Return, LayOut
<1>3. CASE StartRelease
  BY <1>3 DEF StartRelease, Return, amp_cpu_release
<1>4. CASE StartWait
  BY <1>4 DEF StartWait
<1>5. CASE StartGiveUp
  BY <1>5 DEF StartGiveUp, Return, amp_cpu_hold
<1>6. CASE StartUp
  BY <1>6 DEF StartUp, Return, ScheduleWatchdog
<1>7. ASSUME NEW p \in Callers, Start(p)
      PROVE  Flags'
  BY <1>7 DEF Start, Startable
<1>8. ASSUME NEW p \in Callers, Stop(p)
      PROVE  Flags'
  BY <1>8 DEF Stop
<1>9. ASSUME NEW p \in Callers, StopCancelled(p)
      PROVE  Flags'
  BY <1>9 DEF StopCancelled
<1>10. ASSUME NEW p \in Callers, StopLocked(p)
      PROVE  Flags'
  BY <1>10 DEF StopLocked, amp_cpu_hold, Wake, Waiting
<1>11. CASE Tick
  BY <1>11 DEF Tick
<1>12. CASE WatchdogRuns
  BY <1>12 DEF WatchdogRuns
<1>13. CASE WatchdogLooks
  BY <1>13 DEF WatchdogLooks, Stalled, ScheduleWatchdog
<1>14. CASE WatchdogActs
  BY <1>14 DEF WatchdogActs, amp_cpu_hold, Wake, Waiting
<1>15. CASE Boot
  BY <1>15 DEF Boot
<1>16. CASE Run
  BY <1>16 DEF Run
<1>17. CASE Beat
  BY <1>17 DEF Beat
<1>18. CASE Fault
  BY <1>18 DEF Fault
<1>19. CASE Hang
  BY <1>19 DEF Hang
<1>20. CASE Send
  BY <1>20 DEF Send
<1>21. CASE Ring
  BY <1>21 DEF Ring
<1>22. CASE Drain
  BY <1>22 DEF Drain
<1>23. CASE Irq
  BY <1>23 DEF Irq, Wake, Waiting
<1>24. ASSUME NEW r \in Readers, Read(r)
      PROVE  Flags'
  BY <1>24 DEF Read, ReadStep
<1>25. ASSUME NEW r \in Readers, Poll(r)
      PROVE  Flags'
  BY <1>25 DEF Poll, ReadStep
<1>26. ASSUME NEW r \in Readers, ReadRing(r)
      PROVE  Flags'
  BY <1>26 DEF ReadRing, ReadStep
<1>27. ASSUME NEW r \in Readers, ReadWait(r)
      PROVE  Flags'
  BY <1>27 DEF ReadWait, ReadStep, RxReady
<1>28. ASSUME NEW r \in Readers, ReadCopy(r)
      PROVE  Flags'
  BY <1>28 DEF ReadCopy, ReadStep
<1>29. ASSUME NEW r \in Readers, Interrupted(r)
      PROVE  Flags'
  BY <1>29 DEF Interrupted, ReadStep
<1>30. CASE Write
  BY <1>30 DEF Write
<1>31. CASE WriteRing
  BY <1>31 DEF WriteRing
<1>32. CASE UNCHANGED vars
  BY <1>32 DEF vars
<1> QED
  BY <1>1, <1>2, <1>3, <1>4, <1>5, <1>6, <1>7, <1>8, <1>9, <1>10, <1>11, <1>12, <1>13, <1>14, <1>15, <1>16, <1>17, <1>18, <1>19, <1>20, <1>21, <1>22, <1>23, <1>24, <1>25, <1>26, <1>27, <1>28, <1>29, <1>30, <1>31, <1>32
     DEF Next, StartLocked, state_store, Core1, Reading

LEMMA TypeParts == TypeOK <=> Values /\ Flags
BY DEF TypeOK, Values, Flags

LEMMA TypePartsNext == TypeOK' <=> Values' /\ Flags'
BY DEF TypeOK, Values, Flags

(* state_lock is held where it must be. *)
LEMMA HeldStep ==
  ASSUME TypeOK, Held, [Next]_vars
  PROVE  Held'
<1> USE DriverAssumption DEF TypeOK, Held, control, watchdog, core1, rings, users
<1>1. CASE StartTakeCpu
  BY <1>1 DEF StartTakeCpu, Return
<1>2. CASE StartLoad
  BY <1>2 DEF StartLoad, Return, LayOut
<1>3. CASE StartRelease
  BY <1>3 DEF StartRelease, Return, amp_cpu_release
<1>4. CASE StartWait
  BY <1>4 DEF StartWait
<1>5. CASE StartGiveUp
  BY <1>5 DEF StartGiveUp, Return, amp_cpu_hold
<1>6. CASE StartUp
  BY <1>6 DEF StartUp, Return, ScheduleWatchdog
<1>7. ASSUME NEW p \in Callers, Start(p)
      PROVE  Held'
  BY <1>7 DEF Start, Startable
<1>8. ASSUME NEW p \in Callers, Stop(p)
      PROVE  Held'
  BY <1>8 DEF Stop
<1>9. ASSUME NEW p \in Callers, StopCancelled(p)
      PROVE  Held'
  BY <1>9 DEF StopCancelled
<1>10. ASSUME NEW p \in Callers, StopLocked(p)
      PROVE  Held'
  BY <1>10 DEF StopLocked, amp_cpu_hold, Wake, Waiting
<1>11. CASE Tick
  BY <1>11 DEF Tick
<1>12. CASE WatchdogRuns
  BY <1>12 DEF WatchdogRuns
<1>13. CASE WatchdogLooks
  BY <1>13 DEF WatchdogLooks, Stalled, ScheduleWatchdog
<1>14. CASE WatchdogActs
  BY <1>14 DEF WatchdogActs, amp_cpu_hold, Wake, Waiting
<1>15. CASE Boot
  BY <1>15 DEF Boot
<1>16. CASE Run
  BY <1>16 DEF Run
<1>17. CASE Beat
  BY <1>17 DEF Beat
<1>18. CASE Fault
  BY <1>18 DEF Fault
<1>19. CASE Hang
  BY <1>19 DEF Hang
<1>20. CASE Send
  BY <1>20 DEF Send
<1>21. CASE Ring
  BY <1>21 DEF Ring
<1>22. CASE Drain
  BY <1>22 DEF Drain
<1>23. CASE Irq
  BY <1>23 DEF Irq, Wake, Waiting
<1>24. ASSUME NEW r \in Readers, Read(r)
      PROVE  Held'
  BY <1>24 DEF Read, ReadStep
<1>25. ASSUME NEW r \in Readers, Poll(r)
      PROVE  Held'
  BY <1>25 DEF Poll, ReadStep
<1>26. ASSUME NEW r \in Readers, ReadRing(r)
      PROVE  Held'
  BY <1>26 DEF ReadRing, ReadStep
<1>27. ASSUME NEW r \in Readers, ReadWait(r)
      PROVE  Held'
  BY <1>27 DEF ReadWait, ReadStep, RxReady
<1>28. ASSUME NEW r \in Readers, ReadCopy(r)
      PROVE  Held'
  BY <1>28 DEF ReadCopy, ReadStep
<1>29. ASSUME NEW r \in Readers, Interrupted(r)
      PROVE  Held'
  BY <1>29 DEF Interrupted, ReadStep
<1>30. CASE Write
  BY <1>30 DEF Write
<1>31. CASE WriteRing
  BY <1>31 DEF WriteRing
<1>32. CASE UNCHANGED vars
  BY <1>32 DEF vars
<1> QED
  BY <1>1, <1>2, <1>3, <1>4, <1>5, <1>6, <1>7, <1>8, <1>9, <1>10, <1>11, <1>12, <1>13, <1>14, <1>15, <1>16, <1>17, <1>18, <1>19, <1>20, <1>21, <1>22, <1>23, <1>24, <1>25, <1>26, <1>27, <1>28, <1>29, <1>30, <1>31, <1>32
     DEF Next, StartLocked, state_store, Core1, Reading

(* Core 1 is where the driver believes it to be. *)
LEMMA WatchedStep ==
  ASSUME TypeOK, Held, Watched, OfflineHeld, [Next]_vars
  PROVE  Watched'
<1> USE DriverAssumption DEF TypeOK, Held, Watched, OfflineHeld, control, watchdog, core1, rings, users
<1>1. CASE StartTakeCpu
  BY <1>1 DEF StartTakeCpu, Return
<1>2. CASE StartLoad
  BY <1>2 DEF StartLoad, Return, LayOut
<1>3. CASE StartRelease
  BY <1>3 DEF StartRelease, Return, amp_cpu_release
<1>4. CASE StartWait
  BY <1>4 DEF StartWait
<1>5. CASE StartGiveUp
  BY <1>5 DEF StartGiveUp, Return, amp_cpu_hold
<1>6. CASE StartUp
  BY <1>6 DEF StartUp, Return, ScheduleWatchdog
<1>7. ASSUME NEW p \in Callers, Start(p)
      PROVE  Watched'
  BY <1>7 DEF Start, Startable
<1>8. ASSUME NEW p \in Callers, Stop(p)
      PROVE  Watched'
  BY <1>8 DEF Stop
<1>9. ASSUME NEW p \in Callers, StopCancelled(p)
      PROVE  Watched'
  BY <1>9 DEF StopCancelled
<1>10. ASSUME NEW p \in Callers, StopLocked(p)
      PROVE  Watched'
  BY <1>10 DEF StopLocked, amp_cpu_hold, Wake, Waiting
<1>11. CASE Tick
  BY <1>11 DEF Tick
<1>12. CASE WatchdogRuns
  BY <1>12 DEF WatchdogRuns
<1>13. CASE WatchdogLooks
  BY <1>13 DEF WatchdogLooks, Stalled, ScheduleWatchdog
<1>14. CASE WatchdogActs
  BY <1>14 DEF WatchdogActs, amp_cpu_hold, Wake, Waiting
<1>15. CASE Boot
  BY <1>15 DEF Boot
<1>16. CASE Run
  BY <1>16 DEF Run
<1>17. CASE Beat
  BY <1>17 DEF Beat
<1>18. CASE Fault
  BY <1>18 DEF Fault
<1>19. CASE Hang
  BY <1>19 DEF Hang
<1>20. CASE Send
  BY <1>20 DEF Send
<1>21. CASE Ring
  BY <1>21 DEF Ring
<1>22. CASE Drain
  BY <1>22 DEF Drain
<1>23. CASE Irq
  BY <1>23 DEF Irq, Wake, Waiting
<1>24. ASSUME NEW r \in Readers, Read(r)
      PROVE  Watched'
  BY <1>24 DEF Read, ReadStep
<1>25. ASSUME NEW r \in Readers, Poll(r)
      PROVE  Watched'
  BY <1>25 DEF Poll, ReadStep
<1>26. ASSUME NEW r \in Readers, ReadRing(r)
      PROVE  Watched'
  BY <1>26 DEF ReadRing, ReadStep
<1>27. ASSUME NEW r \in Readers, ReadWait(r)
      PROVE  Watched'
  BY <1>27 DEF ReadWait, ReadStep, RxReady
<1>28. ASSUME NEW r \in Readers, ReadCopy(r)
      PROVE  Watched'
  BY <1>28 DEF ReadCopy, ReadStep
<1>29. ASSUME NEW r \in Readers, Interrupted(r)
      PROVE  Watched'
  BY <1>29 DEF Interrupted, ReadStep
<1>30. CASE Write
  BY <1>30 DEF Write
<1>31. CASE WriteRing
  BY <1>31 DEF WriteRing
<1>32. CASE UNCHANGED vars
  BY <1>32 DEF vars
<1> QED
  BY <1>1, <1>2, <1>3, <1>4, <1>5, <1>6, <1>7, <1>8, <1>9, <1>10, <1>11, <1>12, <1>13, <1>14, <1>15, <1>16, <1>17, <1>18, <1>19, <1>20, <1>21, <1>22, <1>23, <1>24, <1>25, <1>26, <1>27, <1>28, <1>29, <1>30, <1>31, <1>32
     DEF Next, StartLocked, state_store, Core1, Reading

(* The driver holds the core it calls offline. *)
LEMMA OfflineStep ==
  ASSUME TypeOK, Held, OfflineHeld, [Next]_vars
  PROVE  OfflineHeld'
<1> USE DriverAssumption DEF TypeOK, Held, OfflineHeld, control, watchdog, core1, rings, users
<1>1. CASE StartTakeCpu
  BY <1>1 DEF StartTakeCpu, Return
<1>2. CASE StartLoad
  BY <1>2 DEF StartLoad, Return, LayOut
<1>3. CASE StartRelease
  BY <1>3 DEF StartRelease, Return, amp_cpu_release
<1>4. CASE StartWait
  BY <1>4 DEF StartWait
<1>5. CASE StartGiveUp
  BY <1>5 DEF StartGiveUp, Return, amp_cpu_hold
<1>6. CASE StartUp
  BY <1>6 DEF StartUp, Return, ScheduleWatchdog
<1>7. ASSUME NEW p \in Callers, Start(p)
      PROVE  OfflineHeld'
  BY <1>7 DEF Start, Startable
<1>8. ASSUME NEW p \in Callers, Stop(p)
      PROVE  OfflineHeld'
  BY <1>8 DEF Stop
<1>9. ASSUME NEW p \in Callers, StopCancelled(p)
      PROVE  OfflineHeld'
  BY <1>9 DEF StopCancelled
<1>10. ASSUME NEW p \in Callers, StopLocked(p)
      PROVE  OfflineHeld'
  BY <1>10 DEF StopLocked, amp_cpu_hold, Wake, Waiting
<1>11. CASE Tick
  BY <1>11 DEF Tick
<1>12. CASE WatchdogRuns
  BY <1>12 DEF WatchdogRuns
<1>13. CASE WatchdogLooks
  BY <1>13 DEF WatchdogLooks, Stalled, ScheduleWatchdog
<1>14. CASE WatchdogActs
  BY <1>14 DEF WatchdogActs, amp_cpu_hold, Wake, Waiting
<1>15. CASE Boot
  BY <1>15 DEF Boot
<1>16. CASE Run
  BY <1>16 DEF Run
<1>17. CASE Beat
  BY <1>17 DEF Beat
<1>18. CASE Fault
  BY <1>18 DEF Fault
<1>19. CASE Hang
  BY <1>19 DEF Hang
<1>20. CASE Send
  BY <1>20 DEF Send
<1>21. CASE Ring
  BY <1>21 DEF Ring
<1>22. CASE Drain
  BY <1>22 DEF Drain
<1>23. CASE Irq
  BY <1>23 DEF Irq, Wake, Waiting
<1>24. ASSUME NEW r \in Readers, Read(r)
      PROVE  OfflineHeld'
  BY <1>24 DEF Read, ReadStep
<1>25. ASSUME NEW r \in Readers, Poll(r)
      PROVE  OfflineHeld'
  BY <1>25 DEF Poll, ReadStep
<1>26. ASSUME NEW r \in Readers, ReadRing(r)
      PROVE  OfflineHeld'
  BY <1>26 DEF ReadRing, ReadStep
<1>27. ASSUME NEW r \in Readers, ReadWait(r)
      PROVE  OfflineHeld'
  BY <1>27 DEF ReadWait, ReadStep, RxReady
<1>28. ASSUME NEW r \in Readers, ReadCopy(r)
      PROVE  OfflineHeld'
  BY <1>28 DEF ReadCopy, ReadStep
<1>29. ASSUME NEW r \in Readers, Interrupted(r)
      PROVE  OfflineHeld'
  BY <1>29 DEF Interrupted, ReadStep
<1>30. CASE Write
  BY <1>30 DEF Write
<1>31. CASE WriteRing
  BY <1>31 DEF WriteRing
<1>32. CASE UNCHANGED vars
  BY <1>32 DEF vars
<1> QED
  BY <1>1, <1>2, <1>3, <1>4, <1>5, <1>6, <1>7, <1>8, <1>9, <1>10, <1>11, <1>12, <1>13, <1>14, <1>15, <1>16, <1>17, <1>18, <1>19, <1>20, <1>21, <1>22, <1>23, <1>24, <1>25, <1>26, <1>27, <1>28, <1>29, <1>30, <1>31, <1>32
     DEF Next, StartLocked, state_store, Core1, Reading

(* A boot starts with empty rings. *)
LEMMA RingsStep ==
  ASSUME TypeOK, RingsOfThisBoot, [Next]_vars
  PROVE  RingsOfThisBoot'
<1> USE DriverAssumption DEF TypeOK, RingsOfThisBoot, control, watchdog, core1, rings, users
<1>1. CASE StartTakeCpu
  BY <1>1 DEF StartTakeCpu, Return
<1>2. CASE StartLoad
  BY <1>2 DEF StartLoad, Return, LayOut
<1>3. CASE StartRelease
  BY <1>3 DEF StartRelease, Return, amp_cpu_release
<1>4. CASE StartWait
  BY <1>4 DEF StartWait
<1>5. CASE StartGiveUp
  BY <1>5 DEF StartGiveUp, Return, amp_cpu_hold
<1>6. CASE StartUp
  BY <1>6 DEF StartUp, Return, ScheduleWatchdog
<1>7. ASSUME NEW p \in Callers, Start(p)
      PROVE  RingsOfThisBoot'
  BY <1>7 DEF Start, Startable
<1>8. ASSUME NEW p \in Callers, Stop(p)
      PROVE  RingsOfThisBoot'
  BY <1>8 DEF Stop
<1>9. ASSUME NEW p \in Callers, StopCancelled(p)
      PROVE  RingsOfThisBoot'
  BY <1>9 DEF StopCancelled
<1>10. ASSUME NEW p \in Callers, StopLocked(p)
      PROVE  RingsOfThisBoot'
  BY <1>10 DEF StopLocked, amp_cpu_hold, Wake, Waiting
<1>11. CASE Tick
  BY <1>11 DEF Tick
<1>12. CASE WatchdogRuns
  BY <1>12 DEF WatchdogRuns
<1>13. CASE WatchdogLooks
  BY <1>13 DEF WatchdogLooks, Stalled, ScheduleWatchdog
<1>14. CASE WatchdogActs
  BY <1>14 DEF WatchdogActs, amp_cpu_hold, Wake, Waiting
<1>15. CASE Boot
  BY <1>15 DEF Boot
<1>16. CASE Run
  BY <1>16 DEF Run
<1>17. CASE Beat
  BY <1>17 DEF Beat
<1>18. CASE Fault
  BY <1>18 DEF Fault
<1>19. CASE Hang
  BY <1>19 DEF Hang
<1>20. CASE Send
  BY <1>20 DEF Send
<1>21. CASE Ring
  BY <1>21 DEF Ring
<1>22. CASE Drain
  BY <1>22 DEF Drain
<1>23. CASE Irq
  BY <1>23 DEF Irq, Wake, Waiting
<1>24. ASSUME NEW r \in Readers, Read(r)
      PROVE  RingsOfThisBoot'
  BY <1>24 DEF Read, ReadStep
<1>25. ASSUME NEW r \in Readers, Poll(r)
      PROVE  RingsOfThisBoot'
  BY <1>25 DEF Poll, ReadStep
<1>26. ASSUME NEW r \in Readers, ReadRing(r)
      PROVE  RingsOfThisBoot'
  <2>1. CASE toLinux # <<>> /\ toLinux' = Tail(toLinux)
    BY <1>26, <2>1 DEF ReadRing, ReadStep
  <2>2. CASE toLinux' = toLinux
    BY <1>26, <2>2 DEF ReadRing, ReadStep
  <2> QED
    BY <1>26, <2>1, <2>2 DEF ReadRing
<1>27. ASSUME NEW r \in Readers, ReadWait(r)
      PROVE  RingsOfThisBoot'
  BY <1>27 DEF ReadWait, ReadStep, RxReady
<1>28. ASSUME NEW r \in Readers, ReadCopy(r)
      PROVE  RingsOfThisBoot'
  BY <1>28 DEF ReadCopy, ReadStep
<1>29. ASSUME NEW r \in Readers, Interrupted(r)
      PROVE  RingsOfThisBoot'
  BY <1>29 DEF Interrupted, ReadStep
<1>30. CASE Write
  BY <1>30 DEF Write
<1>31. CASE WriteRing
  <2>1. CASE toRtos' = Append(toRtos, boot)
    <3>1. \A i \in 1 .. Len(toRtos') : toRtos'[i] = boot
      BY SMTT(30), <2>1
    <3> QED
      BY <1>31, <3>1 DEF WriteRing
  <2>2. CASE toRtos' = toRtos
    BY <1>31, <2>2 DEF WriteRing
  <2> QED
    BY <1>31, <2>1, <2>2 DEF WriteRing
<1>32. CASE UNCHANGED vars
  BY <1>32 DEF vars
<1> QED
  BY <1>1, <1>2, <1>3, <1>4, <1>5, <1>6, <1>7, <1>8, <1>9, <1>10, <1>11, <1>12, <1>13, <1>14, <1>15, <1>16, <1>17, <1>18, <1>19, <1>20, <1>21, <1>22, <1>23, <1>24, <1>25, <1>26, <1>27, <1>28, <1>29, <1>30, <1>31, <1>32
     DEF Next, StartLocked, state_store, Core1, Reading

THEOREM Invariant == Spec => []Inv
<1>1. Init => Inv
  <2>1. Init => Values /\ Held /\ Watched /\ OfflineHeld /\ RingsOfThisBoot
    BY DriverAssumption DEF Init, Values, Held, Watched, OfflineHeld, RingsOfThisBoot
  <2>2. Init => Flags
    BY DEF Init, Flags
  <2> QED
    BY <2>1, <2>2, TypeParts DEF Inv
<1>2. Inv /\ [Next]_vars => Inv'
  <2> SUFFICES ASSUME Inv, [Next]_vars PROVE Inv'
    OBVIOUS
  <2>1. Values' /\ Flags'
    BY TypeParts, ValuesStep, FlagsStep DEF Inv
  <2> QED
    BY <2>1, TypePartsNext, HeldStep, WatchedStep, OfflineStep, RingsStep DEF Inv
<1> QED
  BY <1>1, <1>2, PTL DEF Spec

-----------------------------------------------------------------------------
(* A core the driver calls offline is held in reset, and nothing is loaded *)
(* or laid out under a core that executes, in any interleaving of any      *)
(* number of callers with the watchdog.                                    *)
THEOREM OfflineHeldAlways == Spec => []OfflineHeld
<1>1. Inv => OfflineHeld
  BY DEF Inv
<1> QED
  BY <1>1, Invariant, PTL

(* No message outlives the boot during which it entered its ring.          *)
THEOREM RingsOfThisBootAlways == Spec => []RingsOfThisBoot
<1>1. Inv => RingsOfThisBoot
  BY DEF Inv
<1> QED
  BY <1>1, Invariant, PTL

(* Every load happens with the core held and stays inside its memory.      *)
THEOREM LoadsAreSafe == Spec => SegmentsInside
<1>1. Inv /\ [Next]_vars => [StartLoad => core = "held" /\ LoadsInside]_vars
  BY ImagesInside DEF Inv, OfflineHeld, StartLoad
<1> QED
  BY <1>1, Invariant, PTL DEF Spec, SegmentsInside

(* A firmware that beats is never declared crashed, whatever the timeout   *)
(* and however late the watchdog work runs: the time it measures starts    *)
(* again with each boot.                                                   *)
THEOREM OnlyDeadCrashes == Spec => OnlyDeadCrash
<1>1. ASSUME Inv, [Next]_vars, state' = "CRASHED", state # "CRASHED"
      PROVE  core = "dead"
  <2> USE <1>1 DEF control, watchdog, core1, rings, users
  <2>1. WatchdogLooks
    <3>1. ~StartLocked
      BY DEF StartLocked, StartTakeCpu, StartLoad, StartRelease, StartWait, StartGiveUp, StartUp
    <3>2. ASSUME NEW p \in Callers
          PROVE  ~(state_store(p) \/ StopCancelled(p) \/ StopLocked(p))
      BY DEF state_store, Start, Stop, StopCancelled, StopLocked
    <3>3. ~Core1 /\ ~Irq /\ ~Write /\ ~WriteRing /\ ~Tick /\ ~WatchdogRuns
      BY DEF Core1, Boot, Run, Beat, Fault, Hang, Send, Ring, Drain, Irq, Write, WriteRing,
             Tick, WatchdogRuns
    <3>4. ~WatchdogActs
      BY DEF WatchdogActs
    <3>5. ASSUME NEW r \in Readers
          PROVE  ~(Read(r) \/ Poll(r) \/ Reading(r) \/ Interrupted(r))
      BY DEF Read, Poll, Reading, ReadRing, ReadWait, ReadCopy, Interrupted
    <3>6. ~UNCHANGED vars
      BY DEF vars
    <3> QED
      BY <3>1, <3>2, <3>3, <3>4, <3>5, <3>6 DEF Next
  <2>2. state = "RUNNING" /\ ~beat /\ quiet > Stall
    BY <2>1 DEF WatchdogLooks, Stalled
  <2>3. quiet > 0
    BY <2>2, DriverAssumption DEF Inv, TypeOK
  <2> QED
    BY <2>2, <2>3 DEF Inv, Watched
<1>2. Inv /\ [Next]_vars => [state' = "CRASHED" /\ state # "CRASHED" => core = "dead"]_vars
  BY <1>1
<1> QED
  BY <1>2, Invariant, PTL DEF Spec, OnlyDeadCrash
=============================================================================
