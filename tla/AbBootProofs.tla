---------------------------- MODULE AbBootProofs ----------------------------
(***************************************************************************)
(* The safety of the A/B boot for every boot limit and any number of power *)
(* cuts and installations.  One lemma per group of actions says that it    *)
(* keeps IndInv; its parts hang together: the fallback is intact because   *)
(* the confirmed slot was, and tries are bounded because the counter is    *)
(* saved before the boot it counts.                                        *)
(***************************************************************************)
EXTENDS AbBoot, TLAPS

(* The other slot, of two. *)
LEMMA Other ==
  /\ OtherSlot("a") = "b" /\ OtherSlot("b") = "a"
  /\ \A s \in Slots : /\ OtherSlot(s) \in Slots /\ OtherSlot(s) # s
                      /\ OtherSlot(OtherSlot(s)) = s
BY DEF OtherSlot, Slots

(* The environment is a record of four fields, whoever wrote it. *)
LEMMA Env ==
  ASSUME TypeOK
  PROVE  /\ env.boot_slot \in Slots /\ env.bootcount \in Nat
         /\ env.upgrade_available \in BOOLEAN /\ env.rollback \in BOOLEAN
         /\ env.rollback => env.upgrade_available
         /\ State \in {"normal", "trial", "rolled-back"}
         /\ (State = "normal") = ~env.upgrade_available
         /\ (State = "rolled-back") = env.rollback
BY DEF TypeOK, State

LEMMA InitInd == Init => IndInv
<1> SUFFICES ASSUME Init PROVE IndInv
  OBVIOUS
<1>0. gambled \in BOOLEAN /\ vouched \in BOOLEAN
  BY DEF Init
<1>1. TypeOK
  BY <1>0, BootAssumption DEF Init, TypeOK, Slots, Images, Idle
<1>2. State = "normal" /\ update.at = "idle" /\ ~Up
  BY DEF Init, State, Idle, Up
<1>3. ConfirmedBoots /\ PredictionHolds
  BY <1>2 DEF Init, ConfirmedBoots, Trusted, PredictionHolds, Slots, Up
<1>4. Predicting
  BY <1>2 DEF Init, Predicting, PredictNextBoot
<1>5. TriesBounded /\ Counting
  BY <1>2, BootAssumption DEF Init, TriesBounded, Counting
<1>6. FallbackKept /\ Where /\ Installing
  BY <1>2 DEF FallbackKept, Trusted, Where, Installing, Inactive
<1> QED
  BY <1>1, <1>3, <1>4, <1>5, <1>6 DEF IndInv

-----------------------------------------------------------------------------
(* A reset that leaves the disk as it is, for whatever reason. *)
LEMMA ResetInd ==
  ASSUME IndInv, Reset, UNCHANGED <<disk, updates, tries, gambled, vouched>>,
         cuts' \in 0 .. MaxCuts
  PROVE  IndInv'
<1>1. /\ phase' = "reset" /\ service' = "timer" /\ update' = Idle
      /\ predicted' = PredictNextBoot
      /\ env' = env /\ content' = content /\ running' = running
      /\ updates' = updates /\ tries' = tries
      /\ gambled' = gambled /\ vouched' = vouched
  BY DEF Reset, disk
<1>2. State' = State /\ PredictNextBoot' = PredictNextBoot
  BY <1>1 DEF State, PredictNextBoot
<1>3. PredictNextBoot \in Slots \cup {"golden"}
  BY Env, Other DEF IndInv, PredictNextBoot
<1>4. TypeOK'
  BY <1>1, <1>3 DEF IndInv, TypeOK, Idle, Images
<1>5. ~Up' /\ ~(update'.at # "idle")
  BY <1>1 DEF Up, Idle
<1>6. ConfirmedBoots' /\ PredictionHolds'
  BY <1>1, <1>2, <1>5 DEF IndInv, ConfirmedBoots, Trusted, PredictionHolds
<1>7. Predicting'
  BY <1>1, <1>2 DEF Predicting
<1>8. TriesBounded' /\ Counting'
  BY <1>1, <1>2 DEF IndInv, TriesBounded, Counting
<1>9. FallbackKept' /\ Where' /\ Installing'
  BY <1>1, <1>2, <1>5 DEF IndInv, FallbackKept, Trusted, Where, Installing, Inactive
<1> QED
  BY <1>4, <1>6, <1>7, <1>8, <1>9 DEF IndInv

LEMMA BootCountInd ==
  ASSUME IndInv, BootCount
  PROVE  IndInv'
<1> DEFINE new == IF env.upgrade_available
                  THEN [env EXCEPT !.bootcount = @ + 1] ELSE env
<1>1. /\ phase = "reset" /\ phase' = "select" /\ env' = new
      /\ content' = content /\ running' = running /\ service' = service
      /\ update' = update /\ cuts' = cuts /\ updates' = updates
      /\ predicted' = predicted /\ tries' = tries
      /\ gambled' = gambled /\ vouched' = vouched
  BY DEF BootCount, history
<1>2. /\ new.boot_slot = env.boot_slot
      /\ new.upgrade_available = env.upgrade_available
      /\ new.rollback = env.rollback
      /\ new.bootcount = IF env.upgrade_available
                         THEN env.bootcount + 1 ELSE env.bootcount
      /\ new \in [boot_slot : Slots, bootcount : Nat,
                  upgrade_available : BOOLEAN, rollback : BOOLEAN]
  BY DEF IndInv, TypeOK
<1> HIDE DEF new
<1>3. State' = State /\ ~Up /\ ~Up'
  BY <1>1, <1>2 DEF State, Up
<1>4. TypeOK'
  BY <1>1, <1>2 DEF IndInv, TypeOK
<1>5. ConfirmedBoots' /\ PredictionHolds'
  BY <1>1, <1>2, <1>3 DEF IndInv, ConfirmedBoots, Trusted, PredictionHolds
<1>6. Predicting'
  <2>1. predicted = PredictNextBoot
    BY <1>1 DEF IndInv, Predicting
  <2>2. /\ env.upgrade_available =>
             (OverLimit' <=> env'.bootcount > BootLimit)
        /\ ~env.upgrade_available => ~OverLimit'
    BY <1>1, <1>2 DEF OverLimit
  <2>2a. env.upgrade_available => env'.bootcount = env.bootcount + 1
    BY <1>1, <1>2
  <2>2b. (env.bootcount + 1 <= BootLimit) <=> ~(env.bootcount + 1 > BootLimit)
    BY Env, BootAssumption DEF IndInv
  <2>3. PredictNextBoot = Chosen'
    <3>1. CASE ~env.upgrade_available
      BY <3>1, <1>2, <1>1, <2>2 DEF PredictNextBoot, Chosen, State
    <3>2. CASE env.upgrade_available /\ env.rollback
      <4>1. State = "rolled-back"
        BY <3>2 DEF State
      <4> QED
        BY <3>2, <4>1, <1>2, <1>1, <2>2, <2>2a, <2>2b DEF PredictNextBoot, Chosen
    <3>3. CASE env.upgrade_available /\ ~env.rollback
      <4>1. State = "trial"
        BY <3>3 DEF State
      <4> QED
        BY <3>3, <4>1, <1>2, <1>1, <2>2, <2>2a, <2>2b DEF PredictNextBoot, Chosen
    <3> QED
      BY <3>1, <3>2, <3>3
  <2> QED
    BY <1>1, <2>1, <2>3 DEF Predicting
<1>7. TriesBounded' /\ Counting'
  BY <1>1, <1>2, <1>3, Env DEF IndInv, TypeOK, TriesBounded, Counting
<1>8. FallbackKept' /\ Where' /\ Installing'
  BY <1>1, <1>2, <1>3 DEF IndInv, FallbackKept, Trusted, Where, Installing, Inactive
<1> QED
  BY <1>4, <1>5, <1>6, <1>7, <1>8 DEF IndInv

-----------------------------------------------------------------------------
(* U-Boot boots what was predicted, or the golden image in its place. *)
LEMMA BootRuns ==
  ASSUME IndInv, phase = "select", NEW s \in Slots, s = Chosen, Boot(s),
         env' \in [boot_slot : Slots, bootcount : Nat,
                   upgrade_available : BOOLEAN, rollback : BOOLEAN],
         env'.rollback => env'.upgrade_available, tries' \in Nat,
         env'.boot_slot = s
  PROVE  TypeOK' /\ PredictionHolds' /\ Predicting'
         /\ (content[s] \in {"sound", "sick"} => running' = s)
         /\ content' = content /\ Up' /\ update' = update /\ Where'
         /\ gambled' = gambled /\ vouched' = vouched
<1>1. /\ phase' = "linux"
      /\ running' = IF content[s] \in {"sound", "sick"} THEN s ELSE "golden"
      /\ content' = content /\ service' = service /\ update' = update
      /\ cuts' = cuts /\ updates' = updates /\ predicted' = predicted
      /\ gambled' = gambled /\ vouched' = vouched
  BY DEF Boot
<1>2. predicted = s
  BY DEF IndInv, Predicting
<1> QED
  BY <1>1, <1>2 DEF IndInv, TypeOK, PredictionHolds, Predicting, Up, Where

LEMMA bootcmdInd ==
  ASSUME IndInv, bootcmd
  PROVE  IndInv'
<1> DEFINE s == env.boot_slot
<1>1. /\ phase = "select" /\ ~OverLimit /\ Boot(s) /\ env' = env
      /\ tries' = IF env.upgrade_available THEN tries + 1 ELSE 0
  BY DEF bootcmd
<1>2. s \in Slots /\ s = Chosen /\ State' = State
  BY <1>1, Env DEF IndInv, Chosen, State
<1>3. /\ TypeOK' /\ PredictionHolds' /\ Predicting'
      /\ (content[s] \in {"sound", "sick"} => running' = s)
      /\ content' = content /\ Up' /\ update' = update /\ Where'
      /\ gambled' = gambled /\ vouched' = vouched
  BY <1>1, <1>2, BootRuns DEF IndInv, TypeOK
<1>4. ConfirmedBoots'
  BY <1>1, <1>2, <1>3 DEF IndInv, ConfirmedBoots, Trusted
<1>5. TriesBounded' /\ Counting'
  <2>1. phase' = "linux"
    BY <1>3 DEF Up
  <2>2. env.upgrade_available => env.bootcount <= BootLimit
    BY <1>1, BootAssumption, Env DEF IndInv, OverLimit
  <2> QED
    BY <1>1, <1>2, <2>1, <2>2, Env, BootAssumption
    DEF IndInv, TypeOK, TriesBounded, Counting
<1>6. FallbackKept' /\ Where' /\ Installing'
  BY <1>1, <1>2, <1>3 DEF IndInv, FallbackKept, Trusted, Where, Installing, Inactive, Up
<1> QED
  BY <1>3, <1>4, <1>5, <1>6 DEF IndInv

LEMMA altbootcmdInd ==
  ASSUME IndInv, altbootcmd
  PROVE  IndInv'
<1> DEFINE s == OtherSlot(env.boot_slot)
           new == [env EXCEPT !.boot_slot = s, !.rollback = TRUE, !.bootcount = 0]
<1>1. /\ phase = "select" /\ OverLimit /\ ~env.rollback /\ Boot(s)
      /\ env' = new /\ tries' = 1
  BY DEF altbootcmd
<1>2. s \in Slots /\ s = Chosen /\ State = "trial" /\ env.upgrade_available
  BY <1>1, Env, Other DEF IndInv, Chosen, State, OverLimit
<1>3. /\ new.boot_slot = s /\ new.rollback = TRUE /\ new.bootcount = 0
      /\ new.upgrade_available = TRUE
      /\ new \in [boot_slot : Slots, bootcount : Nat,
                  upgrade_available : BOOLEAN, rollback : BOOLEAN]
  BY <1>2 DEF IndInv, TypeOK
<1> HIDE DEF new
<1>4. State' = "rolled-back"
  BY <1>1, <1>3 DEF State
<1>5. /\ TypeOK' /\ PredictionHolds' /\ Predicting'
      /\ content' = content /\ Up' /\ update' = update /\ Where'
      /\ gambled' = gambled /\ vouched' = vouched
  BY <1>1, <1>2, <1>3, BootRuns
<1>6. ConfirmedBoots'
  BY <1>4 DEF ConfirmedBoots, Trusted
<1>7. TriesBounded' /\ Counting'
  BY <1>1, <1>3, <1>4, <1>5, BootAssumption DEF TriesBounded, Counting, Up
<1>8. FallbackKept' /\ Where'
  BY <1>1, <1>2, <1>3, <1>4, <1>5 DEF IndInv, FallbackKept, Trusted
<1>9. Installing'
  BY <1>1, <1>2, <1>5 DEF IndInv, Installing, Up
<1> QED
  BY <1>5, <1>6, <1>7, <1>8, <1>9 DEF IndInv

LEMMA altbootcmdGoldenInd ==
  ASSUME IndInv, altbootcmdGolden
  PROVE  IndInv'
<1>1. /\ phase = "select" /\ OverLimit /\ env.rollback
      /\ phase' = "linux" /\ running' = "golden"
      /\ env' = env /\ content' = content /\ service' = service
      /\ update' = update /\ cuts' = cuts /\ updates' = updates
      /\ predicted' = predicted /\ tries' = tries
      /\ gambled' = gambled /\ vouched' = vouched
  BY DEF altbootcmdGolden, disk, history
<1>2. State = "rolled-back" /\ State' = State /\ predicted = "golden"
  BY <1>1, Env DEF IndInv, State, Predicting, Chosen
<1>3. TypeOK'
  BY <1>1 DEF IndInv, TypeOK
<1>4. ConfirmedBoots' /\ PredictionHolds' /\ Predicting'
  BY <1>1, <1>2 DEF ConfirmedBoots, Trusted, PredictionHolds, Predicting
<1>5. TriesBounded' /\ Counting'
  BY <1>1, <1>2 DEF IndInv, TriesBounded, Counting
<1>6. FallbackKept' /\ Where' /\ Installing'
  BY <1>1, <1>2 DEF IndInv, FallbackKept, Trusted, Where, Installing, Inactive, Up
<1> QED
  BY <1>3, <1>4, <1>5, <1>6 DEF IndInv

-----------------------------------------------------------------------------
(* The state of the environment after one write of it. *)
LEMMA WrittenFacts ==
  ASSUME NEW s \in Slots, NEW trial \in BOOLEAN
  PROVE  LET w == Written(s, trial) IN
         /\ w.boot_slot = s /\ w.bootcount = 0
         /\ w.upgrade_available = trial /\ w.rollback = FALSE
         /\ w \in [boot_slot : Slots, bootcount : Nat,
                   upgrade_available : BOOLEAN, rollback : BOOLEAN]
BY DEF Written

(* mark-good, by the service of a healthy system, by the operator of any.  *)
LEMMA MarkGoodInd ==
  ASSUME IndInv, Up, MarkGood, vouched' = (~Healthy \/ (running = "golden" /\ vouched)),
         service' \in {"timer", "waiting", "done"},
         UNCHANGED <<content, phase, running, update, cuts, updates, predicted>>
  PROVE  IndInv'
<1>1. /\ content' = content /\ phase' = phase /\ running' = running
      /\ update' = update /\ cuts' = cuts /\ updates' = updates
      /\ predicted' = predicted /\ phase = "linux"
  BY DEF Up
<1>2. PredictionHolds' /\ Predicting' /\ Up'
  BY <1>1 DEF IndInv, PredictionHolds, Predicting, Up
<1>3. CASE running = "golden"
  <2>1. /\ env' = env /\ tries' = tries /\ State' = State
        /\ gambled' = gambled /\ vouched' = vouched
    BY <1>3 DEF MarkGood, State, Healthy, IndInv, TypeOK
  <2>2. TypeOK'
    BY <1>1, <2>1 DEF IndInv, TypeOK
  <2>3. ConfirmedBoots' /\ TriesBounded' /\ Counting'
    BY <1>1, <2>1 DEF IndInv, ConfirmedBoots, Trusted, TriesBounded, Counting, Up
  <2>4. FallbackKept' /\ Where' /\ Installing'
    BY <1>1, <2>1 DEF IndInv, FallbackKept, Trusted, Where, Installing, Inactive, Up
  <2> QED
    BY <1>2, <2>2, <2>3, <2>4 DEF IndInv
<1>4. CASE running # "golden"
  <2>1. /\ running \in Slots /\ content[running] \in {"sound", "sick"}
        /\ vouched' = (content[running] # "sound")
    BY <1>4 DEF IndInv, TypeOK, Healthy, Where
  <2>2. env' = Written(running, FALSE) /\ tries' = 0 /\ gambled' = FALSE
    BY <1>4 DEF MarkGood
  <2>3. /\ env'.boot_slot = running /\ env'.upgrade_available = FALSE
        /\ env'.rollback = FALSE
        /\ env' \in [boot_slot : Slots, bootcount : Nat,
                     upgrade_available : BOOLEAN, rollback : BOOLEAN]
    BY <2>1, <2>2, WrittenFacts
  <2>4. State' = "normal"
    BY <2>3 DEF State
  <2>5. TypeOK'
    BY <1>1, <2>1, <2>2, <2>3 DEF IndInv, TypeOK
  <2>6. ConfirmedBoots'
    BY <1>1, <2>1, <2>3 DEF ConfirmedBoots, Trusted
  <2>6b. TriesBounded'
    BY <2>2, <2>4, BootAssumption DEF TriesBounded
  <2>6a. Counting'
    BY <2>2, <2>4 DEF Counting
  <2>7. FallbackKept' /\ Where' /\ Installing'
    BY <1>1, <1>2, <1>4, <2>1, <2>3, <2>4 DEF IndInv, FallbackKept, Trusted, Where, Installing, Inactive
  <2> QED
    BY <1>2, <2>5, <2>6, <2>6a, <2>6b, <2>7 DEF IndInv
<1> QED
  BY <1>3, <1>4

(* Steps of the service and the script that leave the disk alone. *)
LEMMA ServiceInd ==
  ASSUME IndInv, HealthTimer
  PROVE  IndInv'
<1>1. /\ env' = env /\ content' = content /\ phase' = phase /\ running' = running
      /\ update' = update /\ cuts' = cuts /\ updates' = updates
      /\ predicted' = predicted /\ tries' = tries
      /\ gambled' = gambled /\ vouched' = vouched
      /\ service' \in {"waiting", "done"} /\ phase = "linux"
  BY DEF HealthTimer, disk, history, Up
<1>2. State' = State /\ Up' = Up
  BY <1>1 DEF State, Up
<1>3. TypeOK'
  BY <1>1 DEF IndInv, TypeOK
<1>4. ConfirmedBoots' /\ PredictionHolds' /\ Predicting'
  BY <1>1, <1>2 DEF IndInv, ConfirmedBoots, Trusted, PredictionHolds, Predicting
<1>5. TriesBounded' /\ Counting'
  BY <1>1, <1>2 DEF IndInv, TriesBounded, Counting
<1>6. FallbackKept' /\ Where' /\ Installing'
  BY <1>1, <1>2 DEF IndInv, FallbackKept, Trusted, Where, Installing, Inactive
<1> QED
  BY <1>3, <1>4, <1>5, <1>6 DEF IndInv

-----------------------------------------------------------------------------
(* prepare-update, refused during a trial: the slot that is left behind is *)
(* the confirmed one. *)
LEMMA PrepareInd ==
  ASSUME IndInv, Up, PrepareUpdate, content' = content, cuts' = cuts,
         updates' = updates, running' = running,
         service' \in {"timer", "waiting", "done"},
         update' \in [at : {"idle", "writing", "written"}, image : Images],
         update' # update => update'.at = "idle", vouched' = vouched,
         \/ phase' = phase /\ predicted' = predicted
         \/ /\ State = "normal" /\ phase' = "reset" /\ update'.at = "idle"
            /\ predicted' = PredictNextBoot'
  PROVE  IndInv'
<1>1. CASE State = "normal"
  <2> DEFINE s == Inactive
  <2>1. /\ running = env.boot_slot /\ env.boot_slot \in Slots
        /\ content[env.boot_slot] \in Trusted
    BY <1>1, Env DEF IndInv, ConfirmedBoots
  <2>2. s \in Slots /\ OtherSlot(s) = env.boot_slot
    BY <2>1, Env, Other DEF IndInv, TypeOK, Inactive
  <2>3. env' = Written(s, TRUE) /\ tries' = 0 /\ gambled' = FALSE
    BY <1>1 DEF PrepareUpdate
  <2> HIDE DEF s
  <2>4. /\ env'.boot_slot = s /\ env'.upgrade_available = TRUE
        /\ env'.rollback = FALSE /\ env'.bootcount = 0
        /\ env' \in [boot_slot : Slots, bootcount : Nat,
                     upgrade_available : BOOLEAN, rollback : BOOLEAN]
    BY <2>2, <2>3, WrittenFacts
  <2>5. State' = "trial"
    BY <2>4 DEF State
  <2>6. PredictNextBoot' = s
    BY <2>4, <2>5, BootAssumption DEF PredictNextBoot
  <2>6a. /\ predicted' \in Slots \cup {"golden"}
         /\ phase' \in {"reset", "linux"}
    BY <2>2, <2>6 DEF IndInv, TypeOK, Up
  <2>7. TypeOK'
    BY <2>2, <2>3, <2>4, <2>6a DEF IndInv, TypeOK
  <2>8. ConfirmedBoots'
    BY <2>5 DEF ConfirmedBoots, Trusted
  <2>9. PredictionHolds'
    BY <1>1 DEF IndInv, PredictionHolds, Up
  <2>10. Predicting'
    BY <2>6, <2>6a DEF Predicting, Up
  <2>11. TriesBounded'
    BY <2>3, <2>5, BootAssumption DEF TriesBounded
  <2>11a. Counting'
    <3>1. tries' = 0 /\ env'.bootcount = 0 /\ phase' # "select"
      BY <2>3, <2>4, <2>6a
    <3> QED
      BY <3>1, <2>5 DEF Counting
  <2>12. FallbackKept'
    BY <2>1, <2>2, <2>4, <2>5 DEF FallbackKept, Trusted
  <2>13. Where'
    BY <2>1, <2>5 DEF IndInv, Where, Up
  <2>14. Inactive' = env'.boot_slot
    <3>1. running' = env.boot_slot /\ running' # "golden"
      BY <2>1 DEF Slots
    <3> QED
      BY <2>1, <2>2, <2>4, <3>1, Other DEF Inactive
  <2>15. Installing'
    <3>1. CASE update' = update /\ phase' = phase
      BY <2>14, <3>1 DEF IndInv, Installing, Up
    <3>2. CASE update'.at = "idle"
      BY <3>2 DEF Installing
    <3> QED
      BY <3>1, <3>2
  <2> QED
    BY <2>7, <2>8, <2>9, <2>10, <2>11, <2>11a, <2>12, <2>13, <2>15 DEF IndInv
<1>2. CASE State # "normal"
  <2>1. /\ env' = env /\ tries' = tries /\ gambled' = gambled
        /\ phase' = phase /\ predicted' = predicted
    BY <1>2 DEF PrepareUpdate
  <2>2. State' = State /\ Up' = Up
    BY <2>1 DEF State, Up
  <2>3. TypeOK'
    BY <2>1 DEF IndInv, TypeOK
  <2>4. ConfirmedBoots' /\ PredictionHolds' /\ Predicting'
    BY <1>2, <2>1, <2>2
    DEF IndInv, ConfirmedBoots, Trusted, PredictionHolds, Predicting, Up
  <2>5. TriesBounded' /\ Counting'
    BY <2>1, <2>2 DEF IndInv, TriesBounded, Counting
  <2>6. FallbackKept' /\ Where' /\ Installing'
    BY <2>1, <2>2 DEF IndInv, FallbackKept, Trusted, Where, Installing, Inactive
  <2> QED
    BY <2>3, <2>4, <2>5, <2>6 DEF IndInv
<1> QED
  BY <1>1, <1>2

(* Writing the slot that is not running touches neither the slot that is   *)
(* confirmed nor, unless the slot on trial is running, the fallback.       *)
LEMMA WriteInd ==
  ASSUME IndInv, Up, running # "golden",
         NEW image \in Images,
         content' = [content EXCEPT ![Inactive] = image],
         gambled' \in BOOLEAN, gambled => gambled',
         State = "trial" /\ Inactive # env.boot_slot => gambled',
         update' \in [at : {"idle", "writing", "written"}, image : Images],
         updates' \in 0 .. MaxUpdates,
         UNCHANGED <<env, phase, running, service, cuts, predicted, tries, vouched>>
  PROVE  IndInv'
<1>1. /\ env' = env /\ phase' = phase /\ running' = running /\ phase = "linux"
      /\ service' = service /\ cuts' = cuts /\ predicted' = predicted
      /\ tries' = tries /\ vouched' = vouched
  BY DEF Up
<1>2. State' = State /\ Up'
  BY <1>1 DEF State, Up
<1>3. /\ running \in Slots /\ Inactive = OtherSlot(running)
      /\ Inactive \in Slots /\ Inactive # running
  BY Other DEF IndInv, TypeOK, Inactive
<1>4. content' \in [Slots -> Images] /\ content'[running] = content[running]
  BY <1>3 DEF IndInv, TypeOK
<1>5. TypeOK'
  BY <1>1, <1>4 DEF IndInv, TypeOK
<1>6. ConfirmedBoots'
  BY <1>1, <1>2, <1>4 DEF IndInv, ConfirmedBoots, Trusted, Up
<1>7. PredictionHolds' /\ Predicting'
  BY <1>1, <1>3, Other DEF IndInv, PredictionHolds, Predicting, Up, Slots
<1>8. TriesBounded' /\ Counting'
  BY <1>1, <1>2 DEF IndInv, TriesBounded, Counting
<1>9. Where' /\ Installing' /\ Inactive' = Inactive
  BY <1>1, <1>2, <1>4 DEF IndInv, Where, Installing, Inactive, Up
<1>10. FallbackKept'
  <2>1. SUFFICES ASSUME ~gambled' PROVE FallbackKept'
    BY DEF FallbackKept
  <2>2. /\ State = "trial" => content[OtherSlot(env.boot_slot)] \in Trusted
        /\ State = "rolled-back" => content[env.boot_slot] \in Trusted
    BY <2>1 DEF IndInv, FallbackKept
  <2>3. CASE State = "trial"
    <3>1. env.boot_slot \in Slots /\ Inactive = env.boot_slot
      BY <2>1, <2>3, Env DEF IndInv
    <3>2. OtherSlot(env.boot_slot) = running
      BY <1>3, <3>1, Other
    <3> QED
      BY <1>1, <1>2, <1>4, <2>2, <2>3, <3>2 DEF FallbackKept, Trusted
  <2>4. CASE State = "rolled-back"
    <3>1. running = env.boot_slot
      BY <2>4 DEF IndInv, Where
    <3> QED
      BY <1>1, <1>2, <1>4, <2>2, <2>4, <3>1 DEF FallbackKept, Trusted
  <2> QED
    BY <1>2, <2>3, <2>4 DEF FallbackKept
<1> QED
  BY <1>5, <1>6, <1>7, <1>8, <1>9, <1>10 DEF IndInv

-----------------------------------------------------------------------------
LEMMA FrameInd == ASSUME IndInv, UNCHANGED vars PROVE IndInv'
<1>1. /\ env' = env /\ content' = content /\ phase' = phase /\ running' = running
      /\ service' = service /\ update' = update /\ cuts' = cuts
      /\ updates' = updates /\ predicted' = predicted /\ tries' = tries
      /\ gambled' = gambled /\ vouched' = vouched
  BY DEF vars, disk, linux, history
<1>2. State' = State /\ Up' = Up /\ Chosen' = Chosen
      /\ PredictNextBoot' = PredictNextBoot
  BY <1>1 DEF State, Up, Chosen, OverLimit, PredictNextBoot
<1>3. TypeOK'
  BY <1>1 DEF IndInv, TypeOK
<1>4. ConfirmedBoots' /\ PredictionHolds' /\ Predicting'
  BY <1>1, <1>2 DEF IndInv, ConfirmedBoots, Trusted, PredictionHolds, Predicting
<1>5. TriesBounded' /\ Counting'
  BY <1>1, <1>2 DEF IndInv, TriesBounded, Counting
<1>6. FallbackKept' /\ Where' /\ Installing'
  BY <1>1, <1>2 DEF IndInv, FallbackKept, Trusted, Where, Installing, Inactive
<1> QED
  BY <1>3, <1>4, <1>5, <1>6 DEF IndInv

LEMMA UpdateInd ==
  ASSUME IndInv, Update
  PROVE  IndInv'
<1>1. ASSUME NEW image \in Images, NEW left \in Partial, UpdateWrite(image, left)
      PROVE  IndInv'
  <2>1. left \in Images /\ updates' \in 0 .. MaxUpdates
    BY <1>1, BootAssumption DEF Partial, Images, UpdateWrite, IndInv, TypeOK
  <2>2. update' \in [at : {"idle", "writing", "written"}, image : Images]
    BY <1>1 DEF UpdateWrite
  <2> QED
    BY <1>1, <2>1, <2>2, WriteInd DEF UpdateWrite
<1>2. CASE UpdateWritten
  <2>1. update.image \in Images /\ updates' \in 0 .. MaxUpdates
    BY <1>2 DEF UpdateWritten, IndInv, TypeOK
  <2>2. update' \in [at : {"idle", "writing", "written"}, image : Images]
    BY <1>2 DEF UpdateWritten, IndInv, TypeOK, Idle, Images
  <2>3. /\ running # "golden" /\ gambled' = gambled /\ gambled \in BOOLEAN
        /\ predicted' = predicted /\ tries' = tries /\ vouched' = vouched
        /\ State = "trial" /\ Inactive # env.boot_slot => gambled'
    BY <1>2 DEF UpdateWritten, IndInv, Installing, history, TypeOK
  <2> QED
    BY <1>2, <2>1, <2>2, <2>3, WriteInd DEF UpdateWritten
<1>3. CASE UpdateSwitch
  <2>1. update' \in [at : {"idle", "writing", "written"}, image : Images]
        /\ update'.at = "idle"
    BY <1>3 DEF UpdateSwitch, Idle, Images
  <2>2. service' \in {"timer", "waiting", "done"}
    BY <1>3 DEF UpdateSwitch, IndInv, TypeOK
  <2> QED
    BY <1>3, <2>1, <2>2, PrepareInd DEF UpdateSwitch
<1>4. CASE UpdateReboot
  <2>1. update' \in [at : {"idle", "writing", "written"}, image : Images]
        /\ update'.at = "idle"
    BY <1>4 DEF UpdateReboot, Idle, Images
  <2>2. service' \in {"timer", "waiting", "done"}
    BY <1>4 DEF UpdateReboot
  <2> QED
    BY <1>4, <2>1, <2>2, PrepareInd DEF UpdateReboot
<1> QED
  BY <1>1, <1>2, <1>3, <1>4 DEF Update

LEMMA NextInd ==
  ASSUME IndInv, [Next]_vars
  PROVE  IndInv'
<1>1. CASE PowerCut
  <2>1. cuts' \in 0 .. MaxCuts
    BY <1>1, BootAssumption DEF PowerCut, IndInv, TypeOK
  <2> QED
    BY <1>1, <2>1, ResetInd DEF PowerCut
<1>2. CASE UBoot
  BY <1>2, BootCountInd, bootcmdInd, altbootcmdInd, altbootcmdGoldenInd DEF UBoot
<1>3. CASE HealthTimer
  BY <1>3, ServiceInd
<1>4. CASE Confirm
  BY <1>4, MarkGoodInd DEF Confirm
<1>5. CASE ConfirmFails \/ Hang
  <2>1. cuts' \in 0 .. MaxCuts
    BY <1>5 DEF ConfirmFails, Hang, IndInv, TypeOK
  <2> QED
    BY <1>5, <2>1, ResetInd DEF ConfirmFails, Hang
<1>6. CASE MarkGoodByHand
  <2>1. service' \in {"timer", "waiting", "done"}
    BY <1>6 DEF MarkGoodByHand, linux, IndInv, TypeOK
  <2> QED
    BY <1>6, <2>1, MarkGoodInd DEF MarkGoodByHand, linux
<1>7. CASE PrepareByHand
  <2>1. /\ service' \in {"timer", "waiting", "done"} /\ update' = update
        /\ update' \in [at : {"idle", "writing", "written"}, image : Images]
    BY <1>7 DEF PrepareByHand, linux, IndInv, TypeOK
  <2> QED
    BY <1>7, <2>1, PrepareInd DEF PrepareByHand, linux
<1>8. CASE Update
  BY <1>8, UpdateInd
<1>9. CASE UNCHANGED vars
  BY <1>9, FrameInd
<1> QED
  BY <1>1, <1>2, <1>3, <1>4, <1>5, <1>6, <1>7, <1>8, <1>9 DEF Next, Operator

(* The invariant the others are read off: what each step of the boot, of   *)
(* the installation and of the confirmation relies on.                     *)
THEOREM Inductive == Spec => []IndInv
<1>1. Init => IndInv
  BY InitInd
<1>2. IndInv /\ [Next]_vars => IndInv'
  BY NextInd
<1> QED
  BY <1>1, <1>2, PTL DEF Spec

(* The environment, the slots and the phases of the boot keep their types. *)
THEOREM TypeCorrect == Spec => []TypeOK
<1>1. IndInv => TypeOK
  BY DEF IndInv
<1> QED
  BY <1>1, Inductive, PTL

(* A confirmed system survives any installation cut off at any step: while *)
(* no trial is on, U-Boot's slot holds a healthy system, or the one that   *)
(* was said good by hand, and Linux runs from it.                          *)
THEOREM ConfirmedAlwaysBoots == Spec => []ConfirmedBoots
<1>1. IndInv => ConfirmedBoots
  BY DEF IndInv
<1> QED
  BY <1>1, Inductive, PTL

(* The slot a trial falls back to is intact for as long as the trial may   *)
(* fail, unless an installation was begun while the slot on trial ran.     *)
THEOREM FallbackAlwaysKept == Spec => []FallbackKept
<1>1. IndInv => FallbackKept
  BY DEF IndInv
<1> QED
  BY <1>1, Inductive, PTL

(* What satlink-bootctl announces as the next boot is what U-Boot does.    *)
THEOREM PredictionCorrect == Spec => []PredictionHolds
<1>1. IndInv => PredictionHolds
  BY DEF IndInv
<1> QED
  BY <1>1, Inductive, PTL

(* No slot on trial is tried more often than the boot limit allows.        *)
THEOREM TriesAlwaysBounded == Spec => []TriesBounded
<1>1. IndInv => TriesBounded
  BY DEF IndInv
<1> QED
  BY <1>1, Inductive, PTL
=============================================================================
